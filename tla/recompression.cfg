SPECIFICATION Spec
CONSTANTS
    Turns = {t1, t2, t3}
    Main = main
    Threads = {}
    Marker = marker
    Note = note
    MaxDay = 1
    KeepRecent = 1
    SoftAt = 5
    ForceAt = 2
    KeepMessages = 2
    ContextBudget = 2
    MaxRounds = 1
    MaxToggles = 0
    MaxNotes = 0
    MaxRestarts = 0
    MaxTools = 1
SYMMETRY Symmetry
CHECK_DEADLOCK FALSE
PROPERTIES CompressionRemovesCondensed
