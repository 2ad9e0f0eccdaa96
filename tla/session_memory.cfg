SPECIFICATION FairSpec
CONSTANTS
    Turns = {t1, t2}
    Main = main
    Threads = {h1}
    Marker = marker
    Note = note
    MaxDay = 2
    KeepRecent = 1
    SoftAt = 2
    ForceAt = 2
    KeepMessages = 2
    ContextBudget = 2
    MaxRounds = 1
    MaxToggles = 2
    MaxNotes = 1
    MaxRestarts = 1
    MaxTools = 1
CHECK_DEADLOCK FALSE
INVARIANTS PrivateStaysInRAM SummaryCoverage ThreadReplayMatchesLog
PROPERTIES ForcedSummaryHappens
CONSTRAINT Explored
