SPECIFICATION FairSpec
CONSTANTS
    Contents <- TwoEvents
    Titles = {t1}
    Due <- DueEarly
    Slots = {1, 2}
    Day = 4
    ServerAhead = 0
    MaxTime = 2
    MaxCommands = 2
    MaxStops = 1
INVARIANTS RepeatsExplained NothingMissed
PROPERTIES DueReminderFires
