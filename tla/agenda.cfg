SPECIFICATION MCSpec
CONSTANTS
    Items = {a, b}
    Heading = heading
    MaxTime = 2
    MaxEdits = 4
    MaxCrashes = 1
    Jobs = {i, d}
    Daily = {d}
    DayLength = 3
    Target = 0
    Interval = 2
    Recent = 2
    JobTime = 3
    JobEdits = 2
    JobCrashes = 1
    Users = {u1, u2}
    Tasks = {1, 2}
    MaxMessages = 1
    MaxStops = 1
CHECK_DEADLOCK FALSE
INVARIANTS AnnouncedOnce JobsNotRepeated TaskAccountedFor
PROPERTIES DueIsAnnounced DueJobRuns QueuedTaskSettles
CONSTRAINT Explored
