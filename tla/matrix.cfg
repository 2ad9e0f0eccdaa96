SPECIFICATION MCSpec
CONSTANTS
    Messages = {m1, m2}
    None = None
    MaxCalls = 1
    MaxStops = 1
    MaxReloads = 1
    Calls = {c1}
    Room = room
    MaxSessions = 2
    MaxFaults = 1
INVARIANTS StopIsExact FilesStayInThread LockServes ReachableByHangup NothingLeftBehind
PROPERTIES ChatPromise BrokenCallEnds
CHECK_DEADLOCK FALSE
CONSTRAINT Explored
