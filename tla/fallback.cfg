SPECIFICATION FairSpec
CONSTANTS
    Requests = {r1, r2, r3}
    Last = 2
    Small = {1}
    Threshold = 2
    Cooldown = 1
    MaxTime = 2
CHECK_DEADLOCK FALSE
INVARIANTS BannedForCause
PROPERTIES ChainPromise
CONSTRAINT Explored
