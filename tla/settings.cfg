CONSTANTS
    Turns = {t1, t2}
    Threads = {h1}
    Kinds = {"chat", "vision"}
    Paths = {"chat", "default"}
    Keys = {"small", "big", "cloud"}
    KeyOrder <- MCKeyOrder
    Raw = {"m1", "m2", "m3", "m4"}
    ModelOf <- MCModelOf
    Local = {"small", "big"}
    Selectors <- MCSelectors
    Skills = {"config", "skill-creator", "own"}
    Bundled = {"config", "skill-creator"}
    Voices = {v1}
    None = None
    MaxEdits = 2
    MaxReloads = 1
    MaxRestarts = 1
    Posts = {p1, p2}
    Channel = channel
    NoPlace = none
    MaxOrders = 1
    MaxFiles = 1
SPECIFICATION MCSpec
CHECK_DEADLOCK FALSE
SYMMETRY PostSymmetry
INVARIANTS SettingsSurvive CachedAgentCurrent ConversationsIsolated
PROPERTIES FollowUpSees
CONSTRAINT Explored
