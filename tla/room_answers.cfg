CONSTANTS
    Calls = {c1}
    Room = room
    MaxSessions = 1
    MaxFaults = 0
SPECIFICATION SigSpec
INVARIANT RoomAnswersAgain
CHECK_DEADLOCK FALSE
