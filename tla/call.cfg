SPECIFICATION MCSpec
CONSTANTS
    MaxUtterances = 3
    MaxSentences = 1
    Prebuffer = 1
    QueueSpeech = TRUE
    Followups = 1
    MaxFaults = 1
    SettleFrames = 1
    PreFrames = 1
    MinFrames = 3
    Trail = 2
    TrailMax = 4
    Growth = 3
    TrailLoud = 3
    Resume = 2
    ResumeMax = 3
    ResumeLoud = 3
    Cap = 8
    CapLoud = 5
INVARIANTS HoldHasOwner TranscriptHasTaker ChunkIsSound
PROPERTIES KeywordEndsReply SilentCallEnds GustsDoNotResume
CHECK_DEADLOCK FALSE
CONSTRAINT Explored
