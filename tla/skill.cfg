SPECIFICATION MCSpec
CONSTANTS
    Setups <- MCSetups
    Calls = {c1, c2}
    Crashes = {e1}
    MaxBatch = 2
    MaxTurns = 3
    MaxRetries = 2
    MaxSteps = 2
    MaxOverflow = 2
    NudgeSame = 2
    AbortSame = 3
    NudgeSilent = 1
    AbortSilent = 2
    AbortCrash = 2
    InvokeRetries = 2
    MaxFaults = 1
    MaxDirectives = 1
    SkillNames = {s1, s2}
    Credentials = {k1, k2}
    MaxTime = 3
    MaxVersion = 2
    MaxTrouble = 1
INVARIANTS ResultsReachModel EffectsAccountedFor CredentialsKept
PROPERTIES InstructionsCurrent
CONSTRAINT Explored
SYMMETRY CallSymmetry
CHECK_DEADLOCK FALSE
