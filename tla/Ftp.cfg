CONSTANTS
    r1 = r1
    r2 = r2
    Reqs = {r1, r2}
    Kinds <- MCKinds
    MaxConn = 2
    FileLen = 2
    MaxCalls = 1
    MaxFaults = 1
SPECIFICATION FairSpec
INVARIANTS ConnsLent CompleteOnce OkMeansDone
PROPERTY EndsUnlessFault
CHECK_DEADLOCK FALSE
