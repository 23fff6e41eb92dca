CONSTANTS
    Info <- AckAndRated
    Kinds = {k1, k2}
    RetryKinds = {k2}
    SeqSize = 4
    Window = 1
    RetryCap = 1
    MaxCmds = 3
    MaxFlight = 2
    MaxReorder = 0
    RefuseUntil = 2
SPECIFICATION TimerSpec
INVARIANTS TypeOK DoneOnce Delivered
PROPERTY EventuallyGivenUp
