CONSTANTS
    Info <- Device
    Sizes = {1, 4}
    PackMax = 6
    SeqSize = 4
    Window = 1
    MaxCmds = 3
    MaxFlight = 1
    RefuseUntil = 1
SPECIFICATION Spec
INVARIANT QueuesWatched
