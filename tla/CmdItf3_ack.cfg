CONSTANTS
    Info <- AckOnly
    Sizes = {1, 4}
    PackMax = 3
    SeqSize = 4
    Window = 1
    MaxCmds = 3
    MaxFlight = 2
    RefuseUntil = 0
SPECIFICATION LinkSpec
INVARIANT Accounted
PROPERTIES ImplementsChannel EventuallyDone
