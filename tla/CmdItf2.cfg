CONSTANTS
    Info <- Controller
    Sizes = {1, 5}
    PackMax = 6
    SeqSize = 4
    Window = 1
    MaxCmds = 3
    MaxFlight = 1
    MaxRefused = 1
    MaxNumbers = 4
SPECIFICATION LinkSpec
INVARIANTS Accounted Delivered
PROPERTY EventuallyDone
