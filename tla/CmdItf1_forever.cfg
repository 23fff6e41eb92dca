CONSTANTS
    Info <- AckForever
    Kinds = {k}
    RetryKinds = {}
    SeqSize = 8
    Window = 1
    RetryCap = 1
    MaxCmds = 4
    MaxFlight = 2
    MaxReorder = 1
    RefuseUntil = 0
SPECIFICATION LinkSpec
PROPERTIES ImplementsChannel EventuallyDone
