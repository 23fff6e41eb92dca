CONSTANTS
    Devs <- MCDevs
    Discs <- MCDiscs
    Handles <- MCHandles
    Scenarios <- MCScenarios
    MaxRuns = 2
    MaxQueue = 1
    MaxTurns = 2
    MaxApp = 1
SPECIFICATION Spec
INVARIANTS ListSound ConnEndsFirst
PROPERTY ListsWhatPublishes
CHECK_DEADLOCK FALSE
