CONSTANT MaxStarts = 3
CONSTANT MaxTurns = 4
CONSTANT CtrlRanges <- MCCtrlRanges
CONSTANT DevRange <- MCDevRange
CONSTANT Headers <- MCHeaders
CONSTANT Lens <- MCLens
CONSTANT Values <- MCValues
CONSTANT Table <- MCTable
SPECIFICATION Spec
INVARIANTS ToldOnce Accepted NoBlindLink FramesUnderstood
PROPERTIES AnsweredWhenCalm AbandonedToldKo
CHECK_DEADLOCK FALSE
