CONSTANTS
    c1 = c1
    c2 = c2
    Ctrls = {c1, c2}
    Versions <- MCVersions
    DevVersions <- MCDevVersions
    MaxConn <- MCMaxConn
    MaxAttempts <- MCMaxAttempts
SPECIFICATION FairSpec
INVARIANT ToldOnce
PROPERTIES PendingKept ConnectedTogether AnsweredWhenCalm
