SPECIFICATION Spec
CONSTANTS
    Size = 3
    MaxEnq = 2
    MaxDeq = 2
    TotalTime = 5
INVARIANTS
    QSizeOffByLost
    CBlockedUntilLoss
    SumsAndGapsAgree
\* The encoding ends with its last time step.
CHECK_DEADLOCK FALSE
