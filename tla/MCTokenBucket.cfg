SPECIFICATION BucketSpec
CONSTANTS
    Size = 5
    MaxEnq = 4
    MaxTokens = 3
    LinkRate = 2
    TotalTime = 6
INVARIANTS
    RateBound
    BurstBound
    OutputKept
PROPERTY
    BackloggedGetsRate
\* The encoding ends with its last time step.
CHECK_DEADLOCK FALSE
