SPECIFICATION PrioritySpec
CONSTANTS
    N = 3
    Size = 2
    MaxEnq = 2
    TotalTime = 5
INVARIANTS
    BlockedByHigher
    WaitBoundedByWork
PROPERTY
    ImplementsServer
\* The encoding ends with its last time step.
CHECK_DEADLOCK FALSE
