SPECIFICATION Spec
CONSTANTS
    LeafCnt = 2
    SpineCnt = 2
    ServersPerLeaf = 2
    ReduceQueues = TRUE
    MaxEnq = 2
    QueueSize = 2
    VoqSize = 1
    Senders = {1, 2}
    InFlight = 3
INVARIANTS
    AssertedBounds
    ForwardedOnce
    Conserved
PROPERTIES
    Drains
