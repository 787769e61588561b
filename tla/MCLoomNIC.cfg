SPECIFICATION Spec
CONSTANTS
    CoreCnt = 2
    MaxEnq = 2
    Size = 3
    Arrivals <- Loads
    MaxTime = 6
INVARIANTS
    SlotsInOrder
    WorkConserving
    PacketsKept
CHECK_DEADLOCK FALSE
