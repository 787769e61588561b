SPECIFICATION TwoListSpec
CONSTANTS
    N = 3
    Size = 2
    MaxEnq = 1
INVARIANTS
    ListsMatchQueues
    PassedInList
PROPERTIES
    ImplementsServerUnlessImm
    OldIsServedInTheEnd
