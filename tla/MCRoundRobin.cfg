SPECIFICATION Spec
CONSTANTS
    N = 3
    Size = 2
    MaxEnq = 1
INVARIANTS
    BoundedWait
    FairShare
    Satisfiable
PROPERTY
    ImplementsServer
\* With kind "LINK" the encoding has states without a successor.
CHECK_DEADLOCK FALSE
