SPECIFICATION Spec
CONSTANTS
    Size = 3
    MaxEnq = 2
    MaxDeq = 2
    TotalTime = 5
    Pkt = {a, b}
    Junk = {junk}
    Null = null
SYMMETRY Symmetry
INVARIANTS
    WindowDeterminesElems
PROPERTY
    ImplementsFifo
CHECK_DEADLOCK FALSE
