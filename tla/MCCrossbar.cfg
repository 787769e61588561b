SPECIFICATION Spec
CONSTANTS
    N = 3
    Voqs <- Others
    Size = 1
INVARIANTS
    Satisfiable
    NeverStarves
PROPERTIES
    PortsAreFair
    ImplementsSwitch
