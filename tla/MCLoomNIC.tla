----------------------------- MODULE MCLoomNIC -----------------------------
EXTENDS LoomNIC

Load(t1, s2, m2) ==
    [k \in {1, 2, 3} |-> IF k = 1 THEN t1 ELSE IF k = 2 THEN s2 ELSE m2]
Both(l, m) == [c \in {0, 1} |-> IF c = 0 THEN l ELSE m]

Nothing == Load(0, 0, 0)
Burst == Load(0, 2, 2)   \* more than Tenant 2's queue takes in a step
Loads == {Both(Nothing, Nothing), Both(Burst, Nothing), Both(Load(0, 2, 0), Load(0, 1, 1)),
          Both(Load(1, 1, 0), Load(1, 0, 1)), Both(Nothing, Load(2, 0, 0))}
=============================================================================
