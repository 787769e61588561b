----------------------------- MODULE MCCrossbar -----------------------------
EXTENDS Crossbar

\* Every port sends to every other, not to itself.
ThreePorts == 0 .. 2
Others == {v \in ThreePorts \X ThreePorts : v[1] # v[2]}
=============================================================================
