------------------------------- MODULE MCQueue -------------------------------
EXTENDS Queue, TLC

Symmetry == Permutations(Pkt)
=============================================================================
