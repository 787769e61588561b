----------------------------- MODULE MCTwoListRR -----------------------------
EXTENDS TwoListRR
=============================================================================
