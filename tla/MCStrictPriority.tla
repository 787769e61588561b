--------------------------- MODULE MCStrictPriority ---------------------------
EXTENDS StrictPriority
=============================================================================
