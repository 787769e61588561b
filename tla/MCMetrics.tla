------------------------------ MODULE MCMetrics ------------------------------
EXTENDS Metrics
=============================================================================
