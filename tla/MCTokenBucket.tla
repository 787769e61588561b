---------------------------- MODULE MCTokenBucket ----------------------------
EXTENDS TokenBucket
=============================================================================
