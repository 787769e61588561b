---------------------------- MODULE MCLeafSpine ----------------------------
EXTENDS LeafSpine
=============================================================================
