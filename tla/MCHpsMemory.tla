----------------------------- MODULE MCHpsMemory ------------------------------
EXTENDS HpsMemory
=============================================================================
