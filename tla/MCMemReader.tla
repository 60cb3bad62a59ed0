----------------------------- MODULE MCMemReader ------------------------------
EXTENDS MemReader
=============================================================================
