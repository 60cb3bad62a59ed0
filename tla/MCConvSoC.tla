----------------------------- MODULE MCConvSoC ------------------------------
EXTENDS ConvSoC
=============================================================================
