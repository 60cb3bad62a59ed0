------------------------------ MODULE MCPowerOn ------------------------------
EXTENDS PowerOn
=============================================================================
