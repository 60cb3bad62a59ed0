------------------------------ MODULE MCSocBuild -----------------------------
EXTENDS SocBuild
=============================================================================
