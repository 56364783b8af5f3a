---------------------------- MODULE MCFaultPath ----------------------------
EXTENDS FaultPath
=============================================================================
