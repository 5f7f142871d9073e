--------------------------- MODULE MCMasterCycle ---------------------------
EXTENDS MasterCycle
=============================================================================
