--------------------------- MODULE MCManagedProcess ---------------------------
EXTENDS ManagedProcess
=============================================================================
