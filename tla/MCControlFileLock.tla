------------------------- MODULE MCControlFileLock -------------------------
EXTENDS ControlFileLock
=============================================================================
