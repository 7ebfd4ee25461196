--------------------------- MODULE MCActivityScan ---------------------------
EXTENDS ActivityScan, TLC
=============================================================================
