--------------------------- MODULE MCJobLifecycle ---------------------------
EXTENDS JobLifecycle, TLC
=============================================================================
