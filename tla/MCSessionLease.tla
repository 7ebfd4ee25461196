--------------------------- MODULE MCSessionLease ---------------------------
(* Three tasks, one of them a wait=False caller, and two sessions.         *)
EXTENDS SessionLease, TLC
=============================================================================
