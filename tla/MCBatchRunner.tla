--------------------------- MODULE MCBatchRunner ---------------------------
(* One batch of each kind with two sessions to process.                    *)
EXTENDS BatchRunner
=============================================================================
