----------------------------- MODULE MCUpdater -----------------------------
(* Three releases and two processes: enough for an update on top of an       *)
(* update, for one on top of what a script that was cut short has left, and  *)
(* for a second instance beside the one that is to be replaced.              *)
EXTENDS Updater
=============================================================================
