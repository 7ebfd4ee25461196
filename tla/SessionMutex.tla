---------------------------- MODULE SessionMutex ----------------------------
(***************************************************************************)
(* What app/session_operation.py promises to every Telegram operation:     *)
(* a session has at most one owner, an owner keeps the session until it    *)
(* gives it back itself, and only a restart takes every session away at    *)
(* once.  SessionLease implements this specification with an asyncio.Lock  *)
(* and a database row per session.                                         *)
(***************************************************************************)
CONSTANTS Tasks,      \* the coroutines that operate on Telegram sessions
          Sessions,   \* ids of telegram_sessions rows
          NoTask      \* no owner

VARIABLE owner        \* the task that may use the session now

Init == owner = [s \in Sessions |-> NoTask]

Grant(t, s) ==
    /\ owner[s] = NoTask
    /\ \A r \in Sessions : owner[r] # t
    /\ owner' = [owner EXCEPT ![s] = t]

GiveBack(s) ==
    /\ owner[s] # NoTask
    /\ owner' = [owner EXCEPT ![s] = NoTask]

Restart == owner' = [s \in Sessions |-> NoTask]

Next ==
    \/ \E t \in Tasks, s \in Sessions : Grant(t, s)
    \/ \E s \in Sessions : GiveBack(s)
    \/ Restart

Spec == Init /\ [][Next]_owner
=============================================================================
