----------------------------- MODULE Heartbeat -----------------------------
(***************************************************************************)
(* app/heartbeat_service.py over the sessions of Accounts: every five      *)
(* seconds run_due_cycle selects the active sessions whose time has come   *)
(* and sends one message with each of them in turn, under its lease, and   *)
(* writes down the attempt before it makes it.  A session that is locked is*)
(* skipped; between a release and the turn of a waiter who has been woken  *)
(* it is not locked, and then the heartbeat joins the line of waiters      *)
(* (SessionLease has the line itself).                                     *)
(*                                                                         *)
(* The licence is valid (Licensing has the other case).  The interval is   *)
(* not changed by a saving of the settings, so that time is three values:  *)
(* no time, a time to come, a time that has come.                          *)
(***************************************************************************)
EXTENDS Accounts

CONSTANTS MaxFaults    \* bound on cycles broken off by a statement that fails

ASSUME FaultsAssumption == MaxFaults \in Nat
ASSUME OneHeartbeat == \A h, g \in Beats : h = g

VARIABLES
    beating,    \* heartbeat_enabled, with a group
    next,       \* next_heartbeat_at of each session
    todo,       \* the sessions of the cycle under way that are still to come
    delivered,  \* the message of the attempt under way has reached Telegram
    sent,       \* history: messages of attempts since the session's time last came
    wipes,      \* history: savings since then that left the session without a time
    faults

beatVars == <<beating, next, todo, delivered, sent, wipes, faults>>
vars == <<accountVars, beatVars>>

Init ==
    /\ \E rows \in (SUBSET Sessions) \ {{}}, p \in Proxies : InitWith(rows, p)
    /\ beating \in BOOLEAN
    /\ next = [s \in Sessions |-> "none"]
    /\ todo = {} /\ delivered = FALSE
    /\ sent = [s \in Sessions |-> 0] /\ wipes = [s \in Sessions |-> 0] /\ faults = 0

Due(s) == s \in Rows /\ status[s] = "active" /\ next[s] # "later"
Free(h) == at[h] = "idle"
\* A message that is still to be delivered counts for the time before.
UnderWay(s) == ~delivered /\ \E h \in Beats : ~Free(h) /\ on[h] = s
NoneSince(s) == IF UnderWay(s) THEN -1 ELSE 0

\* An interval goes by.
TimeComes(s) ==
    /\ next[s] = "later"
    /\ next' = [next EXCEPT ![s] = "passed"]
    /\ sent' = [sent EXCEPT ![s] = NoneSince(s)] /\ wipes' = [wipes EXCEPT ![s] = 0]
    /\ UNCHANGED <<accountVars, beating, todo, delivered, faults>>

\* save_heartbeat_settings: settings and rows of all sessions at once; one that
\* is not active gets no time, and is due as soon as it is active again.
SaveSettings(on_) ==
    /\ Request
    /\ beating' = on_
    /\ next' = [s \in Sessions |-> IF on_ /\ s \in Rows /\ status[s] = "active"
                                   THEN "later" ELSE "none"]
    /\ wipes' = [s \in Sessions |-> IF on_ /\ next'[s] = "none" THEN wipes[s] + 1
                                                               ELSE wipes[s]]
    /\ UNCHANGED <<rowVars, opVars, loginVars, todo, delivered, sent, faults>>

\* run_due_cycle: the settings and the due sessions are read once.
StartCycle(h) ==
    /\ Free(h) /\ todo = {} /\ beating
    /\ \E s \in Sessions : Due(s)
    /\ todo' = {s \in Sessions : Due(s)}
    /\ UNCHANGED <<accountVars, beating, next, delivered, sent, wipes, faults>>

Turn(s) == s \in todo /\ \A r \in todo : s <= r

TakesLease(h, s) == lease' = [lease EXCEPT ![s] = h] /\ Tests(h, s)
JoinsLine(h, s) ==
    /\ at' = [at EXCEPT ![h] = "lined"] /\ on' = [on EXCEPT ![h] = s]
    /\ UNCHANGED <<lease, tested, via, overtaken>>

\* _record_attempt_started, the lease or its refusal, and the first read of the
\* row, all without an await; or a place in line behind a waiter who is woken.
AttemptUnrecorded(h, s) ==
    /\ Free(h) /\ Turn(s)
    /\ todo' = todo \ {s}
    /\ \/ lease[s] = NoOp /\ (TakesLease(h, s) \/ JoinsLine(h, s)) /\ UNCHANGED next
       \/ /\ lease[s] # NoOp \/ ~enabled[s]
          /\ next' = [next EXCEPT ![s] = "later"] /\ UNCHANGED opVars
    /\ UNCHANGED <<rowVars, loginVars, requests, beating, delivered, sent, wipes, faults>>
AttemptUntilFree(h, s) ==
    /\ Free(h) /\ Turn(s)
    /\ next' = [next EXCEPT ![s] = "later"]
    /\ \/ /\ lease[s] = NoOp /\ todo' = todo \ {s}
          /\ TakesLease(h, s) \/ JoinsLine(h, s)
       \/ lease[s] # NoOp /\ UNCHANGED <<opVars, todo>>
       \/ lease[s] = NoOp /\ ~enabled[s] /\ todo' = todo \ {s} /\ UNCHANGED opVars
    /\ UNCHANGED <<rowVars, loginVars, requests, beating, delivered, sent, wipes, faults>>
Attempt(h, s) ==
    /\ Free(h) /\ Turn(s)
    /\ todo' = todo \ {s}
    /\ next' = [next EXCEPT ![s] = "later"]
    /\ \/ lease[s] = NoOp /\ (TakesLease(h, s) \/ JoinsLine(h, s))
       \/ (lease[s] # NoOp \/ ~enabled[s]) /\ UNCHANGED opVars
    /\ UNCHANGED <<rowVars, loginVars, requests, beating, delivered, sent, wipes, faults>>

\* The attempt is recorded and acquire_session_operation fails otherwise than
\* by a busy session: the cycle is over, its other sessions wait for the next.
CycleBreaks(h, s) ==
    /\ Free(h) /\ Turn(s) /\ faults < MaxFaults
    /\ faults' = faults + 1 /\ todo' = {}
    /\ next' = [next EXCEPT ![s] = "later"]
    /\ UNCHANGED <<accountVars, beating, delivered, sent, wipes>>

\* The message reaches Telegram; its answer is still to come, or never will.
Deliver(h) ==
    /\ at[h] = "connected" /\ ~delivered
    /\ delivered' = TRUE
    /\ sent' = [sent EXCEPT ![on[h]] = @ + 1]
    /\ UNCHANGED <<accountVars, beating, next, todo, wipes, faults>>

\* _record_success or _record_failure writes the time of the attempt's cycle
\* once more: it has come only if that of the row has come too.
Record(h) ==
    /\ next' = [next EXCEPT ![on[h]] = IF @ = "none" THEN "later" ELSE @]
    /\ delivered' = FALSE
    /\ UNCHANGED <<beating, todo, sent, wipes, faults>>

\* The one in line gets the lease, and goes on as if it had had it at once.
TakesTurn(h) ==
    /\ at[h] = "lined" /\ lease[on[h]] = NoOp
    /\ \/ TakesLease(h, on[h]) /\ UNCHANGED beatVars
       \/ ~enabled[on[h]] /\ Ends(h) /\ Record(h)
    /\ UNCHANGED <<rowVars, loginVars, requests>>

\* It has the lock, and the INSERT of its row fails.
TurnBreaks(h) ==
    /\ at[h] = "lined" /\ lease[on[h]] = NoOp /\ faults < MaxFaults
    /\ faults' = faults + 1 /\ todo' = {} /\ Ends(h)
    /\ UNCHANGED <<rowVars, loginVars, requests, beating, next, delivered, sent, wipes>>

BeatFails(h) == Unreachable(h) /\ Record(h)

BeatEnds(h) ==
    /\ at[h] = "connected"
    /\ Ends(h) /\ Record(h)
    /\ UNCHANGED <<rowVars, loginVars, requests>>

BeatConnects(h) == (TestPasses(h) \/ Connects(h)) /\ UNCHANGED beatVars

\* The process dies and is started again: the rows stay.
Restart ==
    /\ RestartRows
    /\ todo' = {} /\ delivered' = FALSE
    /\ UNCHANGED <<beating, next, sent, wipes, faults>>

Beat(h) ==
    \/ StartCycle(h) \/ \E s \in Sessions : Attempt(h, s) \/ CycleBreaks(h, s)
    \/ TakesTurn(h) \/ TurnBreaks(h)
    \/ BeatConnects(h) \/ Deliver(h) \/ BeatFails(h) \/ BeatEnds(h)

Next ==
    \/ AccountStep /\ UNCHANGED beatVars
    \/ \E h \in Beats : Beat(h)
    \/ \E s \in Sessions : TimeComes(s)
    \/ \E b \in BOOLEAN : SaveSettings(b)
    \/ Restart

Spec == Init /\ [][Next]_vars

\* The loop runs and every await of an attempt has a timeout, but for its place
\* in line: the line is first come, first served, so that whoever is in it gets
\* the lease if it is given back again and again.  Nothing is asked of the other
\* operations but that one ends for whose session the heartbeat is in line.
InLine(s) == \E h \in Beats : at[h] = "lined" /\ on[h] = s
Fairness ==
    /\ \A h \in Beats : WF_vars(Beat(h)) /\ SF_vars(TakesTurn(h))
    /\ \A w \in Workers : WF_vars(InLine(on[w]) /\ Proceed(w) /\ UNCHANGED beatVars)
FairSpec == Spec /\ Fairness

-----------------------------------------------------------------------------
TypeOK ==
    /\ AccountsTypeOK
    /\ beating \in BOOLEAN /\ next \in [Sessions -> {"none", "later", "passed"}]
    /\ todo \subseteq Sessions /\ delivered \in BOOLEAN
    /\ sent \in [Sessions -> Int] /\ wipes \in [Sessions -> Nat] /\ faults \in 0 .. MaxFaults

\* Two attempts with the same session never both send a message unless an
\* interval has gone by since the first began, whatever becomes of it: a lost
\* answer, a dying program, a broken cycle, a wait in line or settings that are
\* switched off and on while the cycle is under way.  Only a saving at a time
\* when the session is not active lets one more message through, each such
\* saving one: it leaves the session without a time, and so due at once.
OneMessagePerInterval == \A s \in Sessions : sent[s] <= 1 + wipes[s]

\* A session whose time has come gets its turn, or is skipped for an interval
\* because it is busy: no cycle, no other session, no failure and no operation
\* that never ends keeps it waiting for ever, unless the heartbeat stands in line
\* behind that operation.
Waiting(s) == beating /\ Due(s)
EveryoneBeats == \A s \in Sessions : Waiting(s) ~> ~Waiting(s)
=============================================================================
