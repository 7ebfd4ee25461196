------------------------- MODULE MCInviteSelection -------------------------
(***************************************************************************)
(* The selector over every combination of a representative set of rows.    *)
(* The machine lets time pass and selects again and again, as the loop of  *)
(* execute_invite_job does; the properties judge what the selector says in *)
(* each of its states against what then really happens.                    *)
(***************************************************************************)
EXTENDS InviteSelection, Sequences

CONSTANTS MaxTime,   \* bound: the last instant
          Midnight,  \* the instant the usage date changes
          Limit      \* daily_limit of the job

VARIABLES rows, now, last, excluded

vars == <<rows, now, last, excluded>>

Instants == 0..MaxTime

Healthy == [data |-> TRUE, status |-> "active", until |-> NoTime, successes |-> 1,
            count |-> 0, proxyOn |-> TRUE, proxyFailed |-> FALSE, locked |-> FALSE]

\* One row for each obstacle, and the pairs whose times have to be combined.
Kinds == {Healthy,
          [Healthy EXCEPT !.data = FALSE],
          [Healthy EXCEPT !.proxyOn = FALSE],
          [Healthy EXCEPT !.proxyFailed = TRUE],
          [Healthy EXCEPT !.locked = TRUE],
          [Healthy EXCEPT !.count = Limit],
          [Healthy EXCEPT !.status = "proxy_error"],
          [Healthy EXCEPT !.status = "flood_wait"],
          [Healthy EXCEPT !.status = "flood_wait", !.until = 1],
          [Healthy EXCEPT !.status = "flood_wait", !.until = 3],
          [Healthy EXCEPT !.status = "flood_wait", !.until = MaxTime, !.count = Limit],
          [Healthy EXCEPT !.status = "batch_wait", !.until = 2],
          [Healthy EXCEPT !.status = "batch_wait", !.until = 2, !.count = Limit],
          [Healthy EXCEPT !.status = "batch_wait", !.until = 1, !.locked = TRUE]}

Init ==
    /\ rows \in [Sessions -> Kinds]
    /\ now = 0
    /\ last = NoSession
    /\ excluded \in {{}} \cup {{s} : s \in Sessions}

\* At midnight a new usage date starts; a lock does not outlive a tick.
AtTime(t) == [s \in Sessions |->
                 [rows[s] EXCEPT !.count = IF t >= Midnight THEN 0 ELSE @,
                                 !.locked = FALSE]]
Choice == Select(rows, now, last, NoSession, excluded, Limit, Midnight)

Pick ==
    /\ Choice.session # NoSession
    /\ rows' = Choice.rows
    /\ last' = Choice.session
    /\ UNCHANGED <<now, excluded>>

Tick ==
    /\ now < MaxTime
    /\ now' = now + 1
    /\ rows' = AtTime(now + 1)
    /\ UNCHANGED <<last, excluded>>

Next == Pick \/ Tick

Spec == Init /\ [][Next]_vars

-----------------------------------------------------------------------------
\* A row as a person would judge it, from the columns alone.
UsableAt(row, t) ==
    /\ row.data /\ row.proxyOn /\ ~row.proxyFailed
    /\ row.status = "active" \/ (row.status \in {"flood_wait", "batch_wait"}
                                   /\ row.until # NoTime /\ row.until <= t)
    /\ Limit = 0 \/ row.count < Limit
    /\ ~row.locked
UsableSet(r, t) == {s \in Sessions \ excluded : UsableAt(r[s], t)}

\* The time a job without a session is scheduled for is the first instant at
\* which, nothing else happening, the selector would return one: the job
\* neither wakes up in vain nor sleeps past a session that is back.  No time
\* means that waiting does not help.
ResumeIsExact ==
    Choice.session = NoSession =>
        IF Choice.resume = NoTime
        THEN \A t \in now + 1 .. MaxTime : UsableSet(AtTime(t), t) = {}
        ELSE /\ Choice.resume > now
             /\ UsableSet(AtTime(Choice.resume), Choice.resume) # {}
             /\ \A t \in now + 1 .. Choice.resume - 1 : UsableSet(AtTime(t), t) = {}

\* The session the next call returns if the last one returned s.
After(s) == Select(rows, now, s, NoSession, excluded, Limit, Midnight).session

\* The selector returns a session exactly if one is usable, and it never jumps
\* a wait, a quota, a proxy or a lock.  Round robin: no part of the usable
\* sessions keeps the turns to itself, that is, the only non-empty set of them
\* that the rotation does not leave is all of them.  So one call after the
\* other returns each of them once before it returns one again.
EveryoneGetsATurn ==
    LET usable == UsableSet(rows, now)
    IN  /\ Choice.session \in IF usable = {} THEN {NoSession} ELSE usable
        /\ \A part \in (SUBSET usable) \ {{}} :
              (\A s \in part : After(s) \in part) => part = usable
=============================================================================
