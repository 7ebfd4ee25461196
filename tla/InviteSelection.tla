-------------------------- MODULE InviteSelection --------------------------
(***************************************************************************)
(* select_next_available_session of app/telegram_service.py: which session *)
(* an invite job uses next, and, when there is none, when it pays to try   *)
(* again.  A row is what the query joins for one session: its status and   *)
(* waiting times, its proxy, today's invite count and the operation lock.  *)
(* Times are points on a small discrete clock; NoTime is a NULL column.    *)
(***************************************************************************)
EXTENDS Integers, FiniteSetsExt

CONSTANTS Sessions,   \* ids of telegram_sessions rows
          NoSession,  \* None: no last, preferred or selected session
          NoTime      \* NULL in a time column

ASSUME SessionsAssumption == Sessions \subseteq Nat /\ Sessions # {}
ASSUME NoSessionAssumption == NoSession \notin Sessions
ASSUME NoTimeAssumption == NoTime \notin Int

Statuses == {"active", "flood_wait", "batch_wait", "proxy_error"}

\* `until' is flood_wait_until or batch_cooldown_until, whichever the status
\* makes the function read.
Rows(Times, Counts) ==
    [data : BOOLEAN, status : Statuses, until : Times \cup {NoTime},
     successes : Counts, count : Counts,
     proxyOn : BOOLEAN, proxyFailed : BOOLEAN, locked : BOOLEAN]

LockRetry == 1        \* five seconds, one tick of the clock

-----------------------------------------------------------------------------
\* A wait that is over is written back as 'active' before anything is judged.
Expired(row, now) ==
    row.status \in {"flood_wait", "batch_wait"} /\ row.until # NoTime /\ row.until <= now

Refreshed(row, now) ==
    IF ~Expired(row, now) THEN row
    ELSE [row EXCEPT !.status = "active", !.until = NoTime,
                     !.successes = IF row.status = "batch_wait" THEN 0 ELSE @]

\* The waiting time of a row that is still in a wait (None otherwise).
Waits(row) == row.status \in {"flood_wait", "batch_wait"} /\ row.until # NoTime

\* What no passage of time repairs: the row is skipped without a resume time.
Rejected(row, excluded) ==
    \/ ~row.data
    \/ row.status \notin {"active", "flood_wait", "batch_wait"}
    \/ row.status # "active" /\ ~Waits(row)
    \/ ~row.proxyOn \/ row.proxyFailed
    \/ excluded

FullNever(row, limit) == FALSE
\* The daily quota of the job is used up with this session (0: no quota).
Full(row, limit) == limit > 0 /\ row.count >= limit

BlockersNoWait(row, now, limit, quotaResume) ==
    (IF Full(row, limit) THEN {quotaResume} ELSE {}) \cup
    (IF row.locked THEN {now + LockRetry} ELSE {})
\* The times each remaining obstacle of a row is expected to be gone.
Blockers(row, now, limit, quotaResume) ==
    (IF Waits(row) THEN {row.until} ELSE {}) \cup
    (IF Full(row, limit) THEN {quotaResume} ELSE {}) \cup
    (IF row.locked THEN {now + LockRetry} ELSE {})

RotateBack(available, last, preferred) ==
    LET after == {s \in available : s >= last}
    IN  CASE preferred \in available -> preferred
          [] preferred \notin available /\ last # NoSession /\ after # {} -> Min(after)
          [] OTHER -> Min(available)
\* Round robin: the preferred session, else the first id after the last one.
Rotate(available, last, preferred) ==
    LET after == {s \in available : s > last}
    IN  CASE preferred \in available -> preferred
          [] preferred \notin available /\ last # NoSession /\ after # {} -> Min(after)
          [] OTHER -> Min(available)

SelectEarliestBlocker(rows, now, last, preferred, excluded, limit, quotaResume) ==
    LET fresh     == [s \in Sessions |-> Refreshed(rows[s], now)]
        live      == {s \in Sessions : ~Rejected(fresh[s], s \in excluded)}
        Block(s)  == Blockers(fresh[s], now, limit, quotaResume)
        available == {s \in live : Block(s) = {}}
    IN  [rows    |-> fresh,
         session |-> IF available = {} THEN NoSession ELSE Rotate(available, last, preferred),
         resume  |-> IF available # {} \/ live = {} THEN NoTime
                     ELSE Min({Min(Block(s)) : s \in live})]

\* The whole function: the rows it writes back, the session it selects and,
\* when it selects none, the earliest time a session comes back.
Select(rows, now, last, preferred, excluded, limit, quotaResume) ==
    LET fresh     == [s \in Sessions |-> Refreshed(rows[s], now)]
        live      == {s \in Sessions : ~Rejected(fresh[s], s \in excluded)}
        Block(s)  == Blockers(fresh[s], now, limit, quotaResume)
        available == {s \in live : Block(s) = {}}
    IN  [rows    |-> fresh,
         session |-> IF available = {} THEN NoSession ELSE Rotate(available, last, preferred),
         resume  |-> IF available # {} \/ live = {} THEN NoTime
                     ELSE Min({Max(Block(s)) : s \in live})]
=============================================================================
