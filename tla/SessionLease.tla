---------------------------- MODULE SessionLease ----------------------------
(***************************************************************************)
(* The per-session operation lease of app/session_operation.py: every      *)
(* Telegram operation (invite job, activity scan, group preparation,       *)
(* health check, heartbeat, group resolution, preview) takes it before it  *)
(* opens a client and gives it back when it is done.                       *)
(*                                                                         *)
(* A lease is two things kept in step: an asyncio.Lock per session, held   *)
(* in memory, and a row of the table session_operation_locks, which other  *)
(* components read (the invite selector, the health check) and which       *)
(* outlives a crash.  A coroutine runs without interruption between two    *)
(* awaits, so each action below is the code between two awaits.            *)
(***************************************************************************)
EXTENDS Naturals, SequencesExt

CONSTANTS Tasks,        \* the coroutines that operate on Telegram sessions
          NoWaitTasks,  \* those that call acquire with wait=False
          Sessions,     \* ids of telegram_sessions rows
          NoTask,       \* no owner_token: the row does not exist
          NoSession,    \* an idle task is about no session
          MaxFaults,    \* bound: database statements that fail
          MaxCrashes    \* bound: times the process dies

ASSUME NoWaitAssumption == NoWaitTasks \subseteq Tasks
ASSUME NoTaskAssumption == NoTask \notin Tasks
ASSUME NoSessionAssumption == NoSession \notin Sessions
ASSUME BoundAssumption == MaxFaults \in Nat /\ MaxCrashes \in Nat

VARIABLES
    phase,    \* what each task does with its lease
    target,   \* the session the task asks for or holds
    fut,      \* state of the future a queued task awaits
    locked,   \* asyncio.Lock._locked of each session
    waiters,  \* asyncio.Lock._waiters of each session
    row,      \* owner_token in session_operation_locks
    up,       \* the process runs and its startup is over
    faults,   \* database statements that failed so far
    crashes   \* crashes so far

taskVars == <<phase, target, fut>>
lockVars == <<locked, waiters>>
envVars  == <<up, faults, crashes>>
vars     == <<taskVars, lockVars, row, envVars>>

Phases  == {"idle", "queued", "holding", "released", "refused"}
Futures == {"none", "pending", "woken", "cancelled", "wokenCancelled"}

-----------------------------------------------------------------------------
(* asyncio.Lock, as its callers can observe it.                            *)

\* The lock may be taken at once: it is free and nobody live is in line.
\* A woken waiter that has not run yet still counts as live.
FreeForAll(s) ==
    /\ ~locked[s]
    /\ \A i \in 1..Len(waiters[s]) : fut[waiters[s][i]] = "cancelled"

\* _wake_up_first: the future at the head of the line is resolved, unless it
\* is already done.
WakeFirst(f, q) ==
    IF q # <<>> /\ f[Head(q)] = "pending" THEN [f EXCEPT ![Head(q)] = "woken"]
    ELSE f

\* Position of task t in the line q, and the line without it.
Place(q, t) == CHOOSE i \in 1..Len(q) : q[i] = t
Without(q, t) == RemoveAt(q, Place(q, t))

-----------------------------------------------------------------------------
Init ==
    /\ phase   = [t \in Tasks |-> "idle"]
    /\ target  = [t \in Tasks |-> NoSession]
    /\ fut     = [t \in Tasks |-> "none"]
    /\ locked  = [s \in Sessions |-> FALSE]
    /\ waiters = [s \in Sessions |-> <<>>]
    /\ row     = [s \in Sessions |-> NoTask]
    /\ up      = TRUE
    /\ faults  = 0
    /\ crashes = 0

\* The INSERT that follows a successful lock.acquire(): it succeeds only if
\* the session has no row.
Granted(t, s) ==
    /\ row[s] = NoTask
    /\ row' = [row EXCEPT ![s] = t]
    /\ locked' = [locked EXCEPT ![s] = TRUE]
    /\ phase' = [phase EXCEPT ![t] = "holding"]

\* The INSERT finds a row (IntegrityError) or fails for another reason: the
\* lock is released again, which wakes the next waiter, and the call raises.
Refused(t, s) ==
    /\ \/ row[s] # NoTask /\ UNCHANGED faults
       \/ faults < MaxFaults /\ faults' = faults + 1
    /\ locked' = [locked EXCEPT ![s] = FALSE]
    /\ phase' = [phase EXCEPT ![t] = "refused"]
    /\ UNCHANGED row

\* acquire() with wait=False while the lock is taken: SessionOperationBusy.
RefuseBusy(t, s) ==
    /\ up /\ phase[t] = "idle"
    /\ t \in NoWaitTasks /\ locked[s]
    /\ phase' = [phase EXCEPT ![t] = "refused"]
    /\ target' = [target EXCEPT ![t] = s]
    /\ UNCHANGED <<fut, lockVars, row, envVars>>

\* acquire() that does not have to wait.
AcquireNow(t, s) ==
    /\ up /\ phase[t] = "idle"
    /\ FreeForAll(s)
    /\ target' = [target EXCEPT ![t] = s]
    /\ \/ Granted(t, s) /\ UNCHANGED faults
       \/ Refused(t, s)
    /\ UNCHANGED <<fut, waiters, up, crashes>>

\* acquire() that has to wait.  A wait=False caller gets here too: it only
\* asked whether the lock is taken, and between a release and the turn of the
\* woken waiter the lock is not taken and not free for all either.
JoinLine(t, s) ==
    /\ up /\ phase[t] = "idle"
    /\ ~(t \in NoWaitTasks /\ locked[s])
    /\ ~FreeForAll(s)
    /\ phase' = [phase EXCEPT ![t] = "queued"]
    /\ target' = [target EXCEPT ![t] = s]
    /\ fut' = [fut EXCEPT ![t] = "pending"]
    /\ waiters' = [waiters EXCEPT ![s] = Append(@, t)]
    /\ UNCHANGED <<locked, row, envVars>>

\* The woken waiter runs: it leaves the line, takes the lock and inserts its
\* row, or fails to and passes the lock on.
Resume(t) ==
    LET s    == target[t]
        line == Without(waiters[s], t)
        out  == [fut EXCEPT ![t] = "none"]
    IN  /\ up /\ phase[t] = "queued" /\ fut[t] = "woken"
        /\ waiters' = [waiters EXCEPT ![s] = line]
        /\ \/ Granted(t, s) /\ fut' = out /\ UNCHANGED faults
           \/ Refused(t, s) /\ fut' = WakeFirst(out, line)
        /\ UNCHANGED <<target, up, crashes>>

\* task.cancel() while the task waits in line.
Cancel(t) ==
    /\ up /\ phase[t] = "queued"
    /\ \/ fut[t] = "pending" /\ fut' = [fut EXCEPT ![t] = "cancelled"]
       \/ fut[t] = "woken" /\ fut' = [fut EXCEPT ![t] = "wokenCancelled"]
    /\ UNCHANGED <<phase, target, lockVars, row, envVars>>

LeaveLineSilently(t) ==
    LET s == target[t]
    IN  /\ up /\ phase[t] = "queued" /\ fut[t] \in {"cancelled", "wokenCancelled"}
        /\ waiters' = [waiters EXCEPT ![s] = Without(@, t)]
        /\ fut' = [fut EXCEPT ![t] = "none"]
        /\ phase' = [phase EXCEPT ![t] = "refused"]
        /\ UNCHANGED <<target, locked, row, envVars>>

\* The cancelled waiter runs: it leaves the line and, if the lock is free,
\* hands its turn to the next one.
LeaveLine(t) ==
    LET s    == target[t]
        line == Without(waiters[s], t)
        out  == [fut EXCEPT ![t] = "none"]
    IN  /\ up /\ phase[t] = "queued" /\ fut[t] \in {"cancelled", "wokenCancelled"}
        /\ waiters' = [waiters EXCEPT ![s] = line]
        /\ fut' = IF locked[s] THEN out ELSE WakeFirst(out, line)
        /\ phase' = [phase EXCEPT ![t] = "refused"]
        /\ UNCHANGED <<target, locked, row, envVars>>

\* The body of SessionOperationLease.release() once `released` was FALSE: the
\* row of this owner is deleted, or the DELETE fails; the lock is released in
\* either case.
GiveUp(t, s) ==
    /\ \/ /\ row' = [row EXCEPT ![s] = IF @ = t THEN NoTask ELSE @]
          /\ UNCHANGED faults
       \/ /\ faults < MaxFaults /\ faults' = faults + 1
          /\ UNCHANGED row
    /\ locked' = [locked EXCEPT ![s] = FALSE]
    /\ fut' = IF locked[s] THEN WakeFirst(fut, waiters[s]) ELSE fut

Release(t) ==
    /\ up /\ phase[t] = "holding"
    /\ GiveUp(t, target[t])
    /\ phase' = [phase EXCEPT ![t] = "released"]
    /\ UNCHANGED <<target, waiters, up, crashes>>

ReleaseAgainUnflagged(t) ==
    /\ up /\ phase[t] = "released"
    /\ GiveUp(t, target[t])
    /\ phase' = [phase EXCEPT ![t] = "idle"]
    /\ target' = [target EXCEPT ![t] = NoSession]
    /\ UNCHANGED <<waiters, up, crashes>>

\* A handler that calls release() again on its way out (an exception in
\* _close_invite_session is followed by the same call in `finally`): the flag
\* `released` makes it a no-op, and the task is through.
ReleaseAgain(t) ==
    /\ up /\ phase[t] = "released"
    /\ phase' = [phase EXCEPT ![t] = "idle"]
    /\ target' = [target EXCEPT ![t] = NoSession]
    /\ UNCHANGED <<fut, lockVars, row, envVars>>

\* The caller of a refused or cancelled acquire() has handled the exception.
GiveUpRequest(t) ==
    /\ up /\ phase[t] = "refused"
    /\ phase' = [phase EXCEPT ![t] = "idle"]
    /\ target' = [target EXCEPT ![t] = NoSession]
    /\ UNCHANGED <<fut, lockVars, row, envVars>>

\* The dictionary of asyncio locks is empty (again).
ForgetLocks ==
    /\ locked' = [s \in Sessions |-> FALSE]
    /\ waiters' = [s \in Sessions |-> <<>>]

\* The process dies: tasks and locks are gone, the rows are not.
Crash ==
    /\ up /\ crashes < MaxCrashes
    /\ up' = FALSE
    /\ crashes' = crashes + 1
    /\ phase' = [t \in Tasks |-> "idle"]
    /\ target' = [t \in Tasks |-> NoSession]
    /\ fut' = [t \in Tasks |-> "none"]
    /\ ForgetLocks
    /\ UNCHANGED <<row, faults>>

ClearStaleLate ==
    /\ up' = TRUE
    /\ ForgetLocks
    /\ row' = [s \in Sessions |-> NoTask]
    /\ UNCHANGED <<taskVars, faults, crashes>>

ClearStaleInMemoryOnly ==
    /\ ~up
    /\ up' = TRUE
    /\ ForgetLocks
    /\ UNCHANGED <<taskVars, row, faults, crashes>>

\* clear_stale_session_operations(), called by the lifespan handler before
\* any task of the new process starts.
ClearStale ==
    /\ ~up
    /\ up' = TRUE
    /\ ForgetLocks
    /\ row' = [s \in Sessions |-> NoTask]
    /\ UNCHANGED <<taskVars, faults, crashes>>

Acquire(t, s) == RefuseBusy(t, s) \/ AcquireNow(t, s) \/ JoinLine(t, s)

Step(t) ==
    \/ Resume(t)
    \/ LeaveLine(t)
    \/ Release(t)
    \/ ReleaseAgain(t)
    \/ GiveUpRequest(t)

Next ==
    \/ \E t \in Tasks, s \in Sessions : Acquire(t, s)
    \/ \E t \in Tasks : Step(t)
    \/ \E t \in Tasks : Cancel(t)
    \/ Crash
    \/ ClearStale

Spec == Init /\ [][Next]_vars

\* The event loop runs every ready coroutine, every operation on a session is
\* bounded by Telethon's and wait_for's timeouts, and the launcher starts the
\* program again.  New requests, cancellations and crashes are not fair.
Fairness == (\A t \in Tasks : WF_vars(Step(t))) /\ WF_vars(ClearStale)

FairSpec == Spec /\ Fairness

-----------------------------------------------------------------------------
TypeOK ==
    /\ phase \in [Tasks -> Phases]
    /\ target \in [Tasks -> Sessions \cup {NoSession}]
    /\ fut \in [Tasks -> Futures]
    /\ locked \in [Sessions -> BOOLEAN]
    /\ waiters \in [Sessions -> Seq(Tasks)]
    /\ row \in [Sessions -> Tasks \cup {NoTask}]
    /\ up \in BOOLEAN
    /\ faults \in 0..MaxFaults
    /\ crashes \in 0..MaxCrashes

Holds(t, s) == phase[t] = "holding" /\ target[t] = s

\* No two tasks ever operate on one Telegram session at a time, whatever the
\* order of releases, cancellations and failed statements.
MutualExclusion ==
    \A t, u \in Tasks, s \in Sessions : Holds(t, s) /\ Holds(u, s) => t = u

\* Whoever holds a session is also the owner the other components see in
\* session_operation_locks, and the lock is taken: the invite selector and the
\* health check never take a session in use for a free one.
HolderVisible ==
    \A t \in Tasks, s \in Sessions : Holds(t, s) => row[s] = t /\ locked[s]

\* The lock of a session is never left taken by a task that is gone: every
\* path out of acquire() and release(), the failing ones included, gives it
\* back.
NoOrphanLock ==
    \A s \in Sessions : locked[s] => \E t \in Tasks : Holds(t, s)

\* While no statement has failed, a row without a holder exists only between
\* a crash and the startup that follows: nothing else makes a session look
\* busy for ever.
NoStaleRow ==
    up /\ faults = 0 =>
        \A s \in Sessions : row[s] # NoTask => Holds(row[s], s)

\* A free lock with live waiters always has a turn under way: the head of the
\* line is woken, or is a cancelled task that will pass the turn on.
NoLostWakeup ==
    \A s \in Sessions :
        ~locked[s] /\ waiters[s] # <<>> => fut[Head(waiters[s])] # "pending"

\* Heartbeat, health check and invite jobs ask for the lease with wait=False
\* and are documented not to wait for a busy session.
NoWaitNeverWaits == \A t \in NoWaitTasks : phase[t] # "queued"

\* The line is served in order: as long as a task waits and is not cancelled,
\* the session goes to nobody but those who joined the line before it, not
\* even to a newcomer that finds the lock free.
Before(q, t, u) == \E i, j \in 1..Len(q) : i < j /\ q[i] = t /\ q[j] = u
InTurn ==
    \A s \in Sessions, t, u \in Tasks :
        (/\ phase[t] = "queued" /\ target[t] = s /\ fut[t] \in {"pending", "woken"}
         /\ u # t /\ Holds(u, s)' /\ ~Holds(u, s))
            => Before(waiters[s], u, t)
FirstComeFirstServed == [][InTurn]_vars

\* Every task that waits for a session is answered: it gets the session or is
\* refused, however the tasks before it end.
EveryWaitEnds == \A t \in Tasks : phase[t] = "queued" ~> phase[t] # "queued"

-----------------------------------------------------------------------------
(* The lease implements SessionMutex: the owner of a session is its holder. *)
HolderOf(s) ==
    IF \E t \in Tasks : Holds(t, s) THEN CHOOSE t \in Tasks : Holds(t, s)
    ELSE NoTask

Mutex == INSTANCE SessionMutex WITH owner <- [s \in Sessions |-> HolderOf(s)]

ImplementsMutex == Mutex!Spec
=============================================================================
