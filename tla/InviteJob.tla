----------------------------- MODULE InviteJob -----------------------------
(***************************************************************************)
(* execute_invite_job of app/telegram_service.py for several jobs at once: *)
(* the claim of a job, the loop over its candidates, the rotation over the *)
(* Telegram sessions, and what the rest of the program does to the same    *)
(* sessions meanwhile.                                                     *)
(*                                                                         *)
(* Coroutines run from one await to the next without interruption.  A job  *)
(* whose pc is "loop" or "try" is between two awaits: no other action is   *)
(* enabled until it has come to its next await (Settled).                  *)
(*                                                                         *)
(* Time is what has run out: floodRuns[s] says that the FloodWait Telegram *)
(* gave session s last still runs, restRuns[s] that its batch rest does.   *)
(* The arithmetic of the waiting times is checked in InviteSelection.      *)
(***************************************************************************)
EXTENDS InviteSelection, SequencesExt

CONSTANTS Jobs,        \* ids of transfer_jobs rows
          Candidates,  \* ids of the selected job_candidates rows of each job
          Other,       \* another operation that takes session leases
          Nobody,      \* no holder of a lease
          Quota,       \* daily_limit of every job (0: none)
          BatchLimit,  \* invite_batch_limit of every session (0: none)
          MaxFaults    \* bound: Telegram limits, proxy failures, crashes, ...

ASSUME JobsAssumption == Other \notin Jobs /\ Nobody \notin Jobs \cup {Other}
ASSUME CandidatesAssumption == Candidates \subseteq Nat /\ IsFiniteSet(Candidates)
ASSUME LimitsAssumption == Quota \in Nat /\ BatchLimit \in Nat /\ MaxFaults \in Nat

VARIABLES
    jstatus,   \* transfer_jobs.status
    home,      \* transfer_jobs.session_id
    cand,      \* job_candidates.status
    status,    \* telegram_sessions.status
    proxyFailed, \* telegram_sessions.proxy_last_status = 'failed'
    successes, \* telegram_sessions.batch_success_count
    usage,     \* today's session_invite_usage_daily.invite_count
    floodRuns, restRuns,
    owner,     \* holder of each session's lease
    line,      \* who waits for it
    pc,        \* where the coroutine of a job stands
    queue,     \* candidates[candidate_index:]
    at,        \* the session selected, being opened or open (context)
    used, done,   \* context.invite_count and context.batch_success_count
    last, preferred,   \* last_session_id, preferred_session_id
    out,       \* target_unavailable_session_ids and peer_flood_session_ids
    after,     \* where a closing context leads
    added,     \* history: whom Telegram has added for the job
    lost,      \* history: additions whose answer a crash swallowed
    stale,     \* history: jobs that waited in line between selection and lease
    faults

jobVars  == <<jstatus, home, cand>>
sessVars == <<status, proxyFailed, successes, usage, floodRuns, restRuns>>
lockVars == <<owner, line>>
runVars  == <<pc, queue, at, used, done, last, preferred, out, after>>
history  == <<added, lost, stale>>
vars     == <<jobVars, sessVars, lockVars, runVars, history, faults>>

JobStatuses == {"approved", "queued_execution", "running", "scheduled", "proxy_error",
                "telegram_restricted", "completed", "failed"}
Runnable == {"approved", "scheduled", "proxy_error", "telegram_restricted", "queued_execution"}
Resumable == Runnable \ {"queued_execution"}
CandidateStatuses == {"eligible", "invited", "existing", "skipped", "failed"}
Places == {"idle", "ready", "loop", "lined", "opening", "try", "request", "sleep", "closing"}
NoRun == [target |-> {}, peer |-> {}]

Settled == \A j \in Jobs : pc[j] \notin {"loop", "try"}
Eligible(j) == {c \in Candidates : cand[j][c] = "eligible"}
Fault == faults < MaxFaults /\ faults' = faults + 1
Goto(j, p) == pc' = [pc EXCEPT ![j] = p]

\* The locals of a coroutine that has ended are gone.
Forget(js) ==
    /\ queue' = [j \in Jobs |-> IF j \in js THEN <<>> ELSE queue[j]]
    /\ out' = [j \in Jobs |-> IF j \in js THEN NoRun ELSE out[j]]
    /\ last' = [j \in Jobs |-> IF j \in js THEN NoSession ELSE last[j]]
    /\ preferred' = [j \in Jobs |-> IF j \in js THEN NoSession ELSE preferred[j]]
    /\ after' = [j \in Jobs |-> IF j \in js THEN "idle" ELSE after[j]]
ForgetContext(js) ==
    /\ at' = [j \in Jobs |-> IF j \in js THEN NoSession ELSE at[j]]
    /\ used' = [j \in Jobs |-> IF j \in js THEN 0 ELSE used[j]]
    /\ done' = [j \in Jobs |-> IF j \in js THEN 0 ELSE done[j]]

InitRest ==
    /\ jstatus = [j \in Jobs |-> "approved"]
    /\ home = [j \in Jobs |-> Min(Sessions)]
    /\ status = [s \in Sessions |-> "active"]
    /\ proxyFailed = [s \in Sessions |-> FALSE]
    /\ successes = [s \in Sessions |-> 0]
    /\ usage = [s \in Sessions |-> 0]
    /\ floodRuns = [s \in Sessions |-> FALSE]
    /\ restRuns = [s \in Sessions |-> FALSE]
    /\ owner = [s \in Sessions |-> Nobody]
    /\ line = [s \in Sessions |-> <<>>]
    /\ pc = [j \in Jobs |-> "idle"]
    /\ queue = [j \in Jobs |-> <<>>]
    /\ at = [j \in Jobs |-> NoSession]
    /\ used = [j \in Jobs |-> 0]
    /\ done = [j \in Jobs |-> 0]
    /\ last = [j \in Jobs |-> NoSession]
    /\ preferred = [j \in Jobs |-> NoSession]
    /\ out = [j \in Jobs |-> NoRun]
    /\ after = [j \in Jobs |-> "idle"]
    /\ added = [j \in Jobs |-> {}]
    /\ lost = [j \in Jobs |-> {}]
    /\ stale = {}

Init ==
    /\ InitRest
    /\ cand = [j \in Jobs |-> [c \in Candidates |-> "eligible"]]
    /\ faults = 0

-----------------------------------------------------------------------------
(* Starting a job.                                                         *)

\* POST /api/jobs/{id}/execute: queued at once, or put off to the next opening
\* of the working window, which a job in 'proxy_error' silently misses.
Execute(j) ==
    /\ Settled /\ pc[j] = "idle" /\ jstatus[j] \in Resumable /\ Eligible(j) # {}
    /\ \/ jstatus' = [jstatus EXCEPT ![j] = "queued_execution"] /\ Goto(j, "ready")
       \/ /\ jstatus[j] \notin {"proxy_error", "scheduled"}
          /\ jstatus' = [jstatus EXCEPT ![j] = "scheduled"]
          /\ UNCHANGED pc
    /\ UNCHANGED <<home, cand, sessVars, lockVars, queue, at, used, done, last, preferred,
                   out, after, history, faults>>

\* invite_scheduler_loop: the resume time of a scheduled job has come.
SchedulerStarts(j) ==
    /\ Settled /\ pc[j] = "idle" /\ jstatus[j] = "scheduled"
    /\ Goto(j, "ready")
    /\ UNCHANGED <<jobVars, sessVars, lockVars, queue, at, used, done, last, preferred,
                   out, after, history, faults>>

\* The candidates as the query returns them: those known from a message first,
\* then by id; Candidates are numbered in that order.
InOrder(S) == CHOOSE q \in SetToSeqs(S) : \A x, y \in 1..Cardinality(S) : x < y => q[x] < q[y]

\* The task runs for the first time: it reads the job and its candidates and
\* claims the job, unless there is nothing to do or the window is closed.
Claim(j) ==
    /\ Settled /\ pc[j] = "ready"
    /\ \/ /\ jstatus[j] \notin Runnable \/ Eligible(j) = {}
          /\ Goto(j, "idle")
          /\ UNCHANGED <<jstatus, queue, last, preferred, out>>
       \/ /\ jstatus[j] \in Runnable /\ Eligible(j) # {}
          /\ \/ jstatus' = [jstatus EXCEPT ![j] = "scheduled"] /\ Goto(j, "idle")
                /\ UNCHANGED <<queue, last, preferred, out>>
             \/ /\ jstatus' = [jstatus EXCEPT ![j] = "running"] /\ Goto(j, "loop")
                /\ queue' = [queue EXCEPT ![j] = InOrder(Eligible(j))]
                /\ last' = [last EXCEPT ![j] = home[j]]
                /\ preferred' = [preferred EXCEPT ![j] = home[j]]
                /\ out' = [out EXCEPT ![j] = NoRun]
    /\ UNCHANGED <<home, cand, sessVars, lockVars, at, used, done, after, history, faults>>

-----------------------------------------------------------------------------
(* The loop: the next session.                                             *)

\* The joined row of a session; every wait that still runs ends at instant 1.
RowOf(s) ==
    [data |-> TRUE, status |-> status[s],
     until |-> CASE status[s] = "flood_wait" -> IF floodRuns[s] THEN 1 ELSE 0
                 [] status[s] = "batch_wait" -> IF restRuns[s] THEN 1 ELSE 0
                 [] OTHER -> NoTime,
     successes |-> successes[s], count |-> usage[s], proxyOn |-> TRUE,
     proxyFailed |-> proxyFailed[s], locked |-> owner[s] # Nobody]

\* The selector as the loop calls it, with the sessions this run leaves out.
SelectFor(j) ==
    Select([s \in Sessions |-> RowOf(s)], 0, last[j], preferred[j],
           out[j].target \cup out[j].peer, Quota, 1)

WriteBack(rows) ==
    /\ status' = [s \in Sessions |-> rows[s].status]
    /\ successes' = [s \in Sessions |-> rows[s].successes]

\* What becomes of a job that finds no session.
StatusWithoutSession(j, resume) ==
    CASE resume # NoTime -> "scheduled"
      [] resume = NoTime /\ out[j].peer # {} -> "telegram_restricted"
      [] resume = NoTime /\ out[j].peer = {} /\ out[j].target # {} -> "failed"
      [] OTHER -> "proxy_error"

\* No session: the job is put off to the earliest time one comes back, or
\* stops, with its remaining candidates untouched.
RunOutOfSessions(j, choice) ==
    /\ choice.session = NoSession
    /\ jstatus' = [jstatus EXCEPT ![j] = StatusWithoutSession(j, choice.resume)]
    /\ Goto(j, "idle") /\ Forget({j})
    /\ UNCHANGED <<at, used, done, lockVars>>

\* A session: its counters are remembered, then its lease is asked for with
\* wait=False.  A lock that is taken would refuse the call as busy, and the loop
\* would go round once more; but whoever has the lock has its row, the selector
\* left that session out, and nothing was awaited since, so that the lock is
\* free.  The call still waits if others are in line for it.
TakeSessionUncounted(j, choice) ==
    LET s == choice.session
    IN  /\ s # NoSession /\ owner[s] = Nobody
        /\ at' = [at EXCEPT ![j] = s]
        /\ used' = [used EXCEPT ![j] = 0] /\ done' = [done EXCEPT ![j] = 0]
        /\ IF line[s] = <<>> THEN /\ owner' = [owner EXCEPT ![s] = j]
                                  /\ Goto(j, "opening")
                                  /\ UNCHANGED line
           ELSE /\ line' = [line EXCEPT ![s] = Append(@, j)]
                /\ Goto(j, "lined")
                /\ UNCHANGED owner
        /\ preferred' = [preferred EXCEPT ![j] = NoSession]
        /\ UNCHANGED <<jstatus, queue, last, out, after>>
TakeSession(j, choice) ==
    LET s == choice.session
    IN  /\ s # NoSession /\ owner[s] = Nobody
        /\ at' = [at EXCEPT ![j] = s]
        /\ used' = [used EXCEPT ![j] = usage[s]]
        /\ done' = [done EXCEPT ![j] = choice.rows[s].successes]
        /\ IF line[s] = <<>> THEN /\ owner' = [owner EXCEPT ![s] = j]
                                  /\ Goto(j, "opening")
                                  /\ UNCHANGED line
           ELSE /\ line' = [line EXCEPT ![s] = Append(@, j)]
                /\ Goto(j, "lined")
                /\ UNCHANGED owner
        /\ preferred' = [preferred EXCEPT ![j] = NoSession]
        /\ UNCHANGED <<jstatus, queue, last, out, after>>

SelectSession(j) ==
    LET choice == SelectFor(j)
    IN  /\ WriteBack(choice.rows)
        /\ RunOutOfSessions(j, choice) \/ TakeSession(j, choice)
        /\ UNCHANGED <<home, cand, proxyFailed, usage, floodRuns, restRuns, history, faults>>

\* The run ends; an open context is closed on the way out.
LeaveRun(j, s) ==
    /\ jstatus' = [jstatus EXCEPT ![j] = s]
    /\ Goto(j, IF at[j] = NoSession THEN "idle" ELSE "closing")
    /\ Forget({j})
    /\ UNCHANGED <<home, cand, sessVars, lockVars, at, used, done, history, faults>>

\* One turn of the loop: completed, out of the working window, on with the
\* open session, or a new session first.
Loop(j) ==
    /\ pc[j] = "loop"
    /\ \/ queue[j] = <<>> /\ LeaveRun(j, "completed")
       \/ queue[j] # <<>> /\ LeaveRun(j, "scheduled")
       \/ /\ queue[j] # <<>> /\ at[j] # NoSession
          /\ Goto(j, "try")
          /\ UNCHANGED <<jobVars, sessVars, lockVars, queue, at, used, done, last,
                         preferred, out, after, history, faults>>
       \/ queue[j] # <<>> /\ at[j] = NoSession /\ SelectSession(j)

-----------------------------------------------------------------------------
(* Opening the session.                                                    *)

ReleaseForgetting(s) == UNCHANGED owner
Release(s) == owner' = [owner EXCEPT ![s] = Nobody]

\* The next in line takes the free lock.
Turn(s) ==
    /\ Settled /\ owner[s] = Nobody /\ line[s] # <<>>
    /\ owner' = [owner EXCEPT ![s] = Head(line[s])]
    /\ line' = [line EXCEPT ![s] = Tail(@)]
    /\ pc' = [j \in Jobs |-> IF j = Head(line[s]) THEN "opening" ELSE pc[j]]
    /\ stale' = stale \cup (Jobs \cap {Head(line[s])})
    /\ UNCHANGED <<jobVars, sessVars, queue, at, used, done, last, preferred, out, after,
                   added, lost, faults>>

MarkFlood(s) ==
    /\ status' = [status EXCEPT ![s] = "flood_wait"]
    /\ floodRuns' = [floodRuns EXCEPT ![s] = TRUE]
    /\ UNCHANGED <<proxyFailed, successes, usage, restRuns>>

MarkPeer(s) ==
    /\ status' = [status EXCEPT ![s] = "active"]
    /\ UNCHANGED <<proxyFailed, successes, usage, floodRuns, restRuns>>

MarkProxy(s) ==
    /\ status' = [status EXCEPT ![s] = "proxy_error"]
    /\ proxyFailed' = [proxyFailed EXCEPT ![s] = TRUE]
    /\ UNCHANGED <<successes, usage, floodRuns, restRuns>>

\* test_session_proxy succeeded, as it does in every client that opens.
ProxyWorks(s) ==
    /\ status' = [status EXCEPT ![s] = IF @ = "proxy_error" THEN "active" ELSE @]
    /\ proxyFailed' = [proxyFailed EXCEPT ![s] = FALSE]
    /\ UNCHANGED <<successes, usage, floodRuns, restRuns>>

LeaveOut(j, why, s) == out' = [out EXCEPT ![j][why] = @ \cup {s}]

\* _open_invite_session returns a context.
Opened(j) ==
    /\ Settled /\ pc[j] = "opening"
    /\ ProxyWorks(at[j])
    /\ last' = [last EXCEPT ![j] = at[j]]
    /\ home' = [home EXCEPT ![j] = at[j]]
    /\ jstatus' = [jstatus EXCEPT ![j] = "running"]
    /\ Goto(j, "try")
    /\ UNCHANGED <<cand, lockVars, queue, at, used, done, preferred, out, after, history,
                   faults>>

\* It raises: the lease is given back, the session judged, the next one tried.
OpenFails(j) ==
    LET s == at[j]
    IN  /\ Settled /\ pc[j] = "opening" /\ Fault
        /\ Release(s) /\ ForgetContext({j})
        /\ \/ /\ \/ MarkFlood(s) /\ UNCHANGED out
                 \/ MarkPeer(s) /\ LeaveOut(j, "peer", s)
                 \/ MarkProxy(s) /\ UNCHANGED out
                 \/ ProxyWorks(s) /\ LeaveOut(j, "target", s)
              /\ last' = [last EXCEPT ![j] = s]
              /\ Goto(j, "loop")
              /\ UNCHANGED <<jstatus, queue, preferred, after>>
           \/ /\ ProxyWorks(s)
              /\ jstatus' = [jstatus EXCEPT ![j] = "failed"]
              /\ Goto(j, "idle") /\ Forget({j})
        /\ UNCHANGED <<home, cand, line, history>>

CloseThen(j, p) ==
    /\ Goto(j, "closing")
    /\ after' = [after EXCEPT ![j] = p]

\* The context is open: hand over if its quota is used up, else ask Telegram.
Try(j) ==
    /\ pc[j] = "try"
    /\ IF Quota > 0 /\ used[j] >= Quota THEN CloseThen(j, "loop")
       ELSE Goto(j, "request") /\ UNCHANGED after
    /\ UNCHANGED <<jobVars, sessVars, lockVars, queue, at, used, done, last, preferred, out,
                   history, faults>>

-----------------------------------------------------------------------------
(* The answer to the request for the candidate at the head of the queue.   *)

RecordTimeoutsOnlyInMemory(j, verdict) ==
    /\ cand' = IF verdict = "failed" THEN cand
               ELSE [cand EXCEPT ![j][Head(queue[j])] = verdict]
    /\ queue' = [queue EXCEPT ![j] = Tail(@)]
\* The candidate leaves the queue with its final status.
Record(j, verdict) ==
    LET c == Head(queue[j])
    IN  /\ cand' = [cand EXCEPT ![j][c] = verdict]
        /\ queue' = [queue EXCEPT ![j] = Tail(@)]

\* To the next candidate: hand over, wait for the delay, or leave the loop.
Proceed(j, handover) ==
    IF Tail(queue[j]) = <<>> THEN Goto(j, "loop") /\ UNCHANGED after
    ELSE IF handover THEN CloseThen(j, "loop")
    ELSE Goto(j, "sleep") /\ UNCHANGED after

DailyCount(s) == usage' = [usage EXCEPT ![s] = @ + 1]
CountUse(j) == used' = [used EXCEPT ![j] = @ + 1]

\* The session has reached its batch limit: it counts from zero, and rests if its
\* policy has minutes for that; else another session is tried all the same.
BatchFull(j) == BatchLimit > 0 /\ done[j] + 1 >= BatchLimit

\* Telegram added the user.
Invited(j) ==
    LET s == at[j]
    IN  /\ Settled /\ pc[j] = "request"
        /\ added' = [added EXCEPT ![j] = @ \cup {Head(queue[j])}]
        /\ Record(j, "invited")
        /\ DailyCount(s)
        /\ CountUse(j)
        /\ done' = [done EXCEPT ![j] = IF BatchFull(j) THEN 0 ELSE @ + 1]
        /\ successes' = [successes EXCEPT ![s] = IF BatchFull(j) THEN 0 ELSE @ + 1]
        /\ IF BatchFull(j)
           THEN \E rests \in BOOLEAN :
                   /\ status' = [status EXCEPT ![s] = IF rests THEN "batch_wait" ELSE "active"]
                   /\ restRuns' = [restRuns EXCEPT ![s] = rests]
           ELSE UNCHANGED <<status, restRuns>>
        /\ Proceed(j, BatchFull(j) \/ (Quota > 0 /\ used'[j] >= Quota))
        /\ UNCHANGED <<jstatus, home, proxyFailed, floodRuns, lockVars, at, last, preferred,
                       out, lost, stale, faults>>

\* Telegram refused for good, the user is a member already, the reference does
\* not resolve, or the request timed out, in which case the user may be in.
NotInvited(j) ==
    /\ Settled /\ pc[j] = "request" /\ Fault
    /\ \/ Record(j, "existing") /\ UNCHANGED added
       \/ Record(j, "skipped") /\ UNCHANGED added
       \/ /\ Record(j, "failed")
          /\ \/ UNCHANGED added
             \/ added' = [added EXCEPT ![j] = @ \cup {Head(queue[j])}]
    /\ Proceed(j, FALSE)
    /\ UNCHANGED <<jstatus, home, sessVars, lockVars, at, used, done, last, preferred, out,
                   lost, stale>>

DeferDropping(q) == Tail(q)
\* The candidate goes behind the others.
Defer(q) == Append(Tail(q), Head(q))

\* The session cannot go on; the candidate stays in the queue.
SessionFails(j) ==
    LET s == at[j]
    IN  /\ Settled /\ pc[j] = "request" /\ Fault
        /\ \/ /\ MarkFlood(s)
              /\ queue' = [queue EXCEPT ![j] = Defer(@)]
              /\ UNCHANGED out
           \/ /\ MarkPeer(s) /\ LeaveOut(j, "peer", s)
              /\ queue' = [queue EXCEPT ![j] = Defer(@)]
           \/ LeaveOut(j, "target", s) /\ UNCHANGED <<queue, sessVars>>
        /\ CloseThen(j, "loop")
        /\ UNCHANGED <<jobVars, lockVars, at, used, done, last, preferred, history>>

Wake(j) ==
    /\ Settled /\ pc[j] = "sleep"
    /\ Goto(j, "loop")
    /\ UNCHANGED <<jobVars, sessVars, lockVars, queue, at, used, done, last, preferred, out,
                   after, history, faults>>

\* _close_invite_session: the client is disconnected, then the lease released.
Close(j) ==
    /\ Settled /\ pc[j] = "closing"
    /\ Release(at[j])
    /\ ForgetContext({j})
    /\ Goto(j, after[j])
    /\ after' = [after EXCEPT ![j] = "idle"]
    /\ UNCHANGED <<jobVars, sessVars, line, queue, last, preferred, out, history, faults>>

-----------------------------------------------------------------------------
(* The rest of the program, and of the world.                              *)

\* Another operation asks for the lease of a session with wait=True.
OtherJoins(s) ==
    /\ Settled
    /\ owner[s] # Nobody \/ line[s] # <<>>
    /\ Other \notin Range(line[s])
    /\ faults < MaxFaults
    /\ line' = [line EXCEPT ![s] = Append(@, Other)]
    /\ UNCHANGED <<jobVars, sessVars, owner, runVars, history, faults>>

OtherTakes(s) ==
    /\ Settled /\ owner[s] = Nobody /\ line[s] = <<>> /\ faults < MaxFaults
    /\ owner' = [owner EXCEPT ![s] = Other]
    /\ UNCHANGED <<jobVars, sessVars, line, runVars, history, faults>>

\* It is done: all went well, or Telegram made the session wait, or its proxy
\* failed.
OtherEnds(s) ==
    /\ Settled /\ owner[s] = Other
    /\ \/ ProxyWorks(s) /\ UNCHANGED faults
       \/ MarkFlood(s) /\ Fault
       \/ MarkProxy(s) /\ Fault
    /\ Release(s)
    /\ UNCHANGED <<jobVars, line, runVars, history>>

\* POST /api/sessions/{id}/proxy/test, which takes no lease.
TestProxy(s) ==
    /\ Settled /\ Fault
    /\ ProxyWorks(s) \/ MarkProxy(s)
    /\ UNCHANGED <<jobVars, lockVars, runVars, history>>

FloodEnds(s) ==
    /\ Settled /\ floodRuns[s]
    /\ floodRuns' = [floodRuns EXCEPT ![s] = FALSE]
    /\ UNCHANGED <<jobVars, status, proxyFailed, successes, usage, restRuns, lockVars,
                   runVars, history, faults>>

RestEnds(s) ==
    /\ Settled /\ restRuns[s]
    /\ restRuns' = [restRuns EXCEPT ![s] = FALSE]
    /\ UNCHANGED <<jobVars, status, proxyFailed, successes, usage, floodRuns, lockVars,
                   runVars, history, faults>>

\* A new usage date: nobody has invited anyone today.
NewDay ==
    /\ Settled /\ Fault
    /\ usage' = [s \in Sessions |-> 0]
    /\ UNCHANGED <<jobVars, status, proxyFailed, successes, floodRuns, restRuns, lockVars,
                   runVars, history>>

\* The process dies and starts again.  A request under way may have reached
\* Telegram; the jobs that ran are 'approved' again and start at a keypress.
Restart ==
    /\ Fault
    /\ pc' = [j \in Jobs |-> "idle"] /\ Forget(Jobs) /\ ForgetContext(Jobs)
    /\ owner' = [s \in Sessions |-> Nobody]
    /\ line' = [s \in Sessions |-> <<>>]
    /\ jstatus' = [j \in Jobs |-> IF jstatus[j] \in {"running", "queued_execution"}
                                  THEN "approved" ELSE jstatus[j]]
    /\ \E reached \in SUBSET {j \in Jobs : pc[j] = "request"} :
          LET them(j) == IF j \in reached THEN {Head(queue[j])} ELSE {}
          IN  /\ added' = [j \in Jobs |-> added[j] \cup them(j)]
              /\ lost' = [j \in Jobs |-> lost[j] \cup them(j)]
    /\ UNCHANGED <<home, cand, sessVars, stale>>

Run(j) == \/ Claim(j) \/ Loop(j) \/ Opened(j) \/ OpenFails(j) \/ Try(j)
          \/ Invited(j) \/ NotInvited(j) \/ SessionFails(j) \/ Wake(j) \/ Close(j)

Operate(s) == Turn(s) \/ OtherEnds(s)

World(s) == OtherJoins(s) \/ OtherTakes(s) \/ TestProxy(s) \/ FloodEnds(s) \/ RestEnds(s)

Next ==
    \/ \E j \in Jobs : Execute(j) \/ SchedulerStarts(j) \/ Run(j)
    \/ \E s \in Sessions : Operate(s) \/ World(s)
    \/ NewDay \/ Restart

Spec == Init /\ [][Next]_vars

\* Every request is bounded by a timeout, every operation ends, and a coroutine
\* that is ready gets its turn however often the others run in between; nobody
\* has to press a button, run into a limit or test a proxy.
FairSpec ==
    /\ Spec
    /\ \A j \in Jobs : SF_vars(Run(j))
    /\ \A s \in Sessions : SF_vars(Operate(s))

\* The leases are those of session_operation.py, for the jobs and for other
\* operations, of which each session may have one of its own.
Holder(s) == CASE owner[s] = Nobody -> <<>>
               [] owner[s] = Other -> <<Other, s>>
               [] OTHER -> <<owner[s]>>
Holders == [s \in Sessions |-> Holder(s)]
Mutex == INSTANCE SessionMutex WITH
            Tasks  <- {<<j>> : j \in Jobs} \cup {<<Other, s>> : s \in Sessions},
            NoTask <- <<>>, owner <- Holders

\* What the administrator is promised, of the candidates as the table has them.
Completed == {j \in Jobs : jstatus[j] = "completed"}
Promise == INSTANCE InvitePromise WITH verdict <- cand, finished <- Completed

-----------------------------------------------------------------------------
\* What the tables, the leases and the coroutines may hold.
TypeOK ==
    /\ jstatus \in [Jobs -> JobStatuses] /\ home \in [Jobs -> Sessions]
    /\ cand \in [Jobs -> [Candidates -> CandidateStatuses]]
    /\ status \in [Sessions -> Statuses] /\ proxyFailed \in [Sessions -> BOOLEAN]
    /\ successes \in [Sessions -> Nat] /\ usage \in [Sessions -> Nat]
    /\ floodRuns \in [Sessions -> BOOLEAN] /\ restRuns \in [Sessions -> BOOLEAN]
    /\ owner \in [Sessions -> Jobs \cup {Other, Nobody}]
    /\ line \in [Sessions -> Seq(Jobs \cup {Other})]
    /\ pc \in [Jobs -> Places] /\ after \in [Jobs -> {"loop", "idle"}]
    /\ queue \in [Jobs -> Seq(Candidates)]
    /\ at \in [Jobs -> Sessions \cup {NoSession}]
    /\ last \in [Jobs -> Sessions \cup {NoSession}]
    /\ preferred \in [Jobs -> Sessions \cup {NoSession}]
    /\ used \in [Jobs -> Nat] /\ done \in [Jobs -> Nat]
    /\ out \in [Jobs -> [target : SUBSET Sessions, peer : SUBSET Sessions]]
    /\ added \in [Jobs -> SUBSET Candidates] /\ lost \in [Jobs -> SUBSET Candidates]
    /\ stale \subseteq Jobs /\ faults \in 0..MaxFaults

Running(j) == pc[j] \notin {"idle", "ready"}
Using(j) == pc[j] \in {"opening", "try", "request", "sleep"}

\* The queue in memory and the table agree: a running job still has exactly
\* the candidates that are 'eligible' in front of it, each once, however often
\* they were deferred and whatever session failed.
QueueMatchesTable ==
    \A j \in Jobs : Running(j) /\ (pc[j] = "closing" => after[j] = "loop") =>
        /\ ToSet(queue[j]) = Eligible(j)
        /\ Len(queue[j]) = Cardinality(Eligible(j))

\* A run that ends leaves no lease behind, and a run never works without one.
LeaseKept ==
    \A j \in Jobs, s \in Sessions :
        owner[s] = j <=> at[j] = s /\ pc[j] \in {"opening", "loop", "try", "request",
                                                 "sleep", "closing"}

\* Jobs that share sessions do not exceed a session's daily quota between
\* them, as long as no job has waited between reading the count and the lease.
QuotaKept ==
    Quota > 0 /\ stale = {} => \A s \in Sessions : usage[s] <= Quota

\* Nor does a session add more users than its batch limit before it counts from
\* zero, whichever jobs use it in turn, under the same condition.
BatchKept ==
    BatchLimit > 0 /\ stale = {} => \A s \in Sessions : successes[s] < BatchLimit

\* The two limits of a session that jobs count together.
LimitsKept == QuotaKept /\ BatchKept

\* Nor does a job work with a session that rests, under the same condition.
NoUseWhileResting ==
    \A j \in Jobs : Using(j) /\ j \notin stale =>
        status[at[j]] \notin {"flood_wait", "batch_wait"}

\* A user Telegram has added is never asked for again, unless the process died
\* before the answer was recorded.
AddedIsRemembered ==
    \A j \in Jobs : added[j] \ lost[j] \subseteq Candidates \ Eligible(j)

\* The executor, with all its sessions, hand-overs, deferrals, failures and
\* restarts, keeps the promise of InvitePromise: nobody is decided twice or
\* added beside the record, and no job is 'completed' too early.
KeepsPromise == Promise!Spec

\* What that comes to: what is recorded of a candidate is never changed again,
\* by whatever run of the job in whatever session ...
DecidedForGood ==
    [][\A j \in Jobs, c \in Candidates :
         cand[j][c] # "eligible" => cand'[j][c] = cand[j][c]]_vars

\* ... and of a 'completed' job every selected candidate has a final status.
CompletedIsDecided == \A j \in Completed : Eligible(j) = {}

\* A run ends: no combination of limits, failing sessions and used-up quotas
\* keeps the loop turning for ever.
RunEnds == \A j \in Jobs : pc[j] # "idle" ~> pc[j] = "idle"

\* README: "Telegram'in bildirdigi FloodWait suresi kisaltilmaz veya atlanmaz":
\* no job talks to Telegram with a session whose FloodWait still runs.
FloodWaitNotSkipped == \A j \in Jobs : Using(j) => ~floodRuns[at[j]]
=============================================================================
