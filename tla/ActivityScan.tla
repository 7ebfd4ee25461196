---------------------------- MODULE ActivityScan ----------------------------
(***************************************************************************)
(* Activity scans: the handlers of app/main.py that create, run, pause,    *)
(* resume and delete a scan, the task registry and the scheduler loop of   *)
(* app/activity_service.py, and scan_group_activity of                     *)
(* app/telegram_service.py with its choice of sessions and its leases.     *)
(*                                                                         *)
(* A step is what runs between two awaits.  Cancelling a task throws into  *)
(* its current await; a task that is reading messages then still           *)
(* disconnects its client ("leaving") before it ends.                      *)
(***************************************************************************)
EXTENDS Naturals, Sequences, FiniteSets

CONSTANTS Scans,      \* ids of activity_scans rows
          Recurring,  \* those with recurring = 1
          NSessions,  \* telegram_sessions rows, in the order of their ids
          Quota,      \* app_settings: activity_daily_quota
          Nobody,     \* no holder of a lease
          MaxRequests, \* bound: handlers called
          MaxEvents   \* bound: failures, restarts, licence losses, new days

Sessions == 1..NSessions
NoSession == 0

ASSUME ScansAssumption == Recurring \subseteq Scans /\ Nobody \notin Scans /\ IsFiniteSet(Scans)
ASSUME BoundsAssumption == /\ NSessions \in Nat \ {0} /\ Quota \in Nat \ {0}
                           /\ MaxRequests \in Nat /\ MaxEvents \in Nat

VARIABLES
    status,    \* activity_scans.status, "absent" before and "gone" after
    due,       \* next_run_at is not in the future
    home,      \* activity_scans.session_id
    results,   \* the scan has rows in activity_results
    usage,     \* session_usage_daily.operation_count of today
    usable,    \* session with data, proxy and a suitable status
    cursor,    \* app_settings: activity_round_robin_cursor
    owner,     \* who holds the lease of a session
    place,     \* where the task of a scan stands
    tries,     \* session_ids[i:] of the loop in scan_group_activity
    outcome,   \* what a leaving task is about to report
    deleting,  \* a delete handler awaits the end of the task
    licensed,  \* local_license_status()
    requests, events

rowVars   == <<status, due, home, results>>
sessVars  == <<usage, usable, cursor, owner>>
taskVars  == <<place, tries, outcome>>
vars == <<rowVars, sessVars, taskVars, deleting, licensed, requests, events>>

Waiting == {"scheduled", "waiting"}
Statuses == Waiting \cup {"absent", "gone", "queued", "running", "paused", "completed",
                          "error", "deleting"}
Places == {"none", "created", "lined", "access", "reading", "leaving"}
Outcomes == {"none", "ok", "flood", "error", "cancelled"}

Request == requests < MaxRequests /\ requests' = requests + 1 /\ UNCHANGED events
Event == events < MaxEvents /\ events' = events + 1 /\ UNCHANGED requests
Quiet == UNCHANGED <<requests, events>>
Become(a, s) == status' = [status EXCEPT ![a] = s]

Init ==
    /\ status = [a \in Scans |-> "absent"]
    /\ due = [a \in Scans |-> FALSE]
    /\ home = [a \in Scans |-> NoSession]
    /\ results = [a \in Scans |-> FALSE]
    /\ usage = [x \in Sessions |-> 0]
    /\ usable = [x \in Sessions |-> TRUE]
    /\ cursor = NoSession
    /\ owner = [x \in Sessions |-> Nobody]
    /\ place = [a \in Scans |-> "none"]
    /\ tries = [a \in Scans |-> <<>>]
    /\ outcome = [a \in Scans |-> "none"]
    /\ deleting = [a \in Scans |-> FALSE]
    /\ licensed = TRUE
    /\ requests = 0 /\ events = 0

-----------------------------------------------------------------------------
(* _activity_session_candidates.                                           *)

AvailableCountingFirst(x) == usable[x] /\ usage[x] <= Quota
Available(x) == usable[x] /\ usage[x] < Quota

\* The place of session x in a round that begins after session k.
Rank(x, k) == (x + NSessions - k - 1) % NSessions

\* The sessions to try: the one the scan belongs to, else all available ones in
\* the order of the round robin.  There is one such list.
SessionIds(a) ==
    LET from == IF home[a] # NoSession THEN home[a] ELSE cursor
        isRound(ids) ==
            /\ {ids[i] : i \in DOMAIN ids} = {x \in Sessions : Available(x)}
            /\ \A i, j \in DOMAIN ids : i < j => Rank(ids[i], from) < Rank(ids[j], from)
    IN  IF home[a] # NoSession /\ Available(home[a]) THEN {<<home[a]>>}
        ELSE {ids \in UNION {[1..n -> Sessions] : n \in 0..NSessions} : isRound(ids)}

-----------------------------------------------------------------------------
(* The task.                                                               *)

\* start_activity_scan: a task that has not ended stands for the new one too.
Start(a) == place' = [place EXCEPT ![a] = IF @ = "none" THEN "created" ELSE @]

EndKeepingLease(a, s, stored) ==
    /\ Become(a, s) /\ place' = [place EXCEPT ![a] = "none"]
    /\ UNCHANGED <<results, owner, tries, outcome, deleting>>
EndKeepingResults(a, s, stored) ==
    /\ Become(a, IF deleting[a] THEN "gone" ELSE s) /\ place' = [place EXCEPT ![a] = "none"]
    /\ results' = [results EXCEPT ![a] = @ \/ stored]
    /\ owner' = [x \in Sessions |-> IF owner[x] = a THEN Nobody ELSE owner[x]]
    /\ UNCHANGED <<tries, outcome, deleting>>
\* The task is over, and the row gets the status s whatever it has by now.  A
\* delete handler that awaits the end goes on and removes the row, its results
\* with it.  One turn of the loop lies between the two: a run or resume that
\* comes in there may start a task, which finds no row and returns.
End(a, s, stored) ==
    LET final == IF deleting[a] THEN "gone" ELSE s
    IN  /\ place' = [place EXCEPT ![a] = "none"]
        /\ tries' = [tries EXCEPT ![a] = <<>>]
        /\ outcome' = [outcome EXCEPT ![a] = "none"]
        /\ owner' = [x \in Sessions |-> IF owner[x] = a THEN Nobody ELSE owner[x]]
        /\ deleting' = [deleting EXCEPT ![a] = FALSE]
        /\ Become(a, final)
        /\ results' = [results EXCEPT ![a] = (@ \/ stored) /\ final # "gone"]

PutOff(a) == due' = [due EXCEPT ![a] = FALSE]
KeepRest == UNCHANGED <<usage, cursor, licensed>>

\* Its first step.  Without a licence or a row it is over; else the scan is
\* 'running', and the sessions are chosen: none fits, all are used up, or the
\* lease of the first is asked for.
Begin(a) ==
    /\ place[a] = "created"
    /\ \/ /\ ~licensed \/ status[a] = "gone"
          /\ End(a, status[a], FALSE) /\ UNCHANGED due
       \/ /\ licensed /\ status[a] # "gone" /\ \A x \in Sessions : ~Available(x)
          /\ \/ (\E x \in Sessions : usable[x]) /\ End(a, "waiting", FALSE) /\ PutOff(a)
             \/ (\A x \in Sessions : ~usable[x]) /\ End(a, "error", FALSE) /\ UNCHANGED due
       \/ /\ licensed /\ status[a] # "gone" /\ \E x \in Sessions : Available(x)
          /\ Become(a, "running")
          /\ \E ids \in SessionIds(a) : tries' = [tries EXCEPT ![a] = ids]
          /\ place' = [place EXCEPT ![a] = "lined"]
          /\ UNCHANGED <<due, results, outcome, owner, deleting>>
    /\ UNCHANGED <<home, usable>> /\ KeepRest /\ Quiet

TakeLease(a) ==
    /\ place[a] = "lined" /\ owner[Head(tries[a])] = Nobody
    /\ owner' = [owner EXCEPT ![Head(tries[a])] = a]
    /\ place' = [place EXCEPT ![a] = "access"]
    /\ UNCHANGED <<rowVars, usable, tries, outcome, deleting>> /\ KeepRest /\ Quiet

\* The client is open and the group resolved: one operation more today.
Access(a) ==
    LET x == Head(tries[a])
    IN  /\ place[a] = "access"
        /\ place' = [place EXCEPT ![a] = "reading"]
        /\ usage' = [usage EXCEPT ![x] = @ + 1]
        /\ cursor' = IF home[a] = NoSession THEN x ELSE cursor
        /\ UNCHANGED <<rowVars, usable, owner, tries, outcome, deleting, licensed>> /\ Quiet

\* It is not: the join request waits for an administrator, Telegram limits the
\* session, or its proxy or the group fails and the next session is tried.  The
\* scan is 'error' when no session is left, or, with sessions left to try, when
\* the client of this one cannot be disconnected.
AccessFails(a) ==
    LET x == Head(tries[a])
    IN  /\ place[a] = "access" /\ Event
        /\ \/ /\ End(a, "waiting", FALSE) /\ PutOff(a)
              /\ home' \in {home, [home EXCEPT ![a] = x]}
              /\ UNCHANGED usable
           \/ /\ usable' \in {usable, [usable EXCEPT ![x] = FALSE]}
              /\ UNCHANGED <<due, home>>
              /\ \/ End(a, "error", FALSE)
                 \/ /\ Tail(tries[a]) # <<>>
                    /\ owner' = [owner EXCEPT ![x] = Nobody]
                    /\ tries' = [tries EXCEPT ![a] = Tail(@)]
                    /\ place' = [place EXCEPT ![a] = "lined"]
                    /\ UNCHANGED <<status, results, outcome, deleting>>
        /\ KeepRest

Leave(a, why) ==
    /\ place' = [place EXCEPT ![a] = "leaving"]
    /\ outcome' = [outcome EXCEPT ![a] = why]

\* All messages are read, or Telegram or the connection put an end to it.
Read(a) ==
    /\ place[a] = "reading"
    /\ \/ Leave(a, "ok") /\ Quiet
       \/ Leave(a, "flood") /\ Event
       \/ Leave(a, "error") /\ Event
    /\ UNCHANGED <<rowVars, usable, owner, tries, deleting>> /\ KeepRest

\* The client is disconnected, the lease released, and the outcome stored; a
\* cancelled task stores nothing.
Finish(a) ==
    /\ place[a] = "leaving"
    /\ \/ /\ outcome[a] = "ok"
          /\ End(a, IF a \in Recurring THEN "scheduled" ELSE "completed", TRUE)
          /\ PutOff(a)
          /\ home' = [home EXCEPT ![a] = Head(tries[a])]
       \/ outcome[a] = "flood" /\ End(a, "waiting", FALSE) /\ PutOff(a) /\ UNCHANGED home
       \/ outcome[a] = "error" /\ End(a, "error", FALSE) /\ UNCHANGED <<due, home>>
       \/ outcome[a] = "cancelled" /\ End(a, status[a], FALSE) /\ UNCHANGED <<due, home>>
    /\ UNCHANGED usable /\ KeepRest /\ Quiet

\* The disconnection fails: its exception takes the place of whatever the task
\* was about to report, a cancellation included.
DisconnectFails(a) ==
    /\ place[a] = "leaving" /\ outcome[a] # "error" /\ Event
    /\ outcome' = [outcome EXCEPT ![a] = "error"]
    /\ UNCHANGED <<rowVars, usable, owner, place, tries, deleting>> /\ KeepRest

-----------------------------------------------------------------------------
(* The handlers and the scheduler.                                         *)

HandlerRest == UNCHANGED <<home, usable>> /\ KeepRest /\ Request
Enqueue(a) ==
    /\ Become(a, "queued")
    /\ due' = [due EXCEPT ![a] = TRUE]
    /\ Start(a)
    /\ UNCHANGED <<results, owner, tries, outcome, deleting>>

Create(a) == status[a] = "absent" /\ Enqueue(a) /\ HandlerRest

RunNow(a) == status[a] \notin {"absent", "gone", "queued", "running"} /\ Enqueue(a) /\ HandlerRest

Resume(a) == status[a] = "paused" /\ Enqueue(a) /\ HandlerRest

CancelReading(a, s) ==
    /\ IF place[a] = "reading" THEN Leave(a, "cancelled") ELSE UNCHANGED <<place, outcome>>
    /\ Become(a, s)
    /\ deleting' = [deleting EXCEPT ![a] = @ \/ s = "deleting"]
    /\ UNCHANGED <<results, owner, tries>>
\* The row gets status s and its task is cancelled: a client has to be
\* disconnected first, or it is over, and with it what a delete waits for.
Cancel(a, s) ==
    \/ /\ place[a] \in {"reading", "leaving"}
       /\ Leave(a, "cancelled")
       /\ Become(a, s)
       /\ deleting' = [deleting EXCEPT ![a] = @ \/ s = "deleting"]
       /\ UNCHANGED <<results, owner, tries>>
    \/ /\ place[a] \notin {"reading", "leaving"}
       /\ End(a, IF s = "deleting" THEN "gone" ELSE s, FALSE)

Pause(a) ==
    /\ status[a] \in {"queued", "running"} \cup Waiting
    /\ Cancel(a, "paused") /\ UNCHANGED due /\ HandlerRest

Delete(a) ==
    /\ status[a] \notin {"absent", "gone", "queued", "running"}
    /\ Cancel(a, "deleting") /\ PutOff(a) /\ HandlerRest

PickedWaiting(a) == status[a] \in Waiting /\ due[a]
\* activity_scheduler_loop.
Picked(a) == status[a] \in {"queued"} \cup Waiting /\ due[a]
SchedulerStarts(a) ==
    /\ licensed /\ Picked(a)
    /\ place[a] = "none" /\ Start(a)
    /\ UNCHANGED <<rowVars, usable, owner, tries, outcome, deleting>> /\ KeepRest /\ Quiet

-----------------------------------------------------------------------------
(* Time, the licence, the sessions, and restarts.                          *)

RunTime(a) ==
    /\ status[a] \in Waiting /\ ~due[a]
    /\ due' = [due EXCEPT ![a] = TRUE]
    /\ UNCHANGED <<status, home, results, usable, owner, taskVars, deleting>>
    /\ KeepRest /\ Quiet

NewDay ==
    /\ Event
    /\ usage' = [x \in Sessions |-> 0]
    /\ UNCHANGED <<rowVars, usable, cursor, owner, taskVars, deleting, licensed>>

LicenceChanges ==
    /\ licensed' = ~licensed
    /\ IF licensed THEN Event ELSE Quiet
    /\ UNCHANGED <<rowVars, sessVars, taskVars, deleting>>

SessionChanges(x) ==
    /\ Event
    /\ usable' = [usable EXCEPT ![x] = ~@]
    /\ UNCHANGED <<rowVars, owner, taskVars, deleting>> /\ KeepRest

AfterRestartAsBefore(a) == status[a]
AfterRestart(a) == IF status[a] = "running" THEN "queued" ELSE status[a]

\* The process stops, or dies, and starts again: what ran is queued again.
Restart ==
    /\ Event
    /\ status' = [a \in Scans |-> AfterRestart(a)]
    /\ due' = [a \in Scans |-> due[a] \/ status[a] = "running"]
    /\ place' = [a \in Scans |-> "none"]
    /\ tries' = [a \in Scans |-> <<>>]
    /\ outcome' = [a \in Scans |-> "none"]
    /\ owner' = [x \in Sessions |-> Nobody]
    /\ deleting' = [a \in Scans |-> FALSE]
    /\ UNCHANGED <<home, results, usable>> /\ KeepRest

Step(a) == Begin(a) \/ TakeLease(a) \/ Access(a) \/ AccessFails(a) \/ Read(a) \/ Finish(a)
Handler(a) == Create(a) \/ RunNow(a) \/ Resume(a) \/ Pause(a) \/ Delete(a)

Next ==
    \/ \E a \in Scans : \/ Step(a) \/ Handler(a) \/ DisconnectFails(a)
                        \/ SchedulerStarts(a) \/ RunTime(a)
    \/ \E x \in Sessions : SessionChanges(x)
    \/ NewDay \/ LicenceChanges \/ Restart

Spec == Init /\ [][Next]_vars

\* Requests to Telegram end, the lock of a session is fair, the scheduler polls
\* and time passes; nobody has to press a button or renew a licence.
FairSpec ==
    /\ Spec
    /\ \A a \in Scans : SF_vars(Step(a)) /\ WF_vars(SchedulerStarts(a)) /\ WF_vars(RunTime(a))

\* The leases are those of session_operation.py.
Mutex == INSTANCE SessionMutex WITH Tasks <- Scans, NoTask <- Nobody

-----------------------------------------------------------------------------
TypeOK ==
    /\ status \in [Scans -> Statuses] /\ place \in [Scans -> Places]
    /\ due \in [Scans -> BOOLEAN] /\ results \in [Scans -> BOOLEAN]
    /\ deleting \in [Scans -> BOOLEAN]
    /\ home \in [Scans -> Sessions \cup {NoSession}]
    /\ usage \in [Sessions -> Nat] /\ usable \in [Sessions -> BOOLEAN]
    /\ cursor \in Sessions \cup {NoSession}
    /\ owner \in [Sessions -> Scans \cup {Nobody}]
    /\ tries \in [Scans -> Seq(Sessions)]
    /\ outcome \in [Scans -> Outcomes]
    /\ licensed \in BOOLEAN

\* A lease is held by the scan that uses the session, and by nobody else:
\* paused, deleted and failed scans have given it back.
LeaseMatches ==
    \A a \in Scans, x \in Sessions :
        owner[x] = a <=> /\ place[a] \in {"access", "reading", "leaving"}
                         /\ x = Head(tries[a])

\* 'running' is left only by the task: there is one.
RunningHasTask ==
    \A a \in Scans : status[a] = "running" => place[a] \in {"lined", "access", "reading", "leaving"}

\* A deleted scan leaves no task, no lease and no results behind.
DeletedIsQuiet ==
    \A a \in Scans : status[a] = "gone" => place[a] = "none" /\ ~results[a]

\* The quota is checked before the scan waits for the lease and counted after:
\* the scans under way may exceed it together, by one each and no more.
Pending(x) == {a \in Scans : place[a] \in {"lined", "access"}
                             /\ \E i \in DOMAIN tries[a] : tries[a][i] = x}
OvershootBounded ==
    \A x \in Sessions :
        usage[x] + Cardinality(Pending(x)) < Quota + Cardinality(Scans)

\* A paused scan stays paused, whatever its task was doing, until somebody runs,
\* resumes or deletes it; only a disconnection that fails may report an error.
PausedStays ==
    [][\A a \in Scans : status[a] = "paused" /\ outcome[a] # "error"
                        => status'[a] \in {"paused", "queued", "deleting", "gone"}]_vars

\* Results go only with their scan, and what is deleted does not come back: no
\* task that was still under way, no scheduler and no restart writes to the
\* row again.
DeletedForGood ==
    [][\A a \in Scans : /\ status[a] = "gone" => status'[a] = "gone"
                        /\ results[a] => results'[a] \/ status'[a] = "gone"]_vars

\* A task ends: each of its steps brings it nearer to its end, and what else
\* happens to a scan with a task does not take it away again.  A task that
\* tries one session after the other has two steps for each.
ToGoAt(stands, left) ==
    CASE stands = "none" -> 0
      [] stands = "leaving" -> 1
      [] stands = "reading" -> 2
      [] stands = "access" -> 2 * left + 1
      [] stands = "lined" -> 2 * left + 2
      [] stands = "created" -> 2 * NSessions + 3
ToGo(a) == ToGoAt(place[a], Len(tries[a]))
NearsItsEnd ==
    [][\A a \in Scans : /\ place[a] # "none" => ToGo(a)' <= ToGo(a)
                        /\ Step(a) => ToGo(a)' < ToGo(a)]_vars

\* What is queued or scheduled is begun, also when it was queued while its last
\* task was still on its way out, unless the licence is lost.
QueuedRuns ==
    \A a \in Scans : status[a] \in {"queued", "scheduled"}
                     ~> status[a] \notin {"queued", "scheduled"} \/ ~licensed
=============================================================================
