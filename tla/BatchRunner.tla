---------------------------- MODULE BatchRunner ----------------------------
(***************************************************************************)
(* Group preparation batches (app/group_access_service.py) and session     *)
(* health batches (app/session_health_service.py), with the handlers of    *)
(* app/main.py that create, resume and stop them and the startup and       *)
(* shutdown code that repairs them.  Both kinds have a row per batch, a    *)
(* row per session to process, and at most one asyncio task that works     *)
(* through the rows; where they differ, the kind of the batch decides.     *)
(*                                                                         *)
(* A task runs without interruption from one await to the next: while its  *)
(* place is "loop" nothing else happens (Settled).                         *)
(***************************************************************************)
EXTENDS Integers, FiniteSetsExt

CONSTANTS AccessBatches,  \* ids of group_access_batches rows
          HealthBatches,  \* ids of session_health_batches rows
          Items,          \* positions of the items of every batch
          NoItem,         \* current_item_id is None
          MaxActs         \* bound: resumes, stops, restarts, failing disconnects

ASSUME BatchAssumption == AccessBatches \cap HealthBatches = {}
ASSUME ItemAssumption == Items \subseteq Nat /\ IsFiniteSet(Items) /\ NoItem \notin Items
ASSUME ActsAssumption == MaxActs \in Nat

Batches == AccessBatches \cup HealthBatches

VARIABLES
    bstatus,    \* status of the batch row ("none": not created)
    item,       \* status of each item row
    processed,  \* processed_count of the batch row
    waiting,    \* next_action_at of the batch row lies in the future
    place,      \* where the task of the batch stands ("none": no live task)
    cur,        \* current_item_id
    next,       \* what follows the `finally' that closes the client
    cancelled,  \* the task is to be thrown a CancelledError
    torn,       \* history: items left behind by a task cut off from its clean-up
    acts

rowVars  == <<bstatus, item, processed, waiting>>
taskVars == <<place, cur, next, cancelled>>
vars     == <<rowVars, taskVars, torn, acts>>

BatchStatuses == {"none", "queued", "running", "paused", "stopped", "completed"}
\* already_member, joined, ready / approval_pending, attention, failed, busy,
\* waiting: what matters of a verdict is whether the item may be repeated.
Verdicts      == {"ready", "repeatable"}
ItemStatuses  == {"queued", "checking"} \cup Verdicts
Places        == {"none", "new", "loop", "work", "leaving", "sleep"}

With(b, it, st) == {i \in Items : it[b][i] \in st}
Settled == \A b \in Batches : place[b] # "loop"
Act == acts < MaxActs /\ acts' = acts + 1
\* The task has an item without a verdict, which its clean-up would put back.
Unjudged(b) == place[b] = "work" \/ (place[b] = "leaving" /\ next[b] = "cancel")

\* _refresh_batch_counts and _refresh_health_counts, after the items `it'.
Refresh(b, it) ==
    processed' = [processed EXCEPT ![b] = Cardinality(With(b, it, Verdicts))]

SetItem(b, i, st) == item' = [item EXCEPT ![b][i] = st]
Become(b, st)     == bstatus' = [bstatus EXCEPT ![b] = st]
Goto(b, p)        == place' = [place EXCEPT ![b] = p]

\* The task is over.
EndTask(b) ==
    /\ Goto(b, "none")
    /\ cur' = [cur EXCEPT ![b] = NoItem]
    /\ next' = [next EXCEPT ![b] = "loop"]
    /\ cancelled' = [cancelled EXCEPT ![b] = FALSE]

Init ==
    /\ bstatus = [b \in Batches |-> "none"]
    /\ item = [b \in Batches |-> [i \in Items |-> "queued"]]
    /\ processed = [b \in Batches |-> 0]
    /\ waiting = [b \in Batches |-> FALSE]
    /\ place = [b \in Batches |-> "none"]
    /\ cur = [b \in Batches |-> NoItem]
    /\ next = [b \in Batches |-> "loop"]
    /\ cancelled = [b \in Batches |-> FALSE]
    /\ torn = {}
    /\ acts = 0

-----------------------------------------------------------------------------
(* The handlers.                                                           *)

\* start_..._batch: the live task is kept, whatever state it is in.
Start(b) == place' = [place EXCEPT ![b] = IF @ = "none" THEN "new" ELSE @]

Create(b) ==
    /\ Settled /\ bstatus[b] = "none"
    /\ Become(b, "queued")
    /\ Start(b)
    /\ UNCHANGED <<item, processed, waiting, cur, next, cancelled, torn, acts>>

\* What may be repeated is queued again.
Requeue(b) == item' = [item EXCEPT ![b] =
                  [i \in Items |-> IF @[i] = "repeatable" THEN "queued" ELSE @[i]]]

\* resume: a preparation batch repeats its failures only once it is completed
\* and not before Telegram's wait is over; a health batch always does.
Resume(b) ==
    /\ Settled /\ Act
    /\ bstatus[b] \in {"paused", "stopped", "completed"}
    /\ b \in AccessBatches => ~waiting[b]
    /\ IF b \in HealthBatches
       THEN Requeue(b) /\ With(b, item, {"repeatable", "queued"}) # {}
       ELSE IF bstatus[b] = "completed"
            THEN Requeue(b) /\ With(b, item, {"repeatable"}) # {}
            ELSE UNCHANGED item
    /\ Become(b, "queued")
    /\ Start(b)
    /\ UNCHANGED <<processed, waiting, cur, next, cancelled, torn>>

\* stop: the row first, then task.cancel(); the handler waits for the task.
Stop(b) ==
    /\ Settled /\ Act
    /\ bstatus[b] \in {"queued", "running", "paused"}
    /\ Become(b, "stopped")
    /\ waiting' = [waiting EXCEPT ![b] = FALSE]
    /\ cancelled' = [cancelled EXCEPT ![b] = place[b] # "none"]
    /\ UNCHANGED <<item, processed, place, cur, next, torn>>

WaitEnds(b) ==
    /\ Settled /\ waiting[b]
    /\ waiting' = [waiting EXCEPT ![b] = FALSE]
    /\ UNCHANGED <<bstatus, item, processed, taskVars, torn, acts>>

-----------------------------------------------------------------------------
(* The task.                                                               *)

\* The first step claims the batch; a task cancelled before it never starts.
Begin(b) ==
    /\ Settled /\ place[b] = "new"
    /\ IF ~cancelled[b] /\ bstatus[b] = "queued"
       THEN /\ Become(b, "running") /\ Goto(b, "loop")
            /\ waiting' = [waiting EXCEPT ![b] = FALSE]
            /\ UNCHANGED <<cur, next, cancelled>>
       ELSE EndTask(b) /\ UNCHANGED <<bstatus, waiting>>
    /\ UNCHANGED <<item, processed, torn, acts>>

\* The batch is no longer 'running': leave it as it is.
GiveWay(b) ==
    /\ bstatus[b] # "running"
    /\ EndTask(b)
    /\ UNCHANGED rowVars

Complete(b) ==
    /\ bstatus[b] = "running" /\ With(b, item, {"queued"}) = {}
    /\ Refresh(b, item)
    /\ Become(b, "completed")
    /\ waiting' = [waiting EXCEPT ![b] = FALSE]
    /\ EndTask(b)
    /\ UNCHANGED item

\* The next item is 'checking', and the task awaits its session.
Pick(b) ==
    LET queued == With(b, item, {"queued"})
    IN  /\ bstatus[b] = "running" /\ queued # {}
        /\ SetItem(b, Min(queued), "checking")
        /\ cur' = [cur EXCEPT ![b] = Min(queued)]
        /\ Goto(b, "work")
        /\ UNCHANGED <<bstatus, processed, waiting, next, cancelled>>

\* A health batch judges a session that is busy, waiting or without a proxy
\* on the spot.
Judge(b) ==
    LET queued == With(b, item, {"queued"})
    IN  /\ b \in HealthBatches /\ bstatus[b] = "running" /\ queued # {}
        /\ SetItem(b, Min(queued), "repeatable")
        /\ Refresh(b, [item EXCEPT ![b][Min(queued)] = "repeatable"])
        /\ UNCHANGED <<bstatus, waiting, taskVars>>

Loop(b) ==
    /\ place[b] = "loop"
    /\ GiveWay(b) \/ Complete(b) \/ Pick(b) \/ Judge(b)
    /\ UNCHANGED <<torn, acts>>

\* The item has its verdict; the client is closed next.
Finish(b) ==
    /\ Settled /\ place[b] = "work" /\ ~cancelled[b]
    /\ \E verdict \in Verdicts : SetItem(b, cur[b], verdict)
    /\ Goto(b, "leaving")
    /\ UNCHANGED <<bstatus, processed, waiting, cur, next, cancelled, torn, acts>>

LimitGoingOn(b) ==
    /\ Settled /\ place[b] = "work" /\ ~cancelled[b] /\ b \in AccessBatches
    /\ SetItem(b, cur[b], "queued")
    /\ Refresh(b, [item EXCEPT ![b][cur[b]] = "queued"])
    /\ Goto(b, "leaving")
    /\ UNCHANGED <<bstatus, waiting, cur, next, cancelled, torn, acts>>
\* FloodWait or PeerFlood: the item goes back and the whole batch pauses.
Limit(b) ==
    /\ Settled /\ place[b] = "work" /\ ~cancelled[b] /\ b \in AccessBatches
    /\ SetItem(b, cur[b], "queued")
    /\ Refresh(b, [item EXCEPT ![b][cur[b]] = "queued"])
    /\ Become(b, "paused")
    /\ waiting' = [waiting EXCEPT ![b] = TRUE]
    /\ Goto(b, "leaving")
    /\ next' = [next EXCEPT ![b] = "return"]
    /\ UNCHANGED <<cur, cancelled, torn, acts>>

\* The CancelledError arrives while the session is worked on.
Interrupted(b) ==
    /\ Settled /\ place[b] = "work" /\ cancelled[b]
    /\ Goto(b, "leaving")
    /\ next' = [next EXCEPT ![b] = "cancel"]
    /\ cancelled' = [cancelled EXCEPT ![b] = FALSE]
    /\ UNCHANGED <<rowVars, cur, torn, acts>>

CleanUpUnguarded(b) ==
    LET after == [item EXCEPT ![b] =
                     [i \in Items |-> IF i = cur[b] THEN "queued" ELSE @[i]]]
    IN  /\ item' = after
        /\ Refresh(b, after)
        /\ bstatus' = [bstatus EXCEPT ![b] = "paused"]
        /\ waiting' = [waiting EXCEPT ![b] = FALSE]
        /\ EndTask(b)
CleanUpBatchOnly(b) ==
    /\ Refresh(b, item)
    /\ bstatus' = [bstatus EXCEPT ![b] = IF @ = "running" THEN "paused" ELSE @]
    /\ EndTask(b)
    /\ UNCHANGED <<item, waiting>>
\* The handler of CancelledError.
CleanUp(b) ==
    LET after == [item EXCEPT ![b] =
                     [i \in Items |-> IF i = cur[b] /\ @[i] = "checking" THEN "queued"
                                      ELSE @[i]]]
    IN  /\ item' = after
        /\ Refresh(b, after)
        /\ bstatus' = [bstatus EXCEPT ![b] = IF @ = "running" THEN "paused" ELSE @]
        /\ waiting' = [waiting EXCEPT ![b] = @ /\ bstatus[b] # "running"]
        /\ EndTask(b)

\* The client is disconnected and the lease released.
Leave(b) ==
    /\ Settled /\ place[b] = "leaving"
    /\ \/ (cancelled[b] \/ next[b] = "cancel") /\ CleanUp(b)
       \/ ~cancelled[b] /\ next[b] = "return" /\ EndTask(b) /\ UNCHANGED rowVars
       \/ /\ ~cancelled[b] /\ next[b] = "loop"
          /\ Refresh(b, item)
          /\ cur' = [cur EXCEPT ![b] = NoItem]
          /\ Goto(b, IF bstatus[b] = "running" /\ With(b, item, {"queued"}) # {}
                     THEN "sleep" ELSE "loop")
          /\ UNCHANGED <<bstatus, item, waiting, next, cancelled>>
    /\ UNCHANGED <<torn, acts>>

\* client.disconnect() raises: no handler catches it, and the task ends as it
\* stands.
LeaveFails(b) ==
    /\ Settled /\ Act /\ place[b] = "leaving"
    /\ EndTask(b)
    /\ torn' = torn \cup (IF Unjudged(b) THEN {<<b, cur[b]>>} ELSE {})
    /\ UNCHANGED rowVars

\* The delay between two sessions is over, or cut short by a cancellation.
Wake(b) ==
    /\ Settled /\ place[b] = "sleep"
    /\ IF cancelled[b] THEN CleanUp(b)
       ELSE Goto(b, "loop") /\ UNCHANGED <<rowVars, cur, next, cancelled>>
    /\ UNCHANGED <<torn, acts>>

-----------------------------------------------------------------------------
(* The process.                                                            *)

NoTasks ==
    /\ place' = [b \in Batches |-> "none"]
    /\ cur' = [b \in Batches |-> NoItem]
    /\ next' = [b \in Batches |-> "loop"]
    /\ cancelled' = [b \in Batches |-> FALSE]

RepairedRowsOnly(kind) ==
    /\ bstatus' = [b \in Batches |->
                   IF bstatus[b] \in {"running", "queued"} THEN "paused" ELSE bstatus[b]]
    /\ waiting' = [b \in Batches |-> waiting[b] /\ bstatus[b] \notin {"running", "queued"}]
    /\ UNCHANGED <<item, processed>>
\* What the repair does to the batches of one kind whose items are in scope.
Repaired(kind) ==
    /\ item' = [b \in Batches |-> [i \in Items |->
                   IF b \in kind /\ item[b][i] = "checking" THEN "queued" ELSE item[b][i]]]
    /\ bstatus' = [b \in Batches |->
                   IF bstatus[b] \in {"running", "queued"} THEN "paused" ELSE bstatus[b]]
    /\ waiting' = [b \in Batches |-> waiting[b] /\ bstatus[b] \notin {"running", "queued"}]
    /\ UNCHANGED processed

\* stop_group_access_batches and stop_session_health_batches: every item that
\* is being checked goes back.
Shutdown ==
    /\ Act
    /\ NoTasks
    /\ Repaired(Batches)
    /\ UNCHANGED torn

Interruption(kind) == \E b \in kind : bstatus[b] \in {"running", "queued"}

\* The process dies; the next start repairs a kind of batch only if it finds
\* one of its batches 'running' or 'queued'.
Crash ==
    LET scope == UNION {kind \in {AccessBatches, HealthBatches} : Interruption(kind)}
    IN  /\ Act
        /\ NoTasks
        /\ Repaired(scope)
        /\ torn' = torn \cup {<<b, cur[b]>> : b \in {x \in Batches \ scope : Unjudged(x)}}

Work(b) == Begin(b) \/ Loop(b) \/ Finish(b) \/ Limit(b) \/ Interrupted(b) \/ Leave(b) \/ Wake(b)

Next ==
    \/ \E b \in Batches : Create(b) \/ Resume(b) \/ Stop(b) \/ WaitEnds(b)
    \/ \E b \in Batches : Work(b) \/ LeaveFails(b)
    \/ Shutdown \/ Crash

Spec == Init /\ [][Next]_vars

\* Ready coroutines get their turn, and every Telegram call has a timeout.
FairSpec == Spec /\ \A b \in Batches : SF_vars(Work(b))

-----------------------------------------------------------------------------
TypeOK ==
    /\ bstatus \in [Batches -> BatchStatuses]
    /\ item \in [Batches -> [Items -> ItemStatuses]]
    /\ processed \in [Batches -> 0..Cardinality(Items)]
    /\ waiting \in [Batches -> BOOLEAN]
    /\ place \in [Batches -> Places]
    /\ cur \in [Batches -> Items \cup {NoItem}]
    /\ next \in [Batches -> {"loop", "return", "cancel"}]
    /\ cancelled \in [Batches -> BOOLEAN]
    /\ torn \subseteq Batches \X (Items \cup {NoItem}) /\ acts \in 0..MaxActs

\* A batch that reports "{total_count} session islendi" has a verdict for every
\* session but those left behind (torn), and its counter is the number of
\* verdicts.
CompletedMeansProcessed ==
    \A b \in Batches :
        bstatus[b] = "completed" =>
            /\ \A i \in Items : <<b, i>> \in torn \/ item[b][i] \in Verdicts
            /\ processed[b] = Cardinality(With(b, item, Verdicts))

\* An item is 'checking' only while a task is on it, except one that its task
\* left behind: the code does leave such an item 'checking', for ever if no
\* start repairs it, when the process dies between the 'stopped' of the stop
\* handler and the clean-up of the task, or when the disconnect of an
\* interrupted task raises.  It is one item each time; those before and after
\* it are not excluded, nor is the batch when it is resumed.
CheckingHasTask ==
    \A b \in Batches, i \in Items :
        item[b][i] = "checking" /\ <<b, i>> \notin torn =>
            cur[b] = i /\ place[b] \in {"work", "leaving"}

\* A batch the user stopped stays stopped until the user resumes it, whatever
\* its task still does on its way out.
StoppedStays ==
    [][\A b \in Batches :
         bstatus[b] = "stopped" => bstatus'[b] \in {"stopped", "queued"}]_vars

\* A session found ready is done for good: no resumption, stop, crash or
\* clean-up puts its item back, so nobody joins a group or asks about a
\* session again for a batch that has its verdict.
ReadyStays ==
    [][\A b \in Batches, i \in Items :
         item[b][i] = "ready" => item'[b][i] = "ready"]_vars

\* A task ends: a limited or failing session never keeps it going in circles.
TaskEnds == \A b \in Batches : place[b] # "none" ~> place[b] = "none"

\* Why it ends: every step of a task brings it nearer to its end, and nothing
\* but a creation or a resumption takes it further away.  So from one of those
\* to the next it takes four steps for an item and five others at most.
RankAt(stands, after, left) ==
    CASE stands = "none" -> 0
      [] stands = "leaving" /\ after # "loop" -> 1
      [] stands = "loop" -> left + 2
      [] stands \in {"new", "sleep"} -> left + 3
      [] stands = "leaving" /\ after = "loop" -> left + 4
      [] stands = "work" -> left + 5
Rank(b) == RankAt(place[b], next[b], 4 * Cardinality(With(b, item, {"queued"})))
NearsItsEnd ==
    [][\A b \in Batches : /\ Rank(b)' <= Rank(b) \/ Create(b) \/ Resume(b)
                          /\ Work(b) => Rank(b)' < Rank(b)]_vars

\* main.py refuses to resume a 'running' or 'queued' batch because it "zaten
\* calisiyor" (is already working): such a batch has a task.
RunningHasTask ==
    \A b \in Batches :
        bstatus[b] \in {"running", "queued"} => place[b] # "none"
=============================================================================
