---------------------------- MODULE JobLifecycle ----------------------------
(***************************************************************************)
(* A transfer job from its creation to its end: the handlers of            *)
(* app/main.py that preview, select, approve and execute it, the scheduler *)
(* loop, and preview_job_candidates and execute_invite_job of              *)
(* app/telegram_service.py as far as they touch the job and its candidate  *)
(* rows.  InviteJob has the inside of a run: sessions, limits and leases.  *)
(*                                                                         *)
(* A handler without an await is one step.  A preview is three: the check  *)
(* of the status, the reading of member_history, and the transaction that  *)
(* writes the result, with Telegram and a lease in between; anything may   *)
(* happen to the job meanwhile.  Which sessions they use is left out.      *)
(***************************************************************************)
EXTENDS Naturals, FiniteSets

CONSTANTS Jobs,       \* ids of transfer_jobs rows
          Users,      \* Telegram users a source group may have
          MaxPreviews, \* bound: previews asked for
          MaxEvents   \* bound: closings of the working window, restarts, ...

ASSUME BoundsAssumption == MaxPreviews \in Nat /\ MaxEvents \in Nat

VARIABLES
    jstatus,   \* transfer_jobs.status, "absent" before the row exists
    row,       \* job_candidates.status, "none" without a row
    selected,  \* job_candidates.selected = 1
    late,      \* transfer_jobs.resume_at is in the future
    known,     \* telegram_user_id of member_history
    preview,   \* where the preview of a job stands
    transfer,  \* it is part of prepare_activity_transfer
    seen,      \* its previously_used_ids
    task,      \* where the coroutine of a job stands
    mine,      \* candidates[candidate_index:] of the coroutine
    fresh,     \* its rows are the ones still in the table
    open,      \* the local time is inside the working window
    chosen,    \* history: what was selected when the job was approved last
    basis,     \* history: member_history as the preview of the rows read it
    crossed,   \* history: jobs a preview wrote to after they had moved on
    previews, events

jobVars     == <<jstatus, row, selected, late>>
previewVars == <<preview, transfer, seen>>
taskVars    == <<task, mine, fresh>>
history     == <<chosen, basis, crossed>>
bounds      == <<previews, events>>
vars == <<jobVars, known, previewVars, taskVars, open, history, bounds>>

Previewable == {"ready", "previewed"}
ResumableByHand == {"approved", "proxy_error", "telegram_restricted"}
Resumable == {"approved", "scheduled", "proxy_error", "telegram_restricted"}
Statuses == Previewable \cup Resumable \cup {"absent", "queued_execution", "running",
                                             "completed", "failed"}
RowStatuses == {"none", "eligible", "previously_used", "invited", "refused"}
PreviewPlaces == {"none", "asked", "reading", "written"}
TaskPlaces == {"none", "queued", "running", "closing"}

Eligible(j) == {u \in Users : row[j][u] = "eligible"}
Chosen(j) == selected[j] \cap Eligible(j)
Event == events < MaxEvents /\ events' = events + 1
Put(j, s) == jstatus' = [jstatus EXCEPT ![j] = s]
\* A preview writes to a job: note if the job has moved on meanwhile.
NoteCrossing(j) == crossed' = IF jstatus[j] \in Previewable THEN crossed ELSE crossed \cup {j}

Init ==
    /\ jstatus = [j \in Jobs |-> "absent"]
    /\ row = [j \in Jobs |-> [u \in Users |-> "none"]]
    /\ selected = [j \in Jobs |-> {}]
    /\ late = [j \in Jobs |-> FALSE]
    /\ known = {}
    /\ preview = [j \in Jobs |-> "none"]
    /\ transfer = [j \in Jobs |-> FALSE]
    /\ seen = [j \in Jobs |-> {}]
    /\ task = [j \in Jobs |-> "none"]
    /\ mine = [j \in Jobs |-> {}]
    /\ fresh = [j \in Jobs |-> FALSE]
    /\ open = TRUE
    /\ chosen = [j \in Jobs |-> {}]
    /\ basis = [j \in Jobs |-> {}]
    /\ crossed = {}
    /\ previews = 0 /\ events = 0

-----------------------------------------------------------------------------
(* Creation and preview.                                                   *)

\* POST /api/jobs.
Create(j) ==
    /\ jstatus[j] = "absent"
    /\ Put(j, "ready")
    /\ UNCHANGED <<row, selected, late, known, previewVars, taskVars, open, history, bounds>>

Ask(j) ==
    /\ previews < MaxPreviews /\ previews' = previews + 1
    /\ preview' = [preview EXCEPT ![j] = "asked"]

\* POST /api/jobs/{id}/preview: the status is checked here and never again.
AskPreview(j) ==
    /\ jstatus[j] \in Previewable /\ preview[j] = "none"
    /\ Ask(j)
    /\ UNCHANGED <<jobVars, known, transfer, seen, taskVars, open, history, events>>

\* POST /api/activity-scans/{id}/prepare-transfer: a job with its preview.
PrepareTransfer(j) ==
    /\ jstatus[j] = "absent"
    /\ Ask(j)
    /\ Put(j, "ready")
    /\ transfer' = [transfer EXCEPT ![j] = TRUE]
    /\ UNCHANGED <<row, selected, late, known, seen, taskVars, open, history, events>>

\* With the lease, after the members and the administrators, the history.
ReadHistory(j) ==
    /\ preview[j] = "asked"
    /\ preview' = [preview EXCEPT ![j] = "reading"]
    /\ seen' = [seen EXCEPT ![j] = known]
    /\ UNCHANGED <<jobVars, known, transfer, taskVars, open, history, bounds>>

VerdictIgnoringHistory(j, u) == "eligible"
\* add_candidate for a user the preview lists (bots, administrators and members
\* are among those it leaves out).
Verdict(j, u) == IF u \in seen[j] THEN "previously_used" ELSE "eligible"

\* The transaction at its end: other rows, none of them selected, and the job
\* is 'previewed', whatever it was.  A transfer has yet to select.
WritePreview(j) ==
    /\ preview[j] = "reading"
    /\ \E listed \in SUBSET Users :
          row' = [row EXCEPT ![j] = [u \in Users |-> IF u \in listed THEN Verdict(j, u)
                                                     ELSE "none"]]
    /\ selected' = [selected EXCEPT ![j] = {}]
    /\ fresh' = [fresh EXCEPT ![j] = FALSE]
    /\ Put(j, "previewed")
    /\ preview' = [preview EXCEPT ![j] = IF transfer[j] THEN "written" ELSE "none"]
    /\ basis' = [basis EXCEPT ![j] = seen[j]]
    /\ NoteCrossing(j)
    /\ UNCHANGED <<late, known, transfer, seen, task, mine, open, chosen, bounds>>

\* Telegram, the proxy or the rights in the target group: only a transfer marks
\* the job, whatever it was.
PreviewFails(j) ==
    /\ preview[j] # "none" /\ Event
    /\ preview' = [preview EXCEPT ![j] = "none"]
    /\ transfer' = [transfer EXCEPT ![j] = FALSE]
    /\ IF transfer[j] THEN Put(j, "failed") /\ NoteCrossing(j) ELSE UNCHANGED <<jstatus, crossed>>
    /\ UNCHANGED <<row, selected, late, known, seen, taskVars, open, chosen, basis, previews>>

\* prepare_activity_transfer goes on when the client is disconnected and the
\* lease released: every eligible row is selected, whatever the job is by now.
SelectAll(j) ==
    /\ preview[j] = "written"
    /\ preview' = [preview EXCEPT ![j] = "none"]
    /\ transfer' = [transfer EXCEPT ![j] = FALSE]
    /\ selected' = [selected EXCEPT ![j] = Eligible(j)]
    /\ NoteCrossing(j)
    /\ UNCHANGED <<jstatus, row, late, known, seen, taskVars, open, chosen, basis, bounds>>

-----------------------------------------------------------------------------
(* Selection, approval, start.                                             *)

SelectableInAnyStatus(j) == jstatus[j] # "absent"
Selectable(j) == jstatus[j] = "previewed"

\* PUT /api/jobs/{id}/candidates/selection.
Select(j) ==
    /\ Selectable(j)
    /\ \E S \in SUBSET Eligible(j) : selected' = [selected EXCEPT ![j] = S]
    /\ UNCHANGED <<jstatus, row, late, known, previewVars, taskVars, open, history, bounds>>

\* POST /api/jobs/{id}/approve.
Approve(j) ==
    /\ jstatus[j] = "previewed" /\ Chosen(j) # {}
    /\ Put(j, "approved")
    /\ chosen' = [chosen EXCEPT ![j] = Chosen(j)]
    /\ UNCHANGED <<row, selected, late, known, previewVars, taskVars, open, basis, crossed,
                   bounds>>

\* start_invite_job: a task that has not ended stands for the new one too.
StartTask(j) == task' = [task EXCEPT ![j] = IF @ = "none" THEN "queued" ELSE @]

\* POST /api/jobs/{id}/execute: at once, or at the opening of the window or the
\* time it waits for, which a job in 'proxy_error' is not told.
Execute(j) ==
    /\ jstatus[j] \in Resumable /\ Chosen(j) # {}
    /\ IF open /\ ~late[j]
       THEN Put(j, "queued_execution") /\ StartTask(j) /\ UNCHANGED late
       ELSE /\ jstatus[j] # "proxy_error"
            /\ Put(j, "scheduled")
            /\ late' = [late EXCEPT ![j] = TRUE]
            /\ UNCHANGED task
    /\ UNCHANGED <<row, selected, known, previewVars, mine, fresh, open, history, bounds>>

\* invite_scheduler_loop.
SchedulerStarts(j) ==
    /\ jstatus[j] = "scheduled" /\ ~late[j]
    /\ task[j] = "none"
    /\ StartTask(j)
    /\ UNCHANGED <<jobVars, known, previewVars, mine, fresh, open, history, bounds>>

-----------------------------------------------------------------------------
(* execute_invite_job.                                                     *)

ToInviteFirst(j) == IF Chosen(j) = {} THEN {} ELSE {CHOOSE u \in Chosen(j) : TRUE}
ToInvite(j) == Chosen(j)

TaskEnds(j) == /\ task' = [task EXCEPT ![j] = "none"]
               /\ mine' = [mine EXCEPT ![j] = {}]

\* Its first step: nothing to do, not now, or the claim.
Claim(j) ==
    /\ task[j] = "queued"
    /\ IF jstatus[j] \notin Resumable \cup {"queued_execution"} \/ Chosen(j) = {}
       THEN TaskEnds(j) /\ UNCHANGED <<jstatus, late, fresh>>
       ELSE IF ~open \/ late[j]
       THEN Put(j, "scheduled") /\ late' = [late EXCEPT ![j] = TRUE] /\ TaskEnds(j)
            /\ UNCHANGED fresh
       ELSE /\ Put(j, "running")
            /\ task' = [task EXCEPT ![j] = "running"]
            /\ mine' = [mine EXCEPT ![j] = ToInvite(j)]
            /\ fresh' = [fresh EXCEPT ![j] = TRUE]
            /\ UNCHANGED late
    /\ UNCHANGED <<row, selected, known, previewVars, open, history, bounds>>

\* One candidate: invited and remembered, or refused.  The row is updated by
\* its id, which a new preview has replaced.
Invite(j) ==
    /\ task[j] = "running" /\ open
    /\ \E u \in mine[j], verdict \in {"invited", "refused"} :
          /\ mine' = [mine EXCEPT ![j] = @ \ {u}]
          /\ row' = IF fresh[j] THEN [row EXCEPT ![j][u] = verdict] ELSE row
          /\ known' = IF verdict = "invited" THEN known \cup {u} ELSE known
    /\ UNCHANGED <<jstatus, selected, late, previewVars, task, fresh, open, history, bounds>>

\* A session is opened: the job is 'running' again.
OpenSession(j) ==
    /\ task[j] = "running" /\ mine[j] # {}
    /\ jstatus[j] # "running" /\ Put(j, "running")
    /\ late' = [late EXCEPT ![j] = FALSE]
    /\ UNCHANGED <<row, selected, known, previewVars, taskVars, open, history, bounds>>

OutOfSessionsWhileClosing(j) ==
    /\ task' = [task EXCEPT ![j] = "closing"]
    /\ Put(j, "telegram_restricted") /\ UNCHANGED late
\* No session is left: there is no context to close, the task is over at once.
OutOfSessions(j) ==
    /\ task' = [task EXCEPT ![j] = "none"]
    /\ \/ Put(j, "scheduled") /\ late' = [late EXCEPT ![j] = TRUE]
       \/ /\ \E s \in {"proxy_error", "telegram_restricted", "failed"} : Put(j, s)
          /\ late' = [late EXCEPT ![j] = FALSE]

\* The loop is left with an open context: the task ends when its client is
\* disconnected.
LeaveLoop(j, s) == task' = [task EXCEPT ![j] = "closing"] /\ Put(j, s)

Leave(j) ==
    /\ task[j] = "running"
    /\ \/ /\ mine[j] = {} /\ LeaveLoop(j, "completed")
          /\ late' = [late EXCEPT ![j] = FALSE] /\ UNCHANGED events
       \/ /\ mine[j] # {} /\ ~open /\ LeaveLoop(j, "scheduled")
          /\ late' = [late EXCEPT ![j] = TRUE] /\ UNCHANGED events
       \/ mine[j] # {} /\ LeaveLoop(j, "failed") /\ UNCHANGED late /\ Event
       \/ mine[j] # {} /\ OutOfSessions(j) /\ Event
    /\ mine' = [mine EXCEPT ![j] = {}]
    /\ UNCHANGED <<row, selected, known, previewVars, fresh, open, history, previews>>

TaskCloses(j) ==
    /\ task[j] = "closing" /\ TaskEnds(j)
    /\ UNCHANGED <<jobVars, known, previewVars, fresh, open, history, bounds>>

-----------------------------------------------------------------------------
(* Time and restarts.                                                      *)

CloseWindow ==
    /\ open /\ Event /\ open' = FALSE
    /\ UNCHANGED <<jobVars, known, previewVars, taskVars, history, previews>>

\* The window stays closed for a minute at least, and the times jobs wait for
\* lie inside it; a client is disconnected sooner than that.
OpenWindow ==
    /\ ~open /\ open' = TRUE
    /\ \A j \in Jobs : task[j] # "closing"
    /\ UNCHANGED <<jobVars, known, previewVars, taskVars, history, bounds>>

ResumeTime(j) ==
    /\ late[j] /\ open /\ task[j] # "closing"
    /\ late' = [late EXCEPT ![j] = FALSE]
    /\ UNCHANGED <<jstatus, row, selected, known, previewVars, taskVars, open, history, bounds>>

\* A job that is not modelled here has added a user.
OtherJobAdds(u) ==
    /\ known' = known \cup {u}
    /\ UNCHANGED <<jobVars, previewVars, taskVars, open, history, bounds>>

\* The process stops, or dies, and starts again.
Restart ==
    /\ Event
    /\ jstatus' = [j \in Jobs |-> IF jstatus[j] \in {"running", "queued_execution"}
                                  THEN "approved" ELSE jstatus[j]]
    /\ preview' = [j \in Jobs |-> "none"]
    /\ transfer' = [j \in Jobs |-> FALSE]
    /\ task' = [j \in Jobs |-> "none"]
    /\ mine' = [j \in Jobs |-> {}]
    /\ UNCHANGED <<row, selected, late, known, seen, fresh, open, history, previews>>

Handler(j) == \/ Create(j) \/ AskPreview(j) \/ PrepareTransfer(j) \/ Select(j)
              \/ Approve(j) \/ Execute(j)
PreviewStep(j) == ReadHistory(j) \/ WritePreview(j) \/ PreviewFails(j) \/ SelectAll(j)
Run(j) == Claim(j) \/ Invite(j) \/ OpenSession(j) \/ Leave(j) \/ TaskCloses(j)

Next ==
    \/ \E j \in Jobs : \/ Handler(j) \/ PreviewStep(j) \/ Run(j)
                       \/ SchedulerStarts(j) \/ ResumeTime(j)
    \/ \E u \in Users : OtherJobAdds(u)
    \/ CloseWindow \/ OpenWindow \/ Restart

Spec == Init /\ [][Next]_vars

\* The event loop runs every coroutine that is ready, requests are bounded by
\* timeouts, the scheduler polls and time passes.  Nobody has to press a button.
FairSpec ==
    /\ Spec
    /\ WF_vars(OpenWindow)
    /\ \A j \in Jobs : WF_vars(Run(j)) /\ WF_vars(SchedulerStarts(j)) /\ WF_vars(ResumeTime(j))

-----------------------------------------------------------------------------
\* What the rows and the coroutines of the jobs may hold.
TypeOK ==
    /\ jstatus \in [Jobs -> Statuses] /\ row \in [Jobs -> [Users -> RowStatuses]]
    /\ selected \in [Jobs -> SUBSET Users] /\ late \in [Jobs -> BOOLEAN]
    /\ known \subseteq Users /\ seen \in [Jobs -> SUBSET Users]
    /\ preview \in [Jobs -> PreviewPlaces] /\ transfer \in [Jobs -> BOOLEAN]
    /\ task \in [Jobs -> TaskPlaces] /\ mine \in [Jobs -> SUBSET Users]
    /\ fresh \in [Jobs -> BOOLEAN] /\ open \in BOOLEAN
    /\ chosen \in [Jobs -> SUBSET Users] /\ basis \in [Jobs -> SUBSET Users]
    /\ crossed \subseteq Jobs

\* Nobody is asked into a group whom the administrator had not selected when he
\* approved the job, through restarts, interruptions and resumptions.
SelectionHonoured == \A j \in Jobs \ crossed : mine[j] \subseteq chosen[j]

\* A job is 'completed' only when no selected candidate is left.
CompletedIsDone == \A j \in Jobs \ crossed : jstatus[j] = "completed" => Chosen(j) = {}

\* 'queued_execution' can be left only by the task: there is one, and it has
\* not begun.  start_invite_job counts a task that is ending as running.
QueuedHasTask ==
    \A j \in Jobs \ crossed : jstatus[j] = "queued_execution" => task[j] = "queued"

\* A user one job has added is not asked again by a job whose preview read the
\* history after that.
HistoryHeeded == \A j \in Jobs : mine[j] \cap basis[j] = {} \/ ~fresh[j]

\* What is scheduled runs without anyone pressing a button, when the window
\* opens and the wait is over.
ScheduledRuns ==
    \A j \in Jobs : jstatus[j] = "scheduled" ~> jstatus[j] # "scheduled" \/ j \in crossed

\* app/main.py: "Onaylanmis, calisan veya tamamlanmis bir is yeniden
\* onizlenemez": a job that was approved never becomes 'previewed' again.
NoRegression ==
    [][\A j \in Jobs : jstatus[j] \notin Previewable \cup {"absent"}
                       => jstatus'[j] \notin Previewable]_vars

\* What takes a job back is only ever a preview that writes to it late
\* (preview_job_candidates, prepare_activity_transfer): whatever else happens,
\* restarts included, a job that has been approved does not become a preview
\* again, 'completed' and 'failed' stay, and the answer Telegram gave for a
\* candidate stays in its row.
Settled == {"invited", "refused"}
Unstarted == Previewable \cup {"absent"}
Onward(j) ==
    j \notin crossed' =>
        /\ jstatus[j] \notin Unstarted => jstatus'[j] \notin Unstarted
        /\ jstatus[j] \in {"completed", "failed"} => jstatus'[j] = jstatus[j]
        /\ \A u \in Users : row[j][u] \in Settled => row'[j][u] = row[j][u]
OnlyOnward == [][\A j \in Jobs : Onward(j)]_vars
=============================================================================
