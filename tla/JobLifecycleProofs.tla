------------------------- MODULE JobLifecycleProofs -------------------------
(***************************************************************************)
(* Proofs about JobLifecycle for any jobs and users, previews and events.  *)
(*                                                                         *)
(* Every action but a restart and the passing of time concerns one job, so *)
(* the inductive invariant is a predicate on one job, Sound(j).  Most of   *)
(* it holds only until a preview writes to a job that has moved on: that   *)
(* is why Steady(j) asks for a job that is not 'crossed'.                  *)
(***************************************************************************)
EXTENDS JobLifecycle, TLAPS

-----------------------------------------------------------------------------
(* The inductive invariant.                                                *)

\* The statuses in which what is chosen is what was approved.
Bound == Resumable \cup {"queued_execution", "running"}

Steady(j) ==
    /\ jstatus[j] \in Previewable \cup {"absent"} => task[j] = "none" /\ mine[j] = {}
    /\ jstatus[j] \in Bound => Chosen(j) \subseteq chosen[j]
    /\ mine[j] \subseteq chosen[j]
    /\ task[j] = "running" => jstatus[j] = "running" /\ fresh[j] /\ Chosen(j) \subseteq mine[j]
    /\ task[j] = "closing" =>
          jstatus[j] \in {"completed", "failed"} \/ (jstatus[j] = "scheduled" /\ late[j])
    /\ jstatus[j] = "queued_execution" => task[j] = "queued" /\ Chosen(j) # {}
    /\ jstatus[j] = "completed" => Chosen(j) = {}

Sound(j) ==
    /\ Eligible(j) \cap basis[j] = {}
    /\ fresh[j] => mine[j] \cap basis[j] = {}
    /\ j \notin crossed => Steady(j)

IInv == TypeOK /\ \A j \in Jobs : Sound(j)

-----------------------------------------------------------------------------
(* One job at a time.                                                      *)

Same(k) ==
    /\ jstatus'[k] = jstatus[k] /\ row'[k] = row[k] /\ selected'[k] = selected[k]
    /\ late'[k] = late[k] /\ task'[k] = task[k] /\ mine'[k] = mine[k]
    /\ fresh'[k] = fresh[k] /\ chosen'[k] = chosen[k] /\ basis'[k] = basis[k]
    /\ (k \in crossed' <=> k \in crossed)

Local(j) == TypeOK' /\ \A k \in Jobs \ {j} : Same(k)

\* What is the same before and after is as sound as before.
LEMMA SameSound == ASSUME NEW k \in Jobs, Sound(k), Same(k) PROVE Sound(k)'
<1>1. Eligible(k)' = Eligible(k) /\ Chosen(k)' = Chosen(k)
  BY DEF Same, Eligible, Chosen
<1>2. k \notin crossed => Steady(k)'
  BY <1>1 DEF Same, Sound, Steady
<1> QED BY <1>1, <1>2 DEF Same, Sound

LEMMA LocalStep == ASSUME IInv, NEW j \in Jobs, Local(j), Sound(j)' PROVE IInv'
<1>1. ASSUME NEW k \in Jobs \ {j} PROVE Sound(k)'
  BY SameSound DEF IInv, Local
<1> QED BY <1>1 DEF IInv, Local

\* A job no part of which changes but its preview.
LEMMA QuietStep ==
  ASSUME IInv, TypeOK', UNCHANGED <<jobVars, taskVars, history>>
  PROVE  IInv'
<1>1. ASSUME NEW k \in Jobs PROVE Sound(k)'
  BY SameSound DEF IInv, Same, jobVars, taskVars, history
<1> QED BY <1>1 DEF IInv

-----------------------------------------------------------------------------
(* The handlers.                                                           *)

LEMMA CreateStep == ASSUME IInv, NEW j \in Jobs, Create(j) PROVE IInv'
<1>1. /\ TypeOK /\ Sound(j) /\ jstatus[j] = "absent" /\ jstatus' = [jstatus EXCEPT ![j] = "ready"]
      /\ UNCHANGED <<row, selected, late, known, preview, transfer, seen, task, mine, fresh>>
      /\ UNCHANGED <<open, chosen, basis, crossed>>
  BY DEF IInv, Create, Put, previewVars, taskVars, history
<1>2. TypeOK'
  BY <1>1 DEF TypeOK, Statuses, Previewable
<1>3. Local(j)
  BY <1>1, <1>2 DEF Local, Same, TypeOK
<1>4. jstatus'[j] = "ready" /\ Eligible(j)' = Eligible(j) /\ Chosen(j)' = Chosen(j)
  BY <1>1 DEF TypeOK, Eligible, Chosen
<1>5. Sound(j)'
  BY <1>1, <1>4 DEF Sound, Steady, Previewable, Bound, Resumable
<1> QED BY <1>3, <1>5, LocalStep

LEMMA AskPreviewStep == ASSUME IInv, NEW j \in Jobs, AskPreview(j) PROVE IInv'
<1>1. /\ TypeOK /\ preview' = [preview EXCEPT ![j] = "asked"]
      /\ UNCHANGED <<jobVars, known, transfer, seen, taskVars, open, history>>
  BY DEF IInv, AskPreview, Ask
<1>2. TypeOK'
  BY <1>1 DEF TypeOK, PreviewPlaces, jobVars, taskVars, history
<1> QED BY <1>1, <1>2, QuietStep

LEMMA PrepareTransferStep == ASSUME IInv, NEW j \in Jobs, PrepareTransfer(j) PROVE IInv'
<1>1. /\ TypeOK /\ Sound(j) /\ jstatus[j] = "absent" /\ jstatus' = [jstatus EXCEPT ![j] = "ready"]
      /\ preview' = [preview EXCEPT ![j] = "asked"]
      /\ UNCHANGED <<row, selected, late, known, seen, task, mine, fresh>>
      /\ UNCHANGED <<open, chosen, basis, crossed>>
  BY DEF IInv, PrepareTransfer, Ask, Put, taskVars, history
<1>2. transfer' \in [Jobs -> BOOLEAN]
  BY <1>1, Zenon DEF PrepareTransfer, TypeOK
<1>3. TypeOK'
  BY <1>1, <1>2 DEF TypeOK, Statuses, Previewable, PreviewPlaces
<1>4. Local(j)
  BY <1>1, <1>3 DEF Local, Same, TypeOK
<1>5. jstatus'[j] = "ready" /\ Eligible(j)' = Eligible(j) /\ Chosen(j)' = Chosen(j)
  BY <1>1 DEF TypeOK, Eligible, Chosen
<1>6. Sound(j)'
  BY <1>1, <1>5 DEF Sound, Steady, Previewable, Bound, Resumable
<1> QED BY <1>4, <1>6, LocalStep

LEMMA SelectStep == ASSUME IInv, NEW j \in Jobs, Select(j) PROVE IInv'
<1>1. PICK S \in SUBSET Users : selected' = [selected EXCEPT ![j] = S]
  BY DEF Select, Eligible
<1>2. /\ TypeOK /\ Sound(j) /\ jstatus[j] = "previewed"
      /\ UNCHANGED <<jstatus, row, late, known, preview, transfer, seen, task, mine, fresh>>
      /\ UNCHANGED <<open, chosen, basis, crossed>>
  BY DEF IInv, Select, Selectable, previewVars, taskVars, history
<1>3. TypeOK'
  BY <1>1, <1>2 DEF TypeOK
<1>4. Local(j)
  BY <1>1, <1>2, <1>3 DEF Local, Same, TypeOK
<1>5. Eligible(j)' = Eligible(j)
  BY <1>2 DEF Eligible
<1>6. Sound(j)'
  BY <1>2, <1>5 DEF Sound, Steady, Previewable, Bound, Resumable
<1> QED BY <1>4, <1>6, LocalStep

\* From here on the job is bound to what is chosen now.
LEMMA ApproveStep == ASSUME IInv, NEW j \in Jobs, Approve(j) PROVE IInv'
<1>1. /\ TypeOK /\ Sound(j) /\ jstatus[j] = "previewed"
      /\ jstatus' = [jstatus EXCEPT ![j] = "approved"]
      /\ chosen' = [chosen EXCEPT ![j] = Chosen(j)]
      /\ UNCHANGED <<row, selected, late, known, preview, transfer, seen, task, mine, fresh>>
      /\ UNCHANGED <<open, basis, crossed>>
  BY DEF IInv, Approve, Put, previewVars, taskVars
<1>2. Chosen(j) \subseteq Users
  BY DEF Chosen, Eligible
<1>3. TypeOK'
  BY <1>1, <1>2 DEF TypeOK, Statuses, Resumable
<1>4. Local(j)
  BY <1>1, <1>3 DEF Local, Same, TypeOK
<1>5. /\ jstatus'[j] = "approved" /\ chosen'[j] = Chosen(j)
      /\ Eligible(j)' = Eligible(j) /\ Chosen(j)' = Chosen(j)
  BY <1>1, <1>2 DEF TypeOK, Eligible, Chosen
<1>6. j \notin crossed => task[j] = "none" /\ mine[j] = {}
  BY <1>1 DEF Sound, Steady, Previewable
<1>7. Sound(j)'
  BY <1>1, <1>5, <1>6 DEF Sound, Steady, Previewable, Bound, Resumable
<1> QED BY <1>4, <1>7, LocalStep

\* A task that is closing keeps the job late: it is not started at once.
LEMMA ExecuteStep == ASSUME IInv, NEW j \in Jobs, Execute(j) PROVE IInv'
<1>1. /\ TypeOK /\ Sound(j) /\ jstatus[j] \in Resumable /\ Chosen(j) # {}
      /\ UNCHANGED <<row, selected, known, preview, transfer, seen, mine, fresh>>
      /\ UNCHANGED <<open, chosen, basis, crossed>>
  BY DEF IInv, Execute, previewVars, history
<1>2. Eligible(j)' = Eligible(j) /\ Chosen(j)' = Chosen(j)
  BY <1>1 DEF Eligible, Chosen
<1>3. CASE /\ open /\ ~late[j] /\ Put(j, "queued_execution") /\ StartTask(j) /\ UNCHANGED late
  <2>1. /\ jstatus' = [jstatus EXCEPT ![j] = "queued_execution"]
        /\ task' = [task EXCEPT ![j] = IF @ = "none" THEN "queued" ELSE @]
    BY <1>3 DEF Put, StartTask
  <2>2. TypeOK'
    BY <1>1, <1>3, <2>1 DEF TypeOK, Statuses, TaskPlaces
  <2>3. Local(j)
    BY <1>1, <1>3, <2>1, <2>2 DEF Local, Same, TypeOK
  <2>4. /\ jstatus'[j] = "queued_execution"
        /\ task'[j] = IF task[j] = "none" THEN "queued" ELSE task[j]
        /\ task[j] \in TaskPlaces
    BY <1>1, <2>1 DEF TypeOK
  <2>5. j \notin crossed => task'[j] = "queued"
    BY <1>1, <1>3, <2>4 DEF Sound, Steady, Resumable, TaskPlaces
  <2>6. Sound(j)'
    BY <1>1, <1>2, <2>4, <2>5 DEF Sound, Steady, Previewable, Bound
  <2> QED BY <2>3, <2>6, LocalStep
<1>4. CASE /\ Put(j, "scheduled") /\ late' = [late EXCEPT ![j] = TRUE] /\ UNCHANGED task
  <2>1. late' \in [Jobs -> BOOLEAN]
    BY <1>1, <1>4, Zenon DEF TypeOK
  <2>2. jstatus' = [jstatus EXCEPT ![j] = "scheduled"]
    BY <1>4 DEF Put
  <2>3. TypeOK'
    BY <1>1, <1>4, <2>1, <2>2 DEF TypeOK, Statuses, Resumable
  <2>4. Local(j)
    BY <1>1, <1>4, <2>2, <2>3 DEF Local, Same, TypeOK
  <2>5. jstatus'[j] = "scheduled" /\ late'[j]
    BY <1>1, <1>4, <2>2 DEF TypeOK
  <2>6. Sound(j)'
    BY <1>1, <1>2, <1>4, <2>5 DEF Sound, Steady, Previewable, Bound, Resumable
  <2> QED BY <2>4, <2>6, LocalStep
<1> QED BY <1>3, <1>4 DEF Execute

LEMMA SchedulerStartsStep == ASSUME IInv, NEW j \in Jobs, SchedulerStarts(j) PROVE IInv'
<1>1. /\ TypeOK /\ Sound(j) /\ jstatus[j] = "scheduled" /\ task' = [task EXCEPT ![j] = "queued"]
      /\ task[j] = "none"
      /\ UNCHANGED <<jstatus, row, selected, late, known, preview, transfer, seen, mine, fresh>>
      /\ UNCHANGED <<open, chosen, basis, crossed>>
  BY DEF IInv, SchedulerStarts, StartTask, TypeOK, jobVars, previewVars, history
<1>2. TypeOK'
  BY <1>1 DEF TypeOK, TaskPlaces
<1>3. Local(j)
  BY <1>1, <1>2 DEF Local, Same, TypeOK
<1>4. task'[j] = "queued" /\ Eligible(j)' = Eligible(j) /\ Chosen(j)' = Chosen(j)
  BY <1>1 DEF TypeOK, Eligible, Chosen
<1>5. Sound(j)'
  BY <1>1, <1>4 DEF Sound, Steady, Previewable
<1> QED BY <1>3, <1>5, LocalStep

-----------------------------------------------------------------------------
(* The preview.                                                            *)

LEMMA ReadHistoryStep == ASSUME IInv, NEW j \in Jobs, ReadHistory(j) PROVE IInv'
<1>1. /\ TypeOK /\ preview' = [preview EXCEPT ![j] = "reading"]
      /\ seen' = [seen EXCEPT ![j] = known]
      /\ UNCHANGED <<jobVars, known, transfer, taskVars, open, history>>
  BY DEF IInv, ReadHistory
<1>2. TypeOK'
  BY <1>1 DEF TypeOK, PreviewPlaces, jobVars, taskVars, history
<1> QED BY <1>1, <1>2, QuietStep

LEMMA Crossing ==
  ASSUME TypeOK, NEW j \in Jobs, NoteCrossing(j)
  PROVE  /\ crossed' \subseteq Jobs /\ crossed \subseteq crossed'
         /\ \A k \in Jobs \ {j} : k \in crossed' <=> k \in crossed
         /\ j \notin crossed' => jstatus[j] \in Previewable
BY DEF TypeOK, NoteCrossing

\* The new rows leave out whom the history names, and the job has no task
\* unless it is crossed.
LEMMA WritePreviewStep == ASSUME IInv, NEW j \in Jobs, WritePreview(j) PROVE IInv'
<1>1. PICK listed \in SUBSET Users :
        row' = [row EXCEPT ![j] = [u \in Users |-> IF u \in listed THEN Verdict(j, u) ELSE "none"]]
  BY DEF WritePreview
<1>2. /\ TypeOK /\ Sound(j) /\ selected' = [selected EXCEPT ![j] = {}]
      /\ jstatus' = [jstatus EXCEPT ![j] = "previewed"]
      /\ preview' = [preview EXCEPT ![j] = IF transfer[j] THEN "written" ELSE "none"]
      /\ basis' = [basis EXCEPT ![j] = seen[j]]
      /\ UNCHANGED <<late, known, transfer, seen, task, mine, open, chosen>>
  BY DEF IInv, WritePreview, Put
<1>3. fresh' \in [Jobs -> BOOLEAN]
  BY <1>2, Zenon DEF WritePreview, TypeOK
<1>4. fresh' = [fresh EXCEPT ![j] = FALSE]
  BY DEF WritePreview
<1>5. /\ crossed' \subseteq Jobs /\ crossed \subseteq crossed'
      /\ \A k \in Jobs \ {j} : k \in crossed' <=> k \in crossed
      /\ j \notin crossed' => jstatus[j] \in Previewable
  BY <1>2, Crossing DEF WritePreview
<1>6. row' \in [Jobs -> [Users -> RowStatuses]]
  BY <1>1, <1>2 DEF TypeOK, Verdict, RowStatuses
<1>7. preview' \in [Jobs -> PreviewPlaces]
  BY <1>2 DEF TypeOK, PreviewPlaces
<1>8. TypeOK'
  BY <1>2, <1>3, <1>5, <1>6, <1>7 DEF TypeOK, Statuses, Previewable
<1>9. Local(j)
  BY <1>1, <1>2, <1>4, <1>5, <1>8 DEF Local, Same, TypeOK
<1>10. jstatus'[j] = "previewed" /\ basis'[j] = seen[j] /\ ~fresh'[j]
  BY <1>2, <1>4 DEF TypeOK
<1>11. Eligible(j)' \cap seen[j] = {}
  <2>1. ASSUME NEW u \in Users, row'[j][u] = "eligible" PROVE u \notin seen[j]
    <3>1. row'[j][u] = IF u \in listed THEN Verdict(j, u) ELSE "none"
      BY <1>1, <1>2 DEF TypeOK
    <3> QED BY <2>1, <3>1 DEF Verdict
  <2> QED BY <2>1 DEF Eligible
<1>12. j \notin crossed' => task[j] = "none" /\ mine[j] = {}
  BY <1>2, <1>5 DEF Sound, Steady
<1>13. j \notin crossed' => Steady(j)'
  BY <1>2, <1>10, <1>12 DEF Steady, Bound, Resumable
<1>14. Sound(j)'
  BY <1>10, <1>11, <1>13 DEF Sound
<1> QED BY <1>9, <1>14, LocalStep

LEMMA PreviewFailsStep == ASSUME IInv, NEW j \in Jobs, PreviewFails(j) PROVE IInv'
<1>1. /\ TypeOK /\ Sound(j) /\ preview' = [preview EXCEPT ![j] = "none"]
      /\ UNCHANGED <<row, selected, late, known, seen, task, mine, fresh, open, chosen, basis>>
  BY DEF IInv, PreviewFails, taskVars
<1>2. transfer' \in [Jobs -> BOOLEAN]
  BY <1>1, Zenon DEF PreviewFails, TypeOK
<1>3. CASE UNCHANGED <<jstatus, crossed>>
  <2>1. TypeOK'
    BY <1>1, <1>2, <1>3 DEF TypeOK, PreviewPlaces
  <2> QED BY <1>1, <1>3, <2>1, QuietStep DEF jobVars, taskVars, history
<1>4. CASE Put(j, "failed") /\ NoteCrossing(j)
  <2>1. /\ crossed' \subseteq Jobs /\ crossed \subseteq crossed'
        /\ \A k \in Jobs \ {j} : k \in crossed' <=> k \in crossed
        /\ j \notin crossed' => jstatus[j] \in Previewable
    BY <1>1, <1>4, Crossing
  <2>2. jstatus' = [jstatus EXCEPT ![j] = "failed"]
    BY <1>4 DEF Put
  <2>3. TypeOK'
    BY <1>1, <1>2, <2>1, <2>2 DEF TypeOK, PreviewPlaces, Statuses
  <2>4. Local(j)
    BY <1>1, <2>1, <2>2, <2>3 DEF Local, Same, TypeOK
  <2>5. jstatus'[j] = "failed" /\ Eligible(j)' = Eligible(j) /\ Chosen(j)' = Chosen(j)
    BY <1>1, <2>2 DEF TypeOK, Eligible, Chosen
  <2>6. Sound(j)'
    BY <1>1, <2>1, <2>5 DEF Sound, Steady, Previewable, Bound, Resumable
  <2> QED BY <2>4, <2>6, LocalStep
<1> QED BY <1>3, <1>4 DEF PreviewFails

LEMMA SelectAllStep == ASSUME IInv, NEW j \in Jobs, SelectAll(j) PROVE IInv'
<1>1. /\ TypeOK /\ Sound(j) /\ preview' = [preview EXCEPT ![j] = "none"]
      /\ selected' = [selected EXCEPT ![j] = Eligible(j)]
      /\ UNCHANGED <<jstatus, row, late, known, seen, task, mine, fresh, open, chosen, basis>>
  BY DEF IInv, SelectAll, taskVars
<1>2. transfer' \in [Jobs -> BOOLEAN]
  BY <1>1, Zenon DEF SelectAll, TypeOK
<1>3. /\ crossed' \subseteq Jobs /\ crossed \subseteq crossed'
      /\ \A k \in Jobs \ {j} : k \in crossed' <=> k \in crossed
      /\ j \notin crossed' => jstatus[j] \in Previewable
  BY <1>1, Crossing DEF SelectAll
<1>4. Eligible(j) \subseteq Users
  BY DEF Eligible
<1>5. TypeOK'
  BY <1>1, <1>2, <1>3, <1>4 DEF TypeOK, PreviewPlaces
<1>6. Local(j)
  BY <1>1, <1>3, <1>5 DEF Local, Same, TypeOK
<1>7. Eligible(j)' = Eligible(j)
  BY <1>1 DEF Eligible
<1>8. Sound(j)'
  BY <1>1, <1>3, <1>7 DEF Sound, Steady, Previewable, Bound, Resumable
<1> QED BY <1>6, <1>8, LocalStep

-----------------------------------------------------------------------------
(* The run.                                                                *)

LEMMA ClaimStep == ASSUME IInv, NEW j \in Jobs, Claim(j) PROVE IInv'
<1>1. /\ TypeOK /\ Sound(j) /\ task[j] = "queued"
      /\ UNCHANGED <<row, selected, known, preview, transfer, seen, open, chosen, basis, crossed>>
  BY DEF IInv, Claim, previewVars, history
<1>2. Eligible(j)' = Eligible(j) /\ Chosen(j)' = Chosen(j) /\ Chosen(j) \subseteq Eligible(j)
  BY <1>1 DEF Eligible, Chosen
<1>3. CASE /\ jstatus[j] \notin Resumable \cup {"queued_execution"} \/ Chosen(j) = {}
           /\ TaskEnds(j) /\ UNCHANGED <<jstatus, late, fresh>>
  <2>1. task' = [task EXCEPT ![j] = "none"] /\ mine' = [mine EXCEPT ![j] = {}]
    BY <1>3 DEF TaskEnds
  <2>2. TypeOK'
    BY <1>1, <1>3, <2>1 DEF TypeOK, TaskPlaces
  <2>3. Local(j)
    BY <1>1, <1>3, <2>1, <2>2 DEF Local, Same, TypeOK
  <2>4. task'[j] = "none" /\ mine'[j] = {}
    BY <1>1, <2>1 DEF TypeOK
  <2>5. j \notin crossed => Steady(j)'
    BY <1>1, <1>2, <1>3, <2>4 DEF Sound, Steady
  <2>6. Sound(j)'
    BY <1>1, <1>2, <2>4, <2>5 DEF Sound
  <2> QED BY <2>3, <2>6, LocalStep
<1>4. CASE /\ jstatus[j] \in Resumable \cup {"queued_execution"}
           /\ Put(j, "scheduled") /\ late' = [late EXCEPT ![j] = TRUE] /\ TaskEnds(j)
           /\ UNCHANGED fresh
  <2>1. /\ jstatus' = [jstatus EXCEPT ![j] = "scheduled"]
        /\ task' = [task EXCEPT ![j] = "none"] /\ mine' = [mine EXCEPT ![j] = {}]
    BY <1>4 DEF TaskEnds, Put
  <2>2. late' \in [Jobs -> BOOLEAN]
    BY <1>1, <1>4, Zenon DEF TypeOK
  <2>3. TypeOK'
    BY <1>1, <1>4, <2>1, <2>2 DEF TypeOK, TaskPlaces, Statuses, Resumable
  <2>4. Local(j)
    BY <1>1, <1>4, <2>1, <2>3 DEF Local, Same, TypeOK
  <2>5. jstatus'[j] = "scheduled" /\ task'[j] = "none" /\ mine'[j] = {}
    BY <1>1, <2>1 DEF TypeOK
  <2>6. j \notin crossed => Steady(j)'
    BY <1>1, <1>2, <1>4, <2>5 DEF Sound, Steady, Previewable, Bound
  <2>7. Sound(j)'
    BY <1>1, <1>2, <2>5, <2>6 DEF Sound
  <2> QED BY <2>4, <2>7, LocalStep
<1>5. CASE /\ jstatus[j] \in Resumable \cup {"queued_execution"}
           /\ Put(j, "running") /\ task' = [task EXCEPT ![j] = "running"]
           /\ mine' = [mine EXCEPT ![j] = ToInvite(j)]
           /\ fresh' = [fresh EXCEPT ![j] = TRUE] /\ UNCHANGED late
  <2>1. /\ jstatus' = [jstatus EXCEPT ![j] = "running"]
        /\ mine' = [mine EXCEPT ![j] = Chosen(j)] /\ Chosen(j) \subseteq Users
    BY <1>5 DEF Put, ToInvite, Chosen, Eligible
  <2>2. fresh' \in [Jobs -> BOOLEAN]
    BY <1>1, <1>5, Zenon DEF TypeOK
  <2>3. TypeOK'
    BY <1>1, <1>5, <2>1, <2>2 DEF TypeOK, TaskPlaces, Statuses
  <2>4. Local(j)
    BY <1>1, <1>5, <2>1, <2>3 DEF Local, Same, TypeOK
  <2>5. jstatus'[j] = "running" /\ task'[j] = "running" /\ mine'[j] = Chosen(j) /\ fresh'[j]
    BY <1>1, <1>5, <2>1 DEF TypeOK
  <2>6. j \notin crossed => Steady(j)'
    BY <1>1, <1>2, <1>5, <2>5 DEF Sound, Steady, Previewable, Bound
  <2>7. mine'[j] \cap basis'[j] = {} /\ Eligible(j)' \cap basis'[j] = {}
    BY <1>1, <1>2, <2>5 DEF Sound
  <2>8. Sound(j)'
    BY <1>1, <2>6, <2>7 DEF Sound
  <2> QED BY <2>4, <2>8, LocalStep
<1> QED BY <1>3, <1>4, <1>5 DEF Claim

\* The user leaves both what the run has before it and what the table offers.
LEMMA InviteStep == ASSUME IInv, NEW j \in Jobs, Invite(j) PROVE IInv'
<1>1. /\ TypeOK /\ Sound(j) /\ task[j] = "running"
      /\ UNCHANGED <<jstatus, selected, late, preview, transfer, seen, task, fresh>>
      /\ UNCHANGED <<open, chosen, basis, crossed>>
  BY DEF IInv, Invite, previewVars, history
<1>2. PICK u \in mine[j], verdict \in {"invited", "refused"} :
        /\ mine' = [mine EXCEPT ![j] = @ \ {u}]
        /\ row' = IF fresh[j] THEN [row EXCEPT ![j][u] = verdict] ELSE row
        /\ known' = IF verdict = "invited" THEN known \cup {u} ELSE known
  BY DEF Invite
<1>3. u \in Users /\ row[j] \in [Users -> RowStatuses] /\ mine[j] \subseteq Users
  BY <1>1, <1>2 DEF TypeOK
<1>4. row' \in [Jobs -> [Users -> RowStatuses]]
  BY <1>1, <1>2, <1>3 DEF TypeOK, RowStatuses
<1>5. TypeOK'
  BY <1>1, <1>2, <1>3, <1>4 DEF TypeOK
<1>6. Local(j)
  BY <1>1, <1>2, <1>5 DEF Local, Same, TypeOK
<1>7. mine'[j] = mine[j] \ {u}
  BY <1>1, <1>2 DEF TypeOK
<1>8. Eligible(j)' \subseteq Eligible(j) /\ (fresh[j] => u \notin Eligible(j)')
  <2>1. CASE fresh[j]
    <3>1. row'[j] = [row[j] EXCEPT ![u] = verdict]
      BY <1>1, <1>2, <2>1 DEF TypeOK
    <3> QED BY <1>2, <1>3, <3>1 DEF Eligible
  <2>2. CASE ~fresh[j]
    BY <1>2, <2>2 DEF Eligible
  <2> QED BY <2>1, <2>2
<1>9. Chosen(j)' \subseteq Chosen(j) /\ (fresh[j] => u \notin Chosen(j)')
  BY <1>1, <1>8 DEF Chosen
<1>10. j \notin crossed => Steady(j)'
  BY <1>1, <1>7, <1>9 DEF Sound, Steady, Previewable, Bound
<1>11. Sound(j)'
  BY <1>1, <1>7, <1>8, <1>10 DEF Sound
<1> QED BY <1>6, <1>11, LocalStep

\* Only a crossed job has a running task and is not 'running'.
LEMMA OpenSessionStep == ASSUME IInv, NEW j \in Jobs, OpenSession(j) PROVE IInv'
<1>1. /\ TypeOK /\ Sound(j) /\ task[j] = "running" /\ jstatus[j] # "running"
      /\ jstatus' = [jstatus EXCEPT ![j] = "running"]
      /\ late' = [late EXCEPT ![j] = FALSE]
      /\ UNCHANGED <<row, selected, known, preview, transfer, seen, task, mine, fresh>>
      /\ UNCHANGED <<open, chosen, basis, crossed>>
  BY DEF IInv, OpenSession, Put, previewVars, taskVars, history
<1>2. late' \in [Jobs -> BOOLEAN]
  BY <1>1, Zenon DEF TypeOK
<1>3. TypeOK'
  BY <1>1, <1>2 DEF TypeOK, Statuses
<1>4. Local(j)
  BY <1>1, <1>3 DEF Local, Same, TypeOK
<1>5. j \in crossed
  BY <1>1 DEF Sound, Steady
<1>6. Eligible(j)' = Eligible(j)
  BY <1>1 DEF Eligible
<1>7. Sound(j)'
  BY <1>1, <1>5, <1>6 DEF Sound
<1> QED BY <1>4, <1>7, LocalStep

\* What the four ways out of the loop have in common.
LEMMA Leaving ==
  ASSUME IInv, NEW j \in Jobs, NEW s \in Resumable \cup {"completed", "failed"},
         NEW t \in {"none", "closing"}, NEW l \in BOOLEAN,
         task[j] = "running",
         jstatus' = [jstatus EXCEPT ![j] = s], task' = [task EXCEPT ![j] = t],
         mine' = [mine EXCEPT ![j] = {}], late' = [late EXCEPT ![j] = l],
         UNCHANGED <<row, selected, known, previewVars, fresh, open, history>>,
         t = "closing" => s \in {"completed", "failed"} \/ (s = "scheduled" /\ l),
         s = "completed" => mine[j] = {}
  PROVE  IInv'
<1>1. /\ TypeOK /\ Sound(j)
      /\ UNCHANGED <<row, selected, known, preview, transfer, seen, fresh>>
      /\ UNCHANGED <<open, chosen, basis, crossed>>
  BY DEF IInv, previewVars, history
<1>2. late' \in [Jobs -> BOOLEAN]
  BY <1>1, Zenon DEF TypeOK
<1>3. TypeOK'
  BY <1>1, <1>2 DEF TypeOK, Statuses, TaskPlaces
<1>4. Local(j)
  BY <1>1, <1>3 DEF Local, Same, TypeOK
<1>5. /\ jstatus'[j] = s /\ task'[j] = t /\ mine'[j] = {} /\ late'[j] = l
      /\ Eligible(j)' = Eligible(j) /\ Chosen(j)' = Chosen(j)
  BY <1>1 DEF TypeOK, Eligible, Chosen
<1>6. j \notin crossed => Chosen(j) \subseteq mine[j] /\ Chosen(j) \subseteq chosen[j]
  BY <1>1 DEF Sound, Steady, Bound
<1>7. j \notin crossed => Steady(j)'
  BY <1>1, <1>5, <1>6 DEF Steady, Previewable, Resumable
<1>8. Sound(j)'
  BY <1>1, <1>5, <1>7 DEF Sound
<1> QED BY <1>4, <1>8, LocalStep

LEMMA LeaveStep == ASSUME IInv, NEW j \in Jobs, Leave(j) PROVE IInv'
<1>1. /\ task[j] = "running" /\ mine' = [mine EXCEPT ![j] = {}]
      /\ UNCHANGED <<row, selected, known, previewVars, fresh, open, history>>
  BY DEF Leave
<1>2. CASE mine[j] = {} /\ LeaveLoop(j, "completed") /\ late' = [late EXCEPT ![j] = FALSE]
  BY <1>1, <1>2, Leaving DEF LeaveLoop, Put
<1>3. CASE LeaveLoop(j, "scheduled") /\ late' = [late EXCEPT ![j] = TRUE]
  BY <1>1, <1>3, Leaving DEF LeaveLoop, Put, Resumable
<1>4. CASE LeaveLoop(j, "failed") /\ UNCHANGED late
  <2>1. late \in [Jobs -> BOOLEAN]
    BY DEF IInv, TypeOK
  <2>2. late[j] \in BOOLEAN /\ late' = [late EXCEPT ![j] = late[j]]
    BY <1>4, <2>1, Zenon
  <2> QED BY <1>1, <1>4, <2>2, Leaving DEF LeaveLoop, Put
<1>5. CASE OutOfSessions(j)
  <2>1. task' = [task EXCEPT ![j] = "none"]
    BY <1>5 DEF OutOfSessions
  <2>2. PICK s \in {"scheduled", "proxy_error", "telegram_restricted", "failed"}, l \in BOOLEAN :
          jstatus' = [jstatus EXCEPT ![j] = s] /\ late' = [late EXCEPT ![j] = l]
    BY <1>5 DEF OutOfSessions, Put
  <2> QED BY <1>1, <2>1, <2>2, Leaving DEF Resumable
<1> QED BY <1>2, <1>3, <1>4, <1>5 DEF Leave

LEMMA TaskClosesStep == ASSUME IInv, NEW j \in Jobs, TaskCloses(j) PROVE IInv'
<1>1. /\ TypeOK /\ Sound(j) /\ task[j] = "closing"
      /\ task' = [task EXCEPT ![j] = "none"] /\ mine' = [mine EXCEPT ![j] = {}]
      /\ UNCHANGED <<jstatus, row, selected, late, known, preview, transfer, seen, fresh>>
      /\ UNCHANGED <<open, chosen, basis, crossed>>
  BY DEF IInv, TaskCloses, TaskEnds, jobVars, previewVars, history
<1>2. TypeOK'
  BY <1>1 DEF TypeOK, TaskPlaces
<1>3. Local(j)
  BY <1>1, <1>2 DEF Local, Same, TypeOK
<1>4. /\ task'[j] = "none" /\ mine'[j] = {}
      /\ Eligible(j)' = Eligible(j) /\ Chosen(j)' = Chosen(j)
  BY <1>1 DEF TypeOK, Eligible, Chosen
<1>5. j \notin crossed => Steady(j)'
  BY <1>1, <1>4 DEF Sound, Steady
<1>6. Sound(j)'
  BY <1>1, <1>4, <1>5 DEF Sound
<1> QED BY <1>3, <1>6, LocalStep

-----------------------------------------------------------------------------
(* Time and restarts.                                                      *)

LEMMA ResumeTimeStep == ASSUME IInv, NEW j \in Jobs, ResumeTime(j) PROVE IInv'
<1>1. /\ TypeOK /\ Sound(j) /\ task[j] # "closing" /\ late' = [late EXCEPT ![j] = FALSE]
      /\ UNCHANGED <<jstatus, row, selected, known, preview, transfer, seen, task, mine, fresh>>
      /\ UNCHANGED <<open, chosen, basis, crossed>>
  BY DEF IInv, ResumeTime, previewVars, taskVars, history
<1>2. late' \in [Jobs -> BOOLEAN]
  BY <1>1, Zenon DEF TypeOK
<1>3. TypeOK'
  BY <1>1, <1>2 DEF TypeOK
<1>4. Local(j)
  BY <1>1, <1>3 DEF Local, Same, TypeOK
<1>5. Eligible(j)' = Eligible(j) /\ Chosen(j)' = Chosen(j)
  BY <1>1 DEF Eligible, Chosen
<1>6. j \notin crossed => Steady(j)'
  BY <1>1, <1>5 DEF Sound, Steady
<1>7. Sound(j)'
  BY <1>1, <1>5, <1>6 DEF Sound
<1> QED BY <1>4, <1>7, LocalStep

LEMMA WindowStep ==
  ASSUME IInv, CloseWindow \/ OpenWindow \/ \E u \in Users : OtherJobAdds(u)
  PROVE  IInv'
<1>1. TypeOK /\ UNCHANGED <<jobVars, previewVars, taskVars, history>>
  BY DEF IInv, CloseWindow, OpenWindow, OtherJobAdds
<1>2. open' \in BOOLEAN /\ known' \subseteq Users
  BY <1>1 DEF CloseWindow, OpenWindow, OtherJobAdds, TypeOK
<1>3. TypeOK'
  BY <1>1, <1>2 DEF TypeOK, jobVars, previewVars, taskVars, history
<1> QED BY <1>1, <1>3, QuietStep

\* No task is left, so whatever has one now waits for a button or the scheduler.
LEMMA RestartStep == ASSUME IInv, Restart PROVE IInv'
<1>1. /\ TypeOK
      /\ jstatus' = [k \in Jobs |-> IF jstatus[k] \in {"running", "queued_execution"}
                                    THEN "approved" ELSE jstatus[k]]
      /\ task' = [k \in Jobs |-> "none"] /\ mine' = [k \in Jobs |-> {}]
      /\ preview' = [k \in Jobs |-> "none"] /\ transfer' = [k \in Jobs |-> FALSE]
      /\ UNCHANGED <<row, selected, late, known, seen, fresh, open, chosen, basis, crossed>>
  BY DEF IInv, Restart, history
<1>2. transfer' \in [Jobs -> BOOLEAN]
  BY <1>1, Zenon
<1>3. jstatus' \in [Jobs -> Statuses]
  BY <1>1 DEF TypeOK, Statuses, Resumable
<1>4. TypeOK'
  BY <1>1, <1>2, <1>3 DEF TypeOK, TaskPlaces, PreviewPlaces
<1>5. ASSUME NEW k \in Jobs PROVE Sound(k)'
  <2>1. /\ Sound(k) /\ task'[k] = "none" /\ mine'[k] = {}
        /\ jstatus'[k] = IF jstatus[k] \in {"running", "queued_execution"} THEN "approved"
                         ELSE jstatus[k]
    BY <1>1 DEF IInv
  <2>2. Eligible(k)' = Eligible(k) /\ Chosen(k)' = Chosen(k)
    BY <1>1 DEF Eligible, Chosen
  <2>3. k \notin crossed => Steady(k)'
    BY <1>1, <2>1, <2>2 DEF Sound, Steady, Previewable, Bound, Resumable
  <2> QED BY <1>1, <2>1, <2>2, <2>3 DEF Sound
<1> QED BY <1>4, <1>5 DEF IInv

-----------------------------------------------------------------------------
(* The theorems.                                                           *)

LEMMA InitInv == Init => IInv
<1> SUFFICES ASSUME Init PROVE IInv
  OBVIOUS
<1>1. late \in [Jobs -> BOOLEAN] /\ transfer \in [Jobs -> BOOLEAN] /\ fresh \in [Jobs -> BOOLEAN]
  BY Zenon DEF Init
<1>2. TypeOK
  BY <1>1 DEF Init, TypeOK, Statuses, RowStatuses, PreviewPlaces, TaskPlaces
<1>3. ASSUME NEW k \in Jobs PROVE Sound(k)
  BY DEF Init, Sound, Steady, Eligible, Chosen, Bound, Resumable
<1> QED BY <1>2, <1>3 DEF IInv

LEMMA NextInv == IInv /\ [Next]_vars => IInv'
<1> SUFFICES ASSUME IInv, [Next]_vars PROVE IInv'
  OBVIOUS
<1>1. ASSUME NEW j \in Jobs, Handler(j) PROVE IInv'
  BY <1>1, CreateStep, AskPreviewStep, PrepareTransferStep, SelectStep, ApproveStep, ExecuteStep
     DEF Handler
<1>2. ASSUME NEW j \in Jobs, PreviewStep(j) PROVE IInv'
  BY <1>2, ReadHistoryStep, WritePreviewStep, PreviewFailsStep, SelectAllStep DEF PreviewStep
<1>3. ASSUME NEW j \in Jobs, Run(j) PROVE IInv'
  BY <1>3, ClaimStep, InviteStep, OpenSessionStep, LeaveStep, TaskClosesStep DEF Run
<1>4. CASE UNCHANGED vars
  <2>1. TypeOK'
    BY <1>4 DEF IInv, TypeOK, vars, jobVars, previewVars, taskVars, history
  <2> QED BY <1>4, <2>1, QuietStep DEF vars
<1> QED BY <1>1, <1>2, <1>3, <1>4, SchedulerStartsStep, ResumeTimeStep, WindowStep, RestartStep
        DEF Next

\* The invariant holds in every reachable state.
THEOREM Invariance == Spec => []IInv
BY InitInv, NextInv, PTL DEF Spec

\* The variables keep their types.
THEOREM TypeCorrect == Spec => []TypeOK
<1>1. IInv => TypeOK
  BY DEF IInv
<1> QED BY <1>1, Invariance, PTL

\* execute_invite_job asks nobody the administrator had not selected when he
\* approved the job, through any number of restarts and resumptions, unless a
\* preview has written to the job meanwhile.
THEOREM Selection == Spec => []SelectionHonoured
<1>1. IInv => SelectionHonoured
  BY DEF IInv, Sound, Steady, SelectionHonoured
<1> QED BY <1>1, Invariance, PTL

\* execute_invite_job reports 'completed' only when no selected row is eligible.
THEOREM Completion == Spec => []CompletedIsDone
<1>1. IInv => CompletedIsDone
  BY DEF IInv, Sound, Steady, CompletedIsDone
<1> QED BY <1>1, Invariance, PTL

\* A job start_invite_job has queued has a coroutine that will claim it.
THEOREM Queued == Spec => []QueuedHasTask
<1>1. IInv => QueuedHasTask
  BY DEF IInv, Sound, Steady, QueuedHasTask
<1> QED BY <1>1, Invariance, PTL

\* preview_job_candidates and execute_invite_job together: whom the history
\* named when the rows of a run were written is not asked by that run.
THEOREM History == Spec => []HistoryHeeded
<1>1. IInv => HistoryHeeded
  BY DEF IInv, Sound, HistoryHeeded
<1> QED BY <1>1, Invariance, PTL

-----------------------------------------------------------------------------
(* Only a preview takes a job back.  A job that has not been started has   *)
(* no answers yet, and a run asks only who is still eligible in the table: *)
(* so no answer is written over another.                                   *)

Unasked(j) ==
    j \notin crossed =>
        /\ jstatus[j] \in Unstarted => \A u \in Users : row[j][u] \notin Settled
        /\ mine[j] \subseteq Eligible(j)

Ahead(j) == Unasked(j) => Onward(j) /\ Unasked(j)'

\* A step that leaves the rows alone and ends nothing.
Forward(j) ==
    /\ row'[j] = row[j] /\ (j \in crossed => j \in crossed')
    /\ j \notin crossed' =>
          /\ jstatus'[j] \in Unstarted => jstatus[j] \in Unstarted
          /\ jstatus[j] \in {"completed", "failed"} => jstatus'[j] = jstatus[j]
          /\ mine'[j] \subseteq mine[j] \cup Eligible(j)

LEMMA ForwardAhead == ASSUME NEW j \in Jobs, Forward(j) PROVE Ahead(j)
<1>1. Eligible(j)' = Eligible(j)
  BY DEF Forward, Eligible
<1> QED BY <1>1 DEF Forward, Ahead, Onward, Unasked

LEMMA HandlerForward == ASSUME IInv, NEW j \in Jobs, Handler(j), NEW k \in Jobs PROVE Forward(k)
<1>1. jstatus \in [Jobs -> Statuses] /\ row' = row /\ mine' = mine /\ crossed' = crossed
  BY DEF IInv, TypeOK, Handler, Create, AskPreview, PrepareTransfer, Select, Approve, Execute,
         jobVars, taskVars, history
<1>2. \/ jstatus' = jstatus
      \/ jstatus[j] = "absent" /\ jstatus' = [jstatus EXCEPT ![j] = "ready"]
      \/ jstatus[j] = "previewed" /\ jstatus' = [jstatus EXCEPT ![j] = "approved"]
      \/ /\ jstatus[j] \in Resumable
         /\ \/ jstatus' = [jstatus EXCEPT ![j] = "scheduled"]
            \/ jstatus' = [jstatus EXCEPT ![j] = "queued_execution"]
  BY DEF Handler, Create, AskPreview, PrepareTransfer, Select, Approve, Execute, Put, jobVars
<1> QED BY <1>1, <1>2 DEF Forward, Unstarted, Previewable, Resumable

\* A preview that would take the job back is what 'crossed' is about; another
\* preview finds no answers to erase.
LEMMA PreviewAhead == ASSUME IInv, NEW j \in Jobs, PreviewStep(j), NEW k \in Jobs PROVE Ahead(k)
<1>1. TypeOK /\ Sound(j) /\ mine' = mine
  BY DEF IInv, PreviewStep, ReadHistory, WritePreview, PreviewFails, SelectAll, taskVars
<1>2. CASE ReadHistory(j)
  BY <1>1, <1>2, ForwardAhead DEF Forward, ReadHistory, jobVars, history
<1>3. CASE PreviewFails(j) \/ SelectAll(j)
  <2>1. /\ row' = row
        /\ \/ UNCHANGED <<jstatus, crossed>>
           \/ /\ jstatus' = jstatus \/ jstatus' = [jstatus EXCEPT ![j] = "failed"]
              /\ NoteCrossing(j)
    BY <1>3 DEF PreviewFails, SelectAll, Put
  <2>2. CASE UNCHANGED <<jstatus, crossed>>
    BY <1>1, <2>1, <2>2, ForwardAhead DEF Forward
  <2>3. CASE /\ jstatus' = jstatus \/ jstatus' = [jstatus EXCEPT ![j] = "failed"]
             /\ NoteCrossing(j)
    <3>1. /\ crossed \subseteq crossed'
          /\ j \notin crossed' => jstatus[j] \in Previewable
      BY <1>1, <2>3, Crossing
    <3>2. Forward(k)
      BY <1>1, <2>1, <2>3, <3>1 DEF Forward, TypeOK, Unstarted, Previewable
    <3> QED BY <3>2, ForwardAhead
  <2> QED BY <2>1, <2>2, <2>3
<1>4. CASE WritePreview(j)
  <2>1. PICK listed \in SUBSET Users :
          row' = [row EXCEPT ![j] = [u \in Users |-> IF u \in listed THEN Verdict(j, u) ELSE "none"]]
    BY <1>4 DEF WritePreview
  <2>2. jstatus' = [jstatus EXCEPT ![j] = "previewed"] /\ NoteCrossing(j)
    BY <1>4 DEF WritePreview, Put
  <2>3. /\ crossed \subseteq crossed'
        /\ \A i \in Jobs \ {j} : i \in crossed' <=> i \in crossed
        /\ j \notin crossed' => jstatus[j] \in Previewable
    BY <1>1, <2>2, Crossing
  <2>4. CASE k # j
    <3>1. Forward(k)
      BY <1>1, <2>1, <2>2, <2>3, <2>4 DEF Forward, TypeOK
    <3> QED BY <3>1, ForwardAhead
  <2>5. CASE k = j /\ j \notin crossed'
    <3>1. jstatus[j] \in Previewable /\ mine[j] = {} /\ jstatus'[j] = "previewed"
      BY <1>1, <2>2, <2>3, <2>5 DEF Sound, Steady, TypeOK
    <3>2. \A u \in Users : row'[j][u] \in {"none", "eligible", "previously_used"}
      BY <1>1, <2>1 DEF TypeOK, Verdict
    <3> QED BY <1>1, <2>3, <2>5, <3>1, <3>2 DEF Ahead, Onward, Unasked, Unstarted, Previewable, Settled
  <2>6. CASE k = j /\ j \in crossed'
    BY <2>6 DEF Ahead, Onward, Unasked
  <2> QED BY <2>4, <2>5, <2>6
<1> QED BY <1>2, <1>3, <1>4 DEF PreviewStep

\* The answer goes to a row that was still eligible.
LEMMA InviteAhead == ASSUME IInv, NEW j \in Jobs, Invite(j), NEW k \in Jobs PROVE Ahead(k)
<1>1. /\ TypeOK /\ Sound(j) /\ task[j] = "running"
      /\ UNCHANGED <<jstatus, fresh, crossed>>
  BY DEF IInv, Invite, history
<1>2. PICK u \in mine[j], verdict \in {"invited", "refused"} :
        /\ mine' = [mine EXCEPT ![j] = @ \ {u}]
        /\ row' = IF fresh[j] THEN [row EXCEPT ![j][u] = verdict] ELSE row
  BY DEF Invite
<1>3. /\ u \in Users /\ row[j] \in [Users -> RowStatuses]
      /\ mine'[j] = mine[j] \ {u}
  BY <1>1, <1>2 DEF TypeOK
<1>4. CASE k # j \/ ~fresh[j]
  <2>1. Forward(k)
    BY <1>1, <1>2, <1>4 DEF Forward, TypeOK
  <2> QED BY <2>1, ForwardAhead
<1>5. CASE k = j /\ fresh[j] /\ j \notin crossed
  <2>1. row'[j] = [row[j] EXCEPT ![u] = verdict]
    BY <1>1, <1>2, <1>5 DEF TypeOK
  <2>2. jstatus[j] = "running"
    BY <1>1, <1>5 DEF Sound, Steady
  <2> SUFFICES ASSUME Unasked(j) PROVE Onward(j) /\ Unasked(j)'
    BY <1>5 DEF Ahead
  <2>3. mine[j] \subseteq Eligible(j)
    BY <1>5 DEF Unasked
  <2>4. \A v \in Users : row[j][v] \in Settled => row'[j][v] = row[j][v]
    BY <1>2, <1>3, <2>1, <2>3 DEF Eligible, Settled
  <2>5. mine'[j] \subseteq Eligible(j)'
    BY <1>3, <2>1, <2>3 DEF Eligible
  <2> QED BY <1>1, <2>2, <2>4, <2>5 DEF Onward, Unasked, Unstarted, Previewable
<1>6. CASE k = j /\ j \in crossed
  BY <1>1, <1>6 DEF Ahead, Onward, Unasked
<1> QED BY <1>4, <1>5, <1>6

LEMMA RunAhead == ASSUME IInv, NEW j \in Jobs, Run(j), NEW k \in Jobs PROVE Ahead(k)
<1>1. TypeOK /\ Sound(j)
  BY DEF IInv
<1>2. CASE Invite(j)
  BY <1>2, InviteAhead
<1>3. CASE Claim(j)
  <2>1. /\ row' = row /\ crossed' = crossed
        /\ \/ jstatus' = jstatus
           \/ /\ jstatus[j] \in Resumable \cup {"queued_execution"}
              /\ \/ jstatus' = [jstatus EXCEPT ![j] = "scheduled"]
                 \/ jstatus' = [jstatus EXCEPT ![j] = "running"]
    BY <1>3 DEF Claim, Put, history
  <2>2. mine' = [mine EXCEPT ![j] = {}] \/ mine' = [mine EXCEPT ![j] = Chosen(j)]
    BY <1>3 DEF Claim, TaskEnds, ToInvite
  <2>3. mine'[k] \subseteq mine[k] \cup Eligible(k)
    BY <1>1, <2>2 DEF TypeOK, Chosen
  <2>4. Forward(k)
    BY <1>1, <2>1, <2>3 DEF Forward, TypeOK, Unstarted, Previewable, Resumable
  <2> QED BY <2>4, ForwardAhead
<1>4. CASE OpenSession(j)
  <2>1. /\ row' = row /\ crossed' = crossed /\ mine' = mine /\ task[j] = "running"
        /\ jstatus[j] # "running" /\ jstatus' = [jstatus EXCEPT ![j] = "running"]
    BY <1>4 DEF OpenSession, Put, taskVars, history
  <2>2. j \in crossed
    BY <1>1, <2>1 DEF Sound, Steady
  <2>3. Forward(k)
    BY <1>1, <2>1, <2>2 DEF Forward, TypeOK
  <2> QED BY <2>3, ForwardAhead
<1>5. CASE Leave(j)
  <2>1. /\ row' = row /\ crossed' = crossed /\ mine' = [mine EXCEPT ![j] = {}]
        /\ task[j] = "running"
    BY <1>5 DEF Leave, history
  <2>2. \E s \in Resumable \cup {"completed", "failed"} : jstatus' = [jstatus EXCEPT ![j] = s]
    BY <1>5 DEF Leave, LeaveLoop, OutOfSessions, Put, Resumable
  <2>3. j \notin crossed => jstatus[j] = "running"
    BY <1>1, <2>1 DEF Sound, Steady
  <2>4. Forward(k)
    BY <1>1, <2>1, <2>2, <2>3 DEF Forward, TypeOK, Unstarted, Previewable, Resumable
  <2> QED BY <2>4, ForwardAhead
<1>6. CASE TaskCloses(j)
  <2>1. row' = row /\ crossed' = crossed /\ jstatus' = jstatus /\ mine' = [mine EXCEPT ![j] = {}]
    BY <1>6 DEF TaskCloses, TaskEnds, jobVars, history
  <2>2. Forward(k)
    BY <1>1, <2>1 DEF Forward, TypeOK
  <2> QED BY <2>2, ForwardAhead
<1> QED BY <1>2, <1>3, <1>4, <1>5, <1>6 DEF Run

LEMMA NextAhead == ASSUME IInv, [Next]_vars, NEW k \in Jobs PROVE Ahead(k)
<1>1. ASSUME NEW j \in Jobs, Handler(j) PROVE Ahead(k)
  BY <1>1, HandlerForward, ForwardAhead
<1>2. ASSUME NEW j \in Jobs, PreviewStep(j) PROVE Ahead(k)
  BY <1>2, PreviewAhead
<1>3. ASSUME NEW j \in Jobs, Run(j) PROVE Ahead(k)
  BY <1>3, RunAhead
<1>4. CASE UNCHANGED <<jstatus, row, mine, crossed>>
  BY <1>4, ForwardAhead DEF Forward
<1>5. ASSUME \/ \E j \in Jobs : SchedulerStarts(j) \/ ResumeTime(j)
             \/ \E u \in Users : OtherJobAdds(u)
             \/ CloseWindow \/ OpenWindow \/ UNCHANGED vars
      PROVE  UNCHANGED <<jstatus, row, mine, crossed>>
  BY <1>5 DEF SchedulerStarts, ResumeTime, OtherJobAdds, CloseWindow, OpenWindow, vars, jobVars,
              taskVars, history
<1>6. CASE Restart
  <2>1. /\ row' = row /\ crossed' = crossed /\ mine'[k] = {}
        /\ jstatus'[k] = IF jstatus[k] \in {"running", "queued_execution"} THEN "approved"
                         ELSE jstatus[k]
    BY <1>6 DEF Restart, history
  <2>2. Forward(k)
    BY <2>1 DEF Forward, Unstarted, Previewable
  <2> QED BY <2>2, ForwardAhead
<1> QED BY <1>1, <1>2, <1>3, <1>4, <1>5, <1>6 DEF Next

\* Only a preview that writes to a job late takes it back: otherwise what is
\* approved stays approved, what has ended stays as it ended, and the answers
\* of Telegram stay in the rows, also through a restart.
THEOREM GoesOnward == Spec => OnlyOnward
<1> DEFINE AllUnasked == \A j \in Jobs : Unasked(j)
<1>1. Init => AllUnasked
  BY DEF Init, Unasked, Settled
<1>2. IInv /\ AllUnasked /\ [Next]_vars => AllUnasked' /\ [\A j \in Jobs : Onward(j)]_vars
  BY NextAhead DEF Ahead
<1> QED BY <1>1, <1>2, Invariance, PTL DEF Spec, OnlyOnward
=============================================================================
