------------------------- MODULE BatchRunnerProofs -------------------------
(***************************************************************************)
(* Proofs about BatchRunner for any batches and items and any number of    *)
(* interventions.                                                          *)
(*                                                                         *)
(* Every action but a shutdown and a crash concerns one batch, so the      *)
(* inductive invariant is a predicate on a single batch, Sound(b): each    *)
(* action restores it for its own batch and leaves the others as they are  *)
(* (Local).  A batch is completed only when its task comes to the head of  *)
(* the loop and finds nothing queued; that nothing is being checked there  *)
(* either is what makes it complete.                                       *)
(***************************************************************************)
EXTENDS BatchRunner, FiniteSetTheorems, WellFoundedInduction, TLAPS

-----------------------------------------------------------------------------
(* The inductive invariant.                                                *)

\* An item being checked is that of the task, which still is to put it back
\* if it has left the item without a verdict.
Checked(b) ==
    \A i \in Items : item[b][i] = "checking" /\ <<b, i>> \notin torn =>
        cur[b] = i /\ (place[b] = "work" \/ (place[b] = "leaving" /\ next[b] = "cancel"))

Completed(b) ==
    bstatus[b] = "completed" =>
        /\ place[b] = "none"
        /\ \A i \in Items : <<b, i>> \in torn \/ item[b][i] \in Verdicts
        /\ processed[b] = Cardinality(With(b, item, Verdicts))

\* A task that works for a stopped batch has its cancellation before it.
Stopped(b) == bstatus[b] = "stopped" /\ place[b] = "work" => cancelled[b]

Sound(b) == Stopped(b) /\ Checked(b) /\ Completed(b)

IInv == TypeOK /\ \A b \in Batches : Sound(b)

-----------------------------------------------------------------------------
(* Data.                                                                   *)

Below == {ss \in Nat \X Nat : ss[1] < ss[2]}

LEMMA BelowIsWellFounded == IsWellFoundedOn(Below, Nat)
BY NatLessThanWellFounded, SMT DEF OpToRel, Below

\* Some item is the first of those that wait for their turn.
LEMMA FirstOne == ASSUME NEW T \in SUBSET Items, T # {} PROVE Min(T) \in T
<1>1. T \in SUBSET Nat
  BY ItemAssumption
<1>2. PICK x \in T : \A y \in T : ~(<<y, x>> \in Below)
  BY <1>1, WFMin, BelowIsWellFounded
<1>3. \A y \in T : y \in Nat
  BY <1>1
<1>4. \A y \in T : y < x => <<y, x>> \in Below
  BY <1>3 DEF Below
<1>5. x \in Nat /\ \A y \in T : ~(y < x)
  BY <1>2, <1>3, <1>4
<1>6. \A y \in T : x <= y
  BY <1>3, <1>5
<1> QED BY <1>6 DEF Min

ItemMaps == [Batches -> [Items -> ItemStatuses]]

\* No more items have a status than there are.
LEMMA Count ==
  ASSUME NEW b \in Batches, NEW it \in ItemMaps, NEW st
  PROVE  Cardinality(With(b, it, st)) \in 0 .. Cardinality(Items)
<1>1. With(b, it, st) \subseteq Items
  BY DEF With
<1>2. /\ Cardinality(With(b, it, st)) \in Nat /\ Cardinality(Items) \in Nat
      /\ Cardinality(With(b, it, st)) <= Cardinality(Items)
  BY <1>1, FS_Subset, FS_CardinalityType, ItemAssumption
<1> QED BY <1>2

\* The counter of a batch that is refreshed.
LEMMA Refreshed ==
  ASSUME TypeOK, NEW b \in Batches, NEW it \in ItemMaps, Refresh(b, it)
  PROVE  /\ processed' \in [Batches -> 0 .. Cardinality(Items)]
         /\ \A c \in Batches \ {b} : processed'[c] = processed[c]
         /\ processed'[b] = Cardinality(With(b, it, Verdicts))
<1> DEFINE n == Cardinality(With(b, it, Verdicts))
<1>1. n \in 0 .. Cardinality(Items)
  BY Count
<1>2. processed' = [processed EXCEPT ![b] = n]
  BY DEF Refresh
<1>3. processed \in [Batches -> 0 .. Cardinality(Items)]
  BY DEF TypeOK
<1> HIDE DEF n
<1>4. /\ processed' \in [Batches -> 0 .. Cardinality(Items)]
      /\ \A c \in Batches \ {b} : processed'[c] = processed[c]
      /\ processed'[b] = n
  BY <1>1, <1>2, <1>3
<1> QED BY <1>4 DEF n

-----------------------------------------------------------------------------
(* One batch at a time.                                                    *)

\* What of another batch stays as it is.
Same(c) ==
    /\ bstatus'[c] = bstatus[c] /\ item'[c] = item[c] /\ processed'[c] = processed[c]
    /\ place'[c] = place[c] /\ cur'[c] = cur[c] /\ next'[c] = next[c]
    /\ cancelled'[c] = cancelled[c]
    /\ \A i \in Items : <<c, i>> \in torn' <=> <<c, i>> \in torn

Local(b) == TypeOK' /\ \A c \in Batches \ {b} : Same(c)

LEMMA LocalStep ==
  ASSUME IInv, NEW b \in Batches, Local(b), Sound(b)'
  PROVE  IInv'
<1>1. ASSUME NEW c \in Batches \ {b} PROVE Sound(c)'
  <2>1. Sound(c) /\ Same(c)
    BY DEF IInv, Local
  <2>2. With(c, item', Verdicts) = With(c, item, Verdicts)
    BY <2>1 DEF Same, With
  <2>3. Stopped(c)' /\ Checked(c)'
    BY <2>1 DEF Sound, Same, Checked, Stopped
  <2>4. Completed(c)'
    BY <2>1, <2>2 DEF Sound, Same, Completed
  <2> QED BY <2>3, <2>4 DEF Sound
<1> QED BY <1>1 DEF IInv, Local

\* The variables of the task after its end.
Over(b) ==
    /\ place' \in [Batches -> Places] /\ cur' \in [Batches -> Items \cup {NoItem}]
    /\ next' \in [Batches -> {"loop", "return", "cancel"}]
    /\ cancelled' \in [Batches -> BOOLEAN]
    /\ place'[b] = "none"
    /\ \A c \in Batches \ {b} :
          /\ place'[c] = place[c] /\ cur'[c] = cur[c] /\ next'[c] = next[c]
          /\ cancelled'[c] = cancelled[c]

LEMMA TaskOver == ASSUME TypeOK, NEW b \in Batches, EndTask(b) PROVE Over(b)
<1>1. /\ place' = [place EXCEPT ![b] = "none"] /\ cur' = [cur EXCEPT ![b] = NoItem]
      /\ next' = [next EXCEPT ![b] = "loop"] /\ cancelled' = [cancelled EXCEPT ![b] = FALSE]
  BY DEF EndTask, Goto
<1>2. /\ place \in [Batches -> Places] /\ cur \in [Batches -> Items \cup {NoItem}]
      /\ next \in [Batches -> {"loop", "return", "cancel"}]
  BY DEF TypeOK
<1>3. cancelled \in [Batches -> BOOLEAN]
  BY DEF TypeOK
<1>4. cancelled' \in [Batches -> BOOLEAN]
  BY <1>1, <1>3
<1>5. /\ place' \in [Batches -> Places] /\ cur' \in [Batches -> Items \cup {NoItem}]
      /\ next' \in [Batches -> {"loop", "return", "cancel"}]
  BY <1>1, <1>2 DEF Places
<1>6. /\ place'[b] = "none"
      /\ \A c \in Batches \ {b} :
          /\ place'[c] = place[c] /\ cur'[c] = cur[c] /\ next'[c] = next[c]
          /\ cancelled'[c] = cancelled[c]
  BY <1>1, <1>2, <1>3
<1> QED BY <1>4, <1>5, <1>6 DEF Over

\* A batch whose task is over is sound if nothing but what is torn is being
\* checked and it has not just become completed.
LEMMA OverSound ==
  ASSUME IInv, NEW b \in Batches, Over(b), bstatus'[b] # "completed",
         \A i \in Items : <<b, i>> \in torn' \/ item'[b][i] # "checking"
  PROVE  Sound(b)'
BY DEF Over, Sound, Checked, Completed, Stopped

-----------------------------------------------------------------------------
(* The handlers.                                                           *)

LEMMA CreateStep == ASSUME IInv, NEW b \in Batches, Create(b) PROVE IInv'
<1>1. /\ bstatus[b] = "none" /\ bstatus' = [bstatus EXCEPT ![b] = "queued"]
      /\ place' = [place EXCEPT ![b] = IF @ = "none" THEN "new" ELSE @]
      /\ UNCHANGED <<item, processed, waiting, cur, next, cancelled, torn, acts>>
  BY DEF Create, Become, Start
<1>2. TypeOK /\ Sound(b)
  BY DEF IInv
<1>3. Local(b)
  BY <1>1, <1>2 DEF TypeOK, Local, Same, BatchStatuses, Places
<1>4. bstatus'[b] = "queued" /\ (place[b] \in {"work", "leaving"} => place'[b] = place[b])
  BY <1>1, <1>2 DEF TypeOK
<1>5. Sound(b)'
  BY <1>1, <1>2, <1>4 DEF Sound, Checked, Completed, Stopped
<1> QED BY <1>3, <1>5, LocalStep

LEMMA ResumeStep == ASSUME IInv, NEW b \in Batches, Resume(b) PROVE IInv'
<1>1. /\ bstatus' = [bstatus EXCEPT ![b] = "queued"]
      /\ place' = [place EXCEPT ![b] = IF @ = "none" THEN "new" ELSE @]
      /\ UNCHANGED <<processed, waiting, cur, next, cancelled, torn>>
      /\ acts < MaxActs /\ acts' = acts + 1
      /\ Requeue(b) \/ UNCHANGED item
  BY DEF Resume, Become, Start, Act
<1>2. TypeOK /\ Sound(b)
  BY DEF IInv
<1>3. /\ item' \in [Batches -> [Items -> ItemStatuses]]
      /\ \A c \in Batches \ {b} : item'[c] = item[c]
      /\ \A i \in Items : item'[b][i] = "checking" => item[b][i] = "checking"
  BY <1>1, <1>2 DEF TypeOK, Requeue, ItemStatuses, Verdicts
<1>4. acts' \in 0 .. MaxActs
  BY <1>1, <1>2, ActsAssumption DEF TypeOK
<1>5. Local(b)
  BY <1>1, <1>2, <1>3, <1>4 DEF TypeOK, Local, Same, BatchStatuses, Places
<1>6. bstatus'[b] = "queued" /\ (place[b] \in {"work", "leaving"} => place'[b] = place[b])
  BY <1>1, <1>2 DEF TypeOK
<1>7. Sound(b)'
  BY <1>1, <1>2, <1>3, <1>6 DEF Sound, Checked, Completed, Stopped
<1> QED BY <1>5, <1>7, LocalStep

LEMMA StopStep == ASSUME IInv, NEW b \in Batches, Stop(b) PROVE IInv'
<1>1. /\ bstatus' = [bstatus EXCEPT ![b] = "stopped"]
      /\ waiting' = [waiting EXCEPT ![b] = FALSE]
      /\ cancelled' = [cancelled EXCEPT ![b] = place[b] # "none"]
      /\ UNCHANGED <<item, processed, place, cur, next, torn>>
      /\ acts < MaxActs /\ acts' = acts + 1
  BY DEF Stop, Become, Act
<1>2. TypeOK /\ Sound(b)
  BY DEF IInv
<1>3. acts' \in 0 .. MaxActs
  BY <1>1, <1>2, ActsAssumption DEF TypeOK
<1>4. cancelled' \in [Batches -> BOOLEAN] /\ waiting' \in [Batches -> BOOLEAN]
  BY <1>1, <1>2, Zenon DEF TypeOK
<1>5. Local(b)
  BY <1>1, <1>2, <1>3, <1>4 DEF TypeOK, Local, Same, BatchStatuses
<1>6. bstatus'[b] = "stopped" /\ (place[b] = "work" => cancelled'[b])
  BY <1>1, <1>2 DEF TypeOK
<1>7. Sound(b)'
  BY <1>1, <1>2, <1>6 DEF Sound, Checked, Completed, Stopped
<1> QED BY <1>5, <1>7, LocalStep

LEMMA WaitEndsStep == ASSUME IInv, NEW b \in Batches, WaitEnds(b) PROVE IInv'
<1>1. TypeOK /\ waiting' = [waiting EXCEPT ![b] = FALSE]
  BY DEF WaitEnds, IInv
<1>2. waiting' \in [Batches -> BOOLEAN]
  BY <1>1 DEF TypeOK
<1>3. UNCHANGED <<bstatus, item, processed, taskVars, torn, acts>>
  BY DEF WaitEnds
<1>4. TypeOK'
  BY <1>1, <1>2, <1>3 DEF TypeOK, taskVars
<1>5. \A c \in Batches : Sound(c)'
  BY <1>3 DEF IInv, Sound, Checked, Completed, Stopped, taskVars
<1> QED BY <1>4, <1>5 DEF IInv

-----------------------------------------------------------------------------
(* The task.                                                               *)

LEMMA BeginStep == ASSUME IInv, NEW b \in Batches, Begin(b) PROVE IInv'
<1>1. TypeOK /\ Sound(b) /\ place[b] = "new" /\ UNCHANGED <<item, processed, torn, acts>>
  BY DEF IInv, Begin
<1>2. CASE EndTask(b) /\ UNCHANGED <<bstatus, waiting>>
  <2>1. Over(b)
    BY <1>1, <1>2, TaskOver
  <2>2. Local(b)
    BY <1>1, <1>2, <2>1 DEF Local, Same, Over, TypeOK
  <2>3. Sound(b)'
    BY <1>1, <1>2, <2>1, OverSound DEF Sound, Checked, Completed
  <2> QED BY <2>2, <2>3, LocalStep
<1>3. CASE /\ Become(b, "running") /\ Goto(b, "loop")
           /\ waiting' = [waiting EXCEPT ![b] = FALSE]
           /\ UNCHANGED <<cur, next, cancelled>>
  <2>1. waiting' \in [Batches -> BOOLEAN]
    BY <1>1, <1>3, Zenon DEF TypeOK
  <2>2. /\ bstatus' = [bstatus EXCEPT ![b] = "running"]
        /\ place' = [place EXCEPT ![b] = "loop"]
    BY <1>3 DEF Become, Goto
  <2>3. Local(b)
    BY <1>1, <1>3, <2>1, <2>2 DEF Local, Same, TypeOK, BatchStatuses, Places
  <2>4. bstatus'[b] = "running" /\ place'[b] = "loop"
    BY <1>1, <2>2 DEF TypeOK
  <2>5. Sound(b)'
    BY <1>1, <1>3, <2>4 DEF Sound, Checked, Completed, Stopped
  <2> QED BY <2>3, <2>5, LocalStep
<1> QED BY <1>2, <1>3 DEF Begin

LEMMA GiveWayStep ==
  ASSUME IInv, NEW b \in Batches, place[b] = "loop", GiveWay(b), UNCHANGED <<torn, acts>>
  PROVE  IInv'
<1>1. TypeOK /\ Sound(b) /\ UNCHANGED rowVars
  BY DEF IInv, GiveWay
<1>2. Over(b)
  BY <1>1, TaskOver DEF GiveWay
<1>3. Local(b)
  BY <1>1, <1>2 DEF Local, Same, Over, TypeOK, rowVars
<1>4. Sound(b)'
  BY <1>1, <1>2, OverSound DEF Sound, Checked, Completed, rowVars
<1> QED BY <1>3, <1>4, LocalStep

\* Nothing is queued, and as the task is at the head of the loop nothing is
\* being checked: every item has its verdict, and the counter is taken anew.
LEMMA CompleteStep ==
  ASSUME IInv, NEW b \in Batches, place[b] = "loop", Complete(b), UNCHANGED <<torn, acts>>
  PROVE  IInv'
<1>1. /\ TypeOK /\ Sound(b) /\ UNCHANGED item
      /\ bstatus' = [bstatus EXCEPT ![b] = "completed"]
      /\ waiting' = [waiting EXCEPT ![b] = FALSE]
      /\ Refresh(b, item) /\ With(b, item, {"queued"}) = {}
  BY DEF IInv, Complete, Become
<1>2. Over(b)
  BY <1>1, TaskOver DEF Complete
<1>3. item \in ItemMaps
  BY <1>1 DEF TypeOK, ItemMaps
<1>4. /\ processed' \in [Batches -> 0 .. Cardinality(Items)]
      /\ \A c \in Batches \ {b} : processed'[c] = processed[c]
      /\ processed'[b] = Cardinality(With(b, item, Verdicts))
  BY <1>1, <1>3, Refreshed
<1>5. waiting' \in [Batches -> BOOLEAN]
  BY <1>1, Zenon DEF TypeOK
<1>6. Local(b)
  BY <1>1, <1>2, <1>4, <1>5 DEF Local, Same, Over, TypeOK, BatchStatuses
<1>7. ASSUME NEW i \in Items, <<b, i>> \notin torn PROVE item[b][i] \in Verdicts
  <2>1. item[b][i] \in ItemStatuses \ {"checking", "queued"}
    BY <1>1, <1>3, <1>7 DEF ItemMaps, Sound, Checked, With
  <2> QED BY <2>1 DEF ItemStatuses
<1>8. bstatus'[b] = "completed"
  BY <1>1 DEF TypeOK
<1>9. Sound(b)'
  <2>1. Stopped(b)'
    BY <1>8 DEF Stopped
  <2>2. Checked(b)'
    BY <1>1, <1>7 DEF Checked, Verdicts
  <2>3. /\ processed'[b] = Cardinality(With(b, item, Verdicts))
        /\ With(b, item', Verdicts) = With(b, item, Verdicts)
    BY <1>1, <1>4
  <2>4. Completed(b)'
    BY <1>1, <1>2, <1>7, <2>3 DEF Over, Completed
  <2> QED BY <2>1, <2>2, <2>4 DEF Sound
<1> QED BY <1>6, <1>9, LocalStep

LEMMA PickStep ==
  ASSUME IInv, NEW b \in Batches, place[b] = "loop", Pick(b), UNCHANGED <<torn, acts>>
  PROVE  IInv'
<1>1. With(b, item, {"queued"}) \subseteq Items
  BY DEF With
<1>2. PICK first \in Items :
        /\ item' = [item EXCEPT ![b][first] = "checking"]
        /\ cur' = [cur EXCEPT ![b] = first]
  BY <1>1, FirstOne DEF Pick, SetItem
<1>3. /\ TypeOK /\ Sound(b) /\ place' = [place EXCEPT ![b] = "work"]
      /\ bstatus[b] = "running" /\ UNCHANGED <<bstatus, processed, waiting, next, cancelled>>
  BY DEF IInv, Pick, Goto
<1>4. /\ item' \in [Batches -> [Items -> ItemStatuses]]
      /\ \A c \in Batches \ {b} : item'[c] = item[c]
      /\ \A i \in Items \ {first} : item'[b][i] = item[b][i]
  BY <1>2, <1>3 DEF TypeOK, ItemStatuses
<1>5. Local(b)
  BY <1>2, <1>3, <1>4 DEF Local, Same, TypeOK, Places
<1>6. place'[b] = "work" /\ cur'[b] = first
  BY <1>2, <1>3 DEF TypeOK
<1>7. bstatus'[b] = "running"
  BY <1>3
<1>8. ASSUME NEW i \in Items, <<b, i>> \notin torn', item'[b][i] = "checking" PROVE i = first
  <2>1. Checked(b) /\ place[b] = "loop"
    BY <1>3, <1>8 DEF Sound
  <2> QED BY <1>4, <1>8, <2>1 DEF Checked
<1>9. Stopped(b)' /\ Completed(b)'
  BY <1>7 DEF Completed, Stopped
<1>10. Checked(b)'
  BY <1>6, <1>8 DEF Checked
<1>11. Sound(b)'
  BY <1>9, <1>10 DEF Sound
<1> QED BY <1>5, <1>11, LocalStep

LEMMA JudgeStep ==
  ASSUME IInv, NEW b \in Batches, place[b] = "loop", Judge(b), UNCHANGED <<torn, acts>>
  PROVE  IInv'
<1>1. With(b, item, {"queued"}) \subseteq Items
  BY DEF With
<1>2. PICK first \in Items :
        /\ item' = [item EXCEPT ![b][first] = "repeatable"]
        /\ Refresh(b, item')
  BY <1>1, FirstOne DEF Judge, SetItem
<1>3. TypeOK /\ Sound(b) /\ bstatus[b] = "running" /\ UNCHANGED <<bstatus, waiting, taskVars>>
  BY DEF IInv, Judge
<1>4. /\ item' \in ItemMaps
      /\ \A c \in Batches \ {b} : item'[c] = item[c]
      /\ \A i \in Items : item'[b][i] = "checking" => item[b][i] = "checking"
  BY <1>2, <1>3 DEF TypeOK, ItemStatuses, Verdicts, ItemMaps
<1>5. /\ processed' \in [Batches -> 0 .. Cardinality(Items)]
      /\ \A c \in Batches \ {b} : processed'[c] = processed[c]
  BY <1>2, <1>3, <1>4, Refreshed
<1>6. Local(b)
  BY <1>3, <1>4, <1>5 DEF Local, Same, TypeOK, ItemMaps, taskVars
<1>7. Sound(b)'
  BY <1>3, <1>4 DEF Sound, Checked, Completed, Stopped, taskVars
<1> QED BY <1>6, <1>7, LocalStep

LEMMA LoopStep == ASSUME IInv, NEW b \in Batches, Loop(b) PROVE IInv'
BY GiveWayStep, CompleteStep, PickStep, JudgeStep DEF Loop

LEMMA FinishStep == ASSUME IInv, NEW b \in Batches, Finish(b) PROVE IInv'
<1>1. PICK verdict \in Verdicts : item' = [item EXCEPT ![b][cur[b]] = verdict]
  BY DEF Finish, SetItem
<1>2. /\ TypeOK /\ Sound(b) /\ place[b] = "work"
      /\ place' = [place EXCEPT ![b] = "leaving"]
      /\ UNCHANGED <<bstatus, processed, waiting, cur, next, cancelled, torn, acts>>
  BY DEF IInv, Finish, Goto
<1>3. verdict \in ItemStatuses /\ verdict # "checking"
  BY DEF ItemStatuses, Verdicts
<1>4. /\ item' \in [Batches -> [Items -> ItemStatuses]]
      /\ \A c \in Batches \ {b} : item'[c] = item[c]
      /\ \A i \in Items : item'[b][i] = "checking" => item[b][i] = "checking" /\ i # cur[b]
  BY <1>1, <1>2, <1>3 DEF TypeOK
<1>5. Local(b)
  BY <1>2, <1>4 DEF Local, Same, TypeOK, Places
<1>6. place'[b] = "leaving"
  BY <1>2 DEF TypeOK
<1>7. Sound(b)'
  BY <1>2, <1>4, <1>6 DEF Sound, Checked, Completed, Stopped
<1> QED BY <1>5, <1>7, LocalStep

\* A stopped batch does not get here: its cancellation comes first.
LEMMA LimitStep ==
  ASSUME IInv, NEW b \in Batches, Limit(b)
  PROVE  IInv' /\ bstatus[b] # "stopped"
<1>1. /\ TypeOK /\ Sound(b) /\ place[b] = "work" /\ ~cancelled[b]
      /\ item' = [item EXCEPT ![b][cur[b]] = "queued"] /\ Refresh(b, item')
      /\ bstatus' = [bstatus EXCEPT ![b] = "paused"]
      /\ waiting' = [waiting EXCEPT ![b] = TRUE]
      /\ place' = [place EXCEPT ![b] = "leaving"]
      /\ next' = [next EXCEPT ![b] = "return"]
      /\ UNCHANGED <<cur, cancelled, torn, acts>>
  BY DEF IInv, Limit, Goto, Become, SetItem
<1>2. /\ item' \in ItemMaps
      /\ \A c \in Batches \ {b} : item'[c] = item[c]
      /\ \A i \in Items : item'[b][i] = "checking" => item[b][i] = "checking" /\ i # cur[b]
  BY <1>1 DEF TypeOK, ItemMaps, ItemStatuses
<1>3. /\ processed' \in [Batches -> 0 .. Cardinality(Items)]
      /\ \A c \in Batches \ {b} : processed'[c] = processed[c]
  BY <1>1, <1>2, Refreshed
<1>4. waiting' \in [Batches -> BOOLEAN]
  BY <1>1, Zenon DEF TypeOK
<1>5. Local(b)
  BY <1>1, <1>2, <1>3, <1>4 DEF Local, Same, TypeOK, Places, BatchStatuses, ItemMaps
<1>6. place'[b] = "leaving" /\ bstatus'[b] = "paused"
  BY <1>1 DEF TypeOK
<1>7. Sound(b)'
  BY <1>1, <1>2, <1>6 DEF Sound, Checked, Completed, Stopped
<1>8. bstatus[b] # "stopped"
  BY <1>1 DEF Sound, Stopped
<1> QED BY <1>5, <1>7, <1>8, LocalStep

LEMMA InterruptedStep == ASSUME IInv, NEW b \in Batches, Interrupted(b) PROVE IInv'
<1>1. /\ TypeOK /\ Sound(b) /\ place[b] = "work"
      /\ place' = [place EXCEPT ![b] = "leaving"]
      /\ next' = [next EXCEPT ![b] = "cancel"]
      /\ cancelled' = [cancelled EXCEPT ![b] = FALSE]
      /\ UNCHANGED <<bstatus, item, processed, waiting, cur, torn, acts>>
  BY DEF IInv, Interrupted, Goto, rowVars
<1>2. cancelled' \in [Batches -> BOOLEAN]
  BY <1>1, Zenon DEF TypeOK
<1>3. Local(b)
  BY <1>1, <1>2 DEF Local, Same, TypeOK, Places
<1>4. place'[b] = "leaving" /\ next'[b] = "cancel"
  BY <1>1 DEF TypeOK
<1>5. Sound(b)'
  BY <1>1, <1>4 DEF Sound, Checked, Completed, Stopped
<1> QED BY <1>3, <1>5, LocalStep

\* Whatever the task was at, nothing is being checked afterwards, and the batch
\* is paused only if it was still running.
LEMMA CleanUpStep ==
  ASSUME IInv, NEW b \in Batches, place[b] # "none", CleanUp(b), UNCHANGED <<torn, acts>>
  PROVE  IInv'
<1>1. /\ TypeOK /\ Sound(b)
      /\ item' = [item EXCEPT ![b] =
                     [i \in Items |-> IF i = cur[b] /\ @[i] = "checking" THEN "queued"
                                      ELSE @[i]]]
      /\ Refresh(b, item')
      /\ bstatus' = [bstatus EXCEPT ![b] = IF @ = "running" THEN "paused" ELSE @]
      /\ waiting' = [waiting EXCEPT ![b] = @ /\ bstatus[b] # "running"]
      /\ EndTask(b)
  BY DEF IInv, CleanUp
<1>2. Over(b)
  BY <1>1, TaskOver
<1>3. /\ item' \in ItemMaps
      /\ \A c \in Batches \ {b} : item'[c] = item[c]
      /\ \A i \in Items : item'[b][i] = "checking" => item[b][i] = "checking" /\ i # cur[b]
  BY <1>1 DEF TypeOK, ItemMaps, ItemStatuses
<1>4. /\ processed' \in [Batches -> 0 .. Cardinality(Items)]
      /\ \A c \in Batches \ {b} : processed'[c] = processed[c]
  BY <1>1, <1>3, Refreshed
<1>5. waiting' \in [Batches -> BOOLEAN]
  BY <1>1, Zenon DEF TypeOK
<1>6. Local(b)
  BY <1>1, <1>2, <1>3, <1>4, <1>5 DEF Local, Same, Over, TypeOK, BatchStatuses, ItemMaps
<1>7. /\ bstatus[b] = "running" => bstatus'[b] = "paused"
      /\ bstatus[b] # "running" => bstatus'[b] = bstatus[b]
  BY <1>1 DEF TypeOK
<1>8. Sound(b)'
  BY <1>1, <1>2, <1>3, <1>7, OverSound DEF Sound, Checked, Completed
<1> QED BY <1>6, <1>7, <1>8, LocalStep

LEMMA LeaveStep ==
  ASSUME IInv, NEW b \in Batches, Leave(b) PROVE IInv'
<1>1. TypeOK /\ Sound(b) /\ place[b] = "leaving" /\ UNCHANGED <<torn, acts>>
  BY DEF IInv, Leave
<1>2. CASE CleanUp(b)
  BY <1>1, <1>2, CleanUpStep
<1>3. CASE next[b] = "return" /\ EndTask(b) /\ UNCHANGED rowVars
  <2>1. Over(b)
    BY <1>1, <1>3, TaskOver
  <2>2. Local(b)
    BY <1>1, <1>3, <2>1 DEF Local, Same, Over, TypeOK, rowVars
  <2>3. Sound(b)'
    BY <1>1, <1>3, <2>1, OverSound DEF Sound, Checked, Completed, rowVars
  <2> QED BY <1>3, <2>2, <2>3, LocalStep DEF rowVars
<1>4. ASSUME next[b] = "loop", Refresh(b, item), cur' = [cur EXCEPT ![b] = NoItem],
             NEW p \in {"sleep", "loop"}, Goto(b, p),
             UNCHANGED <<bstatus, item, waiting, next, cancelled>>
      PROVE  IInv'
  <2>1. item \in ItemMaps
    BY <1>1 DEF TypeOK, ItemMaps
  <2>2. /\ processed' \in [Batches -> 0 .. Cardinality(Items)]
        /\ \A c \in Batches \ {b} : processed'[c] = processed[c]
    BY <1>1, <1>4, <2>1, Refreshed
  <2>3. place' = [place EXCEPT ![b] = p]
    BY <1>4 DEF Goto
  <2>4. Local(b)
    BY <1>1, <1>4, <2>2, <2>3 DEF Local, Same, TypeOK, Places
  <2>5. place'[b] = p
    BY <1>1, <2>3 DEF TypeOK
  <2>6. Sound(b)'
    BY <1>1, <1>4, <2>5 DEF Sound, Checked, Completed, Stopped
  <2> QED BY <2>4, <2>6, LocalStep
<1>5. CASE /\ next[b] = "loop" /\ Refresh(b, item) /\ cur' = [cur EXCEPT ![b] = NoItem]
           /\ Goto(b, IF bstatus[b] = "running" /\ With(b, item, {"queued"}) # {}
                      THEN "sleep" ELSE "loop")
           /\ UNCHANGED <<bstatus, item, waiting, next, cancelled>>
  <2>1. PICK p \in {"sleep", "loop"} : Goto(b, p)
    BY <1>5
  <2> QED BY <1>4, <1>5, <2>1
<1> QED BY <1>2, <1>3, <1>5 DEF Leave

LEMMA LeaveFailsStep == ASSUME IInv, NEW b \in Batches, LeaveFails(b) PROVE IInv'
<1> DEFINE left == IF Unjudged(b) THEN {<<b, cur[b]>>} ELSE {}
<1>1. /\ TypeOK /\ Sound(b) /\ EndTask(b) /\ torn' = torn \cup left /\ UNCHANGED rowVars
      /\ acts < MaxActs /\ acts' = acts + 1 /\ place[b] = "leaving"
  BY DEF IInv, LeaveFails, Act
<1>2. Over(b)
  BY <1>1, TaskOver
<1>3. acts' \in 0 .. MaxActs
  BY <1>1, ActsAssumption DEF TypeOK
<1>4. Local(b)
  BY <1>1, <1>2, <1>3 DEF Local, Same, Over, TypeOK, rowVars
<1>5. bstatus'[b] # "completed"
  BY <1>1 DEF Sound, Completed, rowVars
<1>6. \A i \in Items : <<b, i>> \in torn' \/ item'[b][i] # "checking"
  BY <1>1 DEF Sound, Checked, Unjudged, rowVars
<1>7. Sound(b)'
  BY <1>2, <1>5, <1>6, OverSound
<1> QED BY <1>4, <1>7, LocalStep

LEMMA WakeStep ==
  ASSUME IInv, NEW b \in Batches, Wake(b) PROVE IInv'
<1>1. TypeOK /\ Sound(b) /\ place[b] = "sleep" /\ UNCHANGED <<torn, acts>>
  BY DEF IInv, Wake
<1>2. CASE CleanUp(b)
  BY <1>1, <1>2, CleanUpStep
<1>3. CASE Goto(b, "loop") /\ UNCHANGED <<rowVars, cur, next, cancelled>>
  <2>1. place' = [place EXCEPT ![b] = "loop"] /\ UNCHANGED <<bstatus, item, processed, waiting>>
    BY <1>3 DEF Goto, rowVars
  <2>2. Local(b)
    BY <1>1, <1>3, <2>1 DEF Local, Same, TypeOK, Places
  <2>3. place'[b] = "loop"
    BY <1>1, <2>1 DEF TypeOK
  <2>4. Sound(b)'
    BY <1>1, <1>3, <2>1, <2>3 DEF Sound, Checked, Completed, Stopped
  <2> QED BY <2>1, <2>2, <2>4, LocalStep
<1> QED BY <1>2, <1>3 DEF Wake

-----------------------------------------------------------------------------
(* The process, and the theorems.                                          *)

LEMMA NoTasksSound ==
  ASSUME TypeOK, NoTasks
  PROVE  /\ place' \in [Batches -> Places] /\ cur' \in [Batches -> Items \cup {NoItem}]
         /\ next' \in [Batches -> {"loop", "return", "cancel"}]
         /\ cancelled' \in [Batches -> BOOLEAN]
         /\ \A b \in Batches : place'[b] = "none"
<1>1. cancelled' \in [Batches -> BOOLEAN]
  BY DEF NoTasks
<1> QED BY <1>1 DEF NoTasks, Places

\* The repair puts back what was being checked and pauses what was under way.
LEMMA RepairedSound ==
  ASSUME TypeOK, NEW kind, Repaired(kind)
  PROVE  /\ item' \in [Batches -> [Items -> ItemStatuses]]
         /\ bstatus' \in [Batches -> BatchStatuses]
         /\ waiting' \in [Batches -> BOOLEAN]
         /\ processed' = processed
         /\ \A b \in Batches :
               /\ bstatus'[b] = bstatus[b] \/ (bstatus[b] # "stopped" /\ bstatus'[b] = "paused")
               /\ b \in kind => \A i \in Items : item'[b][i] # "checking"
               /\ \A i \in Items : item[b][i] # "checking" => item'[b][i] = item[b][i]
               /\ With(b, item', Verdicts) = With(b, item, Verdicts)
<1>1. waiting' \in [Batches -> BOOLEAN]
  BY DEF TypeOK, Repaired
<1>2. /\ item' = [b \in Batches |-> [i \in Items |->
                   IF b \in kind /\ item[b][i] = "checking" THEN "queued" ELSE item[b][i]]]
      /\ item \in [Batches -> [Items -> ItemStatuses]]
  BY DEF TypeOK, Repaired
<1>3. item' \in [Batches -> [Items -> ItemStatuses]]
  BY <1>2 DEF ItemStatuses
<1>4. bstatus' = [b \in Batches |->
                   IF bstatus[b] \in {"running", "queued"} THEN "paused" ELSE bstatus[b]]
  BY DEF Repaired
<1>5. bstatus' \in [Batches -> BatchStatuses]
  BY <1>4 DEF TypeOK, BatchStatuses
<1>6. ASSUME NEW b \in Batches
      PROVE  /\ bstatus'[b] = bstatus[b] \/ (bstatus[b] # "stopped" /\ bstatus'[b] = "paused")
             /\ b \in kind => \A i \in Items : item'[b][i] # "checking"
             /\ \A i \in Items : item[b][i] # "checking" => item'[b][i] = item[b][i]
             /\ With(b, item', Verdicts) = With(b, item, Verdicts)
  <2>1. bstatus'[b] = bstatus[b] \/ (bstatus[b] # "stopped" /\ bstatus'[b] = "paused")
    <3>1. bstatus'[b] = IF bstatus[b] \in {"running", "queued"} THEN "paused" ELSE bstatus[b]
      BY <1>4
    <3> QED BY <3>1
  <2>2. \A i \in Items :
          item'[b][i] = IF b \in kind /\ item[b][i] = "checking" THEN "queued" ELSE item[b][i]
    BY <1>2
  <2>3. \A i \in Items : item'[b][i] \in Verdicts <=> item[b][i] \in Verdicts
    BY <2>2 DEF Verdicts
  <2>4. With(b, item', Verdicts) = With(b, item, Verdicts)
    BY <2>3 DEF With
  <2> QED BY <2>1, <2>2, <2>4
<1> QED BY <1>1, <1>3, <1>5, <1>6 DEF Repaired

\* What the process leaves behind when it ends, if every item without a verdict
\* that a task had is repaired or torn.
LEMMA RestartSound ==
  ASSUME IInv, NoTasks, NEW kind, Repaired(kind), acts' \in 0 .. MaxActs,
         torn \subseteq torn', torn' \subseteq Batches \X (Items \cup {NoItem}),
         \A b \in Batches : Unjudged(b) => b \in kind \/ <<b, cur[b]>> \in torn'
  PROVE  IInv'
<1>1. TypeOK
  BY DEF IInv
<1>2. TypeOK'
  BY <1>1, NoTasksSound, RepairedSound DEF TypeOK
<1>3. ASSUME NEW b \in Batches PROVE Sound(b)'
  <2>1. place'[b] = "none"
    BY <1>1, NoTasksSound
  <2>2. Stopped(b)'
    BY <2>1 DEF Stopped
  <2>3. Checked(b) /\ Completed(b)
    BY DEF IInv, Sound
  <2>4. /\ bstatus'[b] = bstatus[b] \/ bstatus'[b] = "paused"
        /\ b \in kind => \A i \in Items : item'[b][i] # "checking"
        /\ \A i \in Items : item[b][i] # "checking" => item'[b][i] = item[b][i]
        /\ With(b, item', Verdicts) = With(b, item, Verdicts)
        /\ processed' = processed
    BY <1>1, RepairedSound
  <2>5. ASSUME NEW i \in Items, item'[b][i] = "checking" PROVE <<b, i>> \in torn'
    <3>1. item[b][i] = "checking" /\ b \notin kind
      BY <2>4, <2>5
    <3> QED BY <2>3, <3>1 DEF Checked, Unjudged
  <2>6. Checked(b)'
    BY <2>5 DEF Checked
  <2>7. ASSUME bstatus'[b] = "completed", NEW i \in Items
        PROVE  <<b, i>> \in torn' \/ item'[b][i] \in Verdicts
    BY <2>3, <2>4, <2>7 DEF Completed, Verdicts
  <2>8. bstatus'[b] = "completed" => processed'[b] = Cardinality(With(b, item', Verdicts))
    BY <2>3, <2>4 DEF Completed
  <2>9. Completed(b)'
    BY <2>1, <2>7, <2>8 DEF Completed
  <2> QED BY <2>2, <2>6, <2>9 DEF Sound
<1> QED BY <1>2, <1>3 DEF IInv

LEMMA ShutdownStep == ASSUME IInv, Shutdown PROVE IInv'
<1>1. acts' \in 0 .. MaxActs /\ torn \subseteq Batches \X (Items \cup {NoItem})
  BY ActsAssumption DEF IInv, TypeOK, Shutdown, Act
<1> QED BY <1>1, RestartSound DEF Shutdown

\* The item of a task is put right by the next start or torn.
LEMMA CrashStep == ASSUME IInv, Crash PROVE IInv'
<1> DEFINE scope == UNION {k \in {AccessBatches, HealthBatches} : Interruption(k)}
           left == {<<b, cur[b]>> : b \in {x \in Batches \ scope : Unjudged(x)}}
<1>1. /\ acts' \in 0 .. MaxActs /\ torn \subseteq Batches \X (Items \cup {NoItem})
      /\ cur \in [Batches -> Items \cup {NoItem}]
  BY ActsAssumption DEF IInv, TypeOK, Crash, Act
<1>2. torn' = torn \cup left
  BY DEF Crash
<1>3. /\ left \subseteq Batches \X (Items \cup {NoItem})
      /\ \A b \in Batches : Unjudged(b) => b \in scope \/ <<b, cur[b]>> \in left
  BY <1>1
<1>4. NoTasks /\ Repaired(scope)
  BY DEF Crash
<1> HIDE DEF scope, left
<1> QED BY <1>1, <1>2, <1>3, <1>4, RestartSound

LEMMA InitInv == Init => IInv
<1> SUFFICES ASSUME Init PROVE IInv
  OBVIOUS
<1>1. 0 \in 0 .. MaxActs /\ 0 \in 0 .. Cardinality(Items)
  BY ActsAssumption, ItemAssumption, FS_CardinalityType
<1>2. waiting \in [Batches -> BOOLEAN] /\ cancelled \in [Batches -> BOOLEAN]
  BY DEF Init
<1>3. TypeOK
  BY <1>1, <1>2 DEF Init, TypeOK, BatchStatuses, ItemStatuses, Places
<1>4. ASSUME NEW b \in Batches PROVE Sound(b)
  BY DEF Init, Sound, Stopped, Checked, Completed
<1> QED BY <1>3, <1>4 DEF IInv

LEMMA NextInv == ASSUME IInv, [Next]_vars PROVE IInv'
<1>1. CASE UNCHANGED vars
  <2>1. TypeOK'
    BY <1>1 DEF IInv, TypeOK, vars, rowVars, taskVars
  <2>2. \A b \in Batches : Sound(b)'
    BY <1>1 DEF IInv, Sound, Stopped, Checked, Completed, vars, rowVars, taskVars
  <2> QED BY <2>1, <2>2 DEF IInv
<1>2. ASSUME NEW b \in Batches, Create(b) \/ Resume(b) \/ Stop(b) \/ WaitEnds(b) PROVE IInv'
  BY <1>2, CreateStep, ResumeStep, StopStep, WaitEndsStep
<1>3. ASSUME NEW b \in Batches, Work(b) \/ LeaveFails(b) PROVE IInv'
  BY <1>3, BeginStep, LoopStep, FinishStep, LimitStep, InterruptedStep, LeaveStep, WakeStep,
     LeaveFailsStep DEF Work
<1> QED BY <1>1, <1>2, <1>3, ShutdownStep, CrashStep DEF Next

\* The invariant holds in every reachable state.
THEOREM Invariance == Spec => []IInv
<1>1. IInv /\ [Next]_vars => IInv'
  BY NextInv
<1> QED BY <1>1, InitInv, PTL DEF Spec

\* Every column of batches and items, and every local of their tasks, keeps its
\* type.
THEOREM TypeCorrect == Spec => []TypeOK
<1>1. IInv => TypeOK
  BY DEF IInv
<1> QED BY <1>1, Invariance, PTL

\* An item is 'checking' only while a task is on it, unless that very item
\* is torn.
THEOREM CheckedByTask == Spec => []CheckingHasTask
<1>1. IInv => CheckingHasTask
  BY DEF IInv, Sound, Checked, CheckingHasTask
<1> QED BY <1>1, Invariance, PTL

\* A completed batch has processed all its items, and says so.
THEOREM Processed == Spec => []CompletedMeansProcessed
<1>1. ASSUME IInv PROVE CompletedMeansProcessed
  <2>1. \A b \in Batches : Completed(b)
    BY <1>1 DEF IInv, Sound
  <2> QED BY <2>1 DEF Completed, CompletedMeansProcessed
<1> QED BY <1>1, Invariance, PTL

\* The status of another batch, or of one nobody touches.
Keeps(c) == bstatus[c] = "stopped" => bstatus'[c] \in {"stopped", "queued"}

\* What the user has stopped stays stopped until the user resumes it.
THEOREM StaysStopped == Spec => StoppedStays
<1>1. ASSUME IInv, [Next]_vars, NEW c \in Batches PROVE Keeps(c)
  <2>1. TypeOK /\ TypeOK'
    BY <1>1, NextInv DEF IInv
  <2>2. CASE UNCHANGED bstatus
    BY <2>2 DEF Keeps
  <2>3. ASSUME NEW b \in Batches, NEW st \in {"queued", "stopped"}, Become(b, st) PROVE Keeps(c)
    BY <2>1, <2>3 DEF Keeps, Become, TypeOK
  <2>4. ASSUME NEW b \in Batches, NEW st, bstatus[b] # "stopped", Become(b, st) PROVE Keeps(c)
    BY <2>1, <2>4 DEF Keeps, Become, TypeOK
  <2>6. ASSUME NEW b \in Batches, CleanUp(b) PROVE Keeps(c)
    BY <2>1, <2>6 DEF Keeps, CleanUp, TypeOK
  <2>7. ASSUME NEW b \in Batches, Create(b) \/ Resume(b) \/ Stop(b) \/ WaitEnds(b)
        PROVE  Keeps(c)
    BY <2>2, <2>3, <2>7 DEF Create, Resume, Stop, WaitEnds
  <2>8. ASSUME NEW b \in Batches, Work(b) \/ LeaveFails(b) PROVE Keeps(c)
    <3>1. CASE Begin(b)
      BY <2>2, <2>4, <3>1 DEF Begin
    <3>2. CASE Loop(b)
      BY <2>2, <2>4, <3>2 DEF Loop, GiveWay, Complete, Pick, Judge, rowVars
    <3>3. CASE Limit(b)
      BY <1>1, <2>4, <3>3, LimitStep DEF Limit
    <3>4. CASE Leave(b)
      BY <2>2, <2>6, <3>4 DEF Leave, rowVars
    <3>5. CASE Wake(b)
      BY <2>2, <2>6, <3>5 DEF Wake, rowVars
    <3>6. CASE Finish(b) \/ Interrupted(b) \/ LeaveFails(b)
      BY <2>2, <3>6 DEF Finish, Interrupted, LeaveFails, rowVars
    <3> QED BY <2>8, <3>1, <3>2, <3>3, <3>4, <3>5, <3>6 DEF Work
  <2>9. ASSUME NEW kind, Repaired(kind) PROVE Keeps(c)
    BY <2>1, <2>9, RepairedSound DEF Keeps
  <2> QED BY <1>1, <2>2, <2>7, <2>8, <2>9 DEF Next, Shutdown, Crash, vars, rowVars
<1>2. IInv /\ [Next]_vars => [\A c \in Batches : Keeps(c)]_vars
  BY <1>1
<1>3. [\A c \in Batches : Keeps(c)]_vars =>
        [\A b \in Batches :
           bstatus[b] = "stopped" => bstatus'[b] \in {"stopped", "queued"}]_vars
  BY DEF Keeps
<1> QED BY <1>2, <1>3, Invariance, PTL DEF Spec, StoppedStays

-----------------------------------------------------------------------------
(* A verdict 'ready' is final, because a task never writes to an item but  *)
(* the one it has taken: while it works on it the item is 'checking', also *)
(* one that is torn.                                                       *)

AtWork(b) ==
    place[b] = "work" => cur[b] \in Items /\ item[b][cur[b]] = "checking"

ReadyKept(b) == \A i \in Items : item[b][i] = "ready" => item'[b][i] = "ready"

Careful(b) == AtWork(b) => ReadyKept(b) /\ AtWork(b)'

\* What another batch does, and a step that only moves items to be done.
Spares(b) ==
    /\ \A i \in Items : item[b][i] \in {"ready", "checking"} => item'[b][i] = item[b][i]
    /\ place'[b] = "work" => place[b] = "work" /\ cur'[b] = cur[b]

LEMMA SparesCareful == ASSUME NEW b \in Batches, Spares(b) PROVE Careful(b)
BY DEF Spares, Careful, AtWork, ReadyKept

\* The task is not on an item afterwards.
LEMMA AwayCareful ==
  ASSUME NEW b \in Batches, ReadyKept(b), place'[b] # "work"
  PROVE  Careful(b)
BY DEF Careful, AtWork

LEMMA OthersSpared ==
  ASSUME NEW c \in Batches, item'[c] = item[c], place'[c] = place[c], cur'[c] = cur[c]
  PROVE  Spares(c)
BY DEF Spares

LEMMA EndsAway ==
  ASSUME TypeOK, NEW b \in Batches, EndTask(b)
  PROVE  /\ place'[b] # "work"
         /\ \A c \in Batches \ {b} : place'[c] = place[c] /\ cur'[c] = cur[c]
BY TaskOver DEF Over

LEMMA CleanUpCareful ==
  ASSUME TypeOK, NEW b \in Batches, CleanUp(b), NEW c \in Batches
  PROVE  Careful(c)
<1>1. /\ item' = [item EXCEPT ![b] =
                     [i \in Items |-> IF i = cur[b] /\ @[i] = "checking" THEN "queued" ELSE @[i]]]
      /\ EndTask(b)
  BY DEF CleanUp
<1>2. item \in [Batches -> [Items -> ItemStatuses]]
  BY DEF TypeOK
<1>3. CASE c = b
  <2>1. ReadyKept(c)
    BY <1>1, <1>2, <1>3 DEF ReadyKept
  <2> QED BY <1>1, <1>3, <2>1, EndsAway, AwayCareful
<1>4. CASE c # b
  <2>1. item'[c] = item[c]
    BY <1>1, <1>2, <1>4
  <2> QED BY <1>1, <1>4, <2>1, EndsAway, OthersSpared, SparesCareful
<1> QED BY <1>3, <1>4

LEMMA HandlersCareful ==
  ASSUME TypeOK, NEW b \in Batches, Create(b) \/ Resume(b) \/ Stop(b) \/ WaitEnds(b),
         NEW c \in Batches
  PROVE  Careful(c)
<1>1. /\ cur' = cur
      /\ place' = place \/ place' = [place EXCEPT ![b] = IF @ = "none" THEN "new" ELSE @]
  BY DEF Create, Resume, Stop, WaitEnds, Start, taskVars
<1>2. item' = item \/ Requeue(b)
  BY DEF Create, Resume, Stop, WaitEnds
<1>3. place'[c] = "work" => place[c] = "work"
  BY <1>1 DEF TypeOK
<1>4. \A i \in Items : item[c][i] \in {"ready", "checking"} => item'[c][i] = item[c][i]
  BY <1>2 DEF TypeOK, Requeue
<1> QED BY <1>1, <1>3, <1>4, SparesCareful DEF Spares

LEMMA LoopCareful ==
  ASSUME TypeOK, NEW b \in Batches, Loop(b), NEW c \in Batches
  PROVE  Careful(c)
<1> DEFINE queued == With(b, item, {"queued"})
<1>1. /\ item \in [Batches -> [Items -> ItemStatuses]] /\ place \in [Batches -> Places]
      /\ cur \in [Batches -> Items \cup {NoItem}] /\ place[b] = "loop"
  BY DEF TypeOK, Loop
<1>2. CASE item' = item /\ EndTask(b)
  <2>1. CASE c = b
    BY <1>2, <2>1, EndsAway, AwayCareful DEF ReadyKept
  <2>2. CASE c # b
    BY <1>2, <2>2, EndsAway, OthersSpared, SparesCareful
  <2> QED BY <2>1, <2>2
<1>3. ASSUME queued # {}
      PROVE  Min(queued) \in Items /\ item[b][Min(queued)] = "queued"
  <2>1. queued \in SUBSET Items
    BY DEF With
  <2>2. Min(queued) \in queued
    BY <1>3, <2>1, FirstOne
  <2> QED BY <2>2 DEF With
<1>4. CASE Pick(b)
  <2>1. PICK m : m = Min(queued)
    OBVIOUS
  <2>2. /\ m \in Items /\ item[b][m] = "queued"
        /\ item' = [item EXCEPT ![b][m] = "checking"] /\ cur' = [cur EXCEPT ![b] = m]
        /\ place' = [place EXCEPT ![b] = "work"]
    BY <1>3, <1>4, <2>1 DEF Pick, SetItem, Goto
  <2>3. CASE c = b
    <3>1. cur'[c] = m /\ item'[c][m] = "checking" /\ ReadyKept(c)
      BY <1>1, <2>2, <2>3 DEF ReadyKept
    <3> QED BY <2>2, <3>1 DEF Careful, AtWork
  <2>4. CASE c # b
    <3>1. item'[c] = item[c] /\ place'[c] = place[c] /\ cur'[c] = cur[c]
      BY <1>1, <2>2, <2>4
    <3> QED BY <3>1, OthersSpared, SparesCareful
  <2> QED BY <2>3, <2>4
<1>5. CASE Judge(b)
  <2>1. PICK m : m = Min(queued)
    OBVIOUS
  <2>2. /\ m \in Items /\ item[b][m] = "queued"
        /\ item' = [item EXCEPT ![b][m] = "repeatable"] /\ cur' = cur /\ place' = place
    BY <1>3, <1>5, <2>1 DEF Judge, SetItem, taskVars
  <2>3. Spares(c)
    BY <1>1, <2>2 DEF Spares
  <2> QED BY <2>3, SparesCareful
<1> QED BY <1>2, <1>4, <1>5 DEF Loop, GiveWay, Complete, rowVars

\* The verdict, or the limit that puts the item back, is written to the item
\* the task is on, and that was not 'ready'.
LEMMA JudgedCareful ==
  ASSUME TypeOK, NEW b \in Batches, NEW st, place[b] = "work",
         SetItem(b, cur[b], st), Goto(b, "leaving"), cur' = cur, NEW c \in Batches
  PROVE  Careful(c)
<1>1. /\ item \in [Batches -> [Items -> ItemStatuses]] /\ place \in [Batches -> Places]
      /\ item' = [item EXCEPT ![b][cur[b]] = st] /\ place' = [place EXCEPT ![b] = "leaving"]
  BY DEF TypeOK, SetItem, Goto
<1>2. CASE c = b
  <2>1. place'[c] # "work"
    BY <1>1, <1>2
  <2>2. ASSUME AtWork(c) PROVE ReadyKept(c)
    <3>1. item[b][cur[b]] = "checking" /\ cur[b] \in Items
      BY <1>2, <2>2 DEF AtWork
    <3> QED BY <1>1, <1>2, <3>1 DEF ReadyKept
  <2> QED BY <2>1, <2>2 DEF Careful, AtWork
<1>3. CASE c # b
  <2>1. item'[c] = item[c] /\ place'[c] = place[c]
    BY <1>1, <1>3
  <2> QED BY <2>1, OthersSpared, SparesCareful
<1> QED BY <1>2, <1>3

\* A step that only moves the task, and not to an item.
LEMMA MoveCareful ==
  ASSUME TypeOK, NEW b \in Batches, NEW p \in Places \ {"work"}, Goto(b, p),
         item' = item, \A d \in Batches \ {b} : cur'[d] = cur[d], NEW c \in Batches
  PROVE  Careful(c)
<1>1. place' = [place EXCEPT ![b] = p] /\ place \in [Batches -> Places]
  BY DEF Goto, TypeOK
<1>2. CASE c = b
  BY <1>1, <1>2, AwayCareful DEF ReadyKept
<1>3. CASE c # b
  BY <1>1, <1>3, OthersSpared, SparesCareful
<1> QED BY <1>2, <1>3

LEMMA EndCareful ==
  ASSUME TypeOK, NEW b \in Batches, EndTask(b), item' = item, NEW c \in Batches
  PROVE  Careful(c)
<1>1. CASE c = b
  BY <1>1, EndsAway, AwayCareful DEF ReadyKept
<1>2. CASE c # b
  BY <1>2, EndsAway, OthersSpared, SparesCareful
<1> QED BY <1>1, <1>2

LEMMA WorkCareful ==
  ASSUME TypeOK, NEW b \in Batches, Work(b) \/ LeaveFails(b), NEW c \in Batches
  PROVE  Careful(c)
<1>1. CASE Begin(b)
  BY <1>1, EndCareful, MoveCareful DEF Begin, Places
<1>2. CASE Loop(b)
  BY <1>2, LoopCareful
<1>3. CASE Finish(b)
  BY <1>3, JudgedCareful DEF Finish
<1>4. CASE Limit(b)
  BY <1>4, JudgedCareful DEF Limit
<1>5. CASE Interrupted(b)
  BY <1>5, MoveCareful DEF Interrupted, rowVars, Places
<1>6. CASE Leave(b)
  <2>1. CASE CleanUp(b)
    BY <2>1, CleanUpCareful
  <2>2. CASE EndTask(b) /\ UNCHANGED rowVars
    BY <2>2, EndCareful DEF rowVars
  <2>3. ASSUME NEW p \in {"sleep", "loop"}, Goto(b, p), item' = item,
               cur' = [cur EXCEPT ![b] = NoItem]
        PROVE  Careful(c)
    <3>1. \A d \in Batches \ {b} : cur'[d] = cur[d]
      BY <2>3 DEF TypeOK
    <3>2. p \in Places \ {"work"}
      BY DEF Places
    <3> QED BY <2>3, <3>1, <3>2, MoveCareful
  <2> QED BY <1>6, <2>1, <2>2, <2>3 DEF Leave
<1>7. CASE Wake(b)
  BY <1>7, CleanUpCareful, MoveCareful DEF Wake, rowVars, Places
<1>8. CASE LeaveFails(b)
  BY <1>8, EndCareful DEF LeaveFails, rowVars
<1> QED BY <1>1, <1>2, <1>3, <1>4, <1>5, <1>6, <1>7, <1>8 DEF Work

LEMMA NextCareful == ASSUME TypeOK, [Next]_vars, NEW c \in Batches PROVE Careful(c)
<1>1. CASE UNCHANGED vars
  BY <1>1, OthersSpared, SparesCareful DEF vars, rowVars, taskVars
<1>2. ASSUME NoTasks, NEW kind, Repaired(kind) PROVE Careful(c)
  <2>1. place'[c] # "work"
    BY <1>2, NoTasksSound
  <2>2. ReadyKept(c)
    BY <1>2, RepairedSound DEF ReadyKept
  <2> QED BY <2>1, <2>2, AwayCareful
<1>3. CASE Shutdown \/ Crash
  BY <1>2, <1>3 DEF Shutdown, Crash
<1> QED BY <1>1, <1>3, HandlersCareful, WorkCareful DEF Next

\* Once an item is 'ready' nothing makes it be processed again: neither a
\* resumption nor the repairs after a stop, a shutdown or a crash.
THEOREM ReadyForGood == Spec => ReadyStays
<1> DEFINE AllAtWork == \A b \in Batches : AtWork(b)
<1>1. Init => AllAtWork
  BY DEF Init, AtWork
<1>2. TypeOK /\ AllAtWork /\ [Next]_vars => AllAtWork' /\ [\A b \in Batches : ReadyKept(b)]_vars
  BY NextCareful DEF Careful
<1>3. [\A b \in Batches : ReadyKept(b)]_vars =>
        [\A b \in Batches, i \in Items : item[b][i] = "ready" => item'[b][i] = "ready"]_vars
  BY DEF ReadyKept
<1> QED BY <1>1, <1>2, <1>3, TypeCorrect, PTL DEF Spec, ReadyStays

-----------------------------------------------------------------------------
(* A task comes nearer to its end with every step: an item it has taken is *)
(* no longer queued, and one it puts back ends it.                         *)

Todo(b) == Cardinality(With(b, item, {"queued"}))

Nexts == {"loop", "return", "cancel"}

LEMMA RankValues ==
  ASSUME NEW n \in Nexts, NEW left \in Nat
  PROVE  /\ RankAt("none", n, left) = 0
         /\ n # "loop" => RankAt("leaving", n, left) = 1
         /\ RankAt("loop", n, left) = left + 2
         /\ RankAt("new", n, left) = left + 3 /\ RankAt("sleep", n, left) = left + 3
         /\ n = "loop" => RankAt("leaving", n, left) = left + 4
         /\ RankAt("work", n, left) = left + 5
BY DEF RankAt

LEMMA RankPositive ==
  ASSUME NEW p \in Places, NEW n \in Nexts, NEW left \in Nat
  PROVE  RankAt(p, n, left) \in Nat /\ (p # "none" => 0 < RankAt(p, n, left))
BY RankValues DEF Places, Nexts

\* Fewer queued items, or one less, count for less.
LEMMA TodoFacts ==
  ASSUME NEW it \in ItemMaps, NEW b \in Batches
  PROVE  /\ Cardinality(With(b, it, {"queued"})) \in Nat
         /\ \A new \in ItemMaps :
               /\ (\A i \in Items : new[b][i] = "queued" => it[b][i] = "queued")
                     => Cardinality(With(b, new, {"queued"}))
                           <= Cardinality(With(b, it, {"queued"}))
               /\ \A m \in Items :
                     /\ it[b][m] = "queued" /\ new[b][m] # "queued"
                     /\ \A i \in Items \ {m} : new[b][i] = it[b][i]
                     => Cardinality(With(b, new, {"queued"})) + 1
                           = Cardinality(With(b, it, {"queued"}))
<1> DEFINE old == With(b, it, {"queued"})
<1>1. old \in SUBSET Items /\ IsFiniteSet(old) /\ Cardinality(old) \in Nat
  BY FS_Subset, FS_CardinalityType, ItemAssumption DEF With
<1>2. ASSUME NEW new \in ItemMaps,
             \A i \in Items : new[b][i] = "queued" => it[b][i] = "queued"
      PROVE  Cardinality(With(b, new, {"queued"})) <= Cardinality(old)
  <2>1. With(b, new, {"queued"}) \subseteq old
    BY <1>2 DEF With
  <2> QED BY <1>1, <2>1, FS_Subset
<1>3. ASSUME NEW new \in ItemMaps, NEW m \in Items, it[b][m] = "queued", new[b][m] # "queued",
             \A i \in Items \ {m} : new[b][i] = it[b][i]
      PROVE  Cardinality(With(b, new, {"queued"})) + 1 = Cardinality(old)
  <2>1. With(b, new, {"queued"}) = old \ {m} /\ m \in old
    BY <1>3 DEF With
  <2>2. ASSUME NEW T, IsFiniteSet(T), m \in T PROVE Cardinality(T \ {m}) = Cardinality(T) - 1
    BY <2>2, FS_RemoveElement
  <2>3. Cardinality(With(b, new, {"queued"})) = Cardinality(old) - 1
    BY <1>1, <2>1, <2>2, Zenon
  <2> QED BY <1>1, <2>1, <2>3
<1> QED BY <1>1, <1>2, <1>3

\* The rank of a batch before and after, from where its task stands.
LEMMA RankTypes ==
  ASSUME TypeOK, TypeOK', NEW c \in Batches
  PROVE  /\ Todo(c) \in Nat /\ Todo(c)' \in Nat
         /\ place[c] \in Places /\ place'[c] \in Places
         /\ next[c] \in Nexts /\ next'[c] \in Nexts
         /\ Rank(c) = RankAt(place[c], next[c], 4 * Todo(c))
         /\ Rank(c)' = RankAt(place'[c], next'[c], 4 * Todo(c)')
         /\ Rank(c) \in Nat /\ Rank(c)' \in Nat
         /\ item \in ItemMaps /\ item' \in ItemMaps
<1>1. item \in ItemMaps /\ item' \in ItemMaps
  BY DEF TypeOK, ItemMaps
<1>2. Todo(c) \in Nat /\ Todo(c)' \in Nat
  BY <1>1, TodoFacts DEF Todo
<1>3. /\ place[c] \in Places /\ place'[c] \in Places
      /\ next[c] \in Nexts /\ next'[c] \in Nexts
  BY DEF TypeOK, Nexts
<1>4. /\ Rank(c) = RankAt(place[c], next[c], 4 * Todo(c))
      /\ Rank(c)' = RankAt(place'[c], next'[c], 4 * Todo(c)')
  BY DEF Rank, Todo
<1>5. 4 * Todo(c) \in Nat /\ 4 * Todo(c)' \in Nat
  BY <1>2
<1> QED BY <1>1, <1>2, <1>3, <1>4, <1>5, RankPositive

\* A batch nobody touches, or whose task only goes on waiting.
LEMMA RankRests ==
  ASSUME NEW c \in Batches, item'[c] = item[c], place'[c] = place[c], next'[c] = next[c]
  PROVE  Rank(c)' = Rank(c)
<1>1. With(c, item, {"queued"})' = With(c, item, {"queued"})
  BY DEF With
<1> QED BY <1>1 DEF Rank

\* A task that is over.
LEMMA RankOver ==
  ASSUME TypeOK, TypeOK', NEW c \in Batches, place'[c] = "none"
  PROVE  Rank(c)' <= Rank(c) /\ (place[c] # "none" => Rank(c)' < Rank(c))
<1>1. Rank(c)' = 0 /\ (place[c] # "none" => 0 < Rank(c)) /\ Rank(c) \in Nat
  <2>1. 4 * Todo(c) \in Nat /\ 4 * Todo(c)' \in Nat
    BY RankTypes
  <2> QED BY <2>1, RankTypes, RankValues, RankPositive
<1> QED BY <1>1

\* A task that goes on: to where it has less before it.
LEMMA RankMoves ==
  ASSUME TypeOK, TypeOK', NEW b \in Batches, NEW n \in Nexts,
         next'[b] = n,
         \/ place[b] \in {"new", "sleep"} /\ place'[b] = "loop" /\ item'[b] = item[b]
         \/ place[b] = "work" /\ place'[b] = "leaving" /\ n # "loop"
         \/ /\ place[b] = "work" /\ place'[b] = "leaving"
            /\ \A i \in Items : item'[b][i] = "queued" => item[b][i] = "queued"
         \/ /\ place[b] = "leaving" /\ next[b] = "loop" /\ n = "loop" /\ item'[b] = item[b]
            /\ place'[b] \in {"sleep", "loop"}
         \/ /\ place[b] = "loop" /\ place'[b] \in {"work", "loop"}
            /\ \E m \in Items : /\ item[b][m] = "queued" /\ item'[b][m] # "queued"
                                /\ \A i \in Items \ {m} : item'[b][i] = item[b][i]
  PROVE  Rank(b)' < Rank(b)
<1>1. /\ Todo(b) \in Nat /\ Todo(b)' \in Nat /\ next[b] \in Nexts
      /\ Rank(b) = RankAt(place[b], next[b], 4 * Todo(b))
      /\ Rank(b)' = RankAt(place'[b], n, 4 * Todo(b)')
      /\ item \in ItemMaps /\ item' \in ItemMaps
  BY RankTypes
<1>2. 4 * Todo(b) \in Nat /\ 4 * Todo(b)' \in Nat
  BY <1>1
<1>3. ASSUME \A i \in Items : item'[b][i] = "queued" => item[b][i] = "queued"
      PROVE  Todo(b)' <= Todo(b)
  BY <1>1, <1>3, TodoFacts DEF Todo
<1>4. CASE place[b] \in {"new", "sleep"} /\ place'[b] = "loop" /\ item'[b] = item[b]
  <2>1. Todo(b)' <= Todo(b)
    BY <1>3, <1>4
  <2>2. Rank(b) = 4 * Todo(b) + 3 /\ Rank(b)' = 4 * Todo(b)' + 2
    BY <1>1, <1>2, <1>4, RankValues
  <2> QED BY <1>1, <2>1, <2>2
<1>5. CASE place[b] = "work" /\ place'[b] = "leaving" /\ n # "loop"
  <2>1. Rank(b) = 4 * Todo(b) + 5 /\ Rank(b)' = 1
    BY <1>1, <1>2, <1>5, RankValues
  <2> QED BY <1>1, <2>1
<1>6. CASE /\ place[b] = "work" /\ place'[b] = "leaving" /\ n = "loop"
           /\ \A i \in Items : item'[b][i] = "queued" => item[b][i] = "queued"
  <2>1. Todo(b)' <= Todo(b)
    BY <1>3, <1>6
  <2>2. Rank(b) = 4 * Todo(b) + 5 /\ Rank(b)' = 4 * Todo(b)' + 4
    BY <1>1, <1>2, <1>6, RankValues
  <2> QED BY <1>1, <2>1, <2>2
<1>7. CASE /\ place[b] = "leaving" /\ next[b] = "loop" /\ n = "loop" /\ item'[b] = item[b]
           /\ place'[b] \in {"sleep", "loop"}
  <2>1. Todo(b)' <= Todo(b)
    BY <1>3, <1>7
  <2>2. Rank(b) = 4 * Todo(b) + 4 /\ Rank(b)' \in {4 * Todo(b)' + 3, 4 * Todo(b)' + 2}
    BY <1>1, <1>2, <1>7, RankValues
  <2> QED BY <1>1, <2>1, <2>2
<1>8. CASE /\ place[b] = "loop" /\ place'[b] \in {"work", "loop"}
           /\ \E m \in Items : /\ item[b][m] = "queued" /\ item'[b][m] # "queued"
                               /\ \A i \in Items \ {m} : item'[b][i] = item[b][i]
  <2>1. Todo(b)' + 1 = Todo(b)
    BY <1>1, <1>8, TodoFacts DEF Todo
  <2>2. Rank(b) = 4 * Todo(b) + 2 /\ Rank(b)' \in {4 * Todo(b)' + 5, 4 * Todo(b)' + 2}
    BY <1>1, <1>2, <1>8, RankValues
  <2> QED BY <1>1, <2>1, <2>2
<1> QED BY <1>4, <1>5, <1>6, <1>7, <1>8

\* The batches a step does not concern, and the one it does.
Nears(b) == Rank(b)' < Rank(b) /\ \A c \in Batches \ {b} : Rank(c)' = Rank(c)

LEMMA EndNears ==
  ASSUME TypeOK, TypeOK', NEW b \in Batches, place[b] # "none", EndTask(b),
         \A c \in Batches \ {b} : item'[c] = item[c]
  PROVE  Nears(b)
<1>1. /\ place'[b] = "none"
      /\ \A c \in Batches \ {b} : place'[c] = place[c] /\ next'[c] = next[c]
  BY TaskOver DEF Over
<1> QED BY <1>1, RankOver, RankRests DEF Nears

LEMMA CleanUpNears ==
  ASSUME TypeOK, TypeOK', NEW b \in Batches, place[b] # "none", CleanUp(b)
  PROVE  Nears(b)
<1>1. EndTask(b) /\ \A c \in Batches \ {b} : item'[c] = item[c]
  BY DEF CleanUp, TypeOK
<1> QED BY <1>1, EndNears

LEMMA LoopNears ==
  ASSUME TypeOK, TypeOK', NEW b \in Batches, Loop(b)
  PROVE  Nears(b)
<1> DEFINE queued == With(b, item, {"queued"})
<1>1. /\ item \in ItemMaps /\ place \in [Batches -> Places] /\ place[b] = "loop"
      /\ next[b] \in Nexts
  BY DEF TypeOK, Loop, ItemMaps, Nexts
<1>2. CASE item' = item /\ EndTask(b)
  BY <1>1, <1>2, EndNears
<1>3. ASSUME NEW st, st # "queued", queued # {}, SetItem(b, Min(queued), st), next' = next,
             \/ place' = place
             \/ Goto(b, "work")
      PROVE  Nears(b)
  <2>1. PICK m : m = Min(queued)
    OBVIOUS
  <2>2. m \in Items /\ item[b][m] = "queued"
    <3>1. queued \in SUBSET Items
      BY DEF With
    <3>2. Min(queued) \in queued
      BY <1>3, <3>1, FirstOne
    <3> QED BY <2>1, <3>2 DEF With
  <2>3. item' = [item EXCEPT ![b][m] = st]
    BY <1>3, <2>1 DEF SetItem
  <2>4. /\ item'[b][m] # "queued" /\ \A i \in Items \ {m} : item'[b][i] = item[b][i]
        /\ \A c \in Batches \ {b} : item'[c] = item[c]
    BY <1>1, <1>3, <2>2, <2>3 DEF ItemMaps
  <2>5. place'[b] \in {"work", "loop"} /\ \A c \in Batches \ {b} : place'[c] = place[c]
    BY <1>1, <1>3 DEF Goto
  <2>6. Rank(b)' < Rank(b)
    BY <1>1, <1>3, <2>2, <2>4, <2>5, RankMoves
  <2> QED BY <1>3, <2>4, <2>5, <2>6, RankRests DEF Nears
<1> QED BY <1>2, <1>3 DEF Loop, GiveWay, Complete, Pick, Judge, rowVars, taskVars

\* A step that moves only the task of b and perhaps the item it is on.
LEMMA MoveNears ==
  ASSUME TypeOK, TypeOK', NEW b \in Batches, NEW p \in Places, Goto(b, p),
         \A c \in Batches \ {b} : item'[c] = item[c] /\ next'[c] = next[c],
         Rank(b)' < Rank(b)
  PROVE  Nears(b)
<1>1. \A c \in Batches \ {b} : place'[c] = place[c]
  BY DEF Goto, TypeOK
<1> QED BY <1>1, RankRests DEF Nears

LEMMA WorkNears == ASSUME TypeOK, TypeOK', NEW b \in Batches, Work(b) PROVE Nears(b)
<1>1. /\ item \in ItemMaps /\ place \in [Batches -> Places] /\ next \in [Batches -> Nexts]
      /\ next[b] \in Nexts /\ next'[b] \in Nexts
  BY DEF TypeOK, ItemMaps, Nexts
<1>2. CASE Begin(b)
  <2>1. place[b] = "new" /\ item' = item
    BY <1>2 DEF Begin
  <2>2. CASE EndTask(b)
    BY <2>1, <2>2, EndNears
  <2>3. CASE Goto(b, "loop") /\ next' = next
    <3>1. place'[b] = "loop"
      BY <1>1, <2>3 DEF Goto
    <3>2. Rank(b)' < Rank(b)
      BY <1>1, <2>1, <2>3, <3>1, RankMoves
    <3> QED BY <2>1, <2>3, <3>2, MoveNears DEF Places
  <2> QED BY <1>2, <2>2, <2>3 DEF Begin
<1>3. CASE Loop(b)
  BY <1>3, LoopNears
<1>4. CASE Finish(b)
  <2>1. PICK verdict \in Verdicts : item' = [item EXCEPT ![b][cur[b]] = verdict]
    BY <1>4 DEF Finish, SetItem
  <2>2. place[b] = "work" /\ place' = [place EXCEPT ![b] = "leaving"] /\ next' = next
    BY <1>4 DEF Finish, Goto
  <2>3. /\ \A i \in Items : item'[b][i] = "queued" => item[b][i] = "queued"
        /\ \A c \in Batches \ {b} : item'[c] = item[c]
    BY <1>1, <2>1 DEF Verdicts, ItemMaps
  <2>4. place'[b] = "leaving"
    BY <1>1, <2>2
  <2>5. Rank(b)' < Rank(b)
    BY <1>1, <2>2, <2>3, <2>4, RankMoves
  <2> QED BY <2>2, <2>3, <2>5, MoveNears DEF Goto, Places
<1>5. CASE Limit(b)
  <2>1. /\ place[b] = "work" /\ place' = [place EXCEPT ![b] = "leaving"]
        /\ next' = [next EXCEPT ![b] = "return"]
        /\ item' = [item EXCEPT ![b][cur[b]] = "queued"]
    BY <1>5 DEF Limit, Goto, SetItem
  <2>2. /\ place'[b] = "leaving" /\ next'[b] = "return"
        /\ \A c \in Batches \ {b} : item'[c] = item[c] /\ next'[c] = next[c]
    BY <1>1, <2>1 DEF ItemMaps
  <2>3. Rank(b)' < Rank(b)
    BY <1>1, <2>1, <2>2, RankMoves DEF Nexts
  <2> QED BY <2>1, <2>2, <2>3, MoveNears DEF Goto, Places
<1>6. CASE Interrupted(b)
  <2>1. /\ place[b] = "work" /\ place' = [place EXCEPT ![b] = "leaving"]
        /\ next' = [next EXCEPT ![b] = "cancel"] /\ item' = item
    BY <1>6 DEF Interrupted, Goto, rowVars
  <2>2. /\ place'[b] = "leaving" /\ next'[b] = "cancel"
        /\ \A c \in Batches \ {b} : next'[c] = next[c]
    BY <1>1, <2>1
  <2>3. Rank(b)' < Rank(b)
    BY <1>1, <2>1, <2>2, RankMoves DEF Nexts
  <2> QED BY <2>1, <2>2, <2>3, MoveNears DEF Goto, Places
<1>7. CASE Leave(b)
  <2>1. place[b] = "leaving"
    BY <1>7 DEF Leave
  <2>2. CASE CleanUp(b)
    BY <2>1, <2>2, CleanUpNears
  <2>3. CASE EndTask(b) /\ UNCHANGED rowVars
    BY <2>1, <2>3, EndNears DEF rowVars
  <2>4. ASSUME NEW p \in {"sleep", "loop"}, Goto(b, p), item' = item, next' = next,
               next[b] = "loop"
        PROVE  Nears(b)
    <3>1. place'[b] = p /\ p \in Places
      BY <1>1, <2>4 DEF Goto, Places
    <3>2. Rank(b)' < Rank(b)
      BY <1>1, <2>1, <2>4, <3>1, RankMoves
    <3> QED BY <2>4, <3>1, <3>2, MoveNears
  <2> QED BY <1>7, <2>2, <2>3, <2>4 DEF Leave
<1>8. CASE Wake(b)
  <2>1. place[b] = "sleep"
    BY <1>8 DEF Wake
  <2>2. CASE CleanUp(b)
    BY <2>1, <2>2, CleanUpNears
  <2>3. CASE Goto(b, "loop") /\ UNCHANGED rowVars /\ next' = next
    <3>1. place'[b] = "loop" /\ item' = item
      BY <1>1, <2>3 DEF Goto, rowVars
    <3>2. Rank(b)' < Rank(b)
      BY <1>1, <2>1, <2>3, <3>1, RankMoves
    <3> QED BY <2>3, <3>1, <3>2, MoveNears DEF Places
  <2> QED BY <1>8, <2>2, <2>3 DEF Wake
<1> QED BY <1>2, <1>3, <1>4, <1>5, <1>6, <1>7, <1>8 DEF Work

\* What anybody else does, but to create or resume a batch.
LEMMA OthersNear ==
  ASSUME TypeOK, TypeOK', NEW b \in Batches,
         Stop(b) \/ WaitEnds(b) \/ LeaveFails(b), NEW c \in Batches
  PROVE  Rank(c)' <= Rank(c)
<1>1. Rank(c) \in Nat
  BY RankTypes
<1>2. CASE Stop(b) \/ WaitEnds(b)
  BY <1>1, <1>2, RankRests DEF Stop, WaitEnds, taskVars
<1>3. CASE LeaveFails(b)
  <2>1. Nears(b)
    BY <1>3, EndNears DEF LeaveFails, rowVars
  <2>2. Rank(b) \in Nat /\ Rank(b)' \in Nat
    BY RankTypes
  <2> QED BY <1>1, <2>1, <2>2 DEF Nears
<1> QED BY <1>2, <1>3

LEMMA StartsFar ==
  ASSUME TypeOK, NEW b \in Batches, Create(b) \/ Resume(b), NEW c \in Batches, c # b
  PROVE  Rank(c)' = Rank(c)
<1>1. /\ next' = next
      /\ place' = [place EXCEPT ![b] = IF @ = "none" THEN "new" ELSE @]
      /\ item' = item \/ Requeue(b)
  BY DEF Create, Resume, Start
<1>2. place'[c] = place[c] /\ item'[c] = item[c]
  BY <1>1 DEF TypeOK, Requeue
<1> QED BY <1>1, <1>2, RankRests

\* A task takes no more than a bounded number of steps from one creation or
\* resumption of its batch to the next, whatever else happens.
THEOREM BoundedWork == Spec => NearsItsEnd
<1> DEFINE Goes(c) == /\ Rank(c)' <= Rank(c) \/ Create(c) \/ Resume(c)
                      /\ Work(c) => Rank(c)' < Rank(c)
<1>1. ASSUME TypeOK, TypeOK', [Next]_vars, NEW c \in Batches PROVE Goes(c)
  <2>1. Rank(c) \in Nat /\ Rank(c)' \in Nat
    BY <1>1, RankTypes
  <2>2. Work(c) => Rank(c)' < Rank(c)
    BY <1>1, WorkNears DEF Nears
  <2>3. ASSUME NEW b \in Batches, Work(b) PROVE Rank(c)' <= Rank(c)
    BY <1>1, <2>1, <2>3, WorkNears DEF Nears
  <2>4. ASSUME NEW b \in Batches, Create(b) \/ Resume(b)
        PROVE  Rank(c)' <= Rank(c) \/ Create(c) \/ Resume(c)
    BY <1>1, <2>1, <2>4, StartsFar
  <2>5. CASE Shutdown \/ Crash
    <3>1. place'[c] = "none"
      BY <1>1, <2>5, NoTasksSound DEF Shutdown, Crash
    <3> QED BY <1>1, <2>2, <3>1, RankOver
  <2>6. CASE UNCHANGED vars
    <3>1. Rank(c)' = Rank(c)
      BY <2>6, RankRests DEF vars, rowVars, taskVars
    <3> QED BY <2>1, <2>2, <3>1
  <2>7. Rank(c)' <= Rank(c) \/ Create(c) \/ Resume(c)
    BY <1>1, <2>3, <2>4, <2>5, <2>6, OthersNear DEF Next
  <2> QED BY <2>2, <2>7
<1>2. TypeOK /\ TypeOK' /\ [Next]_vars => [\A b \in Batches : Goes(b)]_vars
  BY <1>1
<1> QED BY <1>2, TypeCorrect, PTL DEF Spec, NearsItsEnd
=============================================================================
