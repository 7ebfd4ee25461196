------------------------- MODULE ActivityScanProofs -------------------------
(***************************************************************************)
(* Proofs about ActivityScan for any finite set of scans, any number of    *)
(* sessions and any quota.                                                 *)
(*                                                                         *)
(* An action of one scan leaves the others as they are (Local), so the     *)
(* inductive invariant is a predicate on a single scan, Sound(a), and the  *)
(* bound on the overshoot, which is inductive as it stands: a scan joins   *)
(* those pending at a session only while the session has quota left, and   *)
(* leaves them when its operation is counted.                              *)
(***************************************************************************)
EXTENDS ActivityScan, FiniteSetTheorems, TLAPS

-----------------------------------------------------------------------------
(* The inductive invariant.                                                *)

Holding == {"access", "reading", "leaving"}
Active  == Holding \cup {"lined"}

Sound(a) ==
    /\ place[a] \in Active => tries[a] # <<>>
    /\ \A x \in Sessions : owner[x] = a <=> place[a] \in Holding /\ x = Head(tries[a])
    /\ place[a] # "leaving" => outcome[a] = "none"
    /\ status[a] = "running" => place[a] \in Active /\ outcome[a] # "cancelled"
    /\ status[a] = "gone" => place[a] = "none" /\ ~results[a]
    /\ status[a] = "paused" =>
          place[a] = "none" \/ (place[a] = "leaving" /\ outcome[a] \in {"cancelled", "error"})

IInv ==
    /\ TypeOK
    /\ \A a \in Scans : Sound(a)
    /\ OvershootBounded

-----------------------------------------------------------------------------
(* One scan at a time.                                                     *)

Pends(a, x) == place[a] \in {"lined", "access"} /\ \E i \in DOMAIN tries[a] : tries[a][i] = x

\* What of another scan stays as it is.
Same(c) ==
    /\ status'[c] = status[c] /\ results'[c] = results[c]
    /\ place'[c] = place[c] /\ tries'[c] = tries[c] /\ outcome'[c] = outcome[c]
    /\ \A x \in Sessions : owner'[x] = c <=> owner[x] = c

Local(a) == TypeOK' /\ \A c \in Scans \ {a} : Same(c)

\* The operations of scan a become no more.
NoMore(a) == usage' = usage /\ \A x \in Sessions : Pends(a, x)' => Pends(a, x)

LEMMA SoundStep ==
  ASSUME IInv, NEW a \in Scans, Local(a), Sound(a)'
  PROVE  \A c \in Scans : Sound(c)'
<1>1. ASSUME NEW c \in Scans \ {a} PROVE Sound(c)'
  <2>1. Sound(c) /\ Same(c)
    BY DEF IInv, Local
  <2> QED BY <2>1 DEF Sound, Same
<1> QED BY <1>1

LEMMA PendingFinite ==
  ASSUME NEW x
  PROVE  /\ IsFiniteSet(Pending(x)) /\ Cardinality(Pending(x)) \in Nat
         /\ Cardinality(Scans) \in Nat
         /\ Cardinality(Pending(x)) <= Cardinality(Scans)
<1>1. Pending(x) \subseteq Scans
  BY DEF Pending
<1> QED BY <1>1, FS_Subset, FS_CardinalityType, ScansAssumption

\* Fewer operations pending, and none counted, keep the bound.
LEMMA BoundKept ==
  ASSUME IInv, TypeOK', NEW x \in Sessions, usage'[x] <= usage[x],
         \A c \in Scans : Pends(c, x)' => Pends(c, x)
  PROVE  usage'[x] + Cardinality(Pending(x)') < Quota + Cardinality(Scans)
<1>1. Pending(x)' \subseteq Pending(x)
  BY DEF Pending, Pends
<1>2. Cardinality(Pending(x)') <= Cardinality(Pending(x)) /\ Cardinality(Pending(x)') \in Nat
  BY <1>1, PendingFinite, FS_Subset, FS_CardinalityType
<1>3. usage[x] + Cardinality(Pending(x)) < Quota + Cardinality(Scans)
  BY DEF IInv, OvershootBounded
<1>4. usage[x] \in Nat /\ usage'[x] \in Nat
  BY DEF IInv, TypeOK
<1> QED BY <1>2, <1>3, <1>4, PendingFinite, BoundsAssumption

LEMMA OthersPend ==
  ASSUME NEW a \in Scans, Local(a), NEW c \in Scans \ {a}, NEW x
  PROVE  Pends(c, x)' <=> Pends(c, x)
<1>1. place'[c] = place[c] /\ tries'[c] = tries[c]
  BY DEF Local, Same
<1> QED BY <1>1 DEF Pends

LEMMA LocalStep ==
  ASSUME IInv, NEW a \in Scans, Local(a), Sound(a)', NoMore(a)
  PROVE  IInv'
<1>1. ASSUME NEW x \in Sessions
      PROVE  usage'[x] + Cardinality(Pending(x)') < Quota + Cardinality(Scans)
  <2>1. \A c \in Scans : Pends(c, x)' => Pends(c, x)
    BY OthersPend DEF NoMore
  <2>2. usage'[x] <= usage[x]
    BY DEF NoMore, IInv, TypeOK
  <2> QED BY <2>1, <2>2, BoundKept DEF Local
<1>2. OvershootBounded'
  BY <1>1 DEF OvershootBounded
<1> QED BY <1>2, SoundStep DEF IInv, Local

-----------------------------------------------------------------------------
(* The end of a task.                                                      *)

\* The variables of scan a and of the others after the end of its task.
Over(a) ==
    /\ status' \in [Scans -> Statuses] /\ place' \in [Scans -> Places]
    /\ results' \in [Scans -> BOOLEAN] /\ deleting' \in [Scans -> BOOLEAN]
    /\ owner' \in [Sessions -> Scans \cup {Nobody}]
    /\ tries' \in [Scans -> Seq(Sessions)] /\ outcome' \in [Scans -> Outcomes]
    /\ \A c \in Scans \ {a} : Same(c)
    /\ Sound(a)' /\ place'[a] = "none"

LEMMA TaskOver ==
  ASSUME IInv, NEW a \in Scans, NEW s \in Statuses \ {"running"}, NEW stored \in BOOLEAN,
         End(a, s, stored)
  PROVE  Over(a) /\ status'[a] \in {s, "gone"}
<1>1. PICK final \in {s, "gone"} :
        /\ status' = [status EXCEPT ![a] = final]
        /\ results' = [results EXCEPT ![a] = (@ \/ stored) /\ final # "gone"]
  BY DEF End, Become
<1>2. /\ place' = [place EXCEPT ![a] = "none"] /\ tries' = [tries EXCEPT ![a] = <<>>]
      /\ outcome' = [outcome EXCEPT ![a] = "none"]
      /\ deleting' = [deleting EXCEPT ![a] = FALSE]
      /\ owner' = [x \in Sessions |-> IF owner[x] = a THEN Nobody ELSE owner[x]]
  BY DEF End
<1>3. TypeOK /\ Sound(a) /\ final \in Statuses \ {"running"}
  BY DEF IInv, Statuses
<1>4. results' \in [Scans -> BOOLEAN] /\ deleting' \in [Scans -> BOOLEAN]
  <2>1. results \in [Scans -> BOOLEAN] /\ deleting \in [Scans -> BOOLEAN]
    BY <1>3 DEF TypeOK
  <2>2. ((results[a] \/ stored) /\ final # "gone") \in BOOLEAN
    BY Zenon
  <2> QED BY <1>1, <1>2, <2>1, <2>2, Zenon
<1>5. /\ status' \in [Scans -> Statuses] /\ place' \in [Scans -> Places]
      /\ tries' \in [Scans -> Seq(Sessions)] /\ outcome' \in [Scans -> Outcomes]
  BY <1>1, <1>2, <1>3 DEF TypeOK, Places, Outcomes
<1>6. owner' \in [Sessions -> Scans \cup {Nobody}]
  BY <1>2, <1>3 DEF TypeOK
<1>7. \A x \in Sessions : owner'[x] # a
  BY <1>2, ScansAssumption
<1>8. ASSUME NEW c \in Scans \ {a} PROVE Same(c)
  <2>1. /\ status'[c] = status[c] /\ place'[c] = place[c] /\ tries'[c] = tries[c]
        /\ outcome'[c] = outcome[c]
    BY <1>1, <1>2, <1>3 DEF TypeOK
  <2>2. results'[c] = results[c]
    BY <1>1, <1>3, Zenon DEF TypeOK
  <2>3. \A x \in Sessions : owner'[x] = c <=> owner[x] = c
    BY <1>2, ScansAssumption
  <2> QED BY <2>1, <2>2, <2>3 DEF Same
<1>9. /\ status'[a] = final /\ place'[a] = "none" /\ outcome'[a] = "none"
  BY <1>1, <1>2, <1>3 DEF TypeOK
<1>10. final = "gone" => ~results'[a]
  BY <1>1, <1>3, Zenon DEF TypeOK
<1>11. Sound(a)'
  BY <1>3, <1>7, <1>9, <1>10 DEF Sound, Active, Holding
<1> QED BY <1>4, <1>5, <1>6, <1>8, <1>9, <1>11 DEF Over

\* An action that is over for the task, and for what it has pending.
LEMMA OverStep ==
  ASSUME IInv, NEW a \in Scans, Over(a), UNCHANGED usage,
         due' \in [Scans -> BOOLEAN], home' \in [Scans -> Sessions \cup {NoSession}],
         usable' \in [Sessions -> BOOLEAN], UNCHANGED <<cursor, licensed>>
  PROVE  IInv'
<1>1. TypeOK'
  <2>1. licensed' \in BOOLEAN
    BY Zenon DEF IInv, TypeOK
  <2> QED BY <2>1 DEF IInv, TypeOK, Over
<1>2. Local(a) /\ Sound(a)'
  BY <1>1 DEF Local, Over
<1>3. NoMore(a)
  BY DEF NoMore, Pends, Over
<1> QED BY <1>2, <1>3, LocalStep

-----------------------------------------------------------------------------
(* The steps of the task.                                                  *)

LEMMA FirstTry ==
  ASSUME IInv, NEW a \in Scans, place[a] \in Active
  PROVE  /\ tries[a] \in Seq(Sessions) /\ tries[a] # <<>>
         /\ Head(tries[a]) \in Sessions /\ Tail(tries[a]) \in Seq(Sessions)
         /\ \E i \in DOMAIN tries[a] : tries[a][i] = Head(tries[a])
         /\ \A i \in DOMAIN Tail(tries[a]) :
               \E j \in DOMAIN tries[a] : tries[a][j] = Tail(tries[a])[i]
<1>1. tries[a] \in Seq(Sessions) /\ tries[a] # <<>>
  BY DEF IInv, TypeOK, Sound
<1>2. PICK q \in Seq(Sessions) : q = tries[a]
  BY <1>1
<1>3. q # <<>> /\ Len(q) \in Nat /\ DOMAIN q = 1 .. Len(q) /\ Len(q) >= 1
  BY <1>1, <1>2
<1>4. Head(q) = q[1] /\ 1 \in DOMAIN q /\ Head(q) \in Sessions /\ Tail(q) \in Seq(Sessions)
  BY <1>3
<1>5. ASSUME NEW i \in DOMAIN Tail(q) PROVE i + 1 \in DOMAIN q /\ q[i + 1] = Tail(q)[i]
  <2>1. Len(Tail(q)) = Len(q) - 1 /\ i \in 1 .. Len(Tail(q))
    BY <1>3, <1>4, <1>5
  <2> QED BY <1>3, <2>1
<1> QED BY <1>1, <1>2, <1>4, <1>5

\* The list has every session that is available, and nothing else.
LEMMA ListOfSessions ==
  ASSUME IInv, NEW a \in Scans, \E x \in Sessions : Available(x), NEW ids \in SessionIds(a)
  PROVE  /\ ids \in Seq(Sessions) /\ ids # <<>>
         /\ \A i \in DOMAIN ids : Available(ids[i])
<1>1. CASE home[a] # NoSession /\ Available(home[a])
  <2>1. ids = <<home[a]>> /\ home[a] \in Sessions
    BY <1>1 DEF SessionIds, IInv, TypeOK
  <2> QED BY <1>1, <2>1
<1>2. CASE ~(home[a] # NoSession /\ Available(home[a]))
  <2>1. PICK n \in 0 .. NSessions :
          /\ ids \in [1 .. n -> Sessions]
          /\ {ids[i] : i \in DOMAIN ids} = {x \in Sessions : Available(x)}
    BY <1>2 DEF SessionIds
  <2>2. ids \in Seq(Sessions)
    BY <2>1, BoundsAssumption
  <2>3. \A i \in DOMAIN ids : Available(ids[i])
    BY <2>1
  <2>4. PICK i \in DOMAIN ids : TRUE
    BY <2>1
  <2>5. ids # <<>>
    BY <2>4
  <2> QED BY <2>2, <2>3, <2>5
<1> QED BY <1>1, <1>2

LEMMA BeginStep == ASSUME IInv, NEW a \in Scans, Begin(a) PROVE IInv'
<1>1. /\ TypeOK /\ Sound(a) /\ place[a] = "created"
      /\ UNCHANGED <<home, usable, usage, cursor, licensed>>
  BY DEF IInv, Begin, KeepRest
<1>2. status[a] \in Statuses \ {"running"}
  BY <1>1 DEF Sound, Active, Holding, TypeOK
<1>3. due' \in [Scans -> BOOLEAN] => home' \in [Scans -> Sessions \cup {NoSession}] /\
                                     usable' \in [Sessions -> BOOLEAN]
  BY <1>1 DEF TypeOK
<1>4. ASSUME NEW s \in Statuses \ {"running"}, End(a, s, FALSE), UNCHANGED due \/ PutOff(a)
      PROVE  IInv'
  <2>1. due' \in [Scans -> BOOLEAN]
    BY <1>1, <1>4, Zenon DEF PutOff, TypeOK
  <2>2. Over(a)
    BY <1>4, TaskOver
  <2> QED BY <1>1, <1>3, <2>1, <2>2, OverStep
<1>5. ASSUME \E x \in Sessions : Available(x), Become(a, "running"), NEW ids \in SessionIds(a),
             tries' = [tries EXCEPT ![a] = ids], place' = [place EXCEPT ![a] = "lined"],
             UNCHANGED <<due, results, outcome, owner, deleting>>
      PROVE  IInv'
  <2>1. ids \in Seq(Sessions) /\ ids # <<>> /\ \A i \in DOMAIN ids : Available(ids[i])
    BY <1>5, ListOfSessions
  <2>2. status' = [status EXCEPT ![a] = "running"]
    BY <1>5 DEF Become
  <2>3. TypeOK'
    BY <1>1, <1>5, <2>1, <2>2 DEF TypeOK, Statuses, Places
  <2>4. Local(a)
    BY <1>1, <1>5, <2>2, <2>3 DEF Local, Same, TypeOK
  <2>5. place'[a] = "lined" /\ tries'[a] = ids /\ status'[a] = "running"
    BY <1>1, <1>5, <2>2 DEF TypeOK
  <2>6. Sound(a)'
    BY <1>1, <1>5, <2>1, <2>5 DEF Sound, Active, Holding
  <2>7. ASSUME NEW x \in Sessions
        PROVE  usage'[x] + Cardinality(Pending(x)') < Quota + Cardinality(Scans)
    <3>1. usage'[x] = usage[x] /\ usage[x] \in Nat
      BY <1>1 DEF TypeOK
    <3>2. CASE Pends(a, x)'
      <4>1. Available(x)
        BY <2>1, <2>5, <3>2 DEF Pends
      <4>2. usage[x] < Quota
        BY <4>1 DEF Available
      <4>3. Pending(x)' \subseteq Scans
        BY DEF Pending
      <4>4. Cardinality(Pending(x)') <= Cardinality(Scans) /\ Cardinality(Pending(x)') \in Nat
        BY <4>3, FS_Subset, FS_CardinalityType, ScansAssumption
      <4>5. Quota \in Nat /\ Cardinality(Scans) \in Nat
        BY PendingFinite, BoundsAssumption
      <4> QED BY <3>1, <4>2, <4>4, <4>5
    <3>3. CASE ~Pends(a, x)'
      <4>1. \A c \in Scans : Pends(c, x)' => Pends(c, x)
        BY <2>4, <3>3, OthersPend
      <4>2. usage'[x] <= usage[x]
        BY <3>1
      <4> QED BY <2>3, <4>1, <4>2, BoundKept
    <3> QED BY <3>2, <3>3
  <2>8. OvershootBounded'
    BY <2>7 DEF OvershootBounded
  <2> QED BY <2>3, <2>4, <2>6, <2>8, SoundStep DEF IInv
<1>6. "waiting" \in Statuses \ {"running"} /\ "error" \in Statuses \ {"running"}
  BY DEF Statuses, Waiting
<1> QED BY <1>2, <1>4, <1>5, <1>6 DEF Begin

LEMMA TakeLeaseStep == ASSUME IInv, NEW a \in Scans, TakeLease(a) PROVE IInv'
<1> DEFINE x == Head(tries[a])
<1>1. /\ TypeOK /\ Sound(a) /\ place[a] = "lined" /\ owner[x] = Nobody
      /\ owner' = [owner EXCEPT ![x] = a] /\ place' = [place EXCEPT ![a] = "access"]
      /\ UNCHANGED <<status, due, home, results, usable, tries, outcome, deleting>>
      /\ UNCHANGED <<usage, cursor, licensed>>
  BY DEF IInv, TakeLease, rowVars, KeepRest
<1>2. x \in Sessions
  BY <1>1, FirstTry DEF Active
<1> HIDE DEF x
<1>3. TypeOK'
  BY <1>1, <1>2 DEF TypeOK, Places
<1>4. Local(a)
  BY <1>1, <1>2, <1>3, ScansAssumption DEF Local, Same, TypeOK
<1>5. place'[a] = "access" /\ \A y \in Sessions : owner'[y] = a <=> y = x
  BY <1>1, <1>2 DEF TypeOK, Sound, Holding
<1>6. Sound(a)'
  BY <1>1, <1>5 DEF Sound, Active, Holding, x
<1>7. NoMore(a)
  BY <1>1 DEF NoMore, Pends
<1> QED BY <1>4, <1>6, <1>7, LocalStep

\* The operation is counted, and pending no more.
LEMMA AccessStep == ASSUME IInv, NEW a \in Scans, Access(a) PROVE IInv'
<1>1. PICK x \in Sessions :
        /\ x = Head(tries[a])
        /\ usage' = [usage EXCEPT ![x] = @ + 1]
        /\ cursor' = IF home[a] = NoSession THEN x ELSE cursor
  BY FirstTry DEF Access, Active, Holding
<1>2. /\ TypeOK /\ Sound(a) /\ place[a] = "access"
      /\ place' = [place EXCEPT ![a] = "reading"]
      /\ UNCHANGED <<status, due, home, results, usable, owner, tries, outcome, deleting, licensed>>
  BY DEF IInv, Access, rowVars
<1>3. TypeOK'
  BY <1>1, <1>2 DEF TypeOK, Places
<1>4. Local(a)
  BY <1>2, <1>3 DEF Local, Same, TypeOK
<1>5. place'[a] = "reading"
  BY <1>2 DEF TypeOK
<1>6. Sound(a)'
  BY <1>2, <1>5 DEF Sound, Active, Holding
<1>7. \A y : ~Pends(a, y)'
  BY <1>5 DEF Pends
<1>8. ASSUME NEW y \in Sessions
      PROVE  usage'[y] + Cardinality(Pending(y)') < Quota + Cardinality(Scans)
  <2>1. \A c \in Scans : Pends(c, y)' => Pends(c, y)
    BY <1>4, <1>7, OthersPend
  <2>2. CASE y # x
    <3>1. usage'[y] <= usage[y]
      BY <1>1, <1>2, <2>2 DEF TypeOK
    <3> QED BY <1>3, <2>1, <3>1, BoundKept
  <2>3. CASE y = x
    <3>1. Pends(a, y)
      BY <1>1, <1>2, <2>3, FirstTry DEF Pends, Active, Holding
    <3>2. a \in Pending(y) /\ Pending(y)' \subseteq Pending(y) \ {a}
      BY <1>7, <2>1, <3>1 DEF Pending, Pends
    <3>3. /\ Cardinality(Pending(y) \ {a}) = Cardinality(Pending(y)) - 1
          /\ IsFiniteSet(Pending(y) \ {a})
      BY <3>2, PendingFinite, FS_RemoveElement
    <3>4. /\ Cardinality(Pending(y)') <= Cardinality(Pending(y) \ {a})
          /\ Cardinality(Pending(y)') \in Nat
      BY <3>2, <3>3, FS_Subset, FS_CardinalityType
    <3>5. usage'[y] = usage[y] + 1 /\ usage[y] \in Nat
      BY <1>1, <1>2, <2>3 DEF TypeOK
    <3>6. usage[y] + Cardinality(Pending(y)) < Quota + Cardinality(Scans)
      BY DEF IInv, OvershootBounded
    <3> QED BY <3>3, <3>4, <3>5, <3>6, PendingFinite, BoundsAssumption
  <2> QED BY <2>2, <2>3
<1>9. OvershootBounded'
  BY <1>8 DEF OvershootBounded
<1> QED BY <1>3, <1>4, <1>6, <1>9, SoundStep DEF IInv

LEMMA AccessFailsStep == ASSUME IInv, NEW a \in Scans, AccessFails(a) PROVE IInv'
<1> DEFINE x == Head(tries[a])
<1>1. TypeOK /\ Sound(a) /\ place[a] = "access" /\ UNCHANGED <<usage, cursor, licensed>>
  BY DEF IInv, AccessFails, KeepRest
<1>2. x \in Sessions
  BY <1>1, FirstTry DEF Active, Holding
<1>3. "waiting" \in Statuses \ {"running"} /\ "error" \in Statuses \ {"running"}
  BY DEF Statuses, Waiting
<1> HIDE DEF x
<1>4. ASSUME usable' \in {usable, [usable EXCEPT ![x] = FALSE]}
      PROVE  usable' \in [Sessions -> BOOLEAN]
  BY <1>1, <1>4, Zenon DEF TypeOK
<1>5. CASE /\ End(a, "waiting", FALSE) /\ PutOff(a)
           /\ home' \in {home, [home EXCEPT ![a] = x]} /\ UNCHANGED usable
  <2>1. due' \in [Scans -> BOOLEAN]
    BY <1>1, <1>5, Zenon DEF PutOff, TypeOK
  <2>2. home' \in [Scans -> Sessions \cup {NoSession}] /\ usable' \in [Sessions -> BOOLEAN]
    BY <1>1, <1>2, <1>5 DEF TypeOK
  <2>3. Over(a)
    BY <1>3, <1>5, TaskOver
  <2> QED BY <1>1, <2>1, <2>2, <2>3, OverStep
<1>6. CASE /\ usable' \in {usable, [usable EXCEPT ![x] = FALSE]} /\ UNCHANGED <<due, home>>
           /\ End(a, "error", FALSE)
  <2>1. Over(a)
    BY <1>3, <1>6, TaskOver
  <2>2. due' \in [Scans -> BOOLEAN] /\ home' \in [Scans -> Sessions \cup {NoSession}]
    BY <1>1, <1>6 DEF TypeOK
  <2> QED BY <1>1, <1>4, <1>6, <2>1, <2>2, OverStep
<1>7. CASE /\ usable' \in {usable, [usable EXCEPT ![x] = FALSE]} /\ UNCHANGED <<due, home>>
           /\ Tail(tries[a]) # <<>>
           /\ owner' = [owner EXCEPT ![x] = Nobody]
           /\ tries' = [tries EXCEPT ![a] = Tail(@)]
           /\ place' = [place EXCEPT ![a] = "lined"]
           /\ UNCHANGED <<status, results, outcome, deleting>>
  <2>1. PICK rest \in Seq(Sessions) : rest = Tail(tries[a])
    BY <1>1, FirstTry DEF Active, Holding
  <2>2. tries' = [tries EXCEPT ![a] = rest]
    BY <1>7, <2>1
  <2>3. usable' \in [Sessions -> BOOLEAN]
    BY <1>4, <1>7
  <2>4. TypeOK'
    <3>1. place' \in [Scans -> Places] /\ tries' \in [Scans -> Seq(Sessions)]
      BY <1>1, <1>7, <2>2 DEF TypeOK, Places
    <3>2. owner' \in [Sessions -> Scans \cup {Nobody}]
      BY <1>1, <1>7 DEF TypeOK
    <3> QED BY <1>1, <1>7, <2>3, <3>1, <3>2 DEF TypeOK
  <2>5. owner[x] = a
    BY <1>1, <1>2 DEF Sound, Holding, x
  <2>6. Local(a)
    <3>1. ASSUME NEW c \in Scans \ {a} PROVE Same(c)
      <4>1. \A y \in Sessions : owner'[y] = c <=> owner[y] = c
        BY <1>1, <1>2, <1>7, <2>5, ScansAssumption DEF TypeOK
      <4>2. place'[c] = place[c] /\ tries'[c] = tries[c]
        BY <1>1, <1>7, <2>2 DEF TypeOK
      <4> QED BY <1>7, <4>1, <4>2 DEF Same
    <3> QED BY <2>4, <3>1 DEF Local
  <2>7. place'[a] = "lined" /\ tries'[a] = rest
    BY <1>1, <1>7, <2>2 DEF TypeOK
  <2>8. \A y \in Sessions : owner'[y] # a
    BY <1>1, <1>2, <1>7, ScansAssumption DEF TypeOK, Sound, Holding, x
  <2>9. Sound(a)'
    BY <1>1, <1>7, <2>1, <2>7, <2>8 DEF Sound, Active, Holding
  <2>10. NoMore(a)
    BY <1>1, <2>1, <2>7, FirstTry DEF NoMore, Pends, Active, Holding
  <2> QED BY <2>6, <2>9, <2>10, LocalStep
<1> QED BY <1>5, <1>6, <1>7 DEF AccessFails, x

LEMMA ReadStep == ASSUME IInv, NEW a \in Scans, Read(a) PROVE IInv'
<1>1. PICK why \in {"ok", "flood", "error"} : Leave(a, why)
  BY DEF Read
<1>2. /\ TypeOK /\ Sound(a) /\ place[a] = "reading"
      /\ UNCHANGED <<status, due, home, results, usable, owner, tries, deleting>>
      /\ UNCHANGED <<usage, cursor, licensed>>
  BY DEF IInv, Read, rowVars, KeepRest
<1>3. place' = [place EXCEPT ![a] = "leaving"] /\ outcome' = [outcome EXCEPT ![a] = why]
  BY <1>1 DEF Leave
<1>4. TypeOK'
  BY <1>2, <1>3 DEF TypeOK, Places, Outcomes
<1>5. Local(a)
  BY <1>2, <1>3, <1>4 DEF Local, Same, TypeOK
<1>6. place'[a] = "leaving" /\ outcome'[a] = why
  BY <1>2, <1>3 DEF TypeOK
<1>7. Sound(a)'
  BY <1>2, <1>6 DEF Sound, Active, Holding
<1>8. NoMore(a)
  BY <1>2, <1>6 DEF NoMore, Pends
<1> QED BY <1>5, <1>7, <1>8, LocalStep

LEMMA FinishStep == ASSUME IInv, NEW a \in Scans, Finish(a) PROVE IInv'
<1>1. /\ TypeOK /\ Sound(a) /\ place[a] = "leaving"
      /\ UNCHANGED <<usable, usage, cursor, licensed>>
  BY DEF IInv, Finish, KeepRest
<1>2. Head(tries[a]) \in Sessions
  BY <1>1, FirstTry DEF Active, Holding
<1>3. {"scheduled", "completed", "waiting", "error"} \subseteq Statuses \ {"running"}
  BY DEF Statuses, Waiting
<1>4. outcome[a] = "cancelled" => status[a] \in Statuses \ {"running"}
  BY <1>1 DEF Sound, TypeOK
<1>5. PICK s \in Statuses \ {"running"}, stored \in BOOLEAN :
        /\ End(a, s, stored)
        /\ UNCHANGED due \/ PutOff(a)
        /\ UNCHANGED home \/ home' = [home EXCEPT ![a] = Head(tries[a])]
  <2>1. CASE outcome[a] = "ok"
    <3>1. PICK s \in {"scheduled", "completed"} : End(a, s, TRUE)
      BY <2>1 DEF Finish
    <3>2. PutOff(a) /\ home' = [home EXCEPT ![a] = Head(tries[a])]
      BY <2>1 DEF Finish
    <3> QED BY <1>3, <3>1, <3>2
  <2>2. CASE outcome[a] # "ok"
    BY <1>3, <1>4, <2>2 DEF Finish
  <2> QED BY <2>1, <2>2
<1>6. due' \in [Scans -> BOOLEAN]
  BY <1>1, <1>5, Zenon DEF PutOff, TypeOK
<1>7. home' \in [Scans -> Sessions \cup {NoSession}] /\ usable' \in [Sessions -> BOOLEAN]
  BY <1>1, <1>2, <1>5 DEF TypeOK
<1>8. Over(a)
  BY <1>5, TaskOver
<1> QED BY <1>1, <1>6, <1>7, <1>8, OverStep

LEMMA DisconnectFailsStep == ASSUME IInv, NEW a \in Scans, DisconnectFails(a) PROVE IInv'
<1>1. /\ TypeOK /\ Sound(a) /\ place[a] = "leaving"
      /\ outcome' = [outcome EXCEPT ![a] = "error"]
      /\ UNCHANGED <<status, due, home, results, usable, owner, place, tries, deleting>>
      /\ UNCHANGED <<usage, cursor, licensed>>
  BY DEF IInv, DisconnectFails, rowVars, KeepRest
<1>2. TypeOK'
  BY <1>1 DEF TypeOK, Outcomes
<1>3. Local(a)
  BY <1>1, <1>2 DEF Local, Same, TypeOK
<1>4. outcome'[a] = "error"
  BY <1>1 DEF TypeOK
<1>5. Sound(a)'
  BY <1>1, <1>4 DEF Sound, Active, Holding
<1>6. NoMore(a)
  BY <1>1 DEF NoMore, Pends
<1> QED BY <1>3, <1>5, <1>6, LocalStep

-----------------------------------------------------------------------------
(* The handlers, the scheduler and the environment.                        *)

\* A scan that has no task gets one, and is queued.
LEMMA EnqueueStep ==
  ASSUME IInv, NEW a \in Scans, status[a] # "gone", Enqueue(a), HandlerRest
  PROVE  IInv'
<1>1. /\ TypeOK /\ Sound(a)
      /\ status' = [status EXCEPT ![a] = "queued"]
      /\ place' = [place EXCEPT ![a] = IF @ = "none" THEN "created" ELSE @]
      /\ UNCHANGED <<home, results, usable, owner, tries, outcome, deleting>>
      /\ UNCHANGED <<usage, cursor, licensed>>
  BY DEF IInv, Enqueue, Become, Start, HandlerRest, KeepRest
<1>2. due' \in [Scans -> BOOLEAN]
  BY <1>1, Zenon DEF Enqueue, TypeOK
<1>3. TypeOK'
  BY <1>1, <1>2 DEF TypeOK, Places, Statuses
<1>4. Local(a)
  BY <1>1, <1>3 DEF Local, Same, TypeOK
<1>5. /\ status'[a] = "queued"
      /\ place'[a] = IF place[a] = "none" THEN "created" ELSE place[a]
  BY <1>1 DEF TypeOK
<1>6. Sound(a)'
  BY <1>1, <1>5 DEF Sound, Active, Holding
<1>7. NoMore(a)
  BY <1>1, <1>5 DEF NoMore, Pends
<1> QED BY <1>4, <1>6, <1>7, LocalStep

\* A scan is cancelled while it holds its client, or its task is over at once.
LEMMA CancelStep ==
  ASSUME IInv, NEW a \in Scans, NEW s \in {"paused", "deleting"}, Cancel(a, s),
         due' \in [Scans -> BOOLEAN], HandlerRest
  PROVE  IInv'
<1>1. TypeOK /\ Sound(a) /\ UNCHANGED <<home, usable, usage, cursor, licensed>>
  BY DEF IInv, HandlerRest, KeepRest
<1>2. s \in Statuses \ {"running"} /\ "gone" \in Statuses \ {"running"}
  BY DEF Statuses
<1>3. CASE /\ place[a] \in {"reading", "leaving"} /\ Leave(a, "cancelled") /\ Become(a, s)
           /\ deleting' = [deleting EXCEPT ![a] = @ \/ s = "deleting"]
           /\ UNCHANGED <<results, owner, tries>>
  <2>1. deleting' \in [Scans -> BOOLEAN]
    <3>1. deleting \in [Scans -> BOOLEAN] /\ (deleting[a] \/ s = "deleting") \in BOOLEAN
      BY <1>1, Zenon DEF TypeOK
    <3> QED BY <1>3, <3>1, Zenon
  <2>2. /\ place' = [place EXCEPT ![a] = "leaving"]
        /\ outcome' = [outcome EXCEPT ![a] = "cancelled"]
        /\ status' = [status EXCEPT ![a] = s]
    BY <1>3 DEF Leave, Become
  <2>3. TypeOK'
    BY <1>1, <1>2, <1>3, <2>1, <2>2 DEF TypeOK, Places, Outcomes
  <2>4. Local(a)
    BY <1>1, <1>3, <2>2, <2>3 DEF Local, Same, TypeOK
  <2>5. place'[a] = "leaving" /\ outcome'[a] = "cancelled" /\ status'[a] = s
    BY <1>1, <2>2 DEF TypeOK
  <2>6. Sound(a)'
    BY <1>1, <1>3, <2>5 DEF Sound, Active, Holding
  <2>7. NoMore(a)
    BY <1>1, <2>5 DEF NoMore, Pends
  <2> QED BY <2>4, <2>6, <2>7, LocalStep
<1>4. CASE End(a, IF s = "deleting" THEN "gone" ELSE s, FALSE)
  <2>1. Over(a)
    BY <1>2, <1>4, TaskOver
  <2>2. home' \in [Scans -> Sessions \cup {NoSession}] /\ usable' \in [Sessions -> BOOLEAN]
    BY <1>1 DEF TypeOK
  <2> QED BY <1>1, <2>1, <2>2, OverStep
<1> QED BY <1>3, <1>4 DEF Cancel

LEMMA HandlerStep == ASSUME IInv, NEW a \in Scans, Handler(a) PROVE IInv'
<1>1. CASE Create(a)
  BY <1>1, EnqueueStep DEF Create
<1>2. CASE RunNow(a)
  BY <1>2, EnqueueStep DEF RunNow
<1>3. CASE Resume(a)
  BY <1>3, EnqueueStep DEF Resume
<1>4. due \in [Scans -> BOOLEAN]
  BY DEF IInv, TypeOK
<1>5. CASE Pause(a)
  BY <1>4, <1>5, CancelStep DEF Pause
<1>6. CASE Delete(a)
  <2>1. due' \in [Scans -> BOOLEAN]
    BY <1>4, <1>6, Zenon DEF Delete, PutOff
  <2> QED BY <1>6, <2>1, CancelStep DEF Delete
<1> QED BY <1>1, <1>2, <1>3, <1>5, <1>6 DEF Handler

LEMMA SchedulerStartsStep == ASSUME IInv, NEW a \in Scans, SchedulerStarts(a) PROVE IInv'
<1>1. /\ TypeOK /\ Sound(a) /\ place[a] = "none" /\ status[a] \in {"queued"} \cup Waiting
      /\ place' = [place EXCEPT ![a] = "created"]
      /\ UNCHANGED <<status, due, home, results, usable, owner, tries, outcome, deleting>>
      /\ UNCHANGED <<usage, cursor, licensed>>
  BY DEF IInv, SchedulerStarts, Start, Picked, rowVars, KeepRest
<1>2. TypeOK'
  BY <1>1 DEF TypeOK, Places
<1>3. Local(a)
  BY <1>1, <1>2 DEF Local, Same, TypeOK
<1>4. place'[a] = "created"
  BY <1>1 DEF TypeOK
<1>5. Sound(a)'
  BY <1>1, <1>4 DEF Sound, Active, Holding, Waiting
<1>6. NoMore(a)
  BY <1>1, <1>4 DEF NoMore, Pends
<1> QED BY <1>3, <1>5, <1>6, LocalStep

\* What touches no scan but its due time, and counts nothing.
LEMMA QuietStep ==
  ASSUME IInv, TypeOK', UNCHANGED <<status, results, owner, place, tries, outcome>>,
         \A x \in Sessions : usage'[x] <= usage[x]
  PROVE  IInv'
<1>1. \A c \in Scans : Sound(c)'
  BY DEF IInv, Sound
<1>2. ASSUME NEW x \in Sessions
      PROVE  usage'[x] + Cardinality(Pending(x)') < Quota + Cardinality(Scans)
  <2>1. \A c \in Scans : Pends(c, x)' => Pends(c, x)
    BY DEF Pends
  <2> QED BY <2>1, BoundKept
<1>3. OvershootBounded'
  BY <1>2 DEF OvershootBounded
<1> QED BY <1>1, <1>3 DEF IInv

LEMMA EnvironmentStep ==
  ASSUME IInv,
         \/ \E a \in Scans : RunTime(a)
         \/ \E x \in Sessions : SessionChanges(x)
         \/ NewDay \/ LicenceChanges \/ UNCHANGED vars
  PROVE  IInv'
<1>1. TypeOK /\ UNCHANGED <<status, results, owner, place, tries, outcome, deleting, home>>
  BY DEF IInv, RunTime, SessionChanges, NewDay, LicenceChanges, vars, rowVars, sessVars, taskVars
<1>2. licensed' \in BOOLEAN
  BY <1>1, Zenon DEF TypeOK, RunTime, SessionChanges, NewDay, LicenceChanges, vars, KeepRest
<1>3. due' \in [Scans -> BOOLEAN]
  BY <1>1, Zenon DEF TypeOK, RunTime, SessionChanges, NewDay, LicenceChanges, vars, rowVars
<1>4. usable' \in [Sessions -> BOOLEAN]
  <2>1. usable \in [Sessions -> BOOLEAN]
    BY <1>1 DEF TypeOK
  <2>2. ASSUME NEW x \in Sessions, SessionChanges(x) PROVE usable' \in [Sessions -> BOOLEAN]
    BY <2>1, <2>2, Zenon DEF SessionChanges
  <2>3. CASE UNCHANGED usable
    BY <2>1, <2>3
  <2> QED BY <2>2, <2>3 DEF RunTime, NewDay, LicenceChanges, vars, sessVars
<1>5. /\ cursor' = cursor
      /\ usage' = usage \/ usage' = [x \in Sessions |-> 0]
  BY DEF RunTime, SessionChanges, NewDay, LicenceChanges, vars, sessVars, KeepRest
<1>6. TypeOK'
  BY <1>1, <1>2, <1>3, <1>4, <1>5 DEF TypeOK
<1>7. \A x \in Sessions : usage'[x] <= usage[x]
  BY <1>1, <1>5 DEF TypeOK
<1> QED BY <1>1, <1>6, <1>7, QuietStep

LEMMA RestartStep == ASSUME IInv, Restart PROVE IInv'
<1>1. /\ TypeOK /\ UNCHANGED <<home, results, usable, usage, cursor, licensed>>
      /\ status' = [a \in Scans |-> IF status[a] = "running" THEN "queued" ELSE status[a]]
      /\ place' = [a \in Scans |-> "none"] /\ tries' = [a \in Scans |-> <<>>]
      /\ outcome' = [a \in Scans |-> "none"] /\ owner' = [x \in Sessions |-> Nobody]
  BY DEF IInv, Restart, AfterRestart, KeepRest
<1>2. due' \in [Scans -> BOOLEAN] /\ deleting' \in [Scans -> BOOLEAN]
  <2>1. ASSUME NEW a \in Scans PROVE (due[a] \/ status[a] = "running") \in BOOLEAN
    BY Zenon
  <2> QED BY <2>1, Zenon DEF Restart
<1>3. TypeOK'
  BY <1>1, <1>2 DEF TypeOK, Places, Outcomes, Statuses
<1>4. ASSUME NEW a \in Scans PROVE Sound(a)'
  <2>1. /\ place'[a] = "none" /\ outcome'[a] = "none" /\ status'[a] # "running"
        /\ status'[a] = status[a] \/ status'[a] = "queued"
        /\ results'[a] = results[a] /\ \A x \in Sessions : owner'[x] # a
    BY <1>1, ScansAssumption
  <2>2. Sound(a)
    BY DEF IInv
  <2> QED BY <2>1, <2>2 DEF Sound, Active, Holding
<1>5. ASSUME NEW x \in Sessions
      PROVE  usage'[x] + Cardinality(Pending(x)') < Quota + Cardinality(Scans)
  <2>1. \A c \in Scans : Pends(c, x)' => Pends(c, x)
    BY <1>1 DEF Pends
  <2>2. usage'[x] <= usage[x]
    BY <1>1 DEF TypeOK
  <2> QED BY <1>3, <2>1, <2>2, BoundKept
<1>6. OvershootBounded'
  BY <1>5 DEF OvershootBounded
<1> QED BY <1>3, <1>4, <1>6 DEF IInv

-----------------------------------------------------------------------------
(* The theorems.                                                           *)

LEMMA InitInv == Init => IInv
<1> SUFFICES ASSUME Init PROVE IInv
  OBVIOUS
<1>1. /\ due \in [Scans -> BOOLEAN] /\ results \in [Scans -> BOOLEAN]
      /\ deleting \in [Scans -> BOOLEAN] /\ usable \in [Sessions -> BOOLEAN]
  BY DEF Init
<1>2. TypeOK
  BY <1>1 DEF Init, TypeOK, Statuses, Places, Outcomes
<1>3. ASSUME NEW a \in Scans PROVE Sound(a)
  BY ScansAssumption DEF Init, Sound, Active, Holding
<1>4. ASSUME NEW x \in Sessions PROVE usage[x] + Cardinality(Pending(x)) < Quota + Cardinality(Scans)
  <2>1. Pending(x) = {} /\ usage[x] = 0
    BY DEF Init, Pending
  <2>2. Cardinality(Pending(x)) = 0 /\ Quota \in Nat \ {0} /\ Cardinality(Scans) \in Nat
    BY <2>1, FS_EmptySet, PendingFinite, BoundsAssumption
  <2> QED BY <2>1, <2>2
<1>5. OvershootBounded
  BY <1>4 DEF OvershootBounded
<1> QED BY <1>2, <1>3, <1>5 DEF IInv

LEMMA NextInv == ASSUME IInv, [Next]_vars PROVE IInv'
<1>1. ASSUME NEW a \in Scans, Step(a) PROVE IInv'
  BY <1>1, BeginStep, TakeLeaseStep, AccessStep, AccessFailsStep, ReadStep, FinishStep DEF Step
<1>2. ASSUME NEW a \in Scans, Handler(a) \/ DisconnectFails(a) \/ SchedulerStarts(a) PROVE IInv'
  BY <1>2, HandlerStep, DisconnectFailsStep, SchedulerStartsStep
<1> QED BY <1>1, <1>2, RestartStep, EnvironmentStep DEF Next

\* The invariant holds in every reachable state.
THEOREM Invariance == Spec => []IInv
<1>1. IInv /\ [Next]_vars => IInv'
  BY NextInv
<1> QED BY <1>1, InitInv, PTL DEF Spec

\* Every column of scans and sessions, and every local of the tasks, keeps its
\* type.
THEOREM TypeCorrect == Spec => []TypeOK
<1>1. IInv => TypeOK
  BY DEF IInv
<1> QED BY <1>1, Invariance, PTL

\* A lease is held by the scan that uses the session, and by nobody else.
THEOREM Leases == Spec => []LeaseMatches
<1>1. IInv => LeaseMatches
  BY DEF IInv, Sound, Holding, LeaseMatches
<1> QED BY <1>1, Invariance, PTL

\* A scan that is 'running' has a task that works on it.
THEOREM RunningIsRun == Spec => []RunningHasTask
<1>1. IInv => RunningHasTask
  BY DEF IInv, Sound, Active, Holding, RunningHasTask
<1> QED BY <1>1, Invariance, PTL

\* A deleted scan leaves no task and no results behind.
THEOREM Quietness == Spec => []DeletedIsQuiet
<1>1. IInv => DeletedIsQuiet
  BY DEF IInv, Sound, DeletedIsQuiet
<1> QED BY <1>1, Invariance, PTL

\* The quota of a session is exceeded by at most one operation per other scan.
THEOREM Overshoot == Spec => []OvershootBounded
<1>1. IInv => OvershootBounded
  BY DEF IInv
<1> QED BY <1>1, Invariance, PTL

KeepsPaused(c) ==
    status[c] = "paused" /\ outcome[c] # "error"
        => status'[c] \in {"paused", "queued", "deleting", "gone"}

\* A paused scan stays paused until somebody runs, resumes or deletes it.
THEOREM StaysPaused == Spec => PausedStays
<1>1. ASSUME IInv, [Next]_vars, NEW c \in Scans PROVE KeepsPaused(c)
  <2>1. TypeOK /\ Sound(c)
    BY <1>1 DEF IInv
  <2>2. CASE UNCHANGED status
    BY <2>2 DEF KeepsPaused
  <2>3. ASSUME NEW a \in Scans, NEW s, Become(a, s),
               a = c => s \in {"paused", "queued", "deleting", "gone"}
        PROVE  KeepsPaused(c)
    BY <2>1, <2>3 DEF KeepsPaused, Become, TypeOK
  <2>4. ASSUME NEW a \in Scans, NEW s, NEW stored, End(a, s, stored),
               a = c => s \in {"paused", "queued", "deleting", "gone"}
        PROVE  KeepsPaused(c)
    <3>1. PICK final \in {s, "gone"} : Become(a, final)
      BY <2>4 DEF End
    <3> QED BY <2>3, <2>4, <3>1
  <2>5. CASE status[c] # "paused" \/ outcome[c] = "error"
    BY <2>5 DEF KeepsPaused
  <2>6. ASSUME status[c] = "paused", outcome[c] # "error"
        PROVE  place[c] = "none" \/ (place[c] = "leaving" /\ outcome[c] = "cancelled")
    BY <2>1, <2>6 DEF Sound
  <2>7. ASSUME status[c] = "paused", outcome[c] # "error", NEW a \in Scans, Step(a)
        PROVE  KeepsPaused(c)
    <3>1. CASE Begin(a)
      BY <2>3, <2>4, <2>6, <2>7, <3>1 DEF Begin
    <3>2. CASE AccessFails(a)
      BY <2>2, <2>4, <2>6, <2>7, <3>2 DEF AccessFails
    <3>3. CASE Finish(a)
      BY <2>4, <2>6, <2>7, <3>3 DEF Finish
    <3>4. CASE TakeLease(a) \/ Access(a) \/ Read(a)
      BY <2>2, <3>4 DEF TakeLease, Access, Read, rowVars
    <3> QED BY <2>7, <3>1, <3>2, <3>3, <3>4 DEF Step
  <2>8. ASSUME status[c] = "paused", NEW a \in Scans, Handler(a) PROVE KeepsPaused(c)
    <3>1. CASE Create(a) \/ RunNow(a) \/ Resume(a)
      BY <2>3, <3>1 DEF Create, RunNow, Resume, Enqueue
    <3>2. CASE Pause(a)
      BY <2>3, <2>4, <2>8, <3>2 DEF Pause, Cancel
    <3>3. CASE Delete(a)
      BY <2>3, <2>4, <3>3 DEF Delete, Cancel
    <3> QED BY <2>8, <3>1, <3>2, <3>3 DEF Handler
  <2>9. CASE Restart
    BY <2>1, <2>9 DEF Restart, AfterRestart, KeepsPaused
  <2>10. ASSUME NEW a \in Scans, DisconnectFails(a) \/ SchedulerStarts(a) \/ RunTime(a)
         PROVE  KeepsPaused(c)
    BY <2>2, <2>10 DEF DisconnectFails, SchedulerStarts, RunTime, rowVars
  <2>11. CASE (\E x \in Sessions : SessionChanges(x)) \/ NewDay \/ LicenceChanges \/ UNCHANGED vars
    BY <2>2, <2>11 DEF SessionChanges, NewDay, LicenceChanges, vars, rowVars
  <2> QED BY <1>1, <2>5, <2>7, <2>8, <2>9, <2>10, <2>11 DEF Next
<1>2. IInv /\ [Next]_vars => [\A a \in Scans : KeepsPaused(a)]_vars
  BY <1>1
<1>3. [\A a \in Scans : KeepsPaused(a)]_vars =>
        [\A a \in Scans : status[a] = "paused" /\ outcome[a] # "error"
                          => status'[a] \in {"paused", "queued", "deleting", "gone"}]_vars
  BY DEF KeepsPaused
<1> QED BY <1>2, <1>3, Invariance, PTL DEF Spec, PausedStays

KeepsDeleted(c) == status[c] = "gone" => status'[c] = "gone"
KeepsResults(c) == results[c] => results'[c] \/ status'[c] = "gone"

\* The end of a task, its own or that of another scan.
LEMMA EndLosesNothing ==
  ASSUME TypeOK, NEW a \in Scans, NEW s, NEW stored, End(a, s, stored),
         status[a] = "gone" => s = "gone", NEW c \in Scans
  PROVE  KeepsDeleted(c) /\ KeepsResults(c)
<1>1. PICK final \in {s, "gone"} :
        /\ status' = [status EXCEPT ![a] = final]
        /\ results' = [results EXCEPT ![a] = (@ \/ stored) /\ final # "gone"]
  BY DEF End, Become
<1>2. status \in [Scans -> Statuses] /\ results \in [Scans -> BOOLEAN]
  BY DEF TypeOK
<1>3. KeepsDeleted(c)
  BY <1>1, <1>2 DEF KeepsDeleted
<1>4. CASE final = "gone" /\ c = a
  <2>1. status'[c] = "gone"
    BY <1>1, <1>2, <1>4
  <2> QED BY <1>3, <2>1 DEF KeepsResults
<1>5. CASE final # "gone" \/ c # a
  BY <1>1, <1>2, <1>3, <1>5, Zenon DEF KeepsResults
<1> QED BY <1>3, <1>4, <1>5

\* Results go only with their scan, and a deleted scan does not come back.
THEOREM Deletion == Spec => DeletedForGood
<1>1. ASSUME IInv, [Next]_vars, NEW c \in Scans PROVE KeepsDeleted(c) /\ KeepsResults(c)
  <2>1. TypeOK /\ \A a \in Scans : status[a] = "gone" => place[a] = "none"
    BY <1>1 DEF IInv, Sound
  <2>2. CASE UNCHANGED <<status, results>>
    BY <2>2 DEF KeepsDeleted, KeepsResults
  <2>3. ASSUME NEW a \in Scans, NEW s, Become(a, s), results' = results, status[a] # "gone"
        PROVE  KeepsDeleted(c) /\ KeepsResults(c)
    BY <2>1, <2>3 DEF KeepsDeleted, KeepsResults, Become, TypeOK
  <2>4. ASSUME NEW a \in Scans, NEW s, NEW stored, End(a, s, stored), status[a] # "gone"
        PROVE  KeepsDeleted(c) /\ KeepsResults(c)
    BY <2>1, <2>4, EndLosesNothing
  <2>5. ASSUME NEW a \in Scans, Step(a) PROVE KeepsDeleted(c) /\ KeepsResults(c)
    <3>1. CASE Begin(a)
      BY <2>1, <2>3, <2>4, <3>1 DEF Begin
    <3>2. CASE AccessFails(a)
      BY <2>1, <2>2, <2>4, <3>2 DEF AccessFails
    <3>3. CASE Finish(a)
      BY <2>1, <2>4, <3>3 DEF Finish
    <3>4. CASE TakeLease(a) \/ Access(a) \/ Read(a)
      BY <2>2, <3>4 DEF TakeLease, Access, Read, rowVars
    <3> QED BY <2>5, <3>1, <3>2, <3>3, <3>4 DEF Step
  <2>6. ASSUME NEW a \in Scans, Handler(a) PROVE KeepsDeleted(c) /\ KeepsResults(c)
    <3>1. status[a] # "gone"
      BY <2>6 DEF Handler, Create, RunNow, Resume, Pause, Delete, Waiting
    <3>2. CASE Create(a) \/ RunNow(a) \/ Resume(a)
      BY <2>3, <3>1, <3>2 DEF Create, RunNow, Resume, Enqueue
    <3>3. CASE Pause(a) \/ Delete(a)
      BY <2>3, <2>4, <3>1, <3>3 DEF Pause, Delete, Cancel
    <3> QED BY <2>6, <3>2, <3>3 DEF Handler
  <2>7. CASE Restart
    BY <2>7 DEF Restart, AfterRestart, KeepsDeleted, KeepsResults
  <2>8. ASSUME NEW a \in Scans, DisconnectFails(a) \/ SchedulerStarts(a) \/ RunTime(a)
        PROVE  KeepsDeleted(c) /\ KeepsResults(c)
    BY <2>2, <2>8 DEF DisconnectFails, SchedulerStarts, RunTime, rowVars
  <2>9. CASE (\E x \in Sessions : SessionChanges(x)) \/ NewDay \/ LicenceChanges \/ UNCHANGED vars
    BY <2>2, <2>9 DEF SessionChanges, NewDay, LicenceChanges, vars, rowVars
  <2> QED BY <1>1, <2>5, <2>6, <2>7, <2>8, <2>9 DEF Next
<1>2. IInv /\ [Next]_vars => [\A a \in Scans : KeepsDeleted(a) /\ KeepsResults(a)]_vars
  BY <1>1
<1>3. [\A a \in Scans : KeepsDeleted(a) /\ KeepsResults(a)]_vars =>
        [\A a \in Scans : /\ status[a] = "gone" => status'[a] = "gone"
                          /\ results[a] => results'[a] \/ status'[a] = "gone"]_vars
  BY DEF KeepsDeleted, KeepsResults
<1> QED BY <1>2, <1>3, Invariance, PTL DEF Spec, DeletedForGood

-----------------------------------------------------------------------------
(* The leases are used as SessionMutex allows.                             *)

\* A task that ends gives back the one lease it may have.
LEMMA EndGivesBack ==
  ASSUME IInv, NEW a \in Scans,
         owner' = [x \in Sessions |-> IF owner[x] = a THEN Nobody ELSE owner[x]]
  PROVE  [Mutex!Next]_owner
<1>1. /\ owner \in [Sessions -> Scans \cup {Nobody}] /\ a # Nobody
      /\ \A x \in Sessions : owner[x] = a => x = Head(tries[a])
  BY ScansAssumption DEF IInv, TypeOK, Sound
<1>2. CASE \A x \in Sessions : owner[x] # a
  <2>1. owner' = owner
    BY <1>1, <1>2
  <2> QED BY <2>1
<1>3. ASSUME NEW x \in Sessions, owner[x] = a PROVE Mutex!GiveBack(x)
  <2>1. \A y \in Sessions : owner[y] = a <=> y = x
    BY <1>1, <1>3
  <2>2. owner' = [owner EXCEPT ![x] = Nobody]
    BY <1>1, <2>1
  <2> QED BY <1>1, <1>3, <2>2 DEF Mutex!GiveBack
<1> QED BY <1>2, <1>3 DEF Mutex!Next

\* A step of a task that is not its end: it takes the lease of the session it
\* is in line for while it has none, or gives back the one it has.
LEMMA TaskKeepsMutex ==
  ASSUME IInv, NEW a \in Scans, Step(a) PROVE [Mutex!Next]_owner
<1>1. /\ TypeOK /\ Sound(a) /\ a # Nobody
  BY ScansAssumption DEF IInv
<1>2. CASE TakeLease(a)
  <2> DEFINE x == Head(tries[a])
  <2>1. /\ place[a] = "lined" /\ owner[x] = Nobody /\ owner' = [owner EXCEPT ![x] = a]
    BY <1>2 DEF TakeLease
  <2>2. x \in Sessions /\ \A y \in Sessions : owner[y] # a
    <3>1. tries[a] \in Seq(Sessions) /\ tries[a] # <<>>
      BY <1>1, <2>1 DEF TypeOK, Sound, Active
    <3>2. Head(tries[a]) \in Sessions
      BY <3>1
    <3> QED BY <1>1, <2>1, <3>2 DEF Sound, Holding
  <2> HIDE DEF x
  <2>3. Mutex!Grant(a, x)
    BY <2>1, <2>2 DEF Mutex!Grant
  <2> QED BY <2>2, <2>3 DEF Mutex!Next
<1>3. ASSUME NEW s, NEW stored, End(a, s, stored) PROVE [Mutex!Next]_owner
  <2>1. owner' = [x \in Sessions |-> IF owner[x] = a THEN Nobody ELSE owner[x]]
    BY <1>3 DEF End
  <2> QED BY <2>1, EndGivesBack
<1>4. CASE AccessFails(a)
  <2> DEFINE x == Head(tries[a])
  <2>1. place[a] = "access"
    BY <1>4 DEF AccessFails
  <2>2. \/ \E s, stored : End(a, s, stored)
        \/ owner' = [owner EXCEPT ![x] = Nobody]
    BY <1>4 DEF AccessFails
  <2>3. x \in Sessions /\ owner[x] = a
    <3>1. tries[a] \in Seq(Sessions) /\ tries[a] # <<>>
      BY <1>1, <2>1 DEF TypeOK, Sound, Active, Holding
    <3>2. Head(tries[a]) \in Sessions
      BY <3>1
    <3> QED BY <1>1, <2>1, <3>2 DEF Sound, Holding
  <2> HIDE DEF x
  <2>4. owner' = [owner EXCEPT ![x] = Nobody] => Mutex!GiveBack(x)
    BY <1>1, <2>3 DEF Mutex!GiveBack
  <2> QED BY <1>3, <2>2, <2>3, <2>4 DEF Mutex!Next
<1>5. CASE Begin(a) \/ Finish(a)
  <2>1. owner' = owner \/ \E s, stored : End(a, s, stored)
    BY <1>5 DEF Begin, Finish
  <2> QED BY <1>3, <2>1
<1>6. CASE Access(a) \/ Read(a)
  BY <1>6 DEF Access, Read
<1> QED BY <1>2, <1>4, <1>5, <1>6 DEF Step

\* Every operation of a scan takes and gives back its leases as
\* session_operation.py lets it: it asks for a session only while it has none,
\* takes it only from nobody, and never takes it away from another scan.
THEOREM MutexRefined == Spec => Mutex!Spec
<1>1. Init => Mutex!Init
  BY DEF Init, Mutex!Init
<1>2. ASSUME IInv, [Next]_vars PROVE [Mutex!Next]_owner
  <2>1. ASSUME NEW a \in Scans, Handler(a) PROVE [Mutex!Next]_owner
    <3>1. owner' = owner
          \/ owner' = [x \in Sessions |-> IF owner[x] = a THEN Nobody ELSE owner[x]]
      BY <2>1, Zenon DEF Handler, Create, RunNow, Resume, Pause, Delete, Enqueue, Cancel, End
    <3> QED BY <1>2, <3>1, EndGivesBack
  <2>2. ASSUME NEW a \in Scans, DisconnectFails(a) \/ SchedulerStarts(a) \/ RunTime(a)
        PROVE  owner' = owner
    BY <2>2, Zenon DEF DisconnectFails, SchedulerStarts, RunTime
  <2>3. CASE NewDay \/ LicenceChanges \/ (\E x \in Sessions : SessionChanges(x)) \/ UNCHANGED vars
    BY <2>3, Zenon DEF NewDay, LicenceChanges, SessionChanges, sessVars, vars
  <2>4. CASE Restart
    BY <2>4 DEF Restart, Mutex!Restart, Mutex!Next
  <2> QED BY <1>2, <2>1, <2>2, <2>3, <2>4, TaskKeepsMutex DEF Next
<1> QED BY <1>1, <1>2, Invariance, PTL DEF Spec, Mutex!Spec

-----------------------------------------------------------------------------
(* A task comes nearer to its end with every step.                         *)

LEMMA ToGoValues ==
  ASSUME NEW n \in Nat
  PROVE  /\ ToGoAt("none", n) = 0 /\ ToGoAt("leaving", n) = 1 /\ ToGoAt("reading", n) = 2
         /\ ToGoAt("access", n) = 2 * n + 1 /\ ToGoAt("lined", n) = 2 * n + 2
         /\ ToGoAt("created", n) = 2 * NSessions + 3
BY DEF ToGoAt

LEMMA ToGoPositive ==
  ASSUME NEW p \in Places, NEW n \in Nat
  PROVE  ToGoAt(p, n) \in Nat /\ (p # "none" => 1 <= ToGoAt(p, n))
BY ToGoValues, BoundsAssumption DEF Places

LEMMA ToGoTypes ==
  ASSUME TypeOK, TypeOK', NEW c \in Scans
  PROVE  /\ Len(tries[c]) \in Nat /\ Len(tries'[c]) \in Nat
         /\ ToGo(c) = ToGoAt(place[c], Len(tries[c]))
         /\ ToGo(c)' = ToGoAt(place'[c], Len(tries'[c]))
         /\ ToGo(c) \in Nat /\ ToGo(c)' \in Nat
         /\ place[c] # "none" => 1 <= ToGo(c)
<1>1. /\ tries[c] \in Seq(Sessions) /\ tries'[c] \in Seq(Sessions)
      /\ place[c] \in Places /\ place'[c] \in Places
  BY DEF TypeOK
<1>2. Len(tries[c]) \in Nat /\ Len(tries'[c]) \in Nat
  BY <1>1
<1>3. ToGo(c) = ToGoAt(place[c], Len(tries[c])) /\ ToGo(c)' = ToGoAt(place'[c], Len(tries'[c]))
  BY DEF ToGo
<1> QED BY <1>1, <1>2, <1>3, ToGoPositive

\* What of the others is not touched, and what a step does to its own scan.
Nears(a) == ToGo(a)' < ToGo(a) /\ \A c \in Scans \ {a} : ToGo(c)' = ToGo(c)

LEMMA ToGoRests ==
  ASSUME NEW c \in Scans, place'[c] = place[c], tries'[c] = tries[c]
  PROVE  ToGo(c)' = ToGo(c)
BY DEF ToGo

\* The two functions a task moves by, at its own scan and at the others.
LEMMA StepNears ==
  ASSUME TypeOK, TypeOK', NEW a \in Scans, NEW p, NEW ids,
         place' = [place EXCEPT ![a] = p], tries' = [tries EXCEPT ![a] = ids],
         ToGo(a)' < ToGo(a)
  PROVE  Nears(a)
<1>1. \A c \in Scans \ {a} : place'[c] = place[c] /\ tries'[c] = tries[c]
  BY DEF TypeOK
<1> QED BY <1>1, ToGoRests DEF Nears

LEMMA EndNears ==
  ASSUME TypeOK, TypeOK', NEW a \in Scans, NEW s, NEW stored, End(a, s, stored),
         place[a] # "none"
  PROVE  Nears(a)
<1>1. place' = [place EXCEPT ![a] = "none"] /\ tries' = [tries EXCEPT ![a] = <<>>]
  BY DEF End
<1>2. place'[a] = "none"
  BY <1>1 DEF TypeOK
<1>3. ToGo(a)' = 0 /\ 1 <= ToGo(a) /\ ToGo(a) \in Nat
  BY <1>2, ToGoTypes, ToGoValues
<1>4. ToGo(a)' < ToGo(a)
  BY <1>3
<1> QED BY <1>1, <1>4, StepNears

\* No list of sessions is longer than there are sessions.
LEMMA ShortList ==
  ASSUME TypeOK, NEW a \in Scans, NEW ids \in SessionIds(a), ids \in Seq(Sessions)
  PROVE  Len(ids) <= NSessions
<1>1. CASE ids = <<home[a]>>
  BY <1>1, BoundsAssumption
<1>2. ASSUME NEW n \in 0 .. NSessions, ids \in [1 .. n -> Sessions] PROVE Len(ids) <= NSessions
  <2>1. DOMAIN ids = 1 .. n /\ DOMAIN ids = 1 .. Len(ids) /\ Len(ids) \in Nat
    BY <1>2
  <2>2. Len(ids) = n
    BY <2>1
  <2> QED BY <2>2, BoundsAssumption
<1> QED BY <1>1, <1>2 DEF SessionIds

LEMMA TaskNears == ASSUME IInv, TypeOK', NEW a \in Scans, Step(a) PROVE Nears(a)
<1>1. TypeOK /\ Sound(a) /\ tries[a] \in Seq(Sessions)
  BY DEF IInv, TypeOK
<1>2. /\ Len(tries[a]) \in Nat /\ Len(tries'[a]) \in Nat
      /\ ToGo(a) = ToGoAt(place[a], Len(tries[a]))
      /\ ToGo(a)' = ToGoAt(place'[a], Len(tries'[a]))
  BY <1>1, ToGoTypes
<1>3. ASSUME tries' = tries PROVE tries' = [tries EXCEPT ![a] = tries[a]]
  BY <1>1, <1>3 DEF TypeOK
<1>4. CASE Begin(a)
  <2>1. place[a] = "created"
    BY <1>4 DEF Begin
  <2>2. ASSUME NEW ids \in SessionIds(a), tries' = [tries EXCEPT ![a] = ids],
               place' = [place EXCEPT ![a] = "lined"]
        PROVE  Nears(a)
    <3>1. tries'[a] = ids /\ place'[a] = "lined" /\ ids \in Seq(Sessions)
      BY <1>1, <2>2 DEF TypeOK
    <3>2. Len(ids) <= NSessions /\ Len(ids) \in Nat
      BY <1>1, <2>2, <3>1, ShortList
    <3>3. ToGo(a) = 2 * NSessions + 3 /\ ToGo(a)' = 2 * Len(ids) + 2
      BY <1>2, <2>1, <3>1, ToGoValues
    <3>4. ToGo(a)' < ToGo(a)
      BY <3>2, <3>3, BoundsAssumption
    <3> QED BY <1>1, <2>2, <3>4, StepNears
  <2> QED BY <1>1, <1>4, <2>1, <2>2, EndNears DEF Begin
<1>5. CASE TakeLease(a)
  <2>1. place[a] = "lined" /\ place' = [place EXCEPT ![a] = "access"] /\ tries' = tries
    BY <1>5 DEF TakeLease
  <2>2. place'[a] = "access"
    BY <1>1, <2>1 DEF TypeOK
  <2>3. ToGo(a) = 2 * Len(tries[a]) + 2 /\ ToGo(a)' = 2 * Len(tries[a]) + 1
    BY <1>2, <2>1, <2>2, ToGoValues
  <2>4. ToGo(a)' < ToGo(a)
    BY <1>2, <2>3
  <2> QED BY <1>1, <1>3, <2>1, <2>4, StepNears
<1>6. CASE Access(a)
  <2>1. place[a] = "access" /\ place' = [place EXCEPT ![a] = "reading"] /\ tries' = tries
    BY <1>6 DEF Access
  <2>2. place'[a] = "reading" /\ tries[a] # <<>>
    BY <1>1, <2>1 DEF TypeOK, Sound, Active, Holding
  <2>3. Len(tries[a]) >= 1
    BY <1>1, <2>2
  <2>4. ToGo(a) = 2 * Len(tries[a]) + 1 /\ ToGo(a)' = 2
    BY <1>2, <2>1, <2>2, ToGoValues
  <2>5. ToGo(a)' < ToGo(a)
    BY <1>2, <2>3, <2>4
  <2> QED BY <1>1, <1>3, <2>1, <2>5, StepNears
<1>7. CASE AccessFails(a)
  <2>1. place[a] = "access"
    BY <1>7 DEF AccessFails
  <2>2. ASSUME tries' = [tries EXCEPT ![a] = Tail(@)], place' = [place EXCEPT ![a] = "lined"]
        PROVE  Nears(a)
    <3>1. place'[a] = "lined" /\ tries'[a] = Tail(tries[a]) /\ tries[a] # <<>>
      BY <1>1, <2>1, <2>2 DEF TypeOK, Sound, Active, Holding
    <3>2. Len(tries'[a]) = Len(tries[a]) - 1
      BY <1>1, <3>1
    <3>3. ToGo(a) = 2 * Len(tries[a]) + 1 /\ ToGo(a)' = 2 * Len(tries'[a]) + 2
      BY <1>2, <2>1, <3>1, ToGoValues
    <3>4. ToGo(a)' < ToGo(a)
      BY <1>2, <3>2, <3>3
    <3>5. tries' = [tries EXCEPT ![a] = Tail(tries[a])]
      BY <2>2
    <3> QED BY <1>1, <2>2, <3>4, <3>5, StepNears
  <2> QED BY <1>1, <1>7, <2>1, <2>2, EndNears DEF AccessFails
<1>8. CASE Read(a)
  <2>1. place[a] = "reading" /\ place' = [place EXCEPT ![a] = "leaving"] /\ tries' = tries
    BY <1>8 DEF Read, Leave
  <2>2. place'[a] = "leaving"
    BY <1>1, <2>1 DEF TypeOK
  <2>3. ToGo(a)' < ToGo(a)
    BY <1>2, <2>1, <2>2, ToGoValues
  <2> QED BY <1>1, <1>3, <2>1, <2>3, StepNears
<1>9. CASE Finish(a)
  <2>1. place[a] = "leaving"
    BY <1>9 DEF Finish
  <2> QED BY <1>1, <1>9, <2>1, EndNears DEF Finish
<1> QED BY <1>4, <1>5, <1>6, <1>7, <1>8, <1>9 DEF Step

\* A handler: it cancels the task or starts one where there is none.
LEMMA HandlerNears ==
  ASSUME TypeOK, TypeOK', NEW a \in Scans, Handler(a), NEW c \in Scans, place[c] # "none"
  PROVE  ToGo(c)' <= ToGo(c)
<1>1. ToGo(c) \in Nat /\ ToGo(c)' \in Nat /\ 1 <= ToGo(c)
  BY ToGoTypes
<1>2. CASE Create(a) \/ RunNow(a) \/ Resume(a)
  <2>1. place' = [place EXCEPT ![a] = IF @ = "none" THEN "created" ELSE @] /\ tries' = tries
    BY <1>2 DEF Create, RunNow, Resume, Enqueue, Start
  <2>2. place'[c] = place[c]
    BY <2>1 DEF TypeOK
  <2> QED BY <1>1, <2>1, <2>2, ToGoRests
<1>3. ASSUME NEW s, Cancel(a, s) PROVE ToGo(c)' <= ToGo(c)
  <2>1. CASE c # a
    <3>1. place'[c] = place[c] /\ tries'[c] = tries[c]
      BY <1>3, <2>1 DEF Cancel, Leave, End, TypeOK
    <3> QED BY <1>1, <3>1, ToGoRests
  <2>2. CASE c = a /\ place'[a] = "leaving"
    <3>1. Len(tries'[c]) \in Nat /\ ToGo(c)' = ToGoAt(place'[c], Len(tries'[c]))
      BY ToGoTypes
    <3>2. ToGo(c)' = 1
      BY <2>2, <3>1, ToGoValues
    <3> QED BY <1>1, <3>2
  <2>3. CASE c = a /\ \E t, stored : End(a, t, stored)
    BY <1>1, <2>3, EndNears DEF Nears
  <2> QED BY <1>3, <2>1, <2>2, <2>3 DEF Cancel, Leave, TypeOK
<1> QED BY <1>2, <1>3 DEF Handler, Pause, Delete

\* A task takes at most two steps for each session, and three others.
THEOREM BoundedWork == Spec => NearsItsEnd
<1> DEFINE Goes(c) == /\ place[c] # "none" => ToGo(c)' <= ToGo(c)
                      /\ Step(c) => ToGo(c)' < ToGo(c)
<1>1. ASSUME IInv, TypeOK', [Next]_vars, NEW c \in Scans PROVE Goes(c)
  <2>1. TypeOK /\ ToGo(c) \in Nat /\ ToGo(c)' \in Nat
    BY <1>1, ToGoTypes DEF IInv
  <2>2. Step(c) => ToGo(c)' < ToGo(c)
    BY <1>1, TaskNears DEF Nears
  <2>3. ASSUME NEW a \in Scans, Step(a) PROVE ToGo(c)' <= ToGo(c)
    BY <1>1, <2>1, <2>3, TaskNears DEF Nears
  <2>4. ASSUME UNCHANGED <<place, tries>> PROVE ToGo(c)' <= ToGo(c)
    <3>1. place' = place /\ tries' = tries
      BY <2>4
    <3>2. ToGo(c)' = ToGo(c)
      BY <3>1, ToGoRests
    <3> QED BY <2>1, <3>2
  <2>5. ASSUME NEW a \in Scans, SchedulerStarts(a), place[c] # "none"
        PROVE  ToGo(c)' <= ToGo(c)
    <3>1. place'[c] = place[c] /\ tries'[c] = tries[c]
      BY <2>1, <2>5 DEF SchedulerStarts, Start, TypeOK
    <3> QED BY <2>1, <3>1, ToGoRests
  <2>6. ASSUME Restart PROVE ToGo(c)' <= ToGo(c)
    <3>1. place'[c] = "none" /\ Len(tries'[c]) \in Nat
      BY <1>1, <2>1, <2>6, ToGoTypes DEF Restart
    <3>2. ToGo(c)' = ToGoAt(place'[c], Len(tries'[c]))
      BY <1>1, <2>1, ToGoTypes
    <3>3. ToGo(c)' = 0
      BY <3>1, <3>2, ToGoValues
    <3> QED BY <2>1, <3>3
  <2>7. ASSUME \/ \E a \in Scans : DisconnectFails(a) \/ RunTime(a)
               \/ \E x \in Sessions : SessionChanges(x)
               \/ NewDay \/ LicenceChanges \/ UNCHANGED vars
        PROVE  UNCHANGED <<place, tries>>
    BY <2>7 DEF DisconnectFails, RunTime, SessionChanges, NewDay, LicenceChanges, vars, taskVars
  <2>8. place[c] # "none" => ToGo(c)' <= ToGo(c)
    BY <1>1, <2>1, <2>3, <2>4, <2>5, <2>6, <2>7, HandlerNears DEF Next
  <2> QED BY <2>2, <2>8
<1>2. IInv /\ TypeOK' /\ [Next]_vars => [\A a \in Scans : Goes(a)]_vars
  BY <1>1
<1> QED BY <1>2, Invariance, TypeCorrect, PTL DEF Spec, NearsItsEnd
=============================================================================
