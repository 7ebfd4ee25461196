------------------------- MODULE SessionLeaseProofs -------------------------
(***************************************************************************)
(* Proofs about SessionLease for any number of tasks and sessions.         *)
(*                                                                         *)
(* Mutual exclusion is not inductive.  A holder keeps its session because  *)
(* every other task finds the lock taken or the row present; that the lock *)
(* is taken while somebody holds depends on nobody releasing it but its    *)
(* holder, and a woken waiter takes it without looking.  So the inductive  *)
(* invariant also says who may be woken: only the head of the line, and    *)
(* only while the lock is free.  That in turn needs the line itself to be  *)
(* sound: exactly the queued tasks stand in it, each once.                 *)
(***************************************************************************)
EXTENDS SessionLease, SequenceTheorems, TLAPS

-----------------------------------------------------------------------------
(* The line of waiters.                                                    *)

\* Removing a task that stands once in a line leaves the others in order.
LEMMA WithoutLine ==
    ASSUME NEW T, NEW q \in Seq(T), NEW p \in 1..Len(q),
           \A i \in 1..Len(q) : q[i] = q[p] => i = p
    PROVE  /\ Without(q, q[p]) \in Seq(T)
           /\ Len(Without(q, q[p])) = Len(q) - 1
           /\ \A i \in 1..Len(q) - 1 :
                Without(q, q[p])[i] = IF i < p THEN q[i] ELSE q[i + 1]
<1>1. Place(q, q[p]) = p
  BY DEF Place
<1>2. Without(q, q[p]) = SubSeq(q, 1, p - 1) \o SubSeq(q, p + 1, Len(q))
  BY <1>1 DEF Without, RemoveAt
<1> DEFINE a == SubSeq(q, 1, p - 1)
           b == SubSeq(q, p + 1, Len(q))
<1>3. /\ a \in Seq(T) /\ Len(a) = p - 1
      /\ \A i \in 1..p - 1 : a[i] = q[i]
  <2>1. Len(q) \in Nat
    OBVIOUS
  <2> QED BY <2>1, SubSeqProperties
<1>4. /\ b \in Seq(T) /\ Len(b) = Len(q) - p
      /\ \A i \in 1..Len(q) - p : b[i] = q[p + i]
  <2>1. Len(q) \in Nat
    OBVIOUS
  <2> QED BY <2>1, SubSeqProperties
<1>5. /\ a \o b \in Seq(T) /\ Len(a \o b) = Len(q) - 1
      /\ \A i \in 1..Len(q) - 1 : (a \o b)[i] = IF i < p THEN q[i] ELSE q[i + 1]
  <2> HIDE DEF a, b
  <2>1. /\ a \o b \in Seq(T)
        /\ Len(a \o b) = Len(a) + Len(b)
        /\ \A i \in 1..Len(a) + Len(b) :
             (a \o b)[i] = IF i <= Len(a) THEN a[i] ELSE b[i - Len(a)]
    BY <1>3, <1>4, ConcatProperties
  <2>2. Len(q) \in Nat
    OBVIOUS
  <2> QED BY <2>1, <2>2, <1>3, <1>4
<1> QED BY <1>2, <1>5

-----------------------------------------------------------------------------
(* The inductive invariant.                                                *)

InLine(t, s) == \E i \in 1..Len(waiters[s]) : waiters[s][i] = t

\* Exactly the queued tasks stand in line, each once and at its own session,
\* and exactly they await a future.
LineSound ==
    /\ \A t \in Tasks : phase[t] = "queued" => target[t] \in Sessions /\ InLine(t, target[t])
    /\ \A s \in Sessions : \A i \in 1..Len(waiters[s]) :
          phase[waiters[s][i]] = "queued" /\ target[waiters[s][i]] = s
    /\ \A s \in Sessions : \A i, j \in 1..Len(waiters[s]) :
          waiters[s][i] = waiters[s][j] => i = j
    /\ \A t \in Tasks : phase[t] = "queued" <=> fut[t] # "none"

\* A turn is given to the head of the line only, while the lock is free.
Turn(t) == fut[t] \in {"woken", "wokenCancelled"}
TurnSound ==
    \A t \in Tasks : Turn(t) => ~locked[target[t]] /\ waiters[target[t]][1] = t

\* A holder holds an existing session, owns its row and keeps its lock.
HolderSound ==
    \A t \in Tasks : phase[t] = "holding" =>
        /\ target[t] \in Sessions
        /\ row[target[t]] = t
        /\ locked[target[t]]

\* Nothing runs while the process is down.
DownSound ==
    ~up => /\ \A t \in Tasks : phase[t] = "idle" /\ fut[t] = "none"
           /\ \A s \in Sessions : ~locked[s] /\ waiters[s] = <<>>

\* A free session with a line has a turn under way.
HandOff ==
    \A s \in Sessions : ~locked[s] /\ Len(waiters[s]) > 0 => fut[waiters[s][1]] # "pending"

\* A taken lock has a holder.
LockOwned ==
    \A s \in Sessions : locked[s] => \E t \in Tasks : phase[t] = "holding" /\ target[t] = s

IInv == TypeOK /\ LineSound /\ TurnSound /\ HolderSound /\ DownSound /\ HandOff /\ LockOwned

-----------------------------------------------------------------------------
(* One lemma per kind of step.                                             *)

LEMMA InitInv == Init => IInv
BY NoWaitAssumption, BoundAssumption, SMT
DEF Init, IInv, TypeOK, LineSound, TurnSound, HolderSound, DownSound, HandOff,
    LockOwned, InLine, Turn, Phases, Futures

\* The line is sound after a step that leaves it, and every queued task, alone.
LEMMA LineFrame ==
    ASSUME TypeOK, LineSound, UNCHANGED <<waiters, fut>>,
           \A u \in Tasks : /\ phase'[u] = "queued" <=> phase[u] = "queued"
                            /\ phase[u] = "queued" => target'[u] = target[u]
    PROVE  LineSound'
<1>1. \A u \in Tasks : phase'[u] = "queued" => target'[u] \in Sessions
          /\ \E i \in 1..Len(waiters'[target'[u]]) : waiters'[target'[u]][i] = u
  BY DEF LineSound, InLine
<1>2. \A x \in Sessions : \A i \in 1..Len(waiters[x]) : waiters[x][i] \in Tasks
  <2> SUFFICES ASSUME NEW x \in Sessions, NEW i \in 1..Len(waiters[x])
               PROVE  waiters[x][i] \in Tasks
    OBVIOUS
  <2>1. waiters[x] \in Seq(Tasks)
    BY DEF TypeOK
  <2> QED BY <2>1
<1>3. \A x \in Sessions : \A i \in 1..Len(waiters'[x]) :
          phase'[waiters'[x][i]] = "queued" /\ target'[waiters'[x][i]] = x
  BY <1>2 DEF LineSound
<1>4. \A x \in Sessions : \A i, j \in 1..Len(waiters'[x]) :
          waiters'[x][i] = waiters'[x][j] => i = j
  BY DEF LineSound
<1>5. \A u \in Tasks : phase'[u] = "queued" <=> fut'[u] # "none"
  BY DEF LineSound
<1> QED BY <1>1, <1>3, <1>4, <1>5 DEF LineSound, InLine

\* The turns are sound after a step that moreover leaves the locks of the
\* sessions alone in which a turn is under way.
LEMMA TurnFrame ==
    ASSUME LineSound, TurnSound, UNCHANGED <<waiters, fut>>,
           \A u \in Tasks : phase[u] = "queued" => target'[u] = target[u],
           \A u \in Tasks : Turn(u) => locked'[target[u]] = locked[target[u]]
    PROVE  TurnSound'
BY DEF LineSound, TurnSound, Turn

\* A task that is neither in line nor holding leaves no trace.
LEMMA QuietStep ==
    ASSUME IInv, NEW t \in Tasks, TypeOK', up,
           phase[t] \notin {"queued", "holding"},
           phase'[t] \notin {"queued", "holding"},
           \A u \in Tasks : u # t => phase'[u] = phase[u] /\ target'[u] = target[u],
           UNCHANGED <<fut, locked, waiters, row, up>>
    PROVE  IInv'
<1>3. LineSound'
  BY LineFrame DEF IInv
<1>4. TurnSound'
  BY TurnFrame DEF IInv
<1>5. HolderSound'
  BY DEF IInv, HolderSound
<1>6. DownSound' /\ HandOff' /\ LockOwned'
  BY DEF IInv, DownSound, HandOff, LockOwned
<1> QED BY <1>3, <1>4, <1>5, <1>6 DEF IInv

\* A wait=False caller that finds the lock taken is refused.
LEMMA RefuseBusyStep ==
    ASSUME IInv, NEW t \in Tasks, NEW s \in Sessions, RefuseBusy(t, s)
    PROVE  IInv'
<1>1. TypeOK'
  BY DEF IInv, RefuseBusy, lockVars, envVars, TypeOK, Phases
<1> QED BY <1>1, QuietStep DEF IInv, RefuseBusy, lockVars, envVars, TypeOK

\* A task whose operation is over becomes idle.
LEMMA ReturnStep ==
    ASSUME IInv, NEW t \in Tasks, ReleaseAgain(t) \/ GiveUpRequest(t)
    PROVE  IInv'
<1>1. TypeOK'
  BY DEF IInv, ReleaseAgain, GiveUpRequest, lockVars, envVars, TypeOK, Phases
<1> QED BY <1>1, QuietStep DEF IInv, ReleaseAgain, GiveUpRequest, lockVars, envVars, TypeOK

LEMMA StutterStep ==
    ASSUME IInv, UNCHANGED vars
    PROVE  IInv'
<1> USE DEF vars, taskVars, lockVars, envVars
<1>1. TypeOK'
  BY DEF IInv, TypeOK
<1>2. LineSound' /\ TurnSound'
  BY LineFrame, TurnFrame DEF IInv
<1>3. HolderSound' /\ DownSound' /\ HandOff' /\ LockOwned'
  BY DEF IInv, HolderSound, DownSound, HandOff, LockOwned
<1> QED BY <1>1, <1>2, <1>3 DEF IInv

LEMMA CancelStep ==
    ASSUME IInv, NEW t \in Tasks, Cancel(t)
    PROVE  IInv'
<1> USE DEF IInv, Cancel, lockVars, envVars
<1>1. TypeOK'
  BY DEF TypeOK, Futures
<1>2. LineSound'
  BY DEF TypeOK, LineSound, InLine
<1>3. TurnSound'
  BY DEF TypeOK, TurnSound, Turn
<1>4. HolderSound' /\ DownSound' /\ LockOwned'
  BY DEF TypeOK, HolderSound, DownSound, LockOwned
<1>5. HandOff'
  BY DEF TypeOK, HandOff, LineSound
<1> QED BY <1>1, <1>2, <1>3, <1>4, <1>5

\* The process goes down and comes up: nobody holds, waits or is woken.
LEMMA RestartStep ==
    ASSUME IInv, Crash \/ ClearStale
    PROVE  IInv'
<1> DEFINE Quiet == /\ \A t \in Tasks : phase'[t] = "idle" /\ fut'[t] = "none"
                    /\ \A s \in Sessions : ~locked'[s] /\ waiters'[s] = <<>>
<1>1. ASSUME Crash PROVE TypeOK' /\ Quiet
  <2>1. TypeOK'
    <3>1. /\ phase' \in [Tasks -> Phases] /\ target' \in [Tasks -> Sessions \cup {NoSession}]
          /\ fut' \in [Tasks -> Futures] /\ locked' \in [Sessions -> BOOLEAN]
          /\ waiters' \in [Sessions -> Seq(Tasks)]
      BY <1>1 DEF Crash, ForgetLocks, Phases, Futures
    <3>2. row' \in [Sessions -> Tasks \cup {NoTask}] /\ up' \in BOOLEAN /\ faults' \in 0..MaxFaults
      BY <1>1 DEF IInv, TypeOK, Crash
    <3>3. crashes' \in 0..MaxCrashes
      <4>1. crashes \in 0..MaxCrashes /\ crashes < MaxCrashes /\ crashes' = crashes + 1
        BY <1>1 DEF IInv, TypeOK, Crash
      <4> QED BY <4>1, BoundAssumption
    <3> QED BY <3>1, <3>2, <3>3 DEF TypeOK
  <2>2. Quiet
    BY <1>1 DEF Crash, ForgetLocks
  <2> QED BY <2>1, <2>2
<1>2. ASSUME ClearStale PROVE TypeOK' /\ Quiet
  <2>1. TypeOK'
    BY <1>2 DEF IInv, ClearStale, ForgetLocks, taskVars, TypeOK
  <2>2. Quiet
    BY <1>2 DEF IInv, ClearStale, ForgetLocks, taskVars, DownSound
  <2> QED BY <2>1, <2>2
<1>3. TypeOK' /\ Quiet
  BY <1>1, <1>2
<1>4. LineSound'
  BY <1>3 DEF LineSound, InLine
<1>5. TurnSound' /\ HolderSound' /\ DownSound' /\ HandOff' /\ LockOwned'
  BY <1>3 DEF TurnSound, Turn, HolderSound, DownSound, HandOff, LockOwned
<1> QED BY <1>3, <1>4, <1>5 DEF IInv

\* Only a free session without a live line can be taken at once.
LEMMA AcquireNowStep ==
    ASSUME IInv, NEW t \in Tasks, NEW s \in Sessions, AcquireNow(t, s)
    PROVE  IInv'
<1> USE DEF IInv
<1>1. TypeOK'
  <2>1. CASE Granted(t, s) /\ UNCHANGED faults
    BY <2>1 DEF AcquireNow, TypeOK, Granted, Phases
  <2>2. CASE Refused(t, s)
    BY <2>2, BoundAssumption DEF AcquireNow, TypeOK, Refused, Phases
  <2> QED BY <2>1, <2>2 DEF AcquireNow
<1>2. /\ phase[t] = "idle" /\ ~locked[s] /\ up /\ fut[t] = "none"
      /\ UNCHANGED <<fut, waiters, up>>
      /\ \A u \in Tasks : u # t => phase'[u] = phase[u] /\ target'[u] = target[u]
      /\ phase'[t] \in {"holding", "refused"} /\ target'[t] = s
      /\ \A r \in Sessions : r # s => locked'[r] = locked[r] /\ row'[r] = row[r]
  BY DEF AcquireNow, TypeOK, LineSound, FreeForAll, Granted, Refused
<1>3. \A u \in Tasks : Turn(u) => target[u] \in Sessions /\ target[u] # s
  BY DEF AcquireNow, FreeForAll, LineSound, InLine, Turn
<1>4. \A u \in Tasks : phase[u] = "holding" => target[u] # s
  BY <1>2 DEF HolderSound
<1>5. LineSound'
  BY <1>2, LineFrame
<1>6. TurnSound'
  BY <1>2, <1>3, TurnFrame
<1>7. DownSound'
  BY <1>2 DEF DownSound
<1>8. CASE Granted(t, s)
  <2>1. row'[s] = t /\ locked'[s] /\ phase'[t] = "holding"
    BY <1>8 DEF Granted, TypeOK
  <2>2. HolderSound'
    BY <1>2, <1>4, <2>1 DEF HolderSound
  <2>3. HandOff'
    BY <1>2, <2>1 DEF HandOff
  <2>4. LockOwned'
    BY <1>2, <2>1 DEF LockOwned
  <2> QED BY <1>1, <1>5, <1>6, <1>7, <2>2, <2>3, <2>4
<1>9. CASE Refused(t, s)
  <2>1. row' = row /\ ~locked'[s] /\ phase'[t] = "refused"
    BY <1>9 DEF Refused, TypeOK
  <2>2. HolderSound'
    BY <1>2, <1>4, <2>1 DEF HolderSound
  <2>3. HandOff'
    BY <1>2, <2>1 DEF HandOff
  <2>4. LockOwned'
    BY <1>2, <2>1 DEF LockOwned
  <2> QED BY <1>1, <1>5, <1>6, <1>7, <2>2, <2>3, <2>4
<1> QED BY <1>8, <1>9 DEF AcquireNow

LEMMA JoinLineStep ==
    ASSUME IInv, NEW t \in Tasks, NEW s \in Sessions, JoinLine(t, s)
    PROVE  IInv'
<1> USE DEF IInv, JoinLine, envVars
<1>1. TypeOK'
  BY DEF TypeOK, Phases, Futures
<1>2. /\ waiters[s] \in Seq(Tasks) /\ waiters' = [waiters EXCEPT ![s] = Append(waiters[s], t)]
      /\ phase[t] = "idle" /\ phase'[t] = "queued" /\ target'[t] = s /\ fut'[t] = "pending" /\ up
      /\ \A u \in Tasks : u # t => phase'[u] = phase[u] /\ target'[u] = target[u] /\ fut'[u] = fut[u]
      /\ UNCHANGED <<locked, row, up>>
  BY DEF TypeOK
<1> DEFINE q == waiters[s]
           r == waiters'[s]
<1>3. /\ Len(q) \in Nat /\ Len(r) = Len(q) + 1 /\ r[Len(q) + 1] = t
      /\ \A i \in 1..Len(q) : r[i] = q[i] /\ r[i] # t /\ q[i] \in Tasks
  <2>1. r = Append(q, t)
    BY <1>2 DEF TypeOK
  <2>2. \A i \in 1..Len(q) : q[i] # t /\ q[i] \in Tasks
    BY <1>2 DEF LineSound
  <2> QED BY <1>2, <2>1, <2>2, AppendProperties
<1>4. \A x \in Sessions : x # s => waiters'[x] = waiters[x]
  BY <1>2 DEF TypeOK
<1> HIDE DEF q, r
<1>5. LineSound'
  <2>1. \A u \in Tasks : phase'[u] = "queued" =>
          /\ target'[u] \in Sessions
          /\ \E i \in 1..Len(waiters'[target'[u]]) : waiters'[target'[u]][i] = u
    <3> SUFFICES ASSUME NEW u \in Tasks, phase'[u] = "queued"
                 PROVE  /\ target'[u] \in Sessions
                        /\ \E i \in 1..Len(waiters'[target'[u]]) : waiters'[target'[u]][i] = u
      OBVIOUS
    <3>1. CASE u = t
      <4>1. Len(q) + 1 \in 1..Len(r)
        BY <1>3
      <4> QED BY <4>1, <3>1, <1>2, <1>3 DEF r
    <3>2. CASE u # t
      <4>1. target'[u] = target[u] /\ target[u] \in Sessions /\ InLine(u, target[u])
        BY <3>2, <1>2 DEF LineSound
      <4>2. PICK i \in 1..Len(waiters[target[u]]) : waiters[target[u]][i] = u
        BY <4>1 DEF InLine
      <4>3. CASE target[u] = s
        <5>1. i \in 1..Len(r) /\ r[i] = u
          BY <4>2, <4>3, <1>3 DEF q
        <5> QED BY <5>1, <4>1, <4>3 DEF r
      <4>4. CASE target[u] # s
        BY <4>1, <4>2, <4>4, <1>4
      <4> QED BY <4>3, <4>4
    <3> QED BY <3>1, <3>2
  <2>2. \A x \in Sessions : \A i \in 1..Len(waiters'[x]) :
          phase'[waiters'[x][i]] = "queued" /\ target'[waiters'[x][i]] = x
    <3> SUFFICES ASSUME NEW x \in Sessions, NEW i \in 1..Len(waiters'[x])
                 PROVE  phase'[waiters'[x][i]] = "queued" /\ target'[waiters'[x][i]] = x
      OBVIOUS
    <3>1. CASE x = s
      <4>1. CASE i = Len(q) + 1
        BY <4>1, <3>1, <1>2, <1>3 DEF r
      <4>2. CASE i \in 1..Len(q)
        BY <4>2, <3>1, <1>2, <1>3 DEF LineSound, q, r
      <4> QED BY <4>1, <4>2, <3>1, <1>3 DEF r
    <3>2. CASE x # s
      <4>1. /\ waiters'[x] = waiters[x] /\ waiters[x][i] \in Tasks
            /\ phase[waiters[x][i]] = "queued" /\ target[waiters[x][i]] = x
        BY <3>2, <1>4 DEF LineSound, TypeOK
      <4> QED BY <4>1, <1>2
    <3> QED BY <3>1, <3>2
  <2>3. \A x \in Sessions : \A i, j \in 1..Len(waiters'[x]) :
          waiters'[x][i] = waiters'[x][j] => i = j
    <3> SUFFICES ASSUME NEW x \in Sessions, NEW i \in 1..Len(waiters'[x]),
                        NEW j \in 1..Len(waiters'[x]), waiters'[x][i] = waiters'[x][j]
                 PROVE  i = j
      OBVIOUS
    <3>1. CASE x = s
      <4>1. \A k, m \in 1..Len(q) : q[k] = q[m] => k = m
        BY DEF LineSound, q
      <4>2. i \in 1..Len(q) + 1 /\ j \in 1..Len(q) + 1 /\ r[i] = r[j]
        BY <3>1, <1>3 DEF r
      <4> QED BY <4>1, <4>2, <1>3
    <3>2. CASE x # s
      BY <3>2, <1>4 DEF LineSound
    <3> QED BY <3>1, <3>2
  <2>4. \A u \in Tasks : phase'[u] = "queued" <=> fut'[u] # "none"
    BY <1>2 DEF LineSound
  <2> QED BY <2>1, <2>2, <2>3, <2>4 DEF LineSound, InLine
<1>6. TurnSound'
  <2> SUFFICES ASSUME NEW u \in Tasks, Turn(u)'
               PROVE  ~locked'[target'[u]] /\ waiters'[target'[u]][1] = u
    BY DEF TurnSound
  <2>1. u # t /\ Turn(u) /\ target'[u] = target[u]
    BY <1>2 DEF Turn
  <2>2. target[u] \in Sessions /\ InLine(u, target[u])
    BY <2>1 DEF LineSound, Turn
  <2>3. ~locked[target[u]] /\ waiters[target[u]][1] = u
    BY <2>1 DEF TurnSound
  <2>4. CASE target[u] = s
    <3>1. 1 \in 1..Len(q)
      BY <2>2, <2>4, <1>3 DEF InLine, q
    <3> QED BY <3>1, <2>1, <2>3, <2>4, <1>2, <1>3 DEF q, r
  <2>5. CASE target[u] # s
    BY <2>1, <2>2, <2>3, <2>5, <1>2, <1>4
  <2> QED BY <2>4, <2>5
<1>7. HolderSound' /\ LockOwned' /\ DownSound'
  BY <1>2 DEF HolderSound, LockOwned, DownSound
<1>8. HandOff'
  <2> SUFFICES ASSUME NEW x \in Sessions, ~locked'[x], Len(waiters'[x]) > 0
               PROVE  fut'[waiters'[x][1]] # "pending"
    BY DEF HandOff
  <2>1. CASE x = s
    <3>1. Len(q) > 0
      BY <2>1, <1>2, <1>3 DEF FreeForAll, q
    <3>2. r[1] = q[1] /\ q[1] # t /\ q[1] \in Tasks /\ fut[q[1]] # "pending"
      BY <3>1, <2>1, <1>2, <1>3 DEF HandOff, q
    <3> QED BY <3>2, <2>1, <1>2 DEF r
  <2>2. CASE x # s
    <3>1. waiters'[x] = waiters[x] /\ ~locked[x] /\ Len(waiters[x]) > 0
      BY <2>2, <1>2, <1>4
    <3>2. waiters[x] \in Seq(Tasks) /\ 1 \in 1..Len(waiters[x])
      BY <3>1 DEF TypeOK
    <3>3. waiters[x][1] \in Tasks /\ waiters[x][1] # t
      BY <3>2, <1>2, <1>4 DEF LineSound
    <3>4. fut[waiters[x][1]] # "pending"
      BY <3>1 DEF HandOff
    <3> QED BY <3>1, <3>3, <3>4, <1>2
  <2> QED BY <2>1, <2>2
<1> QED BY <1>1, <1>5, <1>6, <1>7, <1>8

\* The head of a line stays the head when another task t leaves the line.
HeadStays(s, t) ==
    \A u \in Tasks : u # t /\ waiters[s][1] = u /\ InLine(u, s) =>
        Len(waiters'[s]) > 0 /\ waiters'[s][1] = u

\* Task t has left the line of s: the others keep their places in order and no
\* other line is touched.
LeftLine(s, t) ==
    /\ waiters' \in [Sessions -> Seq(Tasks)]
    /\ \A x \in Sessions : x # s => waiters'[x] = waiters[x]
    /\ Len(waiters'[s]) \in Nat /\ Len(waiters[s]) = Len(waiters'[s]) + 1
    /\ \A i \in 1..Len(waiters'[s]) :
         waiters'[s][i] \in Tasks /\ waiters'[s][i] # t /\ InLine(waiters'[s][i], s)
    /\ \A u \in Tasks : u # t /\ InLine(u, s) =>
         \E i \in 1..Len(waiters'[s]) : waiters'[s][i] = u
    /\ \A i, j \in 1..Len(waiters'[s]) : waiters'[s][i] = waiters'[s][j] => i = j
    /\ HeadStays(s, t)

\* That is what removing a queued task from its line does.
LEMMA LeaveFrame ==
    ASSUME TypeOK, LineSound, NEW t \in Tasks, phase[t] = "queued",
           NEW s \in Sessions, s = target[t],
           waiters' = [waiters EXCEPT ![s] = Without(waiters[s], t)]
    PROVE  LeftLine(s, t)
<1> DEFINE q == waiters[s]
           r == waiters'[s]
<1>1. q \in Seq(Tasks) /\ Len(q) \in Nat
  BY DEF TypeOK
<1>2. PICK p \in 1..Len(q) : q[p] = t
  BY DEF LineSound, InLine
<1>3. \A i, j \in 1..Len(q) : q[i] = q[j] => i = j
  BY DEF LineSound
<1>4. /\ r \in Seq(Tasks)
      /\ Len(r) = Len(q) - 1
      /\ \A i \in 1..Len(q) - 1 : r[i] = IF i < p THEN q[i] ELSE q[i + 1]
  <2>1. r = Without(q, q[p])
    BY <1>2 DEF TypeOK
  <2>2. \A i \in 1..Len(q) : q[i] = q[p] => i = p
    BY <1>2, <1>3
  <2> HIDE DEF q, r
  <2> QED BY <2>1, <2>2, <1>1, <1>2, WithoutLine
<1>5. waiters' \in [Sessions -> Seq(Tasks)] /\ \A x \in Sessions : x # s => waiters'[x] = waiters[x]
  BY <1>4 DEF TypeOK
<1>6. Len(r) \in Nat /\ Len(q) = Len(r) + 1
  BY <1>1, <1>2, <1>4
<1> HIDE DEF q, r
<1>7. \A i \in 1..Len(r) : r[i] \in Tasks /\ r[i] # t /\ \E j \in 1..Len(q) : q[j] = r[i]
  <2> SUFFICES ASSUME NEW i \in 1..Len(r)
               PROVE  r[i] \in Tasks /\ r[i] # t /\ \E j \in 1..Len(q) : q[j] = r[i]
    OBVIOUS
  <2>1. r[i] \in Tasks
    BY <1>4
  <2>2. CASE i < p
    BY <2>1, <2>2, <1>2, <1>3, <1>4, <1>6
  <2>3. CASE ~(i < p)
    <3>1. i + 1 \in 1..Len(q) /\ i + 1 # p /\ r[i] = q[i + 1]
      BY <2>3, <1>2, <1>4, <1>6
    <3> QED BY <3>1, <2>1, <1>2, <1>3
  <2> QED BY <2>2, <2>3
<1>8. \A u \in Tasks : u # t /\ (\E j \in 1..Len(q) : q[j] = u) => \E i \in 1..Len(r) : r[i] = u
  <2> SUFFICES ASSUME NEW u \in Tasks, u # t, NEW j \in 1..Len(q), q[j] = u
               PROVE  \E i \in 1..Len(r) : r[i] = u
    OBVIOUS
  <2>1. CASE j < p
    <3>1. j \in 1..Len(r) /\ r[j] = q[j]
      BY <2>1, <1>2, <1>4, <1>6
    <3> QED BY <3>1
  <2>2. CASE j > p
    <3>1. j - 1 \in 1..Len(r) /\ r[j - 1] = q[j]
      BY <2>2, <1>2, <1>4, <1>6
    <3> QED BY <3>1
  <2> QED BY <2>1, <2>2, <1>2
<1>9. \A i, j \in 1..Len(r) : r[i] = r[j] => i = j
  <2> SUFFICES ASSUME NEW i \in 1..Len(r), NEW j \in 1..Len(r), r[i] = r[j]
               PROVE  i = j
    OBVIOUS
  <2> DEFINE at(k) == IF k < p THEN k ELSE k + 1
  <2>1. at(i) \in 1..Len(q) /\ at(j) \in 1..Len(q) /\ r[i] = q[at(i)] /\ r[j] = q[at(j)]
    BY <1>2, <1>4, <1>6
  <2>2. at(i) = at(j)
    BY <2>1, <1>3
  <2> QED BY <2>2, <1>2
<1>10. \A u \in Tasks : u # t /\ q[1] = u /\ (\E j \in 1..Len(q) : q[j] = u) =>
         Len(r) > 0 /\ r[1] = u
  <2> SUFFICES ASSUME NEW u \in Tasks, u # t, q[1] = u, NEW j \in 1..Len(q), q[j] = u
               PROVE  Len(r) > 0 /\ r[1] = u
    OBVIOUS
  <2>1. p # 1 /\ 1 < p
    BY <1>2
  <2> QED BY <2>1, <1>2, <1>4, <1>6
<1>11. HeadStays(s, t)
  BY <1>10 DEF HeadStays, InLine, q, r
<1> QED BY <1>5, <1>6, <1>7, <1>8, <1>9, <1>11 DEF q, r, InLine, LeftLine

\* Waking resolves at most one future: the pending one at the head of the line.
LEMMA WakeFirstFuture ==
    ASSUME NEW f \in [Tasks -> Futures], NEW q \in Seq(Tasks)
    PROVE  /\ WakeFirst(f, q) \in [Tasks -> Futures]
           /\ \A u \in Tasks : WakeFirst(f, q)[u] =
                IF Len(q) > 0 /\ u = q[1] /\ f[u] = "pending" THEN "woken" ELSE f[u]
<1>1. q # <<>> <=> Len(q) > 0
  OBVIOUS
<1>2. q # <<>> => Head(q) = q[1] /\ q[1] \in Tasks
  OBVIOUS
<1> QED BY <1>1, <1>2 DEF WakeFirst, Futures

\* The line is sound when a queued task has left it and its future is gone.
LEMMA LeaveLineSound ==
    ASSUME TypeOK, LineSound, NEW t \in Tasks, phase[t] = "queued",
           waiters' = [waiters EXCEPT ![target[t]] = Without(waiters[target[t]], t)],
           phase'[t] # "queued", target' = target, fut'[t] = "none",
           \A u \in Tasks : u # t => /\ phase'[u] = phase[u]
                                     /\ fut'[u] = "none" <=> fut[u] = "none"
    PROVE  LineSound'
<1>1. PICK s \in Sessions : s = target[t]
  BY DEF LineSound
<1>2. /\ waiters' \in [Sessions -> Seq(Tasks)]
      /\ \A x \in Sessions : x # s => waiters'[x] = waiters[x]
      /\ \A i \in 1..Len(waiters'[s]) : /\ waiters'[s][i] \in Tasks
                                        /\ waiters'[s][i] # t
                                        /\ InLine(waiters'[s][i], s)
      /\ \A u \in Tasks : u # t /\ InLine(u, s) =>
           \E i \in 1..Len(waiters'[s]) : waiters'[s][i] = u
      /\ \A i, j \in 1..Len(waiters'[s]) : waiters'[s][i] = waiters'[s][j] => i = j
  <2>1. waiters' = [waiters EXCEPT ![s] = Without(waiters[s], t)]
    BY <1>1
  <2>2. LeftLine(s, t)
    BY <1>1, <2>1, LeaveFrame
  <2> QED BY <2>2 DEF LeftLine
<1>3. \A u \in Tasks : phase'[u] = "queued" =>
        /\ target'[u] \in Sessions
        /\ \E i \in 1..Len(waiters'[target'[u]]) : waiters'[target'[u]][i] = u
  <2> SUFFICES ASSUME NEW u \in Tasks, phase'[u] = "queued"
               PROVE  /\ target[u] \in Sessions
                      /\ \E i \in 1..Len(waiters'[target[u]]) : waiters'[target[u]][i] = u
    OBVIOUS
  <2>1. u # t /\ target[u] \in Sessions /\ InLine(u, target[u])
    BY DEF LineSound
  <2>2. CASE target[u] = s
    BY <2>1, <2>2, <1>2
  <2>3. CASE target[u] # s
    <3>1. waiters'[target[u]] = waiters[target[u]]
      BY <2>1, <2>3, <1>2
    <3> QED BY <3>1, <2>1 DEF InLine
  <2> QED BY <2>2, <2>3
<1>4. \A x \in Sessions : \A i \in 1..Len(waiters'[x]) :
        phase'[waiters'[x][i]] = "queued" /\ target'[waiters'[x][i]] = x
  <2> SUFFICES ASSUME NEW x \in Sessions, NEW i \in 1..Len(waiters'[x])
               PROVE  phase'[waiters'[x][i]] = "queued" /\ target[waiters'[x][i]] = x
    OBVIOUS
  <2> DEFINE u == waiters'[x][i]
  <2>1. CASE x = s
    <3>1. u \in Tasks /\ u # t /\ InLine(u, x)
      BY <2>1, <1>2
    <3>2. phase[u] = "queued" /\ target[u] = x
      BY <3>1 DEF LineSound, InLine
    <3> QED BY <3>1, <3>2, <2>1
  <2>2. CASE x # s
    <3>1. waiters'[x] = waiters[x]
      BY <2>2, <1>2
    <3>2. phase[u] = "queued" /\ target[u] = x /\ u \in Tasks
      <4>1. waiters[x] \in Seq(Tasks)
        BY DEF TypeOK
      <4> QED BY <3>1, <4>1 DEF LineSound
    <3>3. u # t
      BY <3>2, <2>2, <1>1
    <3> QED BY <3>2, <3>3
  <2> QED BY <2>1, <2>2
<1>5. \A x \in Sessions : \A i, j \in 1..Len(waiters'[x]) :
        waiters'[x][i] = waiters'[x][j] => i = j
  <2> SUFFICES ASSUME NEW x \in Sessions
               PROVE  \A i, j \in 1..Len(waiters'[x]) : waiters'[x][i] = waiters'[x][j] => i = j
    OBVIOUS
  <2>1. CASE x = s
    BY <2>1, <1>2
  <2>2. CASE x # s
    <3>1. waiters'[x] = waiters[x]
      BY <2>2, <1>2
    <3> QED BY <3>1 DEF LineSound
  <2> QED BY <2>1, <2>2
<1>6. \A u \in Tasks : phase'[u] = "queued" <=> fut'[u] # "none"
  BY DEF LineSound
<1> QED BY <1>3, <1>4, <1>5, <1>6 DEF LineSound, InLine

\* The woken waiter is the head of the line and finds the lock free, so it
\* neither overtakes nor takes the session from a holder.
LEMMA ResumeStep ==
    ASSUME IInv, NEW t \in Tasks, Resume(t)
    PROVE  IInv'
<1> DEFINE s == target[t]
           line == Without(waiters[s], t)
           out == [fut EXCEPT ![t] = "none"]
<1>1. /\ up /\ phase[t] = "queued" /\ fut[t] = "woken" /\ s \in Sessions
      /\ ~locked[s] /\ waiters[s][1] = t /\ InLine(t, s)
      /\ waiters' = [waiters EXCEPT ![s] = line]
      /\ target' = target /\ up' = up /\ crashes' = crashes
  BY DEF IInv, LineSound, TurnSound, Turn, Resume
<1>2. /\ waiters' \in [Sessions -> Seq(Tasks)]
      /\ \A x \in Sessions : x # s => waiters'[x] = waiters[x]
      /\ waiters'[s] = line /\ line \in Seq(Tasks) /\ Len(line) \in Nat
      /\ \A i \in 1..Len(line) : line[i] \in Tasks /\ line[i] # t /\ InLine(line[i], s)
  <2>1. /\ s = target[t]
        /\ waiters' = [waiters EXCEPT ![s] = Without(waiters[s], t)]
    BY <1>1
  <2> HIDE DEF s
  <2>2. waiters'[s] = line
    BY <2>1, <1>1 DEF IInv, TypeOK
  <2>3. /\ waiters' \in [Sessions -> Seq(Tasks)]
        /\ \A x \in Sessions : x # s => waiters'[x] = waiters[x]
        /\ Len(waiters'[s]) \in Nat
        /\ \A i \in 1..Len(waiters'[s]) :
             waiters'[s][i] \in Tasks /\ waiters'[s][i] # t /\ InLine(waiters'[s][i], s)
    <3>1. LeftLine(s, t)
      BY <1>1, <2>1, LeaveFrame DEF IInv
    <3> QED BY <3>1 DEF LeftLine
  <2> QED BY <2>2, <2>3, <1>1
<1>3. \A u \in Tasks : u # t /\ Turn(u) => target[u] \in Sessions /\ target[u] # s
  BY <1>1 DEF IInv, LineSound, TurnSound, Turn
<1>4. \A u \in Tasks : phase[u] = "holding" => target[u] # s
  BY <1>1 DEF IInv, HolderSound
<1>5. out \in [Tasks -> Futures] /\ out[t] = "none" /\ \A u \in Tasks : u # t => out[u] = fut[u]
  BY DEF IInv, TypeOK, Futures
<1> HIDE DEF s, line, out
<1>6. CASE Granted(t, s) /\ fut' = out /\ UNCHANGED faults
  <2>1. /\ row' = [row EXCEPT ![s] = t] /\ locked' = [locked EXCEPT ![s] = TRUE]
        /\ phase' = [phase EXCEPT ![t] = "holding"]
    BY <1>6 DEF Granted
  <2>2. /\ row'[s] = t /\ locked'[s] /\ phase'[t] = "holding"
        /\ \A x \in Sessions : x # s => row'[x] = row[x] /\ locked'[x] = locked[x]
        /\ \A u \in Tasks : u # t => phase'[u] = phase[u]
    BY <2>1, <1>1 DEF IInv, TypeOK
  <2>3. TypeOK'
    BY <2>1, <1>1, <1>2, <1>5, <1>6 DEF IInv, TypeOK, Phases
  <2>4. LineSound'
    <3>1. phase[t] = "queued" /\ phase'[t] # "queued" /\ target' = target
      BY <2>2, <1>1
    <3>2. waiters' = [waiters EXCEPT ![target[t]] = Without(waiters[target[t]], t)]
      BY <1>1 DEF s, line
    <3>3. /\ fut'[t] = "none"
          /\ \A u \in Tasks : u # t => (fut'[u] = "none" <=> fut[u] = "none")
      BY <1>5, <1>6
    <3>4. TypeOK /\ LineSound
      BY DEF IInv
    <3> QED BY <3>1, <3>2, <3>3, <3>4, <2>2, LeaveLineSound
  <2>5. TurnSound'
    BY <2>2, <1>1, <1>2, <1>3, <1>5, <1>6 DEF IInv, TurnSound, Turn
  <2>6. HolderSound' /\ LockOwned' /\ DownSound'
    BY <2>2, <1>1, <1>4 DEF IInv, HolderSound, LockOwned, DownSound, s
  <2>7. HandOff'
    <3> SUFFICES ASSUME NEW x \in Sessions, ~locked'[x], Len(waiters'[x]) > 0
                 PROVE  fut'[waiters'[x][1]] # "pending"
      BY DEF HandOff
    <3>1. x # s /\ waiters'[x] = waiters[x] /\ ~locked[x]
      BY <2>2, <1>2
    <3>2. waiters[x] \in Seq(Tasks) /\ waiters[x][1] \in Tasks
      BY <3>1 DEF IInv, TypeOK
    <3> QED BY <3>1, <3>2, <1>5, <1>6 DEF IInv, HandOff
  <2> QED BY <2>3, <2>4, <2>5, <2>6, <2>7 DEF IInv
<1>7. CASE Refused(t, s) /\ fut' = WakeFirst(out, line)
  <2>1. /\ locked' = [locked EXCEPT ![s] = FALSE] /\ phase' = [phase EXCEPT ![t] = "refused"]
        /\ row' = row
    BY <1>7 DEF Refused
  <2>2. /\ locked' = locked /\ phase'[t] = "refused"
        /\ \A u \in Tasks : u # t => phase'[u] = phase[u]
    BY <2>1, <1>1 DEF IInv, TypeOK
  <2>3. /\ fut' \in [Tasks -> Futures]
        /\ \A u \in Tasks : fut'[u] =
             IF Len(line) > 0 /\ u = line[1] /\ out[u] = "pending" THEN "woken" ELSE out[u]
    BY <1>2, <1>5, <1>7, WakeFirstFuture
  <2>4. TypeOK'
    <3>1. faults' \in 0..MaxFaults
      <4>1. faults \in 0..MaxFaults
        BY DEF IInv, TypeOK
      <4> QED BY <4>1, <1>7, BoundAssumption DEF Refused
    <3> QED BY <3>1, <2>1, <2>3, <1>1, <1>2 DEF IInv, TypeOK, Phases
  <2>5. LineSound'
    <3>1. phase[t] = "queued" /\ phase'[t] # "queued" /\ target' = target
      BY <2>2, <1>1
    <3>2. waiters' = [waiters EXCEPT ![target[t]] = Without(waiters[target[t]], t)]
      BY <1>1 DEF s, line
    <3>3. /\ fut'[t] = "none"
          /\ \A u \in Tasks : u # t => (fut'[u] = "none" <=> fut[u] = "none")
      BY <2>3, <1>5
    <3>4. TypeOK /\ LineSound
      BY DEF IInv
    <3> QED BY <3>1, <3>2, <3>3, <3>4, <2>2, LeaveLineSound
  <2>6. TurnSound'
    <3> SUFFICES ASSUME NEW u \in Tasks, Turn(u)'
                 PROVE  ~locked'[target'[u]] /\ waiters'[target'[u]][1] = u
      BY DEF TurnSound
    <3>1. CASE Len(line) > 0 /\ u = line[1] /\ out[u] = "pending"
      <4>1. InLine(u, s)
        <5>1. 1 \in 1..Len(line)
          BY <3>1, <1>2
        <5> QED BY <5>1, <3>1, <1>2
      <4>2. target[u] = s
        BY <4>1, <1>1 DEF IInv, LineSound, InLine
      <4> QED BY <4>2, <3>1, <2>2, <1>1, <1>2
    <3>2. CASE ~(Len(line) > 0 /\ u = line[1] /\ out[u] = "pending")
      <4>1. u # t /\ Turn(u)
        BY <3>2, <2>3, <1>5 DEF Turn
      <4> QED BY <4>1, <2>2, <1>1, <1>2, <1>3 DEF IInv, TurnSound
    <3> QED BY <3>1, <3>2
  <2>7. HolderSound' /\ LockOwned' /\ DownSound'
    BY <2>1, <2>2, <1>1 DEF IInv, HolderSound, LockOwned, DownSound
  <2>8. HandOff'
    <3> SUFFICES ASSUME NEW x \in Sessions, ~locked'[x], Len(waiters'[x]) > 0
                 PROVE  fut'[waiters'[x][1]] # "pending"
      BY DEF HandOff
    <3>1. CASE x = s
      BY <3>1, <2>3, <1>2
    <3>2. CASE x # s
      <4>1. waiters'[x] = waiters[x] /\ waiters[x][1] \in Tasks /\ fut[waiters[x][1]] # "pending"
        BY <3>2, <2>2, <1>2 DEF IInv, TypeOK, HandOff
      <4> QED BY <4>1, <2>3, <1>5
    <3> QED BY <3>1, <3>2
  <2> QED BY <2>4, <2>5, <2>6, <2>7, <2>8 DEF IInv
<1> QED BY <1>6, <1>7 DEF Resume, s, line, out

\* A cancelled waiter passes its turn on, or had none.
LEMMA LeaveLineStep ==
    ASSUME IInv, NEW t \in Tasks, LeaveLine(t)
    PROVE  IInv'
<1> DEFINE s == target[t]
           line == Without(waiters[s], t)
           out == [fut EXCEPT ![t] = "none"]
<1>1. /\ up /\ phase[t] = "queued" /\ s \in Sessions /\ InLine(t, s)
      /\ fut[t] \in {"cancelled", "wokenCancelled"}
      /\ waiters' = [waiters EXCEPT ![s] = line]
      /\ fut' = IF locked[s] THEN out ELSE WakeFirst(out, line)
      /\ phase' = [phase EXCEPT ![t] = "refused"]
      /\ UNCHANGED <<target, locked, row, up, faults, crashes>>
  BY DEF IInv, LineSound, LeaveLine, envVars
<1>2. /\ waiters' \in [Sessions -> Seq(Tasks)]
      /\ \A x \in Sessions : x # s => waiters'[x] = waiters[x]
      /\ waiters'[s] = line /\ line \in Seq(Tasks) /\ Len(line) \in Nat
      /\ \A i \in 1..Len(line) : line[i] \in Tasks /\ line[i] # t /\ InLine(line[i], s)
      /\ \A u \in Tasks : u # t /\ waiters[s][1] = u /\ InLine(u, s) =>
           Len(line) > 0 /\ line[1] = u
  <2>1. /\ s = target[t]
        /\ waiters' = [waiters EXCEPT ![s] = Without(waiters[s], t)]
    BY <1>1
  <2> HIDE DEF s
  <2>2. waiters'[s] = line
    BY <2>1, <1>1 DEF IInv, TypeOK
  <2>3. /\ waiters' \in [Sessions -> Seq(Tasks)]
        /\ \A x \in Sessions : x # s => waiters'[x] = waiters[x]
        /\ Len(waiters'[s]) \in Nat
        /\ \A i \in 1..Len(waiters'[s]) :
             waiters'[s][i] \in Tasks /\ waiters'[s][i] # t /\ InLine(waiters'[s][i], s)
    <3>1. LeftLine(s, t)
      BY <1>1, <2>1, LeaveFrame DEF IInv
    <3> QED BY <3>1 DEF LeftLine
  <2>4. \A u \in Tasks : u # t /\ waiters[s][1] = u /\ InLine(u, s) =>
          Len(waiters'[s]) > 0 /\ waiters'[s][1] = u
    <3>1. phase[t] = "queued" /\ s \in Sessions /\ TypeOK /\ LineSound
      BY <1>1 DEF IInv
    <3>2. LeftLine(s, t)
      BY <3>1, <2>1, LeaveFrame
    <3> QED BY <3>2 DEF LeftLine, HeadStays
  <2> QED BY <2>2, <2>3, <2>4, <1>1
<1>3. out \in [Tasks -> Futures] /\ out[t] = "none" /\ \A u \in Tasks : u # t => out[u] = fut[u]
  BY DEF IInv, TypeOK, Futures
<1>4. \A u \in Tasks : u # t => phase'[u] = phase[u]
  BY <1>1 DEF IInv, TypeOK
<1>5. phase'[t] = "refused"
  BY <1>1 DEF IInv, TypeOK
<1> HIDE DEF s, line, out
<1>6. /\ fut' \in [Tasks -> Futures]
      /\ \A u \in Tasks : fut'[u] =
           IF ~locked[s] /\ Len(line) > 0 /\ u = line[1] /\ out[u] = "pending"
           THEN "woken" ELSE out[u]
  BY <1>1, <1>2, <1>3, WakeFirstFuture
<1>7. TypeOK'
  BY <1>1, <1>2, <1>6 DEF IInv, TypeOK, Phases
<1>8. LineSound'
  <2>1. phase[t] = "queued" /\ phase'[t] # "queued" /\ target' = target
    BY <1>1, <1>5
  <2>2. waiters' = [waiters EXCEPT ![target[t]] = Without(waiters[target[t]], t)]
    BY <1>1 DEF s, line
  <2>3. fut'[t] = "none"
    BY <1>3, <1>6
  <2>4. \A u \in Tasks : u # t => /\ phase'[u] = phase[u]
                                  /\ fut'[u] = "none" <=> fut[u] = "none"
    BY <1>3, <1>4, <1>6
  <2>5. TypeOK /\ LineSound
    BY DEF IInv
  <2> QED BY <2>1, <2>2, <2>3, <2>4, <2>5, LeaveLineSound
<1>9. TurnSound'
  <2> SUFFICES ASSUME NEW u \in Tasks, Turn(u)'
               PROVE  ~locked[target[u]] /\ waiters'[target[u]][1] = u
    BY <1>1 DEF TurnSound
  <2>1. CASE ~locked[s] /\ Len(line) > 0 /\ u = line[1] /\ out[u] = "pending"
    <3>1. InLine(u, s)
      <4>1. 1 \in 1..Len(line)
        BY <2>1, <1>2
      <4> QED BY <4>1, <2>1, <1>2
    <3>2. target[u] = s
      BY <3>1, <1>1 DEF IInv, LineSound, InLine
    <3> QED BY <3>2, <2>1, <1>2
  <2>2. CASE ~(~locked[s] /\ Len(line) > 0 /\ u = line[1] /\ out[u] = "pending")
    <3>1. u # t /\ Turn(u)
      BY <2>2, <1>3, <1>6 DEF Turn
    <3>2. target[u] \in Sessions /\ InLine(u, target[u])
          /\ ~locked[target[u]] /\ waiters[target[u]][1] = u
      BY <3>1 DEF IInv, TurnSound, LineSound, Turn
    <3>3. CASE target[u] = s
      BY <3>1, <3>2, <3>3, <1>2
    <3>4. CASE target[u] # s
      BY <3>2, <3>4, <1>2
    <3> QED BY <3>3, <3>4
  <2> QED BY <2>1, <2>2
<1>10. HolderSound' /\ LockOwned' /\ DownSound'
  BY <1>1, <1>4, <1>5 DEF IInv, HolderSound, LockOwned, DownSound
<1>11. HandOff'
  <2> SUFFICES ASSUME NEW x \in Sessions, ~locked[x], Len(waiters'[x]) > 0
               PROVE  fut'[waiters'[x][1]] # "pending"
    BY <1>1 DEF HandOff
  <2>1. CASE x = s
    BY <2>1, <1>2, <1>6
  <2>2. CASE x # s
    <3>1. waiters'[x] = waiters[x] /\ waiters[x][1] \in Tasks /\ fut[waiters[x][1]] # "pending"
      BY <2>2, <1>2 DEF IInv, TypeOK, HandOff
    <3> QED BY <3>1, <1>3, <1>6
  <2> QED BY <2>1, <2>2
<1> QED BY <1>7, <1>8, <1>9, <1>10, <1>11 DEF IInv

\* A holder gives back a lock it has, and wakes at most the head of the line.
LEMMA ReleaseStep ==
    ASSUME IInv, NEW t \in Tasks, Release(t)
    PROVE  IInv'
<1> DEFINE s == target[t]
<1>1. /\ up /\ phase[t] = "holding" /\ s \in Sessions /\ row[s] = t /\ locked[s]
      /\ locked' = [locked EXCEPT ![s] = FALSE]
      /\ fut' = WakeFirst(fut, waiters[s])
      /\ phase' = [phase EXCEPT ![t] = "released"]
      /\ UNCHANGED <<target, waiters, up, crashes>>
  BY DEF IInv, HolderSound, Release, GiveUp
<1>2. \/ row' = [row EXCEPT ![s] = NoTask] /\ faults' = faults
      \/ faults < MaxFaults /\ faults' = faults + 1 /\ row' = row
  BY <1>1 DEF Release, GiveUp
<1>3. /\ ~locked'[s] /\ phase'[t] = "released"
      /\ \A x \in Sessions : x # s => locked'[x] = locked[x] /\ row'[x] = row[x]
      /\ \A u \in Tasks : u # t => phase'[u] = phase[u]
  BY <1>1, <1>2 DEF IInv, TypeOK
<1> HIDE DEF s
<1>4. waiters[s] \in Seq(Tasks) /\ fut \in [Tasks -> Futures]
  BY <1>1 DEF IInv, TypeOK
<1>5. /\ fut' \in [Tasks -> Futures]
      /\ \A u \in Tasks : fut'[u] =
           IF Len(waiters[s]) > 0 /\ u = waiters[s][1] /\ fut[u] = "pending"
           THEN "woken" ELSE fut[u]
  BY <1>1, <1>4, WakeFirstFuture
<1>6. TypeOK'
  <2>1. row' \in [Sessions -> Tasks \cup {NoTask}] /\ faults' \in 0..MaxFaults
    <3>1. CASE row' = [row EXCEPT ![s] = NoTask] /\ faults' = faults
      BY <3>1 DEF IInv, TypeOK
    <3>2. CASE faults < MaxFaults /\ faults' = faults + 1 /\ row' = row
      <4>1. faults \in 0..MaxFaults
        BY DEF IInv, TypeOK
      <4> QED BY <4>1, <3>2, BoundAssumption DEF IInv, TypeOK
    <3> QED BY <3>1, <3>2, <1>2
  <2> QED BY <2>1, <1>1, <1>5 DEF IInv, TypeOK, Phases
<1>7. LineSound'
  <2>1. \A u \in Tasks : phase'[u] = "queued" <=> phase[u] = "queued"
    BY <1>1, <1>3
  <2>2. \A u \in Tasks : fut'[u] # "none" <=> fut[u] # "none"
    BY <1>5
  <2>3. \A x \in Sessions : \A i \in 1..Len(waiters[x]) : waiters[x][i] \in Tasks
    <3> SUFFICES ASSUME NEW x \in Sessions, NEW i \in 1..Len(waiters[x])
                 PROVE  waiters[x][i] \in Tasks
      OBVIOUS
    <3>1. waiters[x] \in Seq(Tasks)
      BY DEF IInv, TypeOK
    <3> QED BY <3>1
  <2>4. \A u \in Tasks : phase'[u] = "queued" => target'[u] \in Sessions
          /\ \E i \in 1..Len(waiters'[target'[u]]) : waiters'[target'[u]][i] = u
    BY <2>1, <1>1 DEF IInv, LineSound, InLine
  <2>5. \A x \in Sessions : \A i \in 1..Len(waiters'[x]) :
          phase'[waiters'[x][i]] = "queued" /\ target'[waiters'[x][i]] = x
    BY <2>1, <2>3, <1>1 DEF IInv, LineSound
  <2>6. \A x \in Sessions : \A i, j \in 1..Len(waiters'[x]) :
          waiters'[x][i] = waiters'[x][j] => i = j
    BY <1>1 DEF IInv, LineSound
  <2>7. \A u \in Tasks : phase'[u] = "queued" <=> fut'[u] # "none"
    BY <2>1, <2>2 DEF IInv, LineSound
  <2> QED BY <2>4, <2>5, <2>6, <2>7 DEF LineSound, InLine
<1>8. TurnSound'
  <2> SUFFICES ASSUME NEW u \in Tasks, Turn(u)'
               PROVE  ~locked'[target[u]] /\ waiters[target[u]][1] = u
    BY <1>1 DEF TurnSound
  <2>1. CASE Len(waiters[s]) > 0 /\ u = waiters[s][1] /\ fut[u] = "pending"
    <3>1. target[u] = s
      <4>1. 1 \in 1..Len(waiters[s])
        BY <2>1, <1>4
      <4> QED BY <4>1, <2>1, <1>1 DEF IInv, LineSound
    <3> QED BY <3>1, <2>1, <1>3
  <2>2. CASE ~(Len(waiters[s]) > 0 /\ u = waiters[s][1] /\ fut[u] = "pending")
    <3>1. Turn(u)
      BY <2>2, <1>5 DEF Turn
    <3>2. target[u] \in Sessions /\ ~locked[target[u]] /\ waiters[target[u]][1] = u
      BY <3>1 DEF IInv, TurnSound, LineSound, Turn
    <3> QED BY <3>2, <1>1, <1>3
  <2> QED BY <2>1, <2>2
<1>9. \A u \in Tasks : phase[u] = "holding" /\ u # t => target[u] # s
  BY <1>1 DEF IInv, HolderSound
<1>10. HolderSound' /\ LockOwned' /\ DownSound'
  BY <1>1, <1>3, <1>9 DEF IInv, HolderSound, LockOwned, DownSound, s
<1>11. HandOff'
  <2> SUFFICES ASSUME NEW x \in Sessions, ~locked'[x], Len(waiters[x]) > 0
               PROVE  fut'[waiters[x][1]] # "pending"
    BY <1>1 DEF HandOff
  <2>1. waiters[x] \in Seq(Tasks) /\ waiters[x][1] \in Tasks
    BY DEF IInv, TypeOK
  <2>2. CASE x = s
    BY <2>1, <2>2, <1>5
  <2>3. CASE x # s
    BY <2>1, <2>3, <1>3, <1>5 DEF IInv, HandOff
  <2> QED BY <2>2, <2>3
<1> QED BY <1>6, <1>7, <1>8, <1>10, <1>11 DEF IInv

-----------------------------------------------------------------------------
(* The theorems.                                                           *)

LEMMA NextInv == IInv /\ [Next]_vars => IInv'
<1> SUFFICES ASSUME IInv, [Next]_vars PROVE IInv'
  OBVIOUS
<1>1. ASSUME NEW t \in Tasks, NEW s \in Sessions, Acquire(t, s) PROVE IInv'
  BY <1>1, RefuseBusyStep, AcquireNowStep, JoinLineStep DEF Acquire
<1>2. ASSUME NEW t \in Tasks, Step(t) PROVE IInv'
  <2>1. CASE Resume(t)
    BY <2>1, ResumeStep
  <2>2. CASE LeaveLine(t)
    BY <2>2, LeaveLineStep
  <2>3. CASE Release(t)
    BY <2>3, ReleaseStep
  <2>4. CASE ReleaseAgain(t) \/ GiveUpRequest(t)
    BY <2>4, ReturnStep
  <2> QED BY <1>2, <2>1, <2>2, <2>3, <2>4 DEF Step
<1>3. ASSUME NEW t \in Tasks, Cancel(t) PROVE IInv'
  BY <1>3, CancelStep
<1>4. CASE Crash \/ ClearStale
  BY <1>4, RestartStep
<1>5. CASE UNCHANGED vars
  BY <1>5, StutterStep
<1> QED BY <1>1, <1>2, <1>3, <1>4, <1>5 DEF Next

\* The invariant holds in every reachable state.
THEOREM Invariance == Spec => []IInv
<1>1. Init => IInv
  BY InitInv
<1>2. IInv /\ [Next]_vars => IInv'
  BY NextInv
<1> QED BY <1>1, <1>2, PTL DEF Spec

\* Every variable keeps its type.
THEOREM TypeCorrect == Spec => []TypeOK
<1>1. IInv => TypeOK
  BY DEF IInv
<1> QED BY <1>1, Invariance, PTL

\* At most one task operates on a Telegram session at any time, for any
\* number of tasks and sessions and however many statements fail.
THEOREM Exclusion == Spec => []MutualExclusion
<1>1. IInv => MutualExclusion
  BY DEF IInv, HolderSound, MutualExclusion, Holds
<1> QED BY <1>1, Invariance, PTL

\* The holder of a session owns the row other components read, and its lock.
THEOREM Visibility == Spec => []HolderVisible
<1>1. IInv => HolderVisible
  BY DEF IInv, HolderSound, HolderVisible, Holds
<1> QED BY <1>1, Invariance, PTL

\* A taken lock always has a holder: no path leaks it.
THEOREM NoLeak == Spec => []NoOrphanLock
<1>1. IInv => NoOrphanLock
  BY DEF IInv, LockOwned, NoOrphanLock, Holds
<1> QED BY <1>1, Invariance, PTL

\* A free session never forgets the tasks that wait for it.
THEOREM HandsOver == Spec => []NoLostWakeup
<1>1. IInv => NoLostWakeup
  <2> SUFFICES ASSUME IInv, NEW s \in Sessions, ~locked[s], waiters[s] # <<>>
               PROVE  fut[Head(waiters[s])] # "pending"
    BY DEF NoLostWakeup
  <2>1. waiters[s] \in Seq(Tasks)
    BY DEF IInv, TypeOK
  <2>2. Len(waiters[s]) > 0 /\ Head(waiters[s]) = waiters[s][1]
    BY <2>1
  <2> QED BY <2>2 DEF IInv, HandOff
<1> QED BY <1>1, Invariance, PTL

-----------------------------------------------------------------------------
(* The order of service.                                                   *)

\* A task that gets a session without waiting finds nobody live in line.
LEMMA NewcomerOvertakesNobody ==
    ASSUME IInv, NEW x \in Tasks, NEW r \in Sessions, AcquireNow(x, r)
    PROVE  InTurn
<1> SUFFICES ASSUME NEW s \in Sessions, NEW t \in Tasks, NEW u \in Tasks,
                    phase[t] = "queued", target[t] = s, fut[t] \in {"pending", "woken"},
                    Holds(u, s)', ~Holds(u, s)
             PROVE  FALSE
  BY DEF InTurn
<1>1. /\ target' = [target EXCEPT ![x] = r]
      /\ \A i \in 1..Len(waiters[r]) : fut[waiters[r][i]] = "cancelled"
      /\ \A y \in Tasks : y # x => phase'[y] = phase[y] /\ target'[y] = target[y]
  BY DEF AcquireNow, FreeForAll, Granted, Refused, IInv, TypeOK
<1>2. u = x
  BY <1>1 DEF Holds
<1>3. s = r
  BY <1>1, <1>2 DEF Holds, IInv, TypeOK
<1>4. PICK i \in 1..Len(waiters[s]) : waiters[s][i] = t
  BY DEF IInv, LineSound, InLine
<1> QED BY <1>1, <1>3, <1>4

\* A task that is woken stands at the head of the line, before all the others.
LEMMA HeadGoesFirst ==
    ASSUME IInv, NEW x \in Tasks, Resume(x)
    PROVE  InTurn
<1> SUFFICES ASSUME NEW s \in Sessions, NEW t \in Tasks, NEW u \in Tasks,
                    phase[t] = "queued", target[t] = s, u # t,
                    Holds(u, s)', ~Holds(u, s)
             PROVE  Before(waiters[s], u, t)
  BY DEF InTurn
<1>1. /\ target' = target /\ fut[x] = "woken"
      /\ \A y \in Tasks : y # x => phase'[y] = phase[y]
  BY DEF Resume, Granted, Refused, IInv, TypeOK
<1>2. u = x /\ target[u] = s
  BY <1>1 DEF Holds
<1>3. waiters[s][1] = u
  BY <1>1, <1>2 DEF IInv, TurnSound, Turn
<1>4. PICK j \in 1..Len(waiters[s]) : waiters[s][j] = t
  BY DEF IInv, LineSound, InLine
<1>5. Len(waiters[s]) \in Nat
  BY DEF IInv, TypeOK
<1>6. 1 \in 1..Len(waiters[s]) /\ 1 < j
  BY <1>3, <1>4, <1>5
<1> QED BY <1>3, <1>4, <1>6 DEF Before

\* The other steps give the session to nobody.
LEMMA OtherStepsGrantNothing ==
    ASSUME \A u \in Tasks, s \in Sessions : Holds(u, s)' => Holds(u, s)
    PROVE  InTurn
BY DEF InTurn

LEMMA StepsInTurn == IInv /\ [Next]_vars => [InTurn]_vars
<1> SUFFICES ASSUME IInv, Next PROVE InTurn
  OBVIOUS
<1>1. ASSUME NEW t \in Tasks, NEW s \in Sessions, Acquire(t, s) PROVE InTurn
  <2>1. CASE RefuseBusy(t, s) \/ JoinLine(t, s)
    BY <2>1, OtherStepsGrantNothing DEF RefuseBusy, JoinLine, Holds, IInv, TypeOK
  <2> QED BY <1>1, <2>1, NewcomerOvertakesNobody DEF Acquire
<1>2. ASSUME NEW t \in Tasks, Step(t) PROVE InTurn
  <2>1. CASE LeaveLine(t)
    BY <2>1, OtherStepsGrantNothing DEF LeaveLine, Holds, IInv, TypeOK
  <2>2. CASE Release(t)
    BY <2>2, OtherStepsGrantNothing DEF Release, Holds, IInv, TypeOK
  <2>3. CASE ReleaseAgain(t) \/ GiveUpRequest(t)
    BY <2>3, OtherStepsGrantNothing DEF ReleaseAgain, GiveUpRequest, Holds, IInv, TypeOK
  <2> QED BY <1>2, <2>1, <2>2, <2>3, HeadGoesFirst DEF Step
<1>3. ASSUME NEW t \in Tasks, Cancel(t) PROVE InTurn
  BY <1>3, OtherStepsGrantNothing DEF Cancel, Holds
<1>4. CASE Crash
  BY <1>4, OtherStepsGrantNothing DEF Crash, Holds
<1>5. CASE ClearStale
  BY <1>5, OtherStepsGrantNothing DEF ClearStale, taskVars, Holds
<1> QED BY <1>1, <1>2, <1>3, <1>4, <1>5 DEF Next

\* A session is given to nobody before a task that joined its line earlier and
\* still waits, not even to a newcomer that finds the lock free.
THEOREM Order == Spec => FirstComeFirstServed
<1>1. IInv /\ [Next]_vars => [InTurn]_vars
  BY StepsInTurn
<1> QED BY <1>1, Invariance, PTL DEF Spec, FirstComeFirstServed

-----------------------------------------------------------------------------
(* Rows.                                                                   *)

\* Nothing is taken or given up.
LEMMA RowsStay ==
    ASSUME NoStaleRow, UNCHANGED <<row, faults, up>>,
           \A t \in Tasks, s \in Sessions : Holds(t, s) => Holds(t, s)',
           IInv
    PROVE  NoStaleRow'
<1> SUFFICES ASSUME up, faults = 0, NEW s \in Sessions, row[s] # NoTask
             PROVE  Holds(row[s], s)'
  BY DEF NoStaleRow, Holds
<1>1. row[s] \in Tasks /\ Holds(row[s], s)
  BY DEF NoStaleRow, IInv, TypeOK
<1> QED BY <1>1

\* What follows lock.acquire(), for a task that holds nothing.
LEMMA RowsGranted ==
    ASSUME IInv, NoStaleRow, NEW t \in Tasks, NEW s \in Sessions,
           phase[t] # "holding", target' = [target EXCEPT ![t] = s], UNCHANGED up,
           (Granted(t, s) /\ UNCHANGED faults) \/ Refused(t, s)
    PROVE  NoStaleRow'
<1> SUFFICES ASSUME up, faults' = 0, NEW x \in Sessions, row'[x] # NoTask
             PROVE  phase'[row'[x]] = "holding" /\ target'[row'[x]] = x
  BY DEF NoStaleRow, Holds
<1>1. TypeOK /\ faults \in Nat
  BY BoundAssumption DEF IInv, TypeOK
<1>2. faults' = faults
  BY <1>1 DEF Refused
<1>3. \A z \in Tasks, y \in Sessions : Holds(z, y) => z # t /\ Holds(z, y)'
  <2>1. phase' = [phase EXCEPT ![t] = "holding"] \/ phase' = [phase EXCEPT ![t] = "refused"]
    BY DEF Granted, Refused
  <2>2. \A z \in Tasks \ {t} : phase'[z] = phase[z] /\ target'[z] = target[z]
    BY <1>1, <2>1 DEF TypeOK
  <2> QED BY <2>2 DEF Holds
<1>4. row[x] # NoTask => row[x] \in Tasks /\ Holds(row[x], x)
  BY <1>1, <1>2 DEF NoStaleRow, TypeOK
<1>5. CASE row'[x] = row[x]
  BY <1>3, <1>4, <1>5 DEF Holds
<1>6. CASE row'[x] # row[x]
  <2>1. Granted(t, s) /\ x = s /\ row'[x] = t
    BY <1>1, <1>6 DEF Granted, Refused, TypeOK
  <2>2. phase'[t] = "holding" /\ target'[t] = s
    BY <1>1, <2>1 DEF Granted, TypeOK
  <2> QED BY <2>1, <2>2
<1> QED BY <1>5, <1>6

\* release() deletes the row of its session, or a statement has failed.
LEMMA RowsGivenUp ==
    ASSUME IInv, NoStaleRow, NEW t \in Tasks, Release(t) PROVE NoStaleRow'
<1> SUFFICES ASSUME up, faults' = 0, NEW x \in Sessions, row'[x] # NoTask
             PROVE  phase'[row'[x]] = "holding" /\ target'[row'[x]] = x
  BY DEF NoStaleRow, Holds, Release
<1>1. TypeOK /\ faults \in Nat
  BY BoundAssumption DEF IInv, TypeOK
<1>2. /\ faults' = faults /\ target' = target
      /\ row' = [row EXCEPT ![target[t]] = IF @ = t THEN NoTask ELSE @]
      /\ phase' = [phase EXCEPT ![t] = "released"]
  BY <1>1 DEF Release, GiveUp
<1>3. row'[x] = row[x] /\ row[x] \in Tasks /\ Holds(row[x], x)
  BY <1>1, <1>2 DEF NoStaleRow, TypeOK
<1>4. row[x] # t
  BY <1>1, <1>2, <1>3 DEF Holds, TypeOK
<1> QED BY <1>1, <1>2, <1>3, <1>4 DEF Holds, TypeOK

LEMMA RowsStep == IInv /\ NoStaleRow /\ [Next]_vars => NoStaleRow'
<1> SUFFICES ASSUME IInv, NoStaleRow, [Next]_vars PROVE NoStaleRow'
  OBVIOUS
<1>1. ASSUME NEW t \in Tasks, NEW s \in Sessions, Acquire(t, s) PROVE NoStaleRow'
  <2>1. CASE RefuseBusy(t, s) \/ JoinLine(t, s)
    BY <2>1, RowsStay DEF RefuseBusy, JoinLine, envVars, Holds, IInv, TypeOK
  <2>2. CASE AcquireNow(t, s)
    BY <2>2, RowsGranted DEF AcquireNow
  <2> QED BY <1>1, <2>1, <2>2 DEF Acquire
<1>2. ASSUME NEW t \in Tasks, Step(t) PROVE NoStaleRow'
  <2>1. CASE Resume(t)
    <3>1. target[t] \in Sessions /\ target' = [target EXCEPT ![t] = target[t]]
      BY <2>1 DEF Resume, IInv, TypeOK, LineSound
    <3> QED BY <2>1, <3>1, RowsGranted DEF Resume
  <2>2. CASE LeaveLine(t) \/ ReleaseAgain(t) \/ GiveUpRequest(t)
    BY <2>2, RowsStay DEF LeaveLine, ReleaseAgain, GiveUpRequest, envVars, Holds, IInv, TypeOK
  <2> QED BY <1>2, <2>1, <2>2, RowsGivenUp DEF Step
<1>3. ASSUME NEW t \in Tasks, Cancel(t) PROVE NoStaleRow'
  BY <1>3, RowsStay DEF Cancel, envVars, Holds
<1>4. CASE Crash \/ ClearStale
  BY <1>4 DEF Crash, ClearStale, NoStaleRow
<1>5. CASE UNCHANGED vars
  BY <1>5, RowsStay DEF vars, taskVars, envVars, Holds
<1> QED BY <1>1, <1>2, <1>3, <1>4, <1>5 DEF Next

\* While no statement has failed, a session that looks busy in the table of a
\* running program is in use: only a crash leaves a row without a holder, and
\* clear_stale_session_operations() removes it.
THEOREM RowsAreHolders == Spec => []NoStaleRow
<1>1. Init => NoStaleRow
  BY DEF Init, NoStaleRow
<1> QED BY <1>1, Invariance, RowsStep, PTL DEF Spec

-----------------------------------------------------------------------------
(* Refinement: the lease implements SessionMutex.                          *)

ownerBar == [s \in Sessions |-> HolderOf(s)]

\* The owner of a session is its holder, before and after a step.
LEMMA OwnerIsHolder ==
    ASSUME IInv
    PROVE  /\ \A t \in Tasks, s \in Sessions : Holds(t, s) => HolderOf(s) = t
           /\ \A s \in Sessions : (\A t \in Tasks : ~Holds(t, s)) => HolderOf(s) = NoTask
           /\ \A s \in Sessions : HolderOf(s) # NoTask =>
                HolderOf(s) \in Tasks /\ Holds(HolderOf(s), s)
<1>1. \A t, u \in Tasks, s \in Sessions : Holds(t, s) /\ Holds(u, s) => t = u
  BY DEF IInv, HolderSound, Holds
<1> QED BY <1>1 DEF HolderOf

LEMMA OwnerIsHolderNext ==
    ASSUME IInv'
    PROVE  /\ \A t \in Tasks, s \in Sessions : Holds(t, s)' => HolderOf(s)' = t
           /\ \A s \in Sessions : (\A t \in Tasks : ~Holds(t, s)') => HolderOf(s)' = NoTask
<1>1. \A t, u \in Tasks, s \in Sessions : Holds(t, s)' /\ Holds(u, s)' => t = u
  BY DEF IInv, HolderSound, Holds
<1> QED BY <1>1 DEF HolderOf

\* A step in which nobody starts or stops holding is a stutter.
LEMMA SameHolders ==
    ASSUME IInv, IInv', \A t \in Tasks, s \in Sessions : Holds(t, s)' <=> Holds(t, s)
    PROVE  ownerBar' = ownerBar
<1>1. ASSUME NEW s \in Sessions PROVE HolderOf(s)' = HolderOf(s)
  <2>1. CASE \E t \in Tasks : Holds(t, s)
    BY <2>1, OwnerIsHolder, OwnerIsHolderNext
  <2>2. CASE \A t \in Tasks : ~Holds(t, s)
    BY <2>2, OwnerIsHolder, OwnerIsHolderNext
  <2> QED BY <2>1, <2>2
<1> QED BY <1>1 DEF ownerBar

\* A grant of the lease is a grant of the abstract mutex.
LEMMA GrantIsGrant ==
    ASSUME IInv, IInv', NEW t \in Tasks, NEW s \in Sessions,
           row[s] = NoTask, phase[t] # "holding", phase'[t] = "holding", target'[t] = s,
           \A u \in Tasks : u # t => phase'[u] = phase[u] /\ target'[u] = target[u]
    PROVE  Mutex!Grant(t, s)
<1>1. \A u \in Tasks : ~Holds(u, s)
  BY NoTaskAssumption DEF IInv, HolderSound, Holds
<1>2. \A r \in Sessions : ~Holds(t, r)
  BY DEF Holds
<1>3. /\ Holds(t, s)'
      /\ \A u \in Tasks, r \in Sessions : r # s => (Holds(u, r)' <=> Holds(u, r))
  BY DEF Holds
<1>4. ownerBar[s] = NoTask
  BY <1>1, OwnerIsHolder DEF ownerBar
<1>5. \A r \in Sessions : ownerBar[r] # t
  BY <1>2, NoTaskAssumption, OwnerIsHolder DEF ownerBar
<1>6. ownerBar' = [ownerBar EXCEPT ![s] = t]
  <2>1. HolderOf(s)' = t
    BY <1>3, OwnerIsHolderNext
  <2>2. ASSUME NEW r \in Sessions, r # s PROVE HolderOf(r)' = HolderOf(r)
    <3>1. CASE \E u \in Tasks : Holds(u, r)
      BY <3>1, <2>2, <1>3, OwnerIsHolder, OwnerIsHolderNext
    <3>2. CASE \A u \in Tasks : ~Holds(u, r)
      BY <3>2, <2>2, <1>3, OwnerIsHolder, OwnerIsHolderNext
    <3> QED BY <3>1, <3>2
  <2> QED BY <2>1, <2>2 DEF ownerBar
<1> QED BY <1>4, <1>5, <1>6 DEF Mutex!Grant, ownerBar

\* A release gives the session back, whether or not its DELETE succeeded.
LEMMA ReleaseIsGiveBack ==
    ASSUME IInv, IInv', NEW t \in Tasks, NEW s \in Sessions, s = target[t], Release(t)
    PROVE  Mutex!GiveBack(s)
<1>1. /\ Holds(t, s) /\ phase'[t] = "released" /\ target' = target
      /\ \A u \in Tasks : u # t => phase'[u] = phase[u]
  BY DEF IInv, TypeOK, HolderSound, Holds, Release
<1>2. \A u \in Tasks : ~Holds(u, s)'
  BY <1>1 DEF IInv, HolderSound, Holds
<1>3. \A u \in Tasks, r \in Sessions : r # s => (Holds(u, r)' <=> Holds(u, r))
  BY <1>1 DEF Holds
<1>4. ownerBar[s] # NoTask
  BY <1>1, NoTaskAssumption, OwnerIsHolder DEF ownerBar
<1>5. ownerBar' = [ownerBar EXCEPT ![s] = NoTask]
  <2>1. HolderOf(s)' = NoTask
    BY <1>1, <1>2, OwnerIsHolderNext
  <2>2. ASSUME NEW r \in Sessions, r # s PROVE HolderOf(r)' = HolderOf(r)
    <3>1. CASE \E u \in Tasks : Holds(u, r)
      BY <3>1, <2>2, <1>3, OwnerIsHolder, OwnerIsHolderNext
    <3>2. CASE \A u \in Tasks : ~Holds(u, r)
      BY <3>2, <2>2, <1>3, OwnerIsHolder, OwnerIsHolderNext
    <3> QED BY <3>1, <3>2
  <2> QED BY <2>1, <2>2 DEF ownerBar
<1> QED BY <1>4, <1>5 DEF Mutex!GiveBack, ownerBar

LEMMA CrashIsRestart ==
    ASSUME IInv, IInv', Crash
    PROVE  Mutex!Restart
<1>1. \A u \in Tasks, r \in Sessions : ~Holds(u, r)'
  BY DEF Crash, Holds
<1>2. \A r \in Sessions : HolderOf(r)' = NoTask
  BY <1>1, OwnerIsHolderNext
<1> QED BY <1>2 DEF Mutex!Restart

LEMMA StepRefines == IInv /\ IInv' /\ [Next]_vars => [Mutex!Next]_ownerBar
<1> SUFFICES ASSUME IInv, IInv', [Next]_vars PROVE Mutex!Next \/ ownerBar' = ownerBar
  OBVIOUS
<1>1. ASSUME NEW t \in Tasks, NEW s \in Sessions, AcquireNow(t, s)
      PROVE  Mutex!Next \/ ownerBar' = ownerBar
  <2>1. /\ phase[t] = "idle" /\ target'[t] = s
        /\ \A u \in Tasks : u # t => phase'[u] = phase[u] /\ target'[u] = target[u]
    BY <1>1 DEF AcquireNow, Granted, Refused, IInv, TypeOK
  <2>2. CASE Granted(t, s)
    <3>1. row[s] = NoTask /\ phase'[t] = "holding"
      BY <2>2 DEF Granted, IInv, TypeOK
    <3>2. Mutex!Grant(t, s)
      BY <3>1, <2>1, GrantIsGrant
    <3> QED BY <3>2 DEF Mutex!Next
  <2>3. CASE Refused(t, s)
    <3>1. phase'[t] = "refused"
      BY <2>3 DEF Refused, IInv, TypeOK
    <3> QED BY <3>1, <2>1, SameHolders DEF Holds
  <2> QED BY <1>1, <2>2, <2>3 DEF AcquireNow
<1>2. ASSUME NEW t \in Tasks, Resume(t)
      PROVE  Mutex!Next \/ ownerBar' = ownerBar
  <2> DEFINE s == target[t]
  <2>1. /\ phase[t] = "queued" /\ target' = target /\ s \in Sessions
        /\ \A u \in Tasks : u # t => phase'[u] = phase[u]
    BY <1>2 DEF Resume, Granted, Refused, IInv, TypeOK, LineSound
  <2>2. CASE Granted(t, s)
    <3>1. row[s] = NoTask /\ phase'[t] = "holding"
      BY <2>2 DEF Granted, IInv, TypeOK
    <3>2. Mutex!Grant(t, s)
      BY <3>1, <2>1, GrantIsGrant
    <3> QED BY <3>2, <2>1 DEF Mutex!Next
  <2>3. CASE Refused(t, s)
    <3>1. phase'[t] = "refused"
      BY <2>3 DEF Refused, IInv, TypeOK
    <3> QED BY <3>1, <2>1, SameHolders DEF Holds
  <2> QED BY <1>2, <2>2, <2>3 DEF Resume
<1>3. ASSUME NEW t \in Tasks, Release(t)
      PROVE  Mutex!Next \/ ownerBar' = ownerBar
  <2>1. PICK s \in Sessions : s = target[t]
    BY <1>3 DEF Release, IInv, HolderSound
  <2> QED BY <2>1, <1>3, ReleaseIsGiveBack DEF Mutex!Next
<1>4. CASE Crash
  BY <1>4, CrashIsRestart DEF Mutex!Next
<1>5. ASSUME NEW t \in Tasks, NEW s \in Sessions,
             \/ RefuseBusy(t, s) \/ JoinLine(t, s) \/ LeaveLine(t)
             \/ ReleaseAgain(t) \/ GiveUpRequest(t)
      PROVE  ownerBar' = ownerBar
  <2>1. /\ phase[t] # "holding" /\ phase'[t] # "holding"
        /\ \A u \in Tasks : u # t => phase'[u] = phase[u] /\ target'[u] = target[u]
    BY <1>5 DEF RefuseBusy, JoinLine, LeaveLine, ReleaseAgain, GiveUpRequest, IInv, TypeOK
  <2> QED BY <2>1, SameHolders DEF Holds
<1>6. ASSUME phase' = phase, target' = target
      PROVE  ownerBar' = ownerBar
  BY <1>6, SameHolders DEF Holds
<1>7. ASSUME NEW t \in Tasks, Cancel(t) PROVE ownerBar' = ownerBar
  BY <1>7, <1>6 DEF Cancel
<1>8. CASE ClearStale \/ UNCHANGED vars
  BY <1>8, <1>6 DEF ClearStale, taskVars, vars
<1>9. ASSUME NEW t \in Tasks, Step(t) PROVE Mutex!Next \/ ownerBar' = ownerBar
  <2>1. CASE LeaveLine(t) \/ ReleaseAgain(t) \/ GiveUpRequest(t)
    <3>1. CASE \E s \in Sessions : TRUE
      BY <3>1, <2>1, <1>5
    <3>2. CASE Sessions = {}
      BY <3>2 DEF ownerBar
    <3> QED BY <3>1, <3>2
  <2> QED BY <1>9, <2>1, <1>2, <1>3 DEF Step
<1>10. ASSUME NEW t \in Tasks, NEW s \in Sessions, Acquire(t, s)
       PROVE  Mutex!Next \/ ownerBar' = ownerBar
  BY <1>10, <1>1, <1>5 DEF Acquire
<1> QED BY <1>4, <1>7, <1>8, <1>9, <1>10 DEF Next

\* The lease implements the mutex its callers rely on: ownership is granted
\* to one task at a time and ends only by that task's release or a restart.
THEOREM Refinement == Spec => ImplementsMutex
<1>1. Init => Mutex!Init
  BY DEF Init, Mutex!Init, HolderOf, Holds
<1>2. IInv /\ IInv' /\ [Next]_vars => [Mutex!Next]_ownerBar
  BY StepRefines
<1> QED BY <1>1, <1>2, Invariance, PTL DEF Spec, ImplementsMutex, Mutex!Spec, ownerBar
=============================================================================
