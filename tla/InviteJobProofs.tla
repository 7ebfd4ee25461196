-------------------------- MODULE InviteJobProofs --------------------------
(***************************************************************************)
(* Proofs about InviteJob for any jobs, candidates and sessions, any quota *)
(* and batch limit and any number of faults.                               *)
(*                                                                         *)
(* Jobs meet at the sessions only, and a job that works with a session has *)
(* its lease.  So the inductive invariant is a predicate on one job,       *)
(* Sound(j), and what relates leases to runs, Leases: what an action does  *)
(* to a session concerns the holder of its lease alone, or is kind to      *)
(* whoever holds it (Kind).                                                *)
(***************************************************************************)
EXTENDS MCInviteJob, FiniteSetTheorems, SequenceTheorems, WellFoundedInduction, TLAPS

-----------------------------------------------------------------------------
(* The inductive invariant.                                                *)

Waiting == {"flood_wait", "batch_wait"}
Holding == {"opening", "loop", "try", "request", "sleep", "closing"}

\* Every element of the set stands in the sequence, once, and nothing else.
Enumerates(q, S) ==
    /\ q \in Seq(S)
    /\ \A i, k \in 1..Len(q) : q[i] = q[k] => i = k
    /\ \A c \in S : \E i \in 1..Len(q) : q[i] = c

InLine(j, s) == \E i \in 1..Len(line[s]) : line[s][i] = j
Lined == \A j \in Jobs, s \in Sessions : InLine(j, s) <=> at[j] = s /\ pc[j] = "lined"
Once ==
    \A s \in Sessions : \A i, k \in 1..Len(line[s]) :
        line[s][i] = line[s][k] /\ line[s][i] \in Jobs => i = k
Leases == LeaseKept /\ Lined /\ Once

\* Where a session is selected.
Placed(j) ==
    /\ pc[j] \in {"idle", "ready"} => at[j] = NoSession
    /\ pc[j] \notin {"idle", "ready", "loop"} => at[j] \in Sessions

Queued(j) ==
    /\ Running(j) /\ (pc[j] = "closing" => after[j] = "loop") => Enumerates(queue[j], Eligible(j))
    /\ pc[j] \in {"lined", "opening", "try", "request"} => queue[j] # <<>>
    /\ added[j] \ lost[j] \subseteq Candidates \ Eligible(j)

Working(j) == Using(j) \/ (pc[j] = "loop" /\ at[j] # NoSession /\ queue[j] # <<>>)

\* What was read of a session when it was selected still holds of it.
Fit(j) ==
    /\ j \notin stale /\ Working(j) => status[at[j]] \notin Waiting
    /\ j \notin stale /\ pc[j] \in Holding /\ at[j] # NoSession => usage[at[j]] <= used[j]
    /\ pc[j] = "request" /\ Quota > 0 => used[j] < Quota

Sound(j) == Placed(j) /\ Queued(j) /\ Fit(j)

IInv == TypeOK /\ Leases /\ QuotaKept /\ \A j \in Jobs : Sound(j)

-----------------------------------------------------------------------------
(* Types.                                                                  *)

JobTypes ==
    /\ jstatus \in [Jobs -> JobStatuses] /\ home \in [Jobs -> Sessions]
    /\ cand \in [Jobs -> [Candidates -> CandidateStatuses]]
SessTypes ==
    /\ status \in [Sessions -> Statuses] /\ proxyFailed \in [Sessions -> BOOLEAN]
    /\ successes \in [Sessions -> Nat] /\ usage \in [Sessions -> Nat]
    /\ floodRuns \in [Sessions -> BOOLEAN] /\ restRuns \in [Sessions -> BOOLEAN]
LockTypes ==
    /\ owner \in [Sessions -> Jobs \cup {Other, Nobody}]
    /\ line \in [Sessions -> Seq(Jobs \cup {Other})]
ContextTypes ==
    /\ at \in [Jobs -> Sessions \cup {NoSession}]
    /\ used \in [Jobs -> Nat] /\ done \in [Jobs -> Nat]
LocalTypes ==
    /\ queue \in [Jobs -> Seq(Candidates)]
    /\ last \in [Jobs -> Sessions \cup {NoSession}]
    /\ preferred \in [Jobs -> Sessions \cup {NoSession}]
    /\ out \in [Jobs -> [target : SUBSET Sessions, peer : SUBSET Sessions]]
    /\ after \in [Jobs -> {"loop", "idle"}]
HistoryTypes ==
    /\ added \in [Jobs -> SUBSET Candidates] /\ lost \in [Jobs -> SUBSET Candidates]
    /\ stale \subseteq Jobs
PlaceTypes == pc \in [Jobs -> Places]
FaultTypes == faults \in 0..MaxFaults

LEMMA Types ==
    /\ TypeOK <=> /\ JobTypes /\ SessTypes /\ LockTypes /\ ContextTypes /\ LocalTypes
                  /\ HistoryTypes /\ PlaceTypes /\ FaultTypes
    /\ TypeOK' <=> /\ JobTypes' /\ SessTypes' /\ LockTypes' /\ ContextTypes' /\ LocalTypes'
                   /\ HistoryTypes' /\ PlaceTypes' /\ FaultTypes'
BY Zenon DEF TypeOK, JobTypes, SessTypes, LockTypes, ContextTypes, LocalTypes, HistoryTypes,
             PlaceTypes, FaultTypes

\* What does not change keeps its type.
LEMMA SameTypes ==
    ASSUME TypeOK
    PROVE  /\ UNCHANGED jobVars => JobTypes'
           /\ UNCHANGED sessVars => SessTypes'
           /\ UNCHANGED lockVars => LockTypes'
           /\ UNCHANGED <<at, used, done>> => ContextTypes'
           /\ UNCHANGED <<queue, last, preferred, out, after>> => LocalTypes'
           /\ UNCHANGED history => HistoryTypes'
           /\ UNCHANGED pc => PlaceTypes'
           /\ UNCHANGED faults => FaultTypes'
BY Zenon, Types DEF JobTypes, SessTypes, LockTypes, ContextTypes, LocalTypes, HistoryTypes,
             PlaceTypes, FaultTypes, jobVars, sessVars, lockVars, history

LEMMA FaultType == ASSUME TypeOK, Fault PROVE FaultTypes'
<1>1. faults \in 0..MaxFaults /\ faults < MaxFaults /\ faults' = faults + 1 /\ MaxFaults \in Nat
  BY LimitsAssumption DEF TypeOK, Fault
<1> QED BY <1>1 DEF FaultTypes

\* What the marks of a session do: only a FloodWait makes it wait.
LEMMA MarkTypes ==
    ASSUME TypeOK, NEW s \in Sessions,
           MarkFlood(s) \/ MarkPeer(s) \/ MarkProxy(s) \/ ProxyWorks(s)
    PROVE  /\ SessTypes' /\ usage' = usage
           /\ \A x \in Sessions \ {s} : status'[x] = status[x]
           /\ MarkPeer(s) \/ MarkProxy(s) \/ ProxyWorks(s) =>
                 (status'[s] \in Waiting => status[s] \in Waiting)
<1>1. SessTypes
  BY Types
<1>2. /\ successes' = successes /\ usage' = usage /\ restRuns' = restRuns
  BY DEF MarkFlood, MarkPeer, MarkProxy, ProxyWorks
<1>3. status' = [status EXCEPT ![s] = status'[s]] /\ status'[s] \in Statuses
  BY <1>1 DEF MarkFlood, MarkPeer, MarkProxy, ProxyWorks, SessTypes, Statuses
<1>4. ASSUME MarkPeer(s) \/ MarkProxy(s) \/ ProxyWorks(s), status'[s] \in Waiting
      PROVE  status[s] \in Waiting
  BY <1>1, <1>4 DEF MarkPeer, MarkProxy, ProxyWorks, SessTypes, Waiting
<1>5. proxyFailed' \in [Sessions -> BOOLEAN] /\ floodRuns' \in [Sessions -> BOOLEAN]
  BY <1>1, Zenon DEF MarkFlood, MarkPeer, MarkProxy, ProxyWorks, SessTypes
<1>6. status' \in [Sessions -> Statuses] /\ \A x \in Sessions \ {s} : status'[x] = status[x]
  <2> DEFINE v == status'[s]
  <2>1. status' = [status EXCEPT ![s] = v] /\ v \in Statuses
    BY <1>3
  <2> HIDE DEF v
  <2> QED BY <1>1, <2>1 DEF SessTypes
<1>7. SessTypes'
  BY <1>1, <1>2, <1>5, <1>6, Zenon DEF SessTypes
<1> QED BY <1>2, <1>4, <1>6, <1>7

\* The locals of the coroutines that end, and of the contexts that close.
LEMMA Forgotten ==
    ASSUME TypeOK, NEW js \in SUBSET Jobs, Forget(js)
    PROVE  /\ LocalTypes'
           /\ \A k \in Jobs \ js : queue'[k] = queue[k] /\ after'[k] = after[k]
           /\ \A k \in js : queue'[k] = <<>> /\ after'[k] = "idle"
<1>1. LocalTypes
  BY Types
<1>2. NoRun \in [target : SUBSET Sessions, peer : SUBSET Sessions]
  BY DEF NoRun
<1>3. <<>> \in Seq(Candidates)
  BY EmptySeq
<1>4. queue' \in [Jobs -> Seq(Candidates)]
  BY <1>1, <1>3 DEF Forget, LocalTypes
<1>5. out' \in [Jobs -> [target : SUBSET Sessions, peer : SUBSET Sessions]]
  BY <1>1, <1>2 DEF Forget, LocalTypes
<1>6. LocalTypes'
  BY <1>1, <1>4, <1>5 DEF Forget, LocalTypes
<1> QED BY <1>6 DEF Forget

LEMMA ContextForgotten ==
    ASSUME TypeOK, NEW js \in SUBSET Jobs, ForgetContext(js)
    PROVE  /\ ContextTypes'
           /\ \A k \in Jobs \ js : at'[k] = at[k] /\ used'[k] = used[k]
           /\ \A k \in js : at'[k] = NoSession
BY Types DEF ForgetContext, ContextTypes

LEMMA Going ==
    ASSUME TypeOK, NEW j \in Jobs, NEW p \in Places, Goto(j, p)
    PROVE  PlaceTypes' /\ pc'[j] = p /\ \A k \in Jobs \ {j} : pc'[k] = pc[k]
BY Types DEF Goto, PlaceTypes

-----------------------------------------------------------------------------
(* Sequences and sets.                                                     *)

Below == {ss \in Nat \X Nat : ss[1] < ss[2]}

LEMMA BelowIsWellFounded == IsWellFoundedOn(Below, Nat)
BY NatLessThanWellFounded, SMT DEF OpToRel, Below

LEMMA Least ==
    ASSUME NEW T \in SUBSET Nat, T # {}
    PROVE  Min(T) \in T /\ \A y \in T : Min(T) <= y
<1>1. PICK x \in T : \A y \in T : ~(<<y, x>> \in Below)
  BY WFMin, BelowIsWellFounded
<1>2. \A y \in T : y < x => <<y, x>> \in Below
  BY DEF Below
<1>3. x \in Nat /\ \A y \in T : ~(y < x)
  BY <1>1, <1>2
<1>4. \A y \in T : x <= y
  BY <1>3
<1> QED BY <1>4 DEF Min

Sorted(q, S) ==
    /\ q \in SetToSeqs(S)
    /\ \A x, y \in 1..Cardinality(S) : x < y => q[x] < q[y]

\* By a least counterexample: the least element goes in front of the others.
LEMMA Sortable ==
    ASSUME NEW S \in SUBSET Nat, IsFiniteSet(S) PROVE \E q : Sorted(q, S)
<1> DEFINE Bad == {n \in Nat : \E T \in SUBSET Nat :
                     IsFiniteSet(T) /\ Cardinality(T) = n /\ ~\E q : Sorted(q, T)}
<1> SUFFICES Bad = {}
  BY FS_CardinalityType
<1> SUFFICES ASSUME Bad # {} PROVE FALSE
  OBVIOUS
<1>1. PICK n \in Bad : \A y \in Bad : n <= y
  BY Least
<1>2. PICK T \in SUBSET Nat : IsFiniteSet(T) /\ Cardinality(T) = n /\ ~\E q : Sorted(q, T)
  BY <1>1
<1>3. n \in Nat
  BY <1>1
<1>4. CASE T = {}
  <2> DEFINE r == [i \in 1..0 |-> i]
  <2>1. Cardinality(T) = 0
    BY <1>4, FS_EmptySet
  <2>2. r \in SetToSeqs(T)
    BY <1>4, <2>1 DEF SetToSeqs
  <2>3. Sorted(r, T)
    BY <2>1, <2>2 DEF Sorted
  <2> QED BY <1>2, <2>3
<1>5. CASE T # {}
  <2> DEFINE m == Min(T)
             R == T \ {m}
  <2>1. m \in T /\ \A y \in T : m <= y
    BY <1>5, Least
  <2> HIDE DEF m
  <2>2. IsFiniteSet(R) /\ Cardinality(R) = n - 1 /\ n >= 1
    BY <1>2, <1>3, <1>5, <2>1, FS_RemoveElement, FS_EmptySet
  <2>3. PICK r : Sorted(r, R)
    <3>1. n - 1 \in Nat /\ n - 1 \notin Bad
      BY <1>1, <1>3, <2>2
    <3>2. R \in SUBSET Nat
      OBVIOUS
    <3> QED BY <2>2, <3>1, <3>2
  <2>4. /\ r \in [1..n - 1 -> R]
        /\ \A x, y \in 1..n - 1 : x < y => r[x] < r[y]
    BY <2>2, <2>3 DEF Sorted, SetToSeqs
  <2> DEFINE q == [i \in 1..n |-> IF i = 1 THEN m ELSE r[i - 1]]
  <2>5. q \in [1..n -> T]
    BY <1>3, <2>1, <2>4
  <2>6. \A x, y \in 1..n : x < y => q[x] < q[y]
    <3> SUFFICES ASSUME NEW x \in 1..n, NEW y \in 1..n, x < y PROVE q[x] < q[y]
      OBVIOUS
    <3>1. y - 1 \in 1..n - 1 /\ q[y] = r[y - 1]
      BY <1>3
    <3>2. r[y - 1] \in R
      BY <2>4, <3>1
    <3>3. CASE x = 1
      <4>1. q[x] = m /\ m <= r[y - 1] /\ m # r[y - 1] /\ m \in Nat /\ r[y - 1] \in Nat
        BY <2>1, <3>2, <3>3
      <4> QED BY <3>1, <4>1
    <3>4. CASE x # 1
      <4>1. x - 1 \in 1..n - 1 /\ q[x] = r[x - 1] /\ x - 1 < y - 1
        BY <1>3, <3>4
      <4> QED BY <2>4, <3>1, <4>1
    <3> QED BY <3>3, <3>4
  <2>7. \A x, y \in 1..n : x # y => q[x] # q[y]
    <3> SUFFICES ASSUME NEW x \in 1..n, NEW y \in 1..n, x # y PROVE q[x] # q[y]
      OBVIOUS
    <3>1. q[x] \in T /\ q[y] \in T
      BY <2>5
    <3>2. x < y \/ y < x
      BY <1>3
    <3>3. \A u, v \in T : u < v => u # v /\ v # u
      BY <1>2
    <3> HIDE DEF q
    <3> QED BY <2>6, <3>1, <3>2, <3>3
  <2> HIDE DEF q
  <2>8. Sorted(q, T)
    BY <1>2, <2>5, <2>6, <2>7 DEF Sorted, SetToSeqs
  <2> QED BY <1>2, <2>8
<1> QED BY <1>4, <1>5

LEMMA OrderEnumerates ==
    ASSUME NEW S \in SUBSET Candidates PROVE Enumerates(InOrder(S), S)
<1>1. S \in SUBSET Nat /\ IsFiniteSet(S)
  BY CandidatesAssumption, FS_Subset
<1> DEFINE q == InOrder(S)
           n == Cardinality(S)
<1>2. Sorted(q, S)
  BY <1>1, Sortable DEF InOrder, Sorted
<1>3. n \in Nat
  BY <1>1, FS_CardinalityType
<1> HIDE DEF q
<1>4. q \in [1..n -> S] /\ \A i, k \in 1..n : i # k => q[i] # q[k]
  BY <1>2 DEF Sorted, SetToSeqs
<1>5. IsFiniteSet(1..n) /\ Cardinality(1..n) = n
  BY <1>3, FS_Interval
<1>6. q \in Injection(1..n, S)
  BY <1>4 DEF Injection, IsInjective
<1>7. q \in Surjection(1..n, S)
  BY <1>1, <1>5, <1>6, FS_Injection
<1>8. \A c \in S : \E i \in 1..n : q[i] = c
  BY <1>7 DEF Surjection
<1>9. q \in Seq(S) /\ Len(q) = n
  BY <1>3, <1>4
<1> QED BY <1>4, <1>8, <1>9 DEF Enumerates, q

\* The candidate at the head leaves the queue.
LEMMA TailEnumerates ==
    ASSUME NEW S, NEW q, Enumerates(q, S), q # <<>>
    PROVE  Head(q) \in S /\ Enumerates(Tail(q), S \ {Head(q)})
<1>1. /\ q \in Seq(S) /\ Len(q) \in Nat /\ Len(q) >= 1
      /\ \A i, k \in 1..Len(q) : q[i] = q[k] => i = k
      /\ \A c \in S : \E i \in 1..Len(q) : q[i] = c
  BY EmptySeq DEF Enumerates
<1> DEFINE t == Tail(q)
           n == Len(t)
<1>2. /\ t \in Seq(S) /\ n = Len(q) - 1
      /\ \A i \in 1..n : t[i] = q[i + 1]
      /\ Head(q) = q[1] /\ q[1] \in S
  BY <1>1, HeadTailProperties
<1>3. n \in Nat /\ Len(q) = n + 1
  BY <1>1, <1>2
<1> HIDE DEF t, n
<1>4. \A i, k \in 1..n : t[i] = t[k] => i = k
  <2> SUFFICES ASSUME NEW i \in 1..n, NEW k \in 1..n, t[i] = t[k] PROVE i = k
    OBVIOUS
  <2>1. i + 1 \in 1..Len(q) /\ k + 1 \in 1..Len(q)
    BY <1>3
  <2>2. q[i + 1] = q[k + 1]
    BY <1>2
  <2>3. i + 1 = k + 1
    BY <1>1, <2>1, <2>2
  <2> QED BY <1>3, <2>3
<1>5. \A c \in S \ {q[1]} : \E i \in 1..n : t[i] = c
  <2> SUFFICES ASSUME NEW c \in S, c # q[1] PROVE \E i \in 1..n : t[i] = c
    OBVIOUS
  <2>1. PICK k \in 1..Len(q) : q[k] = c
    BY <1>1
  <2>2. k - 1 \in 1..n /\ (k - 1) + 1 = k
    BY <1>3, <2>1
  <2>3. t[k - 1] = q[k]
    BY <1>2, <2>2
  <2> QED BY <2>1, <2>2, <2>3
<1>6. \A i \in 1..n : t[i] \in S \ {q[1]}
  <2> SUFFICES ASSUME NEW i \in 1..n PROVE t[i] \in S \ {q[1]}
    OBVIOUS
  <2>1. i + 1 \in 1..Len(q) /\ 1 \in 1..Len(q) /\ i + 1 # 1
    BY <1>3
  <2>2. q[i + 1] \in S /\ q[i + 1] # q[1]
    BY <1>1, <2>1
  <2> QED BY <1>2, <2>2
<1>7. t \in Seq(S \ {q[1]})
  <2>1. t = [i \in 1..n |-> t[i]] /\ n \in Nat
    BY <1>2, <1>3 DEF n
  <2> QED BY <1>6, <2>1
<1> QED BY <1>2, <1>4, <1>5, <1>7 DEF Enumerates, t, n

\* It goes behind the others.
LEMMA DeferEnumerates ==
    ASSUME NEW S, NEW q, Enumerates(q, S), q # <<>> PROVE Enumerates(Defer(q), S)
<1> DEFINE h == Head(q)
           t == Tail(q)
           n == Len(t)
           d == Append(t, h)
<1>1. h \in S /\ Enumerates(t, S \ {h})
  BY TailEnumerates
<1>2. /\ t \in Seq(S \ {h}) /\ t \in Seq(S) /\ n \in Nat
      /\ \A i, k \in 1..n : t[i] = t[k] => i = k
      /\ \A c \in S \ {h} : \E i \in 1..n : t[i] = c
  BY <1>1, SeqMonotonic DEF Enumerates
<1> HIDE DEF h, t, n
<1>3. /\ d \in Seq(S) /\ Len(d) = n + 1 /\ d[n + 1] = h
      /\ \A i \in 1..n : d[i] = t[i]
  BY <1>1, <1>2, AppendProperties DEF n
<1>4. \A i \in 1..n : t[i] # h
  BY <1>2, ElementOfSeq DEF n
<1> HIDE DEF d
<1>5. \A i, k \in 1..Len(d) : d[i] = d[k] => i = k
  <2> SUFFICES ASSUME NEW i \in 1..n + 1, NEW k \in 1..n + 1, d[i] = d[k] PROVE i = k
    BY <1>3
  <2>1. (i \in 1..n \/ i = n + 1) /\ (k \in 1..n \/ k = n + 1)
    BY <1>2
  <2>2. CASE i \in 1..n /\ k \in 1..n
    BY <1>2, <1>3, <2>2
  <2>3. CASE i = n + 1 \/ k = n + 1
    BY <1>3, <1>4, <2>1, <2>3
  <2> QED BY <2>1, <2>2, <2>3
<1>6. \A c \in S : \E i \in 1..Len(d) : d[i] = c
  <2> SUFFICES ASSUME NEW c \in S PROVE \E i \in 1..n + 1 : d[i] = c
    BY <1>3
  <2>1. CASE c = h
    <3>1. n + 1 \in 1..n + 1 /\ d[n + 1] = c
      BY <1>2, <1>3, <2>1
    <3> QED BY <3>1
  <2>2. CASE c # h
    <3>1. PICK i \in 1..n : t[i] = c
      BY <1>2, <2>2
    <3>2. i \in 1..n + 1 /\ d[i] = c
      BY <1>2, <1>3, <3>1
    <3> QED BY <3>2
  <2> QED BY <2>1, <2>2
<1> QED BY <1>3, <1>5, <1>6 DEF Enumerates, Defer, d, h, t

LEMMA EnumeratesCounts ==
    ASSUME NEW S, NEW q, Enumerates(q, S)
    PROVE  ToSet(q) = S /\ Len(q) = Cardinality(S)
<1>1. /\ q \in [1..Len(q) -> S] /\ Len(q) \in Nat /\ DOMAIN q = 1..Len(q)
      /\ \A i, k \in 1..Len(q) : q[i] = q[k] => i = k
      /\ \A c \in S : \E i \in 1..Len(q) : q[i] = c
  BY LenProperties DEF Enumerates
<1>2. q \in Bijection(1..Len(q), S)
  BY <1>1 DEF Bijection, Injection, Surjection, IsInjective
<1>3. IsFiniteSet(1..Len(q)) /\ Cardinality(1..Len(q)) = Len(q)
  BY <1>1, FS_Interval
<1>4. Cardinality(S) = Cardinality(1..Len(q))
  BY <1>2, <1>3, FS_Bijection DEF ExistsBijection
<1> QED BY <1>1, <1>3, <1>4 DEF ToSet

-----------------------------------------------------------------------------
(* One job at a time.                                                      *)

SameRun(k) ==
    /\ pc'[k] = pc[k] /\ at'[k] = at[k] /\ used'[k] = used[k] /\ after'[k] = after[k]
    /\ queue'[k] = queue[k] /\ cand'[k] = cand[k]
    /\ added'[k] = added[k] /\ lost'[k] = lost[k]

\* Whoever works with the session can go on with it.
Kind(s) ==
    /\ usage'[s] <= usage[s]
    /\ status'[s] \in Waiting => status[s] \in Waiting

\* An action of a job, or of another operation with its own sessions.
Local(js) ==
    /\ TypeOK' /\ stale \subseteq stale'
    /\ \A k \in Jobs \ js : SameRun(k)
    /\ \A s \in Sessions : Kind(s) \/ owner[s] \in js \cup {Other}

LEMMA OthersSound ==
    ASSUME IInv, NEW js, Local(js), NEW k \in Jobs \ js
    PROVE  Sound(k)'
<1>1. Sound(k) /\ SameRun(k) /\ TypeOK /\ LeaseKept /\ stale \subseteq stale'
  BY DEF IInv, Leases, Local
<1>2. Eligible(k)' = Eligible(k)
  BY <1>1 DEF SameRun, Eligible
<1>3. Placed(k)' /\ Queued(k)' /\ (Working(k)' <=> Working(k)) /\ (Using(k)' <=> Using(k))
  BY <1>1, <1>2 DEF SameRun, Sound, Placed, Queued, Running, Working, Using
<1>4. ASSUME pc[k] \in Holding, at[k] # NoSession PROVE at[k] \in Sessions /\ Kind(at[k])
  <2>1. at[k] \in Sessions
    BY <1>1, <1>4 DEF TypeOK
  <2>2. owner[at[k]] = k
    BY <1>1, <1>4, <2>1 DEF LeaseKept, Holding
  <2>3. k # Other /\ k \notin js
    BY JobsAssumption
  <2> QED BY <2>1, <2>2, <2>3 DEF Local
<1>5. Working(k) => pc[k] \in Holding /\ at[k] # NoSession
  BY <1>1, NoSessionAssumption DEF Sound, Placed, Working, Using, Holding
<1>6. k \notin stale' /\ Working(k)' => status'[at'[k]] \notin Waiting
  BY <1>1, <1>3, <1>4, <1>5 DEF Sound, Fit, SameRun, Kind
<1>7. k \notin stale' /\ pc'[k] \in Holding /\ at'[k] # NoSession => usage'[at'[k]] <= used'[k]
  <2> SUFFICES ASSUME k \notin stale', pc[k] \in Holding, at[k] # NoSession
               PROVE  usage'[at[k]] <= used[k]
    BY <1>1 DEF SameRun
  <2>1. usage'[at[k]] <= usage[at[k]] /\ usage[at[k]] <= used[k] /\ at[k] \in Sessions
    BY <1>1, <1>4 DEF Sound, Fit, Kind
  <2>2. usage'[at[k]] \in Nat /\ usage[at[k]] \in Nat /\ used[k] \in Nat
    BY <1>1, <2>1 DEF Local, TypeOK
  <2> QED BY <2>1, <2>2
<1>8. Fit(k)'
  BY <1>1, <1>6, <1>7 DEF Fit, SameRun, Sound
<1> QED BY <1>3, <1>8 DEF Sound

LEMMA LocalStep ==
    ASSUME IInv, NEW js \in SUBSET Jobs, Local(js), Leases', QuotaKept', \A j \in js : Sound(j)'
    PROVE  IInv'
<1>1. ASSUME NEW k \in Jobs PROVE Sound(k)'
  BY OthersSound
<1> QED BY <1>1 DEF IInv, Local

\* Nothing is spent.
LEMMA QuotaStays ==
    ASSUME IInv, TypeOK', stale \subseteq stale', \A s \in Sessions : usage'[s] <= usage[s]
    PROVE  QuotaKept'
<1> SUFFICES ASSUME Quota > 0, stale' = {}, NEW s \in Sessions PROVE usage'[s] <= Quota
  BY DEF QuotaKept
<1>1. usage[s] <= Quota /\ usage'[s] <= usage[s]
  BY DEF IInv, QuotaKept
<1>2. usage[s] \in Nat /\ usage'[s] \in Nat /\ Quota \in Nat
  BY LimitsAssumption DEF IInv, TypeOK
<1> QED BY <1>1, <1>2

-----------------------------------------------------------------------------
(* Leases.                                                                 *)

\* A job moves on with what it holds.
LEMMA KeepLease ==
    ASSUME IInv, NEW j \in Jobs, NEW p \in Places, UNCHANGED <<lockVars, at>>,
           pc'[j] = p, \A k \in Jobs \ {j} : pc'[k] = pc[k],
           at[j] = NoSession \/ {pc[j], p} \subseteq Holding
    PROVE  Leases'
<1>1. LeaseKept /\ Lined /\ Once /\ UNCHANGED <<owner, line, at>>
  BY DEF IInv, Leases, lockVars
<1>2. ASSUME NEW k \in Jobs, NEW s \in Sessions
      PROVE  /\ at[k] = s => (pc'[k] \in Holding <=> pc[k] \in Holding)
             /\ at[k] = s => (pc'[k] = "lined" <=> pc[k] = "lined")
  BY NoSessionAssumption DEF Holding
<1>3. LeaseKept'
  BY <1>1, <1>2 DEF LeaseKept, Holding
<1>4. Lined'
  BY <1>1, <1>2 DEF Lined, InLine
<1>5. Once'
  BY <1>1 DEF Once
<1> QED BY <1>3, <1>4, <1>5 DEF Leases

\* It gives back what it holds.
LEMMA DropLease ==
    ASSUME IInv, NEW j \in Jobs, pc[j] \in Holding, at[j] # NoSession,
           Release(at[j]), UNCHANGED line, pc'[j] \in {"idle", "loop"}, at'[j] = NoSession,
           \A k \in Jobs \ {j} : pc'[k] = pc[k] /\ at'[k] = at[k]
    PROVE  LockTypes' /\ Leases'
<1>1. /\ LeaseKept /\ Lined /\ Once /\ TypeOK /\ at[j] \in Sessions
      /\ owner' = [owner EXCEPT ![at[j]] = Nobody] /\ line' = line
  BY DEF IInv, Leases, Release, TypeOK
<1>2. LockTypes'
  BY <1>1 DEF TypeOK, LockTypes
<1>3. \A s \in Sessions : owner'[s] = IF s = at[j] THEN Nobody ELSE owner[s]
  BY <1>1 DEF TypeOK
<1>4. ASSUME NEW k \in Jobs, NEW s \in Sessions
      PROVE  owner'[s] = k <=> at'[k] = s /\ pc'[k] \in Holding
  <2>1. owner[s] = k <=> at[k] = s /\ pc[k] \in Holding
    BY <1>1 DEF LeaseKept, Holding
  <2>2. owner[at[j]] = j
    BY <1>1 DEF LeaseKept, Holding
  <2> QED BY <1>1, <1>3, <2>1, <2>2, NoSessionAssumption, JobsAssumption
<1>5. LeaseKept'
  BY <1>4 DEF LeaseKept, Holding
<1>6. Lined'
  BY <1>1, NoSessionAssumption DEF Lined, InLine, Holding
<1>7. Once'
  BY <1>1 DEF Once
<1> QED BY <1>2, <1>5, <1>6, <1>7 DEF Leases
LEMMA AllKind ==
    ASSUME TypeOK, usage' = usage \/ (usage' = [s \in Sessions |-> 0]), UNCHANGED status
    PROVE  \A s \in Sessions : Kind(s)
BY DEF Kind, TypeOK

LEMMA IdleSound ==
    ASSUME NEW j \in Jobs, pc'[j] \in {"idle", "ready"}, at'[j] = NoSession,
           added'[j] \ lost'[j] \subseteq Candidates \ Eligible(j)'
    PROVE  Sound(j)'
BY NoSessionAssumption DEF Sound, Placed, Queued, Fit, Running, Working, Using, Holding

-----------------------------------------------------------------------------
(* Starting a job.                                                         *)

LEMMA StatusType ==
    ASSUME TypeOK, NEW j \in Jobs, NEW st \in JobStatuses, jstatus' = [jstatus EXCEPT ![j] = st],
           UNCHANGED <<home, cand>>
    PROVE  JobTypes'
BY Types DEF JobTypes

\* A job without a run moves between its two resting places.
LEMMA RestingStep ==
    ASSUME IInv, NEW j \in Jobs, pc[j] \in {"idle", "ready"},
           pc'[j] \in {"idle", "ready"}, \A k \in Jobs \ {j} : pc'[k] = pc[k],
           JobTypes', PlaceTypes', cand' = cand,
           UNCHANGED <<sessVars, lockVars, queue, at, used, done, last, preferred, out, after,
                       history, faults>>
    PROVE  IInv'
<1>1. TypeOK /\ Sound(j) /\ at[j] = NoSession
  BY DEF IInv, Sound, Placed
<1>2. TypeOK'
  BY <1>1, Types, SameTypes
<1>3. Local({j})
  BY <1>1, <1>2, AllKind DEF Local, SameRun, sessVars, history
<1>4. Leases'
  <2>1. pc'[j] \in Places
    BY DEF Places
  <2> QED BY <1>1, <2>1, KeepLease
<1>5. QuotaKept'
  <2>1. \A x \in Sessions : usage'[x] <= usage[x]
    BY <1>1, AllKind DEF Kind, sessVars
  <2> QED BY <1>2, <2>1, QuotaStays DEF history
<1>6. Sound(j)'
  BY <1>1, IdleSound DEF Sound, Queued, Eligible, history
<1> QED BY <1>3, <1>4, <1>5, <1>6, LocalStep

LEMMA ExecuteStep == ASSUME IInv, NEW j \in Jobs, Execute(j) PROVE IInv'
<1>1. /\ TypeOK /\ pc[j] = "idle"
      /\ UNCHANGED <<home, cand, sessVars, lockVars, queue, at, used, done, last, preferred, out,
                     after, history, faults>>
  BY DEF IInv, Execute
<1>2. CASE jstatus' = [jstatus EXCEPT ![j] = "queued_execution"] /\ Goto(j, "ready")
  <2>1. JobTypes'
    BY <1>1, <1>2, StatusType DEF JobStatuses
  <2>2. PlaceTypes' /\ pc'[j] = "ready" /\ \A k \in Jobs \ {j} : pc'[k] = pc[k]
    BY <1>1, <1>2, Going DEF Places
  <2> QED BY <1>1, <2>1, <2>2, RestingStep
<1>3. CASE jstatus' = [jstatus EXCEPT ![j] = "scheduled"] /\ UNCHANGED pc
  <2>1. JobTypes'
    BY <1>1, <1>3, StatusType DEF JobStatuses
  <2>2. PlaceTypes'
    BY <1>1, <1>3, SameTypes
  <2> QED BY <1>1, <1>3, <2>1, <2>2, RestingStep
<1> QED BY <1>2, <1>3 DEF Execute

LEMMA SchedulerStartsStep == ASSUME IInv, NEW j \in Jobs, SchedulerStarts(j) PROVE IInv'
<1>1. /\ TypeOK /\ pc[j] = "idle" /\ Goto(j, "ready") /\ UNCHANGED <<jobVars, cand>>
      /\ UNCHANGED <<sessVars, lockVars, queue, at, used, done, last, preferred, out,
                     after, history, faults>>
  BY DEF IInv, SchedulerStarts, jobVars
<1>2. PlaceTypes' /\ pc'[j] = "ready" /\ \A k \in Jobs \ {j} : pc'[k] = pc[k]
  BY <1>1, Going DEF Places
<1> QED BY <1>1, <1>2, SameTypes, RestingStep

\* The queue is what the table says.
LEMMA ClaimStep == ASSUME IInv, NEW j \in Jobs, Claim(j) PROVE IInv'
<1>1. /\ TypeOK /\ Sound(j) /\ pc[j] = "ready" /\ at[j] = NoSession
      /\ UNCHANGED <<home, cand, sessVars, lockVars, at, used, done, after, history, faults>>
  BY DEF IInv, Claim, Sound, Placed
<1>2. CASE /\ Goto(j, "idle")
           /\ UNCHANGED jstatus \/ jstatus' = [jstatus EXCEPT ![j] = "scheduled"]
           /\ UNCHANGED <<queue, last, preferred, out>>
  <2>1. JobTypes'
    BY <1>1, <1>2, StatusType, SameTypes DEF JobStatuses, jobVars
  <2>2. PlaceTypes' /\ pc'[j] = "idle" /\ \A k \in Jobs \ {j} : pc'[k] = pc[k]
    BY <1>1, <1>2, Going DEF Places
  <2> QED BY <1>1, <1>2, <2>1, <2>2, RestingStep
<1>3. CASE /\ jstatus' = [jstatus EXCEPT ![j] = "running"] /\ Goto(j, "loop")
           /\ queue' = [queue EXCEPT ![j] = InOrder(Eligible(j))]
           /\ last' = [last EXCEPT ![j] = home[j]]
           /\ preferred' = [preferred EXCEPT ![j] = home[j]]
           /\ out' = [out EXCEPT ![j] = NoRun]
  <2> DEFINE q == InOrder(Eligible(j))
  <2>1. Eligible(j) \in SUBSET Candidates /\ Enumerates(q, Eligible(j))
    BY OrderEnumerates DEF Eligible
  <2>2. q \in Seq(Candidates)
    BY <2>1, SeqMonotonic DEF Enumerates
  <2> HIDE DEF q
  <2>3. JobTypes'
    BY <1>1, <1>3, StatusType DEF JobStatuses
  <2>4. LocalTypes'
    <3>1. LocalTypes /\ home[j] \in Sessions
      BY <1>1, Types DEF JobTypes
    <3>2. out' \in [Jobs -> [target : SUBSET Sessions, peer : SUBSET Sessions]]
      BY <1>3, <3>1 DEF LocalTypes, NoRun
    <3>3. queue' \in [Jobs -> Seq(Candidates)]
      BY <1>3, <2>2, <3>1 DEF LocalTypes, q
    <3> QED BY <1>1, <1>3, <3>1, <3>2, <3>3 DEF LocalTypes
  <2>5. PlaceTypes' /\ pc'[j] = "loop" /\ \A k \in Jobs \ {j} : pc'[k] = pc[k]
    BY <1>1, <1>3, Going DEF Places
  <2>6. TypeOK'
    BY <1>1, <2>3, <2>4, <2>5, Types, SameTypes
  <2>7. /\ queue'[j] = q /\ Eligible(j)' = Eligible(j)
        /\ \A k \in Jobs \ {j} : queue'[k] = queue[k]
    BY <1>1, <1>3 DEF TypeOK, Eligible, q
  <2>8. Local({j})
    BY <1>1, <2>5, <2>6, <2>7, AllKind DEF Local, SameRun, sessVars, history
  <2>9. Leases'
    BY <1>1, <2>5, KeepLease DEF Places
  <2>10. QuotaKept'
    <3>1. \A x \in Sessions : usage'[x] <= usage[x]
      BY <1>1, AllKind DEF Kind, sessVars
    <3> QED BY <1>1, <2>6, <3>1, QuotaStays DEF history
  <2>11. Sound(j)'
    BY <1>1, <2>1, <2>5, <2>7 DEF Sound, Placed, Queued, Fit, Running, Working, Using, history
  <2> QED BY <2>8, <2>9, <2>10, <2>11, LocalStep
<1> QED BY <1>2, <1>3 DEF Claim

-----------------------------------------------------------------------------
(* Moving on with an open context, and closing it.                         *)

\* A step that only moves a job on, with what it holds.
LEMMA MoveStep ==
    ASSUME IInv, NEW j \in Jobs, JobTypes', LocalTypes', PlaceTypes',
           UNCHANGED <<cand, sessVars, lockVars, at, used, done, history, faults>>,
           at[j] = NoSession \/ {pc[j], pc'[j]} \subseteq Holding,
           \A k \in Jobs \ {j} : /\ pc'[k] = pc[k] /\ queue'[k] = queue[k]
                                 /\ after'[k] = after[k],
           Sound(j)'
    PROVE  IInv'
<1>1. TypeOK
  BY DEF IInv
<1>2. TypeOK'
  BY <1>1, Types, SameTypes
<1>3. Local({j})
  BY <1>1, <1>2, AllKind DEF Local, SameRun, sessVars, history
<1>4. Leases'
  <2>1. pc'[j] \in Places
    BY DEF PlaceTypes
  <2> QED BY <2>1, KeepLease
<1>5. QuotaKept'
  <2>1. \A x \in Sessions : usage'[x] <= usage[x]
    BY <1>1, AllKind DEF Kind, sessVars
  <2> QED BY <1>2, <2>1, QuotaStays DEF history
<1> QED BY <1>3, <1>4, <1>5, LocalStep

LEMMA TryStep == ASSUME IInv, NEW j \in Jobs, Try(j) PROVE IInv'
<1>1. /\ TypeOK /\ Sound(j) /\ pc[j] = "try"
      /\ UNCHANGED <<jobVars, sessVars, lockVars, queue, at, used, done, last, preferred, out,
                     history, faults>>
  BY DEF IInv, Try
<1>2. JobTypes' /\ cand' = cand /\ Eligible(j)' = Eligible(j)
  BY <1>1, SameTypes DEF jobVars, Eligible
<1>3. at[j] \in Sessions /\ at[j] # NoSession
  BY <1>1, NoSessionAssumption DEF Sound, Placed
<1>4. CASE Quota > 0 /\ used[j] >= Quota /\ CloseThen(j, "loop")
  <2>1. PlaceTypes' /\ pc'[j] = "closing" /\ \A k \in Jobs \ {j} : pc'[k] = pc[k]
    BY <1>1, <1>4, Going DEF CloseThen, Places
  <2>2. LocalTypes' /\ after'[j] = "loop" /\ \A k \in Jobs \ {j} : after'[k] = after[k]
    BY <1>1, <1>4, Types DEF CloseThen, LocalTypes
  <2>3. Sound(j)'
    BY <1>1, <1>2, <1>3, <2>1, <2>2
       DEF Sound, Placed, Queued, Fit, Running, Working, Using, Holding, sessVars, history
  <2> QED BY <1>1, <1>2, <2>1, <2>2, <2>3, MoveStep DEF Holding
<1>5. CASE ~(Quota > 0 /\ used[j] >= Quota) /\ Goto(j, "request") /\ UNCHANGED after
  <2>1. PlaceTypes' /\ pc'[j] = "request" /\ \A k \in Jobs \ {j} : pc'[k] = pc[k]
    BY <1>1, <1>5, Going DEF Places
  <2>2. LocalTypes'
    BY <1>1, <1>5, SameTypes
  <2>3. Quota > 0 => used[j] < Quota
    <3>1. used[j] \in Nat /\ Quota \in Nat
      BY <1>1, LimitsAssumption DEF TypeOK
    <3> QED BY <1>5, <3>1
  <2>4. Sound(j)'
    BY <1>1, <1>2, <1>3, <1>5, <2>1, <2>3
       DEF Sound, Placed, Queued, Fit, Running, Working, Using, Holding, sessVars, history
  <2> QED BY <1>1, <1>2, <1>5, <2>1, <2>2, <2>4, MoveStep DEF Holding
<1> QED BY <1>4, <1>5 DEF Try

LEMMA WakeStep == ASSUME IInv, NEW j \in Jobs, Wake(j) PROVE IInv'
<1>1. /\ TypeOK /\ Sound(j) /\ pc[j] = "sleep" /\ Goto(j, "loop")
      /\ UNCHANGED <<jobVars, sessVars, lockVars, queue, at, used, done, last, preferred, out,
                     after, history, faults>>
  BY DEF IInv, Wake
<1>2. /\ JobTypes' /\ LocalTypes' /\ cand' = cand /\ Eligible(j)' = Eligible(j)
  BY <1>1, SameTypes DEF jobVars, Eligible
<1>3. PlaceTypes' /\ pc'[j] = "loop" /\ \A k \in Jobs \ {j} : pc'[k] = pc[k]
  BY <1>1, Going DEF Places
<1>4. Sound(j)'
  BY <1>1, <1>2, <1>3
     DEF Sound, Placed, Queued, Fit, Running, Working, Using, Holding, sessVars, history
<1> QED BY <1>1, <1>2, <1>3, <1>4, MoveStep DEF Holding

\* Out of the loop: the context, if one is open, has yet to be closed.
LEMMA LeaveRunStep ==
    ASSUME IInv, NEW j \in Jobs, pc[j] = "loop", NEW st \in JobStatuses, LeaveRun(j, st)
    PROVE  IInv'
<1>1. /\ TypeOK /\ Sound(j) /\ jstatus' = [jstatus EXCEPT ![j] = st] /\ Forget({j})
      /\ Goto(j, IF at[j] = NoSession THEN "idle" ELSE "closing")
      /\ UNCHANGED <<home, cand, sessVars, lockVars, at, used, done, history, faults>>
  BY DEF IInv, LeaveRun
<1>2. JobTypes'
  BY <1>1, StatusType
<1>3. /\ LocalTypes' /\ queue'[j] = <<>> /\ after'[j] = "idle"
      /\ \A k \in Jobs \ {j} : queue'[k] = queue[k] /\ after'[k] = after[k]
  BY <1>1, Forgotten
<1>4. /\ PlaceTypes' /\ pc'[j] = IF at[j] = NoSession THEN "idle" ELSE "closing"
      /\ \A k \in Jobs \ {j} : pc'[k] = pc[k]
  BY <1>1, Going DEF Places
<1>5. Eligible(j)' = Eligible(j) /\ at[j] \in Sessions \cup {NoSession}
  BY <1>1 DEF Eligible, TypeOK
<1>6. Sound(j)'
  BY <1>1, <1>3, <1>4, <1>5, NoSessionAssumption
     DEF Sound, Placed, Queued, Fit, Running, Working, Using, Holding, sessVars, history
<1>7. at[j] = NoSession \/ {pc[j], pc'[j]} \subseteq Holding
  BY <1>4 DEF Holding
<1> QED BY <1>1, <1>2, <1>3, <1>4, <1>6, <1>7, MoveStep

\* What giving a lease back has in common with and without a failure.
LEMMA LeasedStep ==
    ASSUME IInv, NEW j \in Jobs, TypeOK', UNCHANGED <<cand, usage, history, line>>,
           pc[j] \in Holding, at[j] # NoSession, Release(at[j]),
           pc'[j] \in {"idle", "loop"}, ForgetContext({j}),
           \A k \in Jobs \ {j} : /\ pc'[k] = pc[k] /\ queue'[k] = queue[k]
                                 /\ after'[k] = after[k],
           \A s \in Sessions \ {at[j]} : status'[s] = status[s],
           pc'[j] = "loop" => queue'[j] = queue[j] /\ Enumerates(queue[j], Eligible(j))
    PROVE  IInv'
<1>1. TypeOK /\ Sound(j) /\ LeaseKept /\ at[j] \in Sessions
  BY DEF IInv, Leases, TypeOK
<1>2. at'[j] = NoSession /\ \A k \in Jobs \ {j} : at'[k] = at[k] /\ used'[k] = used[k]
  BY <1>1, ContextForgotten
<1>3. owner[at[j]] = j
  BY <1>1 DEF LeaseKept, Holding
<1>4. Local({j})
  <2>1. ASSUME NEW s \in Sessions \ {at[j]} PROVE Kind(s)
    <3>1. usage'[s] = usage[s] /\ usage[s] \in Nat /\ status'[s] = status[s]
      BY <1>1 DEF TypeOK
    <3> QED BY <3>1 DEF Kind
  <2> QED BY <1>2, <1>3, <2>1 DEF Local, SameRun, history
<1>5. Leases'
  BY <1>2, DropLease
<1>6. QuotaKept'
  <2>1. \A x \in Sessions : usage'[x] <= usage[x]
    BY <1>1 DEF TypeOK
  <2> QED BY <2>1, QuotaStays DEF history
<1>7. Eligible(j)' = Eligible(j)
  BY DEF Eligible
<1>8. Sound(j)'
  BY <1>1, <1>2, <1>7, NoSessionAssumption
     DEF Sound, Placed, Queued, Fit, Running, Working, Using, Holding, history
<1> QED BY <1>4, <1>5, <1>6, <1>8, LocalStep

LEMMA ReleaseType ==
    ASSUME TypeOK, NEW s \in Sessions, Release(s), UNCHANGED line PROVE LockTypes'
BY Types DEF Release, LockTypes

LEMMA CloseStep == ASSUME IInv, NEW j \in Jobs, Close(j) PROVE IInv'
<1>1. /\ TypeOK /\ Sound(j) /\ pc[j] = "closing" /\ Release(at[j]) /\ ForgetContext({j})
      /\ Goto(j, after[j]) /\ after' = [after EXCEPT ![j] = "idle"]
      /\ UNCHANGED <<jobVars, sessVars, line, queue, last, preferred, out, history, faults>>
  BY DEF IInv, Close
<1>2. at[j] \in Sessions /\ at[j] # NoSession /\ after[j] \in {"loop", "idle"}
  BY <1>1, NoSessionAssumption DEF Sound, Placed, TypeOK
<1>3. PlaceTypes' /\ pc'[j] = after[j] /\ \A k \in Jobs \ {j} : pc'[k] = pc[k]
  BY <1>1, <1>2, Going DEF Places
<1>4. LocalTypes' /\ \A k \in Jobs \ {j} : after'[k] = after[k]
  BY <1>1, Types DEF LocalTypes
<1>5. TypeOK'
  <2>1. ContextTypes' /\ LockTypes'
    BY <1>1, <1>2, ContextForgotten, ReleaseType
  <2> QED BY <1>1, <1>3, <1>4, <2>1, Types, SameTypes
<1>6. pc'[j] = "loop" => Enumerates(queue[j], Eligible(j))
  BY <1>1, <1>2, <1>3 DEF Sound, Queued, Running
<1> QED BY <1>1, <1>2, <1>3, <1>4, <1>5, <1>6, LeasedStep
        DEF jobVars, sessVars, Holding

-----------------------------------------------------------------------------
(* The rest of the program.                                                *)

\* What concerns no run: another operation, a proxy test, time.
LEMMA WorldStep ==
    ASSUME IInv, SessTypes', LockTypes', FaultTypes', Leases',
           UNCHANGED <<jobVars, runVars, history>>,
           \A s \in Sessions : usage'[s] <= usage[s],
           \A s \in Sessions : owner[s] = Other \/ (status'[s] \in Waiting => status[s] \in Waiting)
    PROVE  IInv'
<1>1. TypeOK'
  BY Types, SameTypes DEF IInv, runVars
<1>2. Local({})
  BY <1>1 DEF Local, SameRun, Kind, jobVars, runVars, history
<1>3. QuotaKept'
  BY <1>1, QuotaStays DEF history
<1> QED BY <1>2, <1>3, LocalStep

LEMMA SameLeases == ASSUME IInv, UNCHANGED <<lockVars, runVars>> PROVE Leases'
<1>1. LeaseKept' /\ Lined' /\ Once'
  BY DEF IInv, Leases, LeaseKept, Lined, Once, InLine, lockVars, runVars
<1> QED BY <1>1 DEF Leases

LEMMA SameUsage == ASSUME TypeOK, usage' = usage PROVE \A s \in Sessions : usage'[s] <= usage[s]
BY DEF TypeOK

\* Another one in a line is in it once, behind the others.
LEMMA Joining ==
    ASSUME TypeOK, Once, NEW s \in Sessions, NEW z \in Jobs \cup {Other},
           z \in Jobs => ~InLine(z, s), line' = [line EXCEPT ![s] = Append(@, z)]
    PROVE  /\ line' \in [Sessions -> Seq(Jobs \cup {Other})] /\ Once'
           /\ \A k \in Jobs, x \in Sessions :
                 InLine(k, x)' <=> InLine(k, x) \/ (k = z /\ x = s)
<1> DEFINE q == line[s]
           n == Len(q)
           d == Append(q, z)
<1>1. q \in Seq(Jobs \cup {Other}) /\ n \in Nat
  BY DEF TypeOK
<1>2. /\ d \in Seq(Jobs \cup {Other}) /\ Len(d) = n + 1 /\ d[n + 1] = z
      /\ \A i \in 1..n : d[i] = q[i]
  BY <1>1, AppendProperties
<1>3. line' \in [Sessions -> Seq(Jobs \cup {Other})]
  BY <1>2 DEF TypeOK
<1>4. line'[s] = d /\ \A x \in Sessions \ {s} : line'[x] = line[x]
  BY DEF TypeOK
<1> HIDE DEF d
<1>5. /\ \A i \in 1..n + 1 : i \in 1..n \/ i = n + 1
      /\ \A i \in 1..n : i \in 1..n + 1
      /\ n + 1 \in 1..n + 1
  BY <1>1
<1>6. ASSUME NEW k \in Jobs, NEW x \in Sessions
      PROVE  InLine(k, x)' <=> InLine(k, x) \/ (k = z /\ x = s)
  <2>1. CASE x = s
    BY <1>2, <1>4, <1>5, <2>1 DEF InLine
  <2>2. CASE x # s
    BY <1>4, <2>2 DEF InLine
  <2> QED BY <2>1, <2>2
<1>7. \A i, k \in 1..n + 1 : d[i] = d[k] /\ d[i] \in Jobs => i = k
  <2>1. \A i \in 1..n : d[i] \in Jobs => d[i] # z
    BY <1>2 DEF InLine
  <2>2. \A i, k \in 1..n : d[i] = d[k] /\ d[i] \in Jobs => i = k
    BY <1>2 DEF Once
  <2> QED BY <1>2, <1>5, <2>1, <2>2
<1>8. Once'
  BY <1>2, <1>4, <1>7 DEF Once
<1> QED BY <1>3, <1>6, <1>8

LEMMA OtherJoinsStep == ASSUME IInv, NEW s \in Sessions, OtherJoins(s) PROVE IInv'
<1>1. /\ TypeOK /\ LeaseKept /\ Lined /\ Once
      /\ line' = [line EXCEPT ![s] = Append(@, Other)]
      /\ UNCHANGED <<jobVars, sessVars, owner, runVars, history, faults>>
  BY DEF IInv, Leases, OtherJoins
<1>2. /\ line' \in [Sessions -> Seq(Jobs \cup {Other})] /\ Once'
      /\ \A k \in Jobs, x \in Sessions : InLine(k, x)' <=> InLine(k, x)
  BY <1>1, Joining, JobsAssumption
<1>3. Lined' /\ LeaseKept'
  BY <1>1, <1>2 DEF Lined, LeaseKept, runVars
<1>4. SessTypes' /\ LockTypes' /\ FaultTypes'
  BY <1>1, <1>2, SameTypes, Types DEF LockTypes
<1> QED BY <1>1, <1>2, <1>3, <1>4, SameUsage, WorldStep DEF Leases, sessVars

LEMMA OtherTakesStep == ASSUME IInv, NEW s \in Sessions, OtherTakes(s) PROVE IInv'
<1>1. /\ TypeOK /\ LeaseKept /\ Lined /\ Once
      /\ owner' = [owner EXCEPT ![s] = Other] /\ owner[s] = Nobody
      /\ UNCHANGED <<jobVars, sessVars, line, runVars, history, faults>>
  BY DEF IInv, Leases, OtherTakes
<1>2. owner' \in [Sessions -> Jobs \cup {Other, Nobody}]
  BY <1>1 DEF TypeOK
<1>3. ASSUME NEW k \in Jobs, NEW x \in Sessions PROVE owner'[x] = k <=> owner[x] = k
  BY <1>1, JobsAssumption DEF TypeOK
<1>4. LeaseKept' /\ Lined' /\ Once'
  BY <1>1, <1>3 DEF LeaseKept, Lined, Once, InLine, runVars
<1>5. SessTypes' /\ LockTypes' /\ FaultTypes'
  BY <1>1, <1>2, SameTypes, Types DEF LockTypes
<1> QED BY <1>1, <1>4, <1>5, SameUsage, WorldStep DEF Leases, sessVars

\* What it did to the session it did as its holder.
LEMMA OtherEndsStep == ASSUME IInv, NEW s \in Sessions, OtherEnds(s) PROVE IInv'
<1>1. /\ TypeOK /\ LeaseKept /\ Lined /\ Once /\ owner[s] = Other
      /\ owner' = [owner EXCEPT ![s] = Nobody]
      /\ MarkFlood(s) \/ MarkProxy(s) \/ ProxyWorks(s)
      /\ UNCHANGED faults \/ Fault
      /\ UNCHANGED <<jobVars, line, runVars, history>>
  BY DEF IInv, Leases, OtherEnds, Release
<1>2. owner' \in [Sessions -> Jobs \cup {Other, Nobody}]
  BY <1>1 DEF TypeOK
<1>3. ASSUME NEW k \in Jobs, NEW x \in Sessions PROVE owner'[x] = k <=> owner[x] = k
  BY <1>1, JobsAssumption DEF TypeOK
<1>4. LeaseKept' /\ Lined' /\ Once'
  BY <1>1, <1>3 DEF LeaseKept, Lined, Once, InLine, runVars
<1>5. /\ SessTypes' /\ usage' = usage
      /\ \A x \in Sessions \ {s} : status'[x] = status[x]
  BY <1>1, MarkTypes
<1>6. LockTypes' /\ FaultTypes'
  BY <1>1, <1>2, SameTypes, Types, FaultType DEF LockTypes
<1> QED BY <1>1, <1>4, <1>5, <1>6, SameUsage, WorldStep DEF Leases

LEMMA TestProxyStep == ASSUME IInv, NEW s \in Sessions, TestProxy(s) PROVE IInv'
<1>1. /\ TypeOK /\ Fault
      /\ MarkProxy(s) \/ ProxyWorks(s)
      /\ UNCHANGED <<jobVars, lockVars, runVars, history>>
  BY DEF IInv, TestProxy
<1>2. /\ SessTypes' /\ usage' = usage
      /\ \A x \in Sessions : status'[x] \in Waiting => status[x] \in Waiting
  BY <1>1, MarkTypes
<1>3. LockTypes' /\ FaultTypes'
  BY <1>1, SameTypes, FaultType
<1> QED BY <1>1, <1>2, <1>3, SameLeases, SameUsage, WorldStep

\* Waits that end, and midnight.
LEMMA TimeStep ==
    ASSUME IInv, (\E s \in Sessions : FloodEnds(s) \/ RestEnds(s)) \/ NewDay PROVE IInv'
<1>1. /\ TypeOK /\ status' = status
      /\ UNCHANGED <<jobVars, lockVars, runVars, history>>
      /\ UNCHANGED faults \/ Fault
  BY DEF IInv, FloodEnds, RestEnds, NewDay
<1>2. usage' = usage \/ (usage' = [s \in Sessions |-> 0])
  BY DEF FloodEnds, RestEnds, NewDay
<1>3. floodRuns' \in [Sessions -> BOOLEAN] /\ restRuns' \in [Sessions -> BOOLEAN]
  BY <1>1, Zenon DEF FloodEnds, RestEnds, NewDay, TypeOK
<1>4. usage' \in [Sessions -> Nat]
  BY <1>1, <1>2 DEF TypeOK
<1>5. proxyFailed' = proxyFailed /\ successes' = successes
  BY DEF FloodEnds, RestEnds, NewDay
<1>6. SessTypes'
  BY <1>1, <1>3, <1>4, <1>5, Zenon DEF TypeOK, SessTypes
<1>7. LockTypes' /\ FaultTypes'
  BY <1>1, SameTypes, FaultType
<1>8. \A s \in Sessions : Kind(s)
  BY <1>1, <1>2, AllKind
<1> QED BY <1>1, <1>6, <1>7, <1>8, SameLeases, WorldStep DEF Kind

\* A job whose turn comes stands nowhere else in the line.
LEMMA TurnStep == ASSUME IInv, NEW s \in Sessions, Turn(s) PROVE IInv'
<1> DEFINE q == line[s]
           t == Tail(q)
<1>0. PICK h : h = Head(q)
  OBVIOUS
<1>1. /\ TypeOK /\ LeaseKept /\ Lined /\ Once /\ owner[s] = Nobody /\ q # <<>>
      /\ owner' = [owner EXCEPT ![s] = h] /\ line' = [line EXCEPT ![s] = t]
      /\ pc' = [j \in Jobs |-> IF j = h THEN "opening" ELSE pc[j]]
      /\ stale' = stale \cup (Jobs \cap {h})
      /\ UNCHANGED <<jobVars, sessVars, queue, at, used, done, last, preferred, out, after,
                     added, lost, faults>>
  BY <1>0 DEF IInv, Leases, Turn
<1>2. q \in Seq(Jobs \cup {Other}) /\ Len(q) \in Nat /\ Len(q) >= 1
  BY <1>1, EmptySeq DEF TypeOK
<1> DEFINE n == Len(t)
<1>3. /\ t \in Seq(Jobs \cup {Other}) /\ h = q[1] /\ h \in Jobs \cup {Other}
      /\ n = Len(q) - 1 /\ \A i \in 1..n : t[i] = q[i + 1]
  BY <1>0, <1>1, <1>2, HeadTailProperties
<1>4. n \in Nat /\ Len(q) = n + 1
  BY <1>2, <1>3
<1>5. /\ owner' \in [Sessions -> Jobs \cup {Other, Nobody}]
      /\ line' \in [Sessions -> Seq(Jobs \cup {Other})]
      /\ pc' \in [Jobs -> Places] /\ stale' \subseteq Jobs
  BY <1>1, <1>3 DEF TypeOK, Places
<1>6. /\ owner'[s] = h /\ line'[s] = t
      /\ \A x \in Sessions \ {s} : owner'[x] = owner[x] /\ line'[x] = line[x]
  BY <1>1 DEF TypeOK
<1> HIDE DEF t, n
<1>7. \A i, k \in 1..n + 1 : q[i] = q[k] /\ q[i] \in Jobs => i = k
  BY <1>1, <1>4 DEF Once
<1>8. ASSUME NEW k \in Jobs
      PROVE  (\E i \in 1..n : t[i] = k) <=> k # h /\ \E i \in 1..n + 1 : q[i] = k
  <2>1. ASSUME NEW i \in 1..n, t[i] = k PROVE k # h /\ i + 1 \in 1..n + 1 /\ q[i + 1] = k
    <3>1. i + 1 \in 1..n + 1 /\ 1 \in 1..n + 1 /\ i + 1 # 1
      BY <1>4
    <3>2. q[i + 1] = k
      BY <1>3, <2>1
    <3> QED BY <1>3, <1>7, <3>1, <3>2
  <2>2. ASSUME k # h, NEW i \in 1..n + 1, q[i] = k PROVE i - 1 \in 1..n /\ t[i - 1] = k
    <3>1. i # 1
      BY <1>3, <2>2
    <3>2. i - 1 \in 1..n /\ (i - 1) + 1 = i
      BY <1>4, <3>1
    <3> QED BY <1>3, <2>2, <3>2
  <2> QED BY <2>1, <2>2
<1>9. \A k \in Jobs : InLine(k, s)' <=> k # h /\ InLine(k, s)
  BY <1>4, <1>6, <1>8 DEF InLine, n
<1>10. ASSUME h \in Jobs PROVE at[h] = s /\ pc[h] = "lined"
  <2>1. InLine(h, s)
    <3>1. 1 \in 1..Len(q)
      BY <1>2
    <3> QED BY <1>3, <3>1 DEF InLine
  <2> QED BY <1>1, <1>10, <2>1 DEF Lined
<1>11. ASSUME NEW k \in Jobs PROVE pc'[k] = IF k = h THEN "opening" ELSE pc[k]
  BY <1>1
<1>12. Lined'
  <2> SUFFICES ASSUME NEW k \in Jobs, NEW x \in Sessions
               PROVE  InLine(k, x)' <=> at[k] = x /\ pc'[k] = "lined"
    BY <1>1 DEF Lined
  <2>1. InLine(k, x) <=> at[k] = x /\ pc[k] = "lined"
    BY <1>1 DEF Lined
  <2>2. x # s => (InLine(k, x)' <=> InLine(k, x))
    BY <1>6 DEF InLine
  <2> QED BY <1>9, <1>10, <1>11, <2>1, <2>2
<1>13. LeaseKept'
  <2> SUFFICES ASSUME NEW k \in Jobs, NEW x \in Sessions
               PROVE  owner'[x] = k <=> at[k] = x /\ pc'[k] \in Holding
    BY <1>1 DEF LeaseKept, Holding
  <2>1. owner[x] = k <=> at[k] = x /\ pc[k] \in Holding
    BY <1>1 DEF LeaseKept, Holding
  <2> QED BY <1>1, <1>6, <1>10, <1>11, <2>1, JobsAssumption DEF Holding
<1>14. Once'
  <2>1. \A i, k \in 1..n : t[i] = t[k] /\ t[i] \in Jobs => i = k
    <3> SUFFICES ASSUME NEW i \in 1..n, NEW k \in 1..n, t[i] = t[k], t[i] \in Jobs PROVE i = k
      OBVIOUS
    <3>1. i + 1 \in 1..n + 1 /\ k + 1 \in 1..n + 1
      BY <1>4
    <3>2. q[i + 1] = q[k + 1] /\ q[i + 1] \in Jobs
      BY <1>3
    <3>3. i + 1 = k + 1
      BY <1>7, <3>1, <3>2
    <3> QED BY <1>4, <3>3
  <2> QED BY <1>1, <1>6, <2>1 DEF Once, n
<1>15. TypeOK'
  <2>1. LockTypes' /\ PlaceTypes' /\ HistoryTypes'
    BY <1>1, <1>5 DEF LockTypes, PlaceTypes, HistoryTypes, TypeOK
  <2> QED BY <1>1, <2>1, Types, SameTypes
<1>16. Local(Jobs \cap {h})
  BY <1>1, <1>11, <1>15, AllKind DEF Local, SameRun, jobVars, sessVars
<1>17. ASSUME h \in Jobs PROVE Sound(h)'
  <2>1. Sound(h) /\ at[h] = s /\ pc[h] = "lined" /\ pc'[h] = "opening" /\ h \in stale'
    BY <1>1, <1>10, <1>11, <1>17 DEF IInv
  <2>2. Eligible(h)' = Eligible(h)
    BY <1>1 DEF Eligible, jobVars
  <2> QED BY <1>1, <2>1, <2>2 DEF Sound, Placed, Queued, Fit, Running, Working, Using
<1>18. QuotaKept'
  <2>1. \A x \in Sessions : usage'[x] <= usage[x]
    BY <1>1, SameUsage DEF sessVars
  <2> QED BY <1>1, <1>15, <2>1, QuotaStays
<1> QED BY <1>12, <1>13, <1>14, <1>16, <1>17, <1>18, LocalStep DEF Leases

-----------------------------------------------------------------------------
(* The answers to a request.                                               *)

\* A job with an open context does something to its own session.
LEMMA OwnSessionStep ==
    ASSUME IInv, NEW j \in Jobs, TypeOK', {pc[j], pc'[j]} \subseteq Holding, at[j] # NoSession,
           UNCHANGED <<lockVars, at, stale>>,
           \A k \in Jobs \ {j} : SameRun(k),
           \A s \in Sessions \ {at[j]} : usage'[s] = usage[s] /\ status'[s] = status[s],
           QuotaKept', Sound(j)'
    PROVE  IInv'
<1>1. TypeOK /\ LeaseKept /\ at[j] \in Sessions /\ owner[at[j]] = j
  <2>1. TypeOK /\ LeaseKept /\ at[j] \in Sessions
    BY DEF IInv, Leases, TypeOK
  <2> QED BY <2>1 DEF LeaseKept, Holding
<1>2. ASSUME NEW x \in Sessions \ {at[j]} PROVE Kind(x)
  <2>1. usage'[x] = usage[x] /\ usage[x] \in Nat /\ status'[x] = status[x]
    BY <1>1 DEF TypeOK
  <2> QED BY <2>1 DEF Kind
<1>3. Local({j})
  BY <1>1, <1>2 DEF Local
<1>4. Leases'
  <2>1. pc'[j] \in Places
    BY DEF TypeOK
  <2> QED BY <2>1, KeepLease DEF SameRun
<1> QED BY <1>3, <1>4, LocalStep

LEMMA JobLocals ==
    ASSUME TypeOK, NEW j \in Jobs, NEW q \in Seq(Candidates), queue' = [queue EXCEPT ![j] = q]
    PROVE  /\ queue' \in [Jobs -> Seq(Candidates)] /\ queue'[j] = q
           /\ \A k \in Jobs \ {j} : queue'[k] = queue[k]
BY DEF TypeOK

\* The candidate at the head gets its final status.
LEMMA RecordStep ==
    ASSUME TypeOK, NEW j \in Jobs, Enumerates(queue[j], Eligible(j)), queue[j] # <<>>,
           NEW v \in CandidateStatuses \ {"eligible"}, Record(j, v)
    PROVE  /\ Head(queue[j]) \in Candidates
           /\ cand' \in [Jobs -> [Candidates -> CandidateStatuses]]
           /\ \A k \in Jobs \ {j} : cand'[k] = cand[k] /\ queue'[k] = queue[k]
           /\ queue' \in [Jobs -> Seq(Candidates)] /\ queue'[j] = Tail(queue[j])
           /\ Eligible(j)' = Eligible(j) \ {Head(queue[j])}
           /\ Enumerates(queue'[j], Eligible(j)')
<1>1. PICK c : c = Head(queue[j])
  OBVIOUS
<1>2. PICK q : q = Tail(queue[j])
  OBVIOUS
<1>3. c \in Eligible(j) /\ Enumerates(q, Eligible(j) \ {c})
  BY <1>1, <1>2, TailEnumerates
<1>4. c \in Candidates /\ q \in Seq(Candidates)
  <2>1. Eligible(j) \subseteq Candidates
    BY DEF Eligible
  <2> QED BY <1>3, <2>1, SeqMonotonic DEF Enumerates
<1>5. cand' = [cand EXCEPT ![j][c] = v] /\ queue' = [queue EXCEPT ![j] = q]
  BY <1>1, <1>2 DEF Record
<1>6. /\ cand' \in [Jobs -> [Candidates -> CandidateStatuses]]
      /\ \A k \in Jobs \ {j} : cand'[k] = cand[k]
      /\ cand'[j] = [cand[j] EXCEPT ![c] = v] /\ cand[j] \in [Candidates -> CandidateStatuses]
  BY <1>4, <1>5 DEF TypeOK
<1>7. Eligible(j)' = Eligible(j) \ {c}
  BY <1>4, <1>6 DEF Eligible
<1> QED BY <1>1, <1>2, <1>3, <1>4, <1>5, <1>6, <1>7, JobLocals

LEMMA ProceedStep ==
    ASSUME TypeOK, NEW j \in Jobs, NEW b \in BOOLEAN, Proceed(j, b)
    PROVE  /\ PlaceTypes' /\ after' \in [Jobs -> {"loop", "idle"}]
           /\ \A k \in Jobs \ {j} : pc'[k] = pc[k] /\ after'[k] = after[k]
           /\ pc'[j] \in {"loop", "closing", "sleep"}
           /\ pc'[j] = "loop" => Tail(queue[j]) = <<>>
           /\ pc'[j] = "closing" => after'[j] = "loop"
           /\ pc'[j] = "sleep" => ~b
<1>1. CASE Tail(queue[j]) = <<>>
  BY <1>1, Going DEF Proceed, TypeOK, Places
<1>2. CASE Tail(queue[j]) # <<>> /\ b
  BY <1>2, Going DEF Proceed, CloseThen, TypeOK, Places
<1>3. CASE Tail(queue[j]) # <<>> /\ ~b
  BY <1>3, Going DEF Proceed, TypeOK, Places
<1> QED BY <1>1, <1>2, <1>3

\* A session is used once more; the next candidate is asked for with it only
\* if it has not reached its batch limit.
\* One more.
LEMMA CountUp ==
    ASSUME NEW D, NEW f \in [D -> Nat], NEW x \in D, NEW g, g = [f EXCEPT ![x] = @ + 1]
    PROVE  g \in [D -> Nat] /\ g[x] = f[x] + 1 /\ \A y \in D \ {x} : g[y] = f[y]
OBVIOUS

LEMMA InvitedStep == ASSUME IInv, NEW j \in Jobs, Invited(j) PROVE IInv'
<1>1. PICK s : s = at[j]
  OBVIOUS
<1>2. PICK c : c = Head(queue[j])
  OBVIOUS
<1>3. /\ TypeOK /\ Sound(j) /\ pc[j] = "request" /\ Record(j, "invited")
      /\ added' = [added EXCEPT ![j] = @ \cup {c}]
      /\ usage' = [usage EXCEPT ![s] = @ + 1] /\ used' = [used EXCEPT ![j] = @ + 1]
      /\ done' = [done EXCEPT ![j] = IF BatchFull(j) THEN 0 ELSE @ + 1]
      /\ successes' = [successes EXCEPT ![s] = IF BatchFull(j) THEN 0 ELSE @ + 1]
      /\ BatchFull(j) => \E st \in Statuses : status' = [status EXCEPT ![s] = st]
      /\ ~BatchFull(j) => status' = status
      /\ UNCHANGED <<jstatus, home, proxyFailed, floodRuns, lockVars, at, last, preferred,
                     out, lost, stale, faults>>
  BY <1>1, <1>2 DEF IInv, Invited, DailyCount, CountUse, Statuses
<1>4. PICK b \in BOOLEAN : Proceed(j, b) /\ (BatchFull(j) => b)
  <2>1. PICK b \in BOOLEAN : b <=> BatchFull(j) \/ (Quota > 0 /\ used'[j] >= Quota)
    OBVIOUS
  <2> QED BY <2>1 DEF Invited, Proceed
<1>5. s \in Sessions /\ s # NoSession /\ Enumerates(queue[j], Eligible(j)) /\ queue[j] # <<>>
  BY <1>1, <1>3, NoSessionAssumption DEF Sound, Placed, Queued, Running
<1>6. /\ c \in Candidates /\ cand' \in [Jobs -> [Candidates -> CandidateStatuses]]
      /\ \A k \in Jobs \ {j} : cand'[k] = cand[k] /\ queue'[k] = queue[k]
      /\ queue' \in [Jobs -> Seq(Candidates)] /\ queue'[j] = Tail(queue[j])
      /\ Eligible(j)' = Eligible(j) \ {c} /\ Enumerates(queue'[j], Eligible(j)')
  BY <1>2, <1>3, <1>5, RecordStep DEF CandidateStatuses
<1>7. /\ PlaceTypes' /\ after' \in [Jobs -> {"loop", "idle"}]
      /\ \A k \in Jobs \ {j} : pc'[k] = pc[k] /\ after'[k] = after[k]
      /\ pc'[j] \in {"loop", "closing", "sleep"}
      /\ pc'[j] = "loop" => queue'[j] = <<>>
      /\ pc'[j] = "closing" => after'[j] = "loop"
      /\ pc'[j] = "sleep" => ~BatchFull(j)
  BY <1>3, <1>4, <1>6, ProceedStep
<1>8. /\ added' \in [Jobs -> SUBSET Candidates] /\ added'[j] = added[j] \cup {c}
      /\ \A k \in Jobs \ {j} : added'[k] = added[k]
      /\ usage' \in [Sessions -> Nat] /\ usage'[s] = usage[s] + 1
      /\ \A x \in Sessions \ {s} : usage'[x] = usage[x] /\ status'[x] = status[x]
      /\ used' \in [Jobs -> Nat] /\ used'[j] = used[j] + 1
      /\ \A k \in Jobs \ {j} : used'[k] = used[k]
      /\ status' \in [Sessions -> Statuses] /\ (~BatchFull(j) => status'[s] = status[s])
      /\ done' \in [Jobs -> Nat] /\ successes' \in [Sessions -> Nat]
  <2>1. /\ added' \in [Jobs -> SUBSET Candidates] /\ added'[j] = added[j] \cup {c}
        /\ \A k \in Jobs \ {j} : added'[k] = added[k]
    BY <1>3, <1>6 DEF TypeOK
  <2>2. /\ usage' \in [Sessions -> Nat] /\ usage'[s] = usage[s] + 1
        /\ \A x \in Sessions \ {s} : usage'[x] = usage[x]
        /\ used' \in [Jobs -> Nat] /\ used'[j] = used[j] + 1
        /\ \A k \in Jobs \ {j} : used'[k] = used[k]
    <3>1. usage \in [Sessions -> Nat] /\ used \in [Jobs -> Nat]
      BY <1>3 DEF TypeOK
    <3>2. usage' = [usage EXCEPT ![s] = @ + 1] /\ used' = [used EXCEPT ![j] = @ + 1]
      BY <1>3
    <3> QED BY <1>5, <3>1, <3>2, CountUp
  <2>3. CASE BatchFull(j)
    <3>1. PICK st \in Statuses : status' = [status EXCEPT ![s] = st]
      BY <1>3, <2>3
    <3>2. /\ status' \in [Sessions -> Statuses]
          /\ \A x \in Sessions \ {s} : status'[x] = status[x]
      BY <1>3, <1>5, <3>1 DEF TypeOK
    <3>3. done' = [done EXCEPT ![j] = 0] /\ successes' = [successes EXCEPT ![s] = 0]
      BY <1>3, <2>3
    <3>4. done' \in [Jobs -> Nat] /\ successes' \in [Sessions -> Nat]
      <4>1. done \in [Jobs -> Nat] /\ successes \in [Sessions -> Nat]
        BY <1>3 DEF TypeOK
      <4>2. done' \in [Jobs -> Nat]
        BY <3>3, <4>1
      <4> QED BY <3>3, <4>1, <4>2
    <3> QED BY <2>1, <2>2, <2>3, <3>2, <3>4
  <2>4. CASE ~BatchFull(j)
    <3>1. /\ done' = [done EXCEPT ![j] = @ + 1]
          /\ successes' = [successes EXCEPT ![s] = @ + 1]
      BY <1>3, <2>4
    <3>2. done' \in [Jobs -> Nat] /\ successes' \in [Sessions -> Nat]
      <4>1. done \in [Jobs -> Nat] /\ successes \in [Sessions -> Nat]
        BY <1>3 DEF TypeOK
      <4> QED BY <1>5, <3>1, <4>1, CountUp
    <3>3. status' = status /\ status \in [Sessions -> Statuses]
      BY <1>3, <2>4 DEF TypeOK
    <3> QED BY <2>1, <2>2, <3>2, <3>3
  <2> QED BY <2>3, <2>4
<1>9. restRuns' \in [Sessions -> BOOLEAN]
  <2>1. (\E r \in BOOLEAN : restRuns' = [restRuns EXCEPT ![s] = r]) \/ restRuns' = restRuns
    BY <1>1 DEF Invited
  <2>2. restRuns \in [Sessions -> BOOLEAN]
    BY <1>3 DEF TypeOK
  <2> QED BY <1>5, <2>1, <2>2, Zenon
<1>10. TypeOK'
  <2>1. JobTypes' /\ LockTypes' /\ ContextTypes' /\ LocalTypes' /\ HistoryTypes' /\ FaultTypes'
    BY <1>3, <1>6, <1>7, <1>8, SameTypes, Types
       DEF TypeOK, JobTypes, ContextTypes, LocalTypes, HistoryTypes
  <2>2. SessTypes'
    BY <1>3, <1>8, <1>9, Zenon DEF TypeOK, SessTypes
  <2> QED BY <1>7, <2>1, <2>2, Types
<1>11. usage[s] \in Nat /\ used[j] \in Nat /\ Quota \in Nat
  BY <1>3, <1>5, LimitsAssumption DEF TypeOK
<1>12. j \notin stale => usage[s] <= used[j] /\ status[s] \notin Waiting
  BY <1>1, <1>3, <1>5 DEF Sound, Fit, Working, Using, Holding
<1>13. Quota > 0 => used[j] < Quota
  BY <1>3 DEF Sound, Fit
<1>14. Placed(j)' /\ Queued(j)'
  <2>1. Placed(j)'
    BY <1>1, <1>3, <1>5, <1>7 DEF Placed
  <2>2. added'[j] \ lost'[j] \subseteq Candidates \ Eligible(j)'
    BY <1>3, <1>6, <1>8 DEF Sound, Queued
  <2> QED BY <1>6, <1>7, <2>1, <2>2 DEF Queued
<1>15. Fit(j)'
  <2>1. Working(j)' => pc'[j] = "sleep"
    BY <1>7 DEF Working, Using
  <2>2. j \notin stale => usage'[s] <= used'[j]
    BY <1>8, <1>11, <1>12
  <2> QED BY <1>1, <1>3, <1>7, <1>8, <1>12, <2>1, <2>2 DEF Fit
<1>16. QuotaKept'
  <2> SUFFICES ASSUME Quota > 0, stale = {}, NEW x \in Sessions PROVE usage'[x] <= Quota
    BY <1>3 DEF QuotaKept
  <2>1. usage[x] <= Quota
    BY DEF IInv, QuotaKept
  <2> QED BY <1>8, <1>11, <1>12, <1>13, <2>1
<1>17. \A k \in Jobs \ {j} : SameRun(k)
  BY <1>3, <1>6, <1>7, <1>8 DEF SameRun
<1> QED BY <1>1, <1>3, <1>5, <1>7, <1>8, <1>10, <1>14, <1>15, <1>16, <1>17, OwnSessionStep
        DEF Sound, Holding

LEMMA NotInvitedStep == ASSUME IInv, NEW j \in Jobs, NotInvited(j) PROVE IInv'
<1>1. PICK c : c = Head(queue[j])
  OBVIOUS
<1>2. /\ TypeOK /\ Sound(j) /\ pc[j] = "request" /\ Fault /\ Proceed(j, FALSE)
      /\ UNCHANGED added \/ added' = [added EXCEPT ![j] = @ \cup {c}]
      /\ UNCHANGED <<jstatus, home, sessVars, lockVars, at, used, done, last, preferred, out,
                     lost, stale>>
  BY <1>1 DEF IInv, NotInvited
<1>3. PICK v \in {"existing", "skipped", "failed"} : Record(j, v)
  BY DEF NotInvited
<1>4. at[j] \in Sessions /\ at[j] # NoSession /\ Enumerates(queue[j], Eligible(j)) /\ queue[j] # <<>>
  BY <1>2, NoSessionAssumption DEF Sound, Placed, Queued, Running
<1>5. /\ c \in Candidates /\ cand' \in [Jobs -> [Candidates -> CandidateStatuses]]
      /\ \A k \in Jobs \ {j} : cand'[k] = cand[k] /\ queue'[k] = queue[k]
      /\ queue' \in [Jobs -> Seq(Candidates)] /\ queue'[j] = Tail(queue[j])
      /\ Eligible(j)' = Eligible(j) \ {c} /\ Enumerates(queue'[j], Eligible(j)')
  <2>1. v \in CandidateStatuses \ {"eligible"}
    BY DEF CandidateStatuses
  <2> QED BY <1>1, <1>2, <1>3, <1>4, <2>1, RecordStep
<1>6. /\ PlaceTypes' /\ after' \in [Jobs -> {"loop", "idle"}]
      /\ \A k \in Jobs \ {j} : pc'[k] = pc[k] /\ after'[k] = after[k]
      /\ pc'[j] \in {"loop", "closing", "sleep"}
      /\ pc'[j] = "loop" => queue'[j] = <<>>
      /\ pc'[j] = "closing" => after'[j] = "loop"
  BY <1>2, <1>5, ProceedStep
<1>7. /\ added' \in [Jobs -> SUBSET Candidates] /\ added'[j] \subseteq added[j] \cup {c}
      /\ \A k \in Jobs \ {j} : added'[k] = added[k]
  <2>1. CASE UNCHANGED added
    BY <1>2, <2>1 DEF TypeOK
  <2>2. CASE added' = [added EXCEPT ![j] = @ \cup {c}]
    BY <1>2, <1>5, <2>2 DEF TypeOK
  <2> QED BY <1>2, <2>1, <2>2
<1>8. TypeOK'
  <2>1. JobTypes' /\ LocalTypes' /\ HistoryTypes'
    BY <1>2, <1>5, <1>6, <1>7 DEF TypeOK, JobTypes, LocalTypes, HistoryTypes
  <2> QED BY <1>2, <1>6, <2>1, SameTypes, FaultType, Types
<1>9. Sound(j)'
  <2>1. Placed(j)' /\ Fit(j)'
    BY <1>2, <1>4, <1>6
       DEF Sound, Placed, Fit, Working, Using, Holding, sessVars
  <2>2. added'[j] \ lost'[j] \subseteq Candidates \ Eligible(j)'
    BY <1>2, <1>5, <1>7 DEF Sound, Queued
  <2> QED BY <1>5, <1>6, <2>1, <2>2 DEF Sound, Queued
<1>10. QuotaKept'
  <2>1. \A x \in Sessions : usage'[x] <= usage[x]
    BY <1>2, SameUsage DEF sessVars
  <2> QED BY <1>2, <1>8, <2>1, QuotaStays
<1>11. \A k \in Jobs \ {j} : SameRun(k)
  BY <1>2, <1>5, <1>6, <1>7 DEF SameRun
<1> QED BY <1>2, <1>4, <1>6, <1>8, <1>9, <1>10, <1>11, OwnSessionStep DEF Holding, sessVars

LEMMA LeaveOutType ==
    ASSUME TypeOK, NEW j \in Jobs, NEW s \in Sessions, NEW why \in {"target", "peer"},
           LeaveOut(j, why, s)
    PROVE  out' \in [Jobs -> [target : SUBSET Sessions, peer : SUBSET Sessions]]
<1> DEFINE Left == [target : SUBSET Sessions, peer : SUBSET Sessions]
<1>1. out[j] \in Left /\ out \in [Jobs -> Left]
  BY DEF TypeOK
<1>2. PICK r : r = [out[j] EXCEPT ![why] = @ \cup {s}]
  OBVIOUS
<1>3. r \in Left
  BY <1>1, <1>2
<1>4. out' = [out EXCEPT ![j] = r]
  BY <1>2 DEF LeaveOut
<1> HIDE DEF Left
<1>5. out' \in [Jobs -> Left]
  BY <1>1, <1>3, <1>4
<1> QED BY <1>5 DEF Left

LEMMA SessionFailsStep == ASSUME IInv, NEW j \in Jobs, SessionFails(j) PROVE IInv'
<1>1. PICK s : s = at[j]
  OBVIOUS
<1>2. PICK q : q = Defer(queue[j])
  OBVIOUS
<1>3. /\ TypeOK /\ Sound(j) /\ pc[j] = "request" /\ Fault /\ CloseThen(j, "loop")
      /\ UNCHANGED <<jobVars, lockVars, at, used, done, last, preferred, history>>
      /\ MarkFlood(s) \/ MarkPeer(s) \/ UNCHANGED sessVars
      /\ UNCHANGED out \/ (\E why \in {"target", "peer"} : LeaveOut(j, why, s))
      /\ UNCHANGED queue \/ queue' = [queue EXCEPT ![j] = q]
  BY <1>1, <1>2 DEF IInv, SessionFails
<1>4. s \in Sessions /\ s # NoSession /\ Enumerates(queue[j], Eligible(j)) /\ queue[j] # <<>>
  BY <1>1, <1>3, NoSessionAssumption DEF Sound, Placed, Queued, Running
<1>5. Enumerates(q, Eligible(j)) /\ q \in Seq(Candidates)
  <2>1. Enumerates(q, Eligible(j)) /\ Eligible(j) \subseteq Candidates
    BY <1>2, <1>4, DeferEnumerates DEF Eligible
  <2> QED BY <2>1, SeqMonotonic DEF Enumerates
<1>6. /\ queue' \in [Jobs -> Seq(Candidates)] /\ Enumerates(queue'[j], Eligible(j))
      /\ \A k \in Jobs \ {j} : queue'[k] = queue[k]
  <2>1. CASE UNCHANGED queue
    BY <1>3, <1>4, <2>1 DEF TypeOK
  <2>2. CASE queue' = [queue EXCEPT ![j] = q]
    BY <1>3, <1>5, <2>2, JobLocals
  <2> QED BY <1>3, <2>1, <2>2
<1>7. Eligible(j)' = Eligible(j)
  BY <1>3 DEF Eligible, jobVars
<1>8. PlaceTypes' /\ pc'[j] = "closing" /\ \A k \in Jobs \ {j} : pc'[k] = pc[k]
  BY <1>3, Going DEF CloseThen, Places
<1>9. /\ after' \in [Jobs -> {"loop", "idle"}] /\ after'[j] = "loop"
      /\ \A k \in Jobs \ {j} : after'[k] = after[k]
  BY <1>3 DEF CloseThen, TypeOK
<1>10. /\ SessTypes' /\ usage' = usage
       /\ \A x \in Sessions \ {s} : status'[x] = status[x]
  <2>1. CASE UNCHANGED sessVars
    BY <1>3, <2>1, SameTypes DEF sessVars
  <2>2. CASE MarkFlood(s) \/ MarkPeer(s)
    BY <1>3, <1>4, <2>2, MarkTypes
  <2> QED BY <1>3, <2>1, <2>2
<1>11. TypeOK'
  <2>1. out' \in [Jobs -> [target : SUBSET Sessions, peer : SUBSET Sessions]]
    <3>1. CASE UNCHANGED out
      BY <1>3, <3>1 DEF TypeOK
    <3> QED BY <1>3, <1>4, <3>1, LeaveOutType
  <2>2. LocalTypes'
    BY <1>3, <1>6, <1>9, <2>1 DEF TypeOK, LocalTypes
  <2> QED BY <1>3, <1>8, <1>10, <2>2, SameTypes, FaultType, Types
<1>12. Sound(j)'
  <2>1. Placed(j)' /\ Fit(j)'
    BY <1>1, <1>3, <1>4, <1>8, <1>10
       DEF Sound, Placed, Fit, Working, Using, Holding, history
  <2> QED BY <1>3, <1>6, <1>7, <1>8, <2>1 DEF Sound, Queued, history
<1>13. QuotaKept'
  <2>1. \A x \in Sessions : usage'[x] <= usage[x]
    BY <1>3, <1>10, SameUsage
  <2> QED BY <1>3, <1>11, <2>1, QuotaStays DEF history
<1>14. \A k \in Jobs \ {j} : SameRun(k)
  BY <1>3, <1>6, <1>8, <1>9 DEF SameRun, jobVars, history
<1> QED BY <1>1, <1>3, <1>4, <1>8, <1>10, <1>11, <1>12, <1>13, <1>14, OwnSessionStep
        DEF Holding, history

-----------------------------------------------------------------------------
(* Opening a session.                                                      *)

LEMMA OpenedStep == ASSUME IInv, NEW j \in Jobs, Opened(j) PROVE IInv'
<1>1. PICK s : s = at[j]
  OBVIOUS
<1>2. /\ TypeOK /\ Sound(j) /\ pc[j] = "opening" /\ ProxyWorks(s) /\ Goto(j, "try")
      /\ last' = [last EXCEPT ![j] = s] /\ home' = [home EXCEPT ![j] = s]
      /\ jstatus' = [jstatus EXCEPT ![j] = "running"]
      /\ UNCHANGED <<cand, lockVars, queue, at, used, done, preferred, out, after, history,
                     faults>>
  BY <1>1 DEF IInv, Opened
<1>3. s \in Sessions /\ s # NoSession
  BY <1>1, <1>2, NoSessionAssumption DEF Sound, Placed
<1>4. PlaceTypes' /\ pc'[j] = "try" /\ \A k \in Jobs \ {j} : pc'[k] = pc[k]
  BY <1>2, Going DEF Places
<1>5. /\ SessTypes' /\ usage' = usage
      /\ \A x \in Sessions \ {s} : status'[x] = status[x]
      /\ status'[s] \in Waiting => status[s] \in Waiting
  BY <1>2, <1>3, MarkTypes
<1>6. TypeOK'
  <2>1. JobTypes' /\ LocalTypes'
    BY <1>2, <1>3 DEF TypeOK, JobTypes, LocalTypes, JobStatuses
  <2> QED BY <1>2, <1>4, <1>5, <2>1, SameTypes, Types
<1>7. Eligible(j)' = Eligible(j)
  BY <1>2 DEF Eligible
<1>8. Sound(j)'
  <2>1. Placed(j)' /\ Queued(j)'
    BY <1>1, <1>2, <1>3, <1>4, <1>7 DEF Sound, Placed, Queued, Running, history
  <2>2. Fit(j)'
    BY <1>1, <1>2, <1>3, <1>4, <1>5 DEF Sound, Fit, Working, Using, Holding, history
  <2> QED BY <2>1, <2>2 DEF Sound
<1>9. QuotaKept'
  <2>1. \A x \in Sessions : usage'[x] <= usage[x]
    BY <1>2, <1>5, SameUsage
  <2> QED BY <1>2, <1>6, <2>1, QuotaStays DEF history
<1>10. \A k \in Jobs \ {j} : SameRun(k)
  BY <1>2, <1>4 DEF SameRun, history
<1> QED BY <1>1, <1>2, <1>3, <1>4, <1>5, <1>6, <1>8, <1>9, <1>10, OwnSessionStep
        DEF Holding, history

LEMMA OpenFailsStep == ASSUME IInv, NEW j \in Jobs, OpenFails(j) PROVE IInv'
<1>1. PICK s : s = at[j]
  OBVIOUS
<1>2. /\ TypeOK /\ Sound(j) /\ pc[j] = "opening" /\ Fault /\ Release(s) /\ ForgetContext({j})
      /\ UNCHANGED <<home, cand, line, history>>
      /\ MarkFlood(s) \/ MarkPeer(s) \/ MarkProxy(s) \/ ProxyWorks(s)
  BY <1>1 DEF IInv, OpenFails
<1>3. s \in Sessions /\ s # NoSession /\ Enumerates(queue[j], Eligible(j))
  BY <1>1, <1>2, NoSessionAssumption DEF Sound, Placed, Queued, Running
<1>4. /\ SessTypes' /\ usage' = usage
      /\ \A x \in Sessions \ {s} : status'[x] = status[x]
  BY <1>2, <1>3, MarkTypes
<1>5. ContextTypes' /\ LockTypes' /\ HistoryTypes' /\ FaultTypes'
  BY <1>2, <1>3, ContextForgotten, ReleaseType, SameTypes, FaultType
<1>6. CASE /\ UNCHANGED out \/ (\E why \in {"target", "peer"} : LeaveOut(j, why, s))
           /\ last' = [last EXCEPT ![j] = s] /\ Goto(j, "loop")
           /\ UNCHANGED <<jstatus, queue, preferred, after>>
  <2>1. PlaceTypes' /\ pc'[j] = "loop" /\ \A k \in Jobs \ {j} : pc'[k] = pc[k]
    BY <1>2, <1>6, Going DEF Places
  <2>2. out' \in [Jobs -> [target : SUBSET Sessions, peer : SUBSET Sessions]]
    <3>1. CASE UNCHANGED out
      BY <1>2, <3>1 DEF TypeOK
    <3> QED BY <1>2, <1>3, <1>6, <3>1, LeaveOutType
  <2>3. JobTypes' /\ LocalTypes'
    BY <1>2, <1>3, <1>6, <2>2 DEF TypeOK, JobTypes, LocalTypes
  <2>4. TypeOK'
    BY <1>4, <1>5, <2>1, <2>3, Types
  <2> QED BY <1>1, <1>2, <1>3, <1>4, <1>6, <2>1, <2>4, LeasedStep DEF Holding
<1>7. CASE jstatus' = [jstatus EXCEPT ![j] = "failed"] /\ Goto(j, "idle") /\ Forget({j})
  <2>1. PlaceTypes' /\ pc'[j] = "idle" /\ \A k \in Jobs \ {j} : pc'[k] = pc[k]
    BY <1>2, <1>7, Going DEF Places
  <2>2. /\ LocalTypes'
        /\ \A k \in Jobs \ {j} : queue'[k] = queue[k] /\ after'[k] = after[k]
    BY <1>2, <1>7, Forgotten
  <2>3. JobTypes'
    BY <1>2, <1>7, StatusType DEF JobStatuses
  <2>4. TypeOK'
    BY <1>4, <1>5, <2>1, <2>2, <2>3, Types
  <2> QED BY <1>1, <1>2, <1>3, <1>4, <2>1, <2>2, <2>4, LeasedStep DEF Holding
<1>8. \/ /\ UNCHANGED out \/ (\E why \in {"target", "peer"} : LeaveOut(j, why, s))
         /\ last' = [last EXCEPT ![j] = s] /\ Goto(j, "loop")
         /\ UNCHANGED <<jstatus, queue, preferred, after>>
      \/ jstatus' = [jstatus EXCEPT ![j] = "failed"] /\ Goto(j, "idle") /\ Forget({j})
  BY <1>1 DEF OpenFails
<1> QED BY <1>6, <1>7, <1>8

-----------------------------------------------------------------------------
(* Selecting a session.                                                    *)

\* What the selector makes of a row: a wait that is over is written back.
LEMMA RefreshedRow ==
    ASSUME TypeOK, NEW s \in Sessions
    PROVE  /\ Refreshed(RowOf(s), 0).status \in Statuses
           /\ Refreshed(RowOf(s), 0).status \in Waiting => status[s] \in Waiting
           /\ Refreshed(RowOf(s), 0).successes \in Nat
           /\ Refreshed(RowOf(s), 0).count = usage[s]
           /\ Refreshed(RowOf(s), 0).locked = (owner[s] # Nobody)
<1> DEFINE r == RowOf(s)
<1>1. /\ r.status = status[s] /\ r.successes = successes[s] /\ r.count = usage[s]
      /\ r.locked = (owner[s] # Nobody) /\ status[s] \in Statuses /\ successes[s] \in Nat
  BY DEF RowOf, TypeOK
<1>2. DOMAIN r = {"data", "status", "until", "successes", "count", "proxyOn", "proxyFailed",
                  "locked"}
  BY DEF RowOf
<1> HIDE DEF r
<1>3. CASE ~Expired(r, 0)
  BY <1>1, <1>3 DEF Refreshed, r
<1>4. CASE Expired(r, 0)
  <2>1. Refreshed(r, 0) = [r EXCEPT !.status = "active", !.until = NoTime,
                                    !.successes = IF r.status = "batch_wait" THEN 0 ELSE @]
    BY <1>4 DEF Refreshed
  <2>2. /\ Refreshed(r, 0).status = "active" /\ Refreshed(r, 0).count = r.count
        /\ Refreshed(r, 0).locked = r.locked
        /\ Refreshed(r, 0).successes \in {0, r.successes}
    BY <1>2, <2>1
  <2> QED BY <1>1, <2>2 DEF Statuses, Waiting, r
<1> QED BY <1>3, <1>4

\* It clears the count of a session whose rest is over, and no other.
LEMMA RefreshedCount ==
    ASSUME TypeOK, NEW s \in Sessions
    PROVE  /\ Refreshed(RowOf(s), 0).successes \in {0, successes[s]}
           /\ status[s] \notin Waiting => Refreshed(RowOf(s), 0).successes = successes[s]
<1>1. PICK r : r = RowOf(s)
  OBVIOUS
<1>2. r.status = status[s] /\ r.successes = successes[s]
  BY <1>1 DEF RowOf
<1>3. DOMAIN r = {"data", "status", "until", "successes", "count", "proxyOn", "proxyFailed",
                  "locked"}
  BY <1>1 DEF RowOf
<1>4. CASE ~Expired(r, 0)
  BY <1>1, <1>2, <1>4 DEF Refreshed
<1>5. CASE Expired(r, 0)
  <2>1. Refreshed(r, 0) = [r EXCEPT !.status = "active", !.until = NoTime,
                                    !.successes = IF r.status = "batch_wait" THEN 0 ELSE @]
    BY <1>5 DEF Refreshed
  <2>2. Refreshed(r, 0).successes \in {0, r.successes}
    BY <1>3, <2>1
  <2>3. status[s] \in Waiting
    BY <1>2, <1>5 DEF Expired, Waiting
  <2> QED BY <1>1, <1>2, <2>2, <2>3
<1> QED BY <1>4, <1>5

\* A session that is returned is free, neither waits nor is used up.
LEMMA Selected ==
    ASSUME TypeOK, NEW j \in Jobs, NEW choice, choice = SelectFor(j)
    PROVE  /\ \A s \in Sessions :
                 /\ choice.rows[s].status \in Statuses /\ choice.rows[s].successes \in Nat
                 /\ choice.rows[s].status \in Waiting => status[s] \in Waiting
           /\ choice.session # NoSession =>
                 LET s == choice.session
                 IN  /\ s \in Sessions /\ choice.rows[s].status \notin Waiting
                     /\ owner[s] = Nobody /\ (Quota > 0 => usage[s] < Quota)
<1> DEFINE joined == [s \in Sessions |-> RowOf(s)]
           excl == out[j].target \cup out[j].peer
           fresh == [s \in Sessions |-> Refreshed(joined[s], 0)]
           live == {s \in Sessions : ~Rejected(fresh[s], s \in excl)}
           Block(s) == Blockers(fresh[s], 0, Quota, 1)
           available == {s \in live : Block(s) = {}}
<1>1. /\ choice.rows = fresh
      /\ choice.session = IF available = {} THEN NoSession
                          ELSE Rotate(available, last[j], preferred[j])
  BY DEF SelectFor, Select
<1>2. ASSUME NEW s \in Sessions
      PROVE  /\ fresh[s].status \in Statuses /\ fresh[s].successes \in Nat
             /\ fresh[s].status \in Waiting => status[s] \in Waiting
             /\ fresh[s].count = usage[s] /\ fresh[s].locked = (owner[s] # Nobody)
  BY RefreshedRow
<1> HIDE DEF joined, fresh
<1>3. ASSUME NEW s \in available
      PROVE  /\ s \in Sessions /\ fresh[s].status \notin Waiting
             /\ owner[s] = Nobody /\ (Quota > 0 => usage[s] < Quota)
  <2>1. /\ s \in Sessions /\ ~Rejected(fresh[s], s \in excl)
        /\ ~Waits(fresh[s]) /\ ~Full(fresh[s], Quota) /\ ~fresh[s].locked
    BY <1>3 DEF Blockers
  <2>2. fresh[s].status \notin Waiting
    BY <2>1 DEF Rejected, Waiting
  <2>3. owner[s] = Nobody
    BY <1>2, <2>1
  <2>4. Quota > 0 => usage[s] < Quota
    <3>1. usage[s] \in Nat /\ Quota \in Nat
      BY <2>1, LimitsAssumption DEF TypeOK
    <3> QED BY <1>2, <2>1, <3>1 DEF Full
  <2> QED BY <2>1, <2>2, <2>3, <2>4
<1>4. ASSUME available # {} PROVE Rotate(available, last[j], preferred[j]) \in available
  <2>1. available \in SUBSET Nat
    BY SessionsAssumption
  <2> HIDE DEF available
  <2> DEFINE later == {s \in available : s > last[j]}
  <2>2. Min(available) \in available /\ (later # {} => Min(later) \in available)
    BY <1>4, <2>1, Least
  <2> QED BY <2>2 DEF Rotate
<1> QED BY <1>1, <1>2, <1>3, <1>4

\* The selector writes to many rows, and does no harm to whoever uses them.
LEMMA SelectSessionStep ==
    ASSUME IInv, NEW j \in Jobs, pc[j] = "loop", queue[j] # <<>>, at[j] = NoSession,
           SelectSession(j)
    PROVE  IInv'
<1>1. PICK choice : choice = SelectFor(j)
  OBVIOUS
<1>2. /\ TypeOK /\ Sound(j) /\ LeaseKept /\ Lined /\ Once
      /\ status' = [s \in Sessions |-> choice.rows[s].status]
      /\ successes' = [s \in Sessions |-> choice.rows[s].successes]
      /\ RunOutOfSessions(j, choice) \/ TakeSession(j, choice)
      /\ UNCHANGED <<home, cand, proxyFailed, usage, floodRuns, restRuns, history, faults>>
  BY <1>1 DEF IInv, Leases, SelectSession, WriteBack
<1>3. \A s \in Sessions : /\ choice.rows[s].status \in Statuses /\ choice.rows[s].successes \in Nat
                          /\ choice.rows[s].status \in Waiting => status[s] \in Waiting
  BY <1>1, <1>2, Selected
<1>4. SessTypes'
  <2>1. status' \in [Sessions -> Statuses] /\ successes' \in [Sessions -> Nat]
    BY <1>2, <1>3
  <2> QED BY <1>2, <2>1, Zenon DEF TypeOK, SessTypes
<1>5. /\ \A x \in Sessions : usage'[x] <= usage[x]
      /\ \A x \in Sessions : Kind(x)
  <2>1. \A x \in Sessions : usage'[x] <= usage[x]
    BY <1>2, SameUsage
  <2> QED BY <1>2, <1>3, <2>1 DEF Kind
<1>6. Eligible(j)' = Eligible(j) /\ FaultTypes' /\ HistoryTypes'
  BY <1>2, SameTypes DEF Eligible
<1>7. CASE RunOutOfSessions(j, choice)
  <2>1. PICK st \in JobStatuses : jstatus' = [jstatus EXCEPT ![j] = st]
    BY <1>7 DEF RunOutOfSessions, StatusWithoutSession, JobStatuses
  <2>2. Goto(j, "idle") /\ Forget({j}) /\ UNCHANGED <<at, used, done, lockVars>>
    BY <1>7 DEF RunOutOfSessions
  <2>3. PlaceTypes' /\ pc'[j] = "idle" /\ \A k \in Jobs \ {j} : pc'[k] = pc[k]
    BY <1>2, <2>2, Going DEF Places
  <2>4. LocalTypes' /\ \A k \in Jobs \ {j} : queue'[k] = queue[k] /\ after'[k] = after[k]
    BY <1>2, <2>2, Forgotten
  <2>5. TypeOK'
    <3>1. JobTypes' /\ ContextTypes' /\ LockTypes'
      BY <1>2, <2>1, <2>2, StatusType, SameTypes
    <3> QED BY <1>4, <1>6, <2>3, <2>4, <3>1, Types
  <2>6. Local({j})
    BY <1>2, <1>5, <2>2, <2>3, <2>4, <2>5 DEF Local, SameRun, history
  <2>7. Leases'
    BY <2>2, <2>3, KeepLease DEF Places
  <2>8. QuotaKept'
    BY <1>2, <1>5, <2>5, QuotaStays DEF history
  <2>9. Sound(j)'
    BY <1>2, <1>6, <2>2, <2>3, IdleSound DEF Sound, Queued, history
  <2> QED BY <2>6, <2>7, <2>8, <2>9, LocalStep
<1>8. CASE TakeSession(j, choice)
  <2>1. PICK s : s = choice.session
    OBVIOUS
  <2>2. /\ s # NoSession /\ at' = [at EXCEPT ![j] = s]
        /\ used' = [used EXCEPT ![j] = usage[s]]
        /\ done' = [done EXCEPT ![j] = choice.rows[s].successes]
        /\ preferred' = [preferred EXCEPT ![j] = NoSession]
        /\ UNCHANGED <<jstatus, queue, last, out, after>>
    BY <1>8, <2>1 DEF TakeSession
  <2>3. /\ s \in Sessions /\ status'[s] \notin Waiting
        /\ owner[s] = Nobody /\ (Quota > 0 => usage[s] < Quota)
    BY <1>1, <1>2, <2>1, <2>2, Selected
  <2>4. JobTypes' /\ ContextTypes' /\ LocalTypes'
    BY <1>2, <1>3, <2>2, <2>3 DEF TypeOK, JobTypes, ContextTypes, LocalTypes
  <2>5. /\ at'[j] = s /\ used'[j] = usage[s] /\ usage'[s] = usage[s] /\ usage[s] \in Nat
        /\ \A k \in Jobs \ {j} : at'[k] = at[k] /\ used'[k] = used[k]
    BY <1>2, <2>2, <2>3 DEF TypeOK
  <2>6. \A k \in Jobs : at[k] = s => pc[k] \notin Holding
    BY <1>2, <2>3, JobsAssumption DEF LeaseKept, Holding
  <2>7. ~InLine(j, s)
    BY <1>2, <2>3, NoSessionAssumption DEF Lined
  <2>8. CASE line[s] = <<>> /\ owner' = [owner EXCEPT ![s] = j] /\ Goto(j, "opening")
             /\ UNCHANGED line
    <3>1. PlaceTypes' /\ pc'[j] = "opening" /\ \A k \in Jobs \ {j} : pc'[k] = pc[k]
      BY <1>2, <2>8, Going DEF Places
    <3>2. owner' \in [Sessions -> Jobs \cup {Other, Nobody}]
      BY <1>2, <2>8 DEF TypeOK
    <3>3. TypeOK'
      <4>1. LockTypes'
        BY <1>2, <2>8, <3>2 DEF TypeOK, LockTypes
      <4> QED BY <1>4, <1>6, <2>4, <3>1, <4>1, Types
    <3>4. LeaseKept'
      <4> SUFFICES ASSUME NEW k \in Jobs, NEW x \in Sessions
                   PROVE  owner'[x] = k <=> at'[k] = x /\ pc'[k] \in Holding
        BY DEF LeaseKept, Holding
      <4>1. owner[x] = k <=> at[k] = x /\ pc[k] \in Holding
        BY <1>2 DEF LeaseKept, Holding
      <4>2. owner'[x] = IF x = s THEN j ELSE owner[x]
        BY <1>2, <2>8 DEF TypeOK
      <4> QED BY <2>3, <2>5, <2>6, <3>1, <4>1, <4>2, NoSessionAssumption DEF Holding
    <3>5. Lined'
      <4> SUFFICES ASSUME NEW k \in Jobs, NEW x \in Sessions
                   PROVE  InLine(k, x)' <=> at'[k] = x /\ pc'[k] = "lined"
        BY DEF Lined
      <4>1. InLine(k, x)' <=> at[k] = x /\ pc[k] = "lined"
        BY <1>2, <2>8 DEF Lined, InLine
      <4> QED BY <2>5, <3>1, <4>1
    <3>6. Once'
      BY <1>2, <2>8 DEF Once
    <3>7. Local({j})
      BY <1>2, <1>5, <2>2, <2>5, <3>1, <3>3 DEF Local, SameRun, history
    <3>8. QuotaKept'
      BY <1>2, <1>5, <3>3, QuotaStays DEF history
    <3>9. Sound(j)'
      BY <1>2, <1>6, <2>2, <2>3, <2>5, <3>1
         DEF Sound, Placed, Queued, Fit, Running, Working, Using, Holding, history
    <3> QED BY <3>4, <3>5, <3>6, <3>7, <3>8, <3>9, LocalStep DEF Leases
  <2>9. CASE line' = [line EXCEPT ![s] = Append(@, j)] /\ Goto(j, "lined") /\ UNCHANGED owner
    <3>1. PlaceTypes' /\ pc'[j] = "lined" /\ \A k \in Jobs \ {j} : pc'[k] = pc[k]
      BY <1>2, <2>9, Going DEF Places
    <3>2. /\ line' \in [Sessions -> Seq(Jobs \cup {Other})] /\ Once'
          /\ \A k \in Jobs, x \in Sessions :
                InLine(k, x)' <=> InLine(k, x) \/ (k = j /\ x = s)
      BY <1>2, <2>3, <2>7, <2>9, Joining
    <3>3. TypeOK'
      <4>1. LockTypes'
        BY <1>2, <2>9, <3>2 DEF TypeOK, LockTypes
      <4> QED BY <1>4, <1>6, <2>4, <3>1, <4>1, Types
    <3>4. LeaseKept'
      <4> SUFFICES ASSUME NEW k \in Jobs, NEW x \in Sessions
                   PROVE  owner[x] = k <=> at'[k] = x /\ pc'[k] \in Holding
        BY <2>9 DEF LeaseKept, Holding
      <4>1. owner[x] = k <=> at[k] = x /\ pc[k] \in Holding
        BY <1>2 DEF LeaseKept, Holding
      <4> QED BY <2>5, <3>1, <4>1, NoSessionAssumption DEF Holding
    <3>5. Lined'
      <4> SUFFICES ASSUME NEW k \in Jobs, NEW x \in Sessions
                   PROVE  InLine(k, x)' <=> at'[k] = x /\ pc'[k] = "lined"
        BY DEF Lined
      <4>1. InLine(k, x) <=> at[k] = x /\ pc[k] = "lined"
        BY <1>2 DEF Lined
      <4> QED BY <2>5, <3>1, <3>2, <4>1, NoSessionAssumption
    <3>6. Local({j})
      BY <1>2, <1>5, <2>2, <2>5, <3>1, <3>3 DEF Local, SameRun, history
    <3>7. QuotaKept'
      BY <1>2, <1>5, <3>3, QuotaStays DEF history
    <3>8. Sound(j)'
      BY <1>2, <1>6, <2>2, <2>3, <2>5, <3>1
         DEF Sound, Placed, Queued, Fit, Running, Working, Using, Holding, history
    <3> QED BY <3>2, <3>4, <3>5, <3>6, <3>7, <3>8, LocalStep DEF Leases
  <2> QED BY <1>8, <2>1, <2>8, <2>9 DEF TakeSession
<1> QED BY <1>2, <1>7, <1>8

LEMMA LoopStep == ASSUME IInv, NEW j \in Jobs, Loop(j) PROVE IInv'
<1>1. TypeOK /\ Sound(j) /\ pc[j] = "loop"
  BY DEF IInv, Loop
<1>2. CASE LeaveRun(j, "completed") \/ LeaveRun(j, "scheduled")
  BY <1>1, <1>2, LeaveRunStep DEF JobStatuses
<1>3. CASE /\ queue[j] # <<>> /\ at[j] # NoSession
           /\ Goto(j, "try")
           /\ UNCHANGED <<jobVars, sessVars, lockVars, queue, at, used, done, last,
                          preferred, out, after, history, faults>>
  <2>1. JobTypes' /\ LocalTypes' /\ cand' = cand /\ Eligible(j)' = Eligible(j)
    BY <1>1, <1>3, SameTypes DEF jobVars, Eligible
  <2>2. PlaceTypes' /\ pc'[j] = "try" /\ \A k \in Jobs \ {j} : pc'[k] = pc[k]
    BY <1>1, <1>3, Going DEF Places
  <2>3. at[j] \in Sessions
    BY <1>1, <1>3 DEF TypeOK
  <2>4. Sound(j)'
    BY <1>1, <1>3, <2>1, <2>2, <2>3
       DEF Sound, Placed, Queued, Fit, Running, Working, Using, Holding, sessVars, history
  <2> QED BY <1>1, <1>3, <2>1, <2>2, <2>4, MoveStep DEF Holding
<1>4. CASE queue[j] # <<>> /\ at[j] = NoSession /\ SelectSession(j)
  BY <1>1, <1>4, SelectSessionStep
<1> QED BY <1>2, <1>3, <1>4 DEF Loop

-----------------------------------------------------------------------------
(* Restart.                                                                *)

\* What the answer of a request would have recorded counts as lost.
LEMMA RestartStep == ASSUME IInv, Restart PROVE IInv'
<1>1. /\ TypeOK /\ Fault /\ Forget(Jobs) /\ ForgetContext(Jobs)
      /\ pc' = [j \in Jobs |-> "idle"] /\ owner' = [s \in Sessions |-> Nobody]
      /\ line' = [s \in Sessions |-> <<>>]
      /\ jstatus' = [j \in Jobs |-> IF jstatus[j] \in {"running", "queued_execution"}
                                    THEN "approved" ELSE jstatus[j]]
      /\ UNCHANGED <<home, cand, sessVars, stale>>
  BY DEF IInv, Restart
<1>2. PICK reached \in SUBSET {j \in Jobs : pc[j] = "request"} :
        LET them(j) == IF j \in reached THEN {Head(queue[j])} ELSE {}
        IN  /\ added' = [j \in Jobs |-> added[j] \cup them(j)]
            /\ lost' = [j \in Jobs |-> lost[j] \cup them(j)]
  BY DEF Restart
<1> DEFINE them(j) == IF j \in reached THEN {Head(queue[j])} ELSE {}
<1>3. ASSUME NEW j \in Jobs PROVE them(j) \subseteq Candidates
  <2> SUFFICES ASSUME j \in reached PROVE Head(queue[j]) \in Candidates
    OBVIOUS
  <2>1. queue[j] \in Seq(Candidates) /\ queue[j] # <<>>
    BY <1>1 DEF IInv, TypeOK, Sound, Queued
  <2> QED BY <2>1, HeadTailProperties
<1> HIDE DEF them
<1>4. /\ added' = [j \in Jobs |-> added[j] \cup them(j)]
      /\ lost' = [j \in Jobs |-> lost[j] \cup them(j)]
  BY <1>2 DEF them
<1>5. HistoryTypes'
  BY <1>1, <1>3, <1>4 DEF TypeOK, HistoryTypes
<1>6. TypeOK'
  <2>1. jstatus' \in [Jobs -> JobStatuses]
    BY <1>1 DEF TypeOK, JobStatuses
  <2>2. JobTypes' /\ PlaceTypes'
    BY <1>1, <2>1 DEF TypeOK, JobTypes, PlaceTypes, Places
  <2>3. LockTypes'
    BY <1>1, EmptySeq DEF LockTypes
  <2>4. LocalTypes' /\ ContextTypes'
    BY <1>1, Forgotten, ContextForgotten
  <2> QED BY <1>1, <1>5, <2>2, <2>3, <2>4, SameTypes, FaultType, Types
<1>7. \A j \in Jobs : pc'[j] = "idle" /\ at'[j] = NoSession
  BY <1>1, ContextForgotten
<1>8. Leases'
  <2>1. LeaseKept'
    BY <1>1, <1>7, JobsAssumption DEF LeaseKept
  <2>2. Lined' /\ Once'
    BY <1>1, <1>7, EmptySeq DEF Lined, Once, InLine
  <2> QED BY <2>1, <2>2 DEF Leases
<1>9. ASSUME NEW j \in Jobs PROVE Sound(j)'
  <2>1. Eligible(j)' = Eligible(j) /\ added[j] \ lost[j] \subseteq Candidates \ Eligible(j)
    BY <1>1 DEF IInv, Sound, Queued, Eligible
  <2>2. added'[j] \ lost'[j] \subseteq Candidates \ Eligible(j)'
    BY <1>4, <2>1
  <2> QED BY <1>7, <2>2, IdleSound
<1>10. QuotaKept'
  <2>1. \A x \in Sessions : usage'[x] <= usage[x]
    BY <1>1, SameUsage DEF sessVars
  <2> QED BY <1>1, <1>6, <2>1, QuotaStays
<1> QED BY <1>6, <1>8, <1>9, <1>10 DEF IInv

-----------------------------------------------------------------------------
(* The induction.                                                          *)

LEMMA InitTypes == Init => TypeOK
<1> SUFFICES ASSUME Init PROVE TypeOK
  OBVIOUS
<1>1. JobTypes
  <2>1. Min(Sessions) \in Sessions
    BY Least, SessionsAssumption
  <2> QED BY <2>1 DEF Init, InitRest, JobTypes, JobStatuses, CandidateStatuses
<1>2. SessTypes
  <2>1. proxyFailed \in [Sessions -> BOOLEAN]
    BY Zenon DEF Init, InitRest
  <2>2. floodRuns \in [Sessions -> BOOLEAN] /\ restRuns \in [Sessions -> BOOLEAN]
    BY Zenon DEF Init, InitRest
  <2>3. status \in [Sessions -> Statuses]
    BY DEF Init, InitRest, Statuses
  <2>4. successes \in [Sessions -> Nat] /\ usage \in [Sessions -> Nat]
    BY DEF Init, InitRest
  <2> QED BY <2>1, <2>2, <2>3, <2>4, Zenon DEF SessTypes
<1>3. LockTypes
  <2>1. line \in [Sessions -> Seq(Jobs \cup {Other})]
    BY EmptySeq DEF Init, InitRest
  <2> QED BY <2>1 DEF Init, InitRest, LockTypes
<1>4. LocalTypes
  <2>1. queue \in [Jobs -> Seq(Candidates)]
    BY EmptySeq DEF Init, InitRest
  <2>2. out \in [Jobs -> [target : SUBSET Sessions, peer : SUBSET Sessions]]
    BY DEF Init, InitRest, NoRun
  <2> QED BY <2>1, <2>2 DEF Init, InitRest, LocalTypes
<1>5. ContextTypes /\ PlaceTypes /\ HistoryTypes
  BY DEF Init, InitRest, ContextTypes, PlaceTypes, Places, HistoryTypes
<1>6. FaultTypes
  BY LimitsAssumption DEF Init, FaultTypes
<1> QED BY <1>1, <1>2, <1>3, <1>4, <1>5, <1>6, Types

LEMMA InitInv == Init => IInv
<1> SUFFICES ASSUME Init PROVE IInv
  OBVIOUS
<1>1. /\ \A j \in Jobs : pc[j] = "idle" /\ at[j] = NoSession /\ added[j] = {}
      /\ \A s \in Sessions : owner[s] = Nobody /\ line[s] = <<>> /\ usage[s] = 0
  BY DEF Init, InitRest
<1>2. LeaseKept
  BY <1>1, JobsAssumption DEF LeaseKept
<1>3. Lined /\ Once
  BY <1>1, EmptySeq DEF Lined, Once, InLine
<1>4. QuotaKept
  BY <1>1, LimitsAssumption DEF QuotaKept
<1>5. ASSUME NEW j \in Jobs PROVE Sound(j)
  BY <1>1, NoSessionAssumption
     DEF Sound, Placed, Queued, Fit, Running, Working, Using, Holding
<1> QED BY <1>2, <1>3, <1>4, <1>5, InitTypes DEF IInv, Leases

LEMMA RunStep == ASSUME IInv, NEW j \in Jobs, Run(j) PROVE IInv'
<1>1. CASE Claim(j)
  BY <1>1, ClaimStep
<1>2. CASE Loop(j)
  BY <1>2, LoopStep
<1>3. CASE Opened(j) \/ OpenFails(j)
  BY <1>3, OpenedStep, OpenFailsStep
<1>4. CASE Try(j)
  BY <1>4, TryStep
<1>5. CASE Invited(j) \/ NotInvited(j) \/ SessionFails(j)
  BY <1>5, InvitedStep, NotInvitedStep, SessionFailsStep
<1>6. CASE Wake(j) \/ Close(j)
  BY <1>6, WakeStep, CloseStep
<1> QED BY <1>1, <1>2, <1>3, <1>4, <1>5, <1>6 DEF Run

LEMMA StutterStep == ASSUME IInv, UNCHANGED vars PROVE IInv'
<1>1. /\ UNCHANGED <<jobVars, sessVars, lockVars, runVars, history, faults>>
      /\ TypeOK
  BY DEF vars, IInv
<1>2. SessTypes' /\ LockTypes' /\ FaultTypes'
  BY <1>1, SameTypes
<1> QED BY <1>1, <1>2, SameLeases, SameUsage, WorldStep DEF sessVars

LEMMA NextInv == IInv /\ [Next]_vars => IInv'
<1> SUFFICES ASSUME IInv, [Next]_vars PROVE IInv'
  OBVIOUS
<1>1. ASSUME NEW j \in Jobs, Execute(j) \/ SchedulerStarts(j) \/ Run(j) PROVE IInv'
  BY <1>1, ExecuteStep, SchedulerStartsStep, RunStep
<1>2. ASSUME NEW s \in Sessions, Operate(s) PROVE IInv'
  BY <1>2, TurnStep, OtherEndsStep DEF Operate
<1>3. ASSUME NEW s \in Sessions, World(s) PROVE IInv'
  BY <1>3, OtherJoinsStep, OtherTakesStep, TestProxyStep, TimeStep DEF World
<1>4. CASE NewDay \/ Restart
  BY <1>4, TimeStep, RestartStep
<1>5. CASE UNCHANGED vars
  BY <1>5, StutterStep
<1> QED BY <1>1, <1>2, <1>3, <1>4, <1>5 DEF Next

-----------------------------------------------------------------------------
\* The invariant holds in every reachable state.
THEOREM Invariance == Spec => []IInv
BY InitInv, NextInv, PTL DEF Spec

\* The variables keep their types.
THEOREM TypeCorrect == Spec => []TypeOK
<1>1. IInv => TypeOK
  BY DEF IInv
<1> QED BY <1>1, Invariance, PTL

\* Every way out of execute_invite_job, failures during opening included, gives
\* the lease of its session back, and no job works with a session whose lease
\* another operation holds.
THEOREM Leaseholders == Spec => []LeaseKept
<1>1. IInv => LeaseKept
  BY DEF IInv, Leases
<1> QED BY <1>1, Invariance, PTL

\* The candidates execute_invite_job has in memory are those the table calls
\* eligible, each once, through any number of deferrals (_defer_invite_candidate)
\* and changes of session.
THEOREM QueueAgrees == Spec => []QueueMatchesTable
<1>1. IInv => QueueMatchesTable
  BY EnumeratesCounts DEF IInv, Sound, Queued, QueueMatchesTable
<1> QED BY <1>1, Invariance, PTL

\* Whom Telegram has added is never asked for again by any run of the job, unless
\* the process died before the answer was written.
THEOREM Remembered == Spec => []AddedIsRemembered
<1>1. IInv => AddedIsRemembered
  BY DEF IInv, Sound, Queued, AddedIsRemembered
<1> QED BY <1>1, Invariance, PTL

\* Any number of jobs keep the daily quota of the sessions they share, as long as
\* none has waited for a lease after it had read the count (telegram_service.py:1957).
THEOREM QuotaHolds == Spec => []QuotaKept
<1>1. IInv => QuotaKept
  BY DEF IInv
<1> QED BY <1>1, Invariance, PTL

\* A job that took its lease when it selected the session works with it only
\* while no FloodWait and no batch rest is recorded for it.
THEOREM RestKept == Spec => []NoUseWhileResting
<1>1. IInv => NoUseWhileResting
  BY DEF IInv, Sound, Fit, Working, Waiting, NoUseWhileResting
<1> QED BY <1>1, Invariance, PTL

-----------------------------------------------------------------------------
(* The leases are used as SessionMutex allows.                             *)

MutexTasks == {<<j>> : j \in Jobs} \cup {<<Other, s>> : s \in Sessions}

LEMMA HolderValues ==
    ASSUME TypeOK, NEW s \in Sessions
    PROVE  /\ owner[s] = Nobody <=> Holder(s) = <<>>
           /\ owner[s] = Other <=> Holder(s) = <<Other, s>>
           /\ owner[s] # Other => \A r : Holder(s) # <<Other, r>>
           /\ \A j \in Jobs : owner[s] = j <=> Holder(s) = <<j>>
<1>1. owner[s] \in Jobs \cup {Other, Nobody}
  BY DEF TypeOK
<1> QED BY <1>1, JobsAssumption DEF Holder

LEMMA HoldersKept == ASSUME owner' = owner PROVE Holders' = Holders
BY DEF Holders, Holder

\* A free lease goes to a job that has none, or to another operation.
LEMMA TakesFree ==
    ASSUME TypeOK, TypeOK', NEW s \in Sessions, NEW t \in Jobs \cup {Other},
           owner[s] = Nobody, owner' = [owner EXCEPT ![s] = t],
           t \in Jobs => \A r \in Sessions : owner[r] # t
    PROVE  Mutex!Next
<1> DEFINE held == IF t = Other THEN <<Other, s>> ELSE <<t>>
<1>1. \A r \in Sessions : owner'[r] = IF r = s THEN t ELSE owner[r]
  BY DEF TypeOK
<1>2. Holder(s)' = held
  BY <1>1, JobsAssumption DEF Holder
<1>3. ASSUME NEW r \in Sessions, r # s PROVE Holder(r)' = Holder(r)
  BY <1>1, <1>3 DEF Holder
<1>4. \A r \in Sessions : Holders[r] # held
  <2>1. ASSUME NEW r \in Sessions PROVE Holder(r) # held
    <3>1. CASE t \in Jobs
      BY <2>1, <3>1, HolderValues, JobsAssumption
    <3>2. CASE t = Other
      <4>1. owner[r] = Other => r # s
        BY JobsAssumption
      <4>2. owner[r] = Other => Holder(r) = <<Other, r>>
        BY HolderValues
      <4>3. owner[r] # Other => Holder(r) # <<Other, s>>
        BY HolderValues
      <4> QED BY <3>2, <4>1, <4>2, <4>3
    <3> QED BY <3>1, <3>2
  <2> QED BY <2>1 DEF Holders
<1>5. Holders[s] = <<>>
  BY HolderValues DEF Holders
<1> HIDE DEF held
<1>6. Holders' = [Holders EXCEPT ![s] = held]
  BY <1>2, <1>3 DEF Holders
<1>7. held \in MutexTasks
  BY DEF MutexTasks, held
<1> QED BY <1>4, <1>5, <1>6, <1>7 DEF Mutex!Grant, Mutex!Next, MutexTasks

LEMMA GivesBack ==
    ASSUME TypeOK, NEW s \in Sessions, owner[s] # Nobody, Release(s)
    PROVE  Mutex!Next
<1>1. \A r \in Sessions : owner'[r] = IF r = s THEN Nobody ELSE owner[r]
  BY DEF TypeOK, Release
<1>2. Holder(s)' = <<>>
  BY <1>1, JobsAssumption DEF Holder
<1>3. ASSUME NEW r \in Sessions, r # s PROVE Holder(r)' = Holder(r)
  BY <1>1, <1>3 DEF Holder
<1>4. Holders' = [Holders EXCEPT ![s] = <<>>]
  BY <1>2, <1>3 DEF Holders
<1>5. Holders[s] # <<>>
  BY HolderValues DEF Holders
<1> QED BY <1>4, <1>5 DEF Mutex!GiveBack, Mutex!Next

\* A job asks for a lease when it has selected a session, and has none then.
LEMMA LoopKeepsMutex ==
    ASSUME IInv, TypeOK', NEW j \in Jobs, Loop(j) PROVE [Mutex!Next]_Holders
<1>1. CASE owner' = owner
  BY <1>1, HoldersKept
<1>2. CASE at[j] = NoSession /\ SelectSession(j)
  <2>1. PICK choice : choice = SelectFor(j)
    OBVIOUS
  <2>2. RunOutOfSessions(j, choice) \/ TakeSession(j, choice)
    BY <1>2, <2>1 DEF SelectSession
  <2>3. CASE RunOutOfSessions(j, choice)
    BY <1>1, <2>3 DEF RunOutOfSessions, lockVars
  <2>4. CASE TakeSession(j, choice)
    <3> DEFINE s == choice.session
    <3>1. s # NoSession /\ (owner' = owner \/ owner' = [owner EXCEPT ![s] = j])
      BY <2>4 DEF TakeSession
    <3>2. s \in Sessions /\ owner[s] = Nobody
      BY <2>1, <3>1, Selected DEF IInv
    <3>3. \A r \in Sessions : owner[r] # j
      BY <1>2, NoSessionAssumption DEF IInv, Leases, LeaseKept
    <3> QED BY <1>1, <3>1, <3>2, <3>3, TakesFree DEF IInv
  <2> QED BY <2>2, <2>3, <2>4
<1>3. owner' = owner \/ (at[j] = NoSession /\ SelectSession(j))
  BY DEF Loop, LeaveRun, lockVars
<1> QED BY <1>1, <1>2, <1>3

LEMMA RunKeepsMutex ==
    ASSUME IInv, TypeOK', NEW j \in Jobs, Run(j) PROVE [Mutex!Next]_Holders
<1>1. CASE owner' = owner
  BY <1>1, HoldersKept
<1>2. CASE OpenFails(j) \/ Close(j)
  <2>1. pc[j] \in {"opening", "closing"} /\ Release(at[j])
    BY <1>2 DEF OpenFails, Close
  <2>2. at[j] \in Sessions /\ owner[at[j]] = j /\ j # Nobody
    BY <2>1, JobsAssumption DEF IInv, Sound, Placed, Leases, LeaseKept
  <2> QED BY <2>1, <2>2, GivesBack DEF IInv
<1>3. CASE Claim(j) \/ Opened(j) \/ Try(j) \/ Invited(j) \/ NotInvited(j) \/ SessionFails(j)
           \/ Wake(j)
  <2>1. owner' = owner
    BY <1>3, Zenon DEF Claim, Opened, Try, Invited, NotInvited, SessionFails, Wake, lockVars
  <2> QED BY <1>1, <2>1
<1> QED BY <1>2, <1>3, LoopKeepsMutex DEF Run

\* The next in line has no lease: a job waits in one line at a time and holds
\* nothing meanwhile.
LEMMA TurnKeepsMutex ==
    ASSUME IInv, TypeOK', NEW s \in Sessions, Turn(s) PROVE Mutex!Next
<1> DEFINE t == Head(line[s])
<1>1. /\ owner[s] = Nobody /\ line[s] # <<>> /\ owner' = [owner EXCEPT ![s] = t]
      /\ line[s] \in Seq(Jobs \cup {Other})
  BY DEF Turn, IInv, TypeOK
<1>2. t \in Jobs \cup {Other} /\ t = line[s][1] /\ 1 \in 1..Len(line[s])
  BY <1>1
<1>3. ASSUME t \in Jobs, NEW r \in Sessions PROVE owner[r] # t
  <2>1. InLine(t, s)
    BY <1>2 DEF InLine
  <2>2. pc[t] = "lined"
    BY <1>3, <2>1 DEF IInv, Leases, Lined
  <2> QED BY <1>3, <2>2 DEF IInv, Leases, LeaseKept
<1> QED BY <1>1, <1>2, <1>3, TakesFree DEF IInv

\* The executor, and whatever operates on the same sessions, takes and gives
\* back leases as session_operation.py lets them: nobody asks for a second
\* session while holding one, and none is taken away, however jobs wait in line,
\* fail to open, hand over and die.
THEOREM MutexRefined == Spec => Mutex!Spec
<1>1. Init => Mutex!Init
  BY JobsAssumption DEF Init, InitRest, Mutex!Init, Holders, Holder
<1>2. ASSUME IInv, IInv', [Next]_vars PROVE [Mutex!Next]_Holders
  <2>1. TypeOK /\ TypeOK'
    BY <1>2 DEF IInv
  <2>2. CASE owner' = owner
    BY <2>2, HoldersKept
  <2>3. ASSUME NEW j \in Jobs, Execute(j) \/ SchedulerStarts(j) PROVE owner' = owner
    BY <2>3, Zenon DEF Execute, SchedulerStarts, lockVars
  <2>4. ASSUME NEW s \in Sessions, OtherTakes(s) PROVE Mutex!Next
    BY <2>1, <2>4, JobsAssumption, TakesFree DEF OtherTakes
  <2>5. ASSUME NEW s \in Sessions, OtherEnds(s) PROVE Mutex!Next
    BY <2>1, <2>5, JobsAssumption, GivesBack DEF OtherEnds
  <2>6. ASSUME NEW s \in Sessions,
               OtherJoins(s) \/ TestProxy(s) \/ FloodEnds(s) \/ RestEnds(s)
        PROVE  owner' = owner
    BY <2>6, Zenon DEF OtherJoins, TestProxy, FloodEnds, RestEnds, lockVars
  <2>7. CASE NewDay \/ UNCHANGED vars
    <3>1. owner' = owner
      BY <2>7, Zenon DEF NewDay, vars, lockVars
    <3> QED BY <2>2, <3>1
  <2>8. CASE Restart
    <3>1. owner' = [s \in Sessions |-> Nobody]
      BY <2>8 DEF Restart
    <3>2. Holders' = [s \in Sessions |-> <<>>]
      BY <3>1, JobsAssumption DEF Holders, Holder
    <3> QED BY <3>2 DEF Mutex!Restart, Mutex!Next
  <2> QED BY <1>2, <2>1, <2>2, <2>3, <2>4, <2>5, <2>6, <2>7, <2>8, RunKeepsMutex, TurnKeepsMutex
       DEF Next, Operate, World
<1> QED BY <1>1, <1>2, Invariance, PTL DEF Spec, Mutex!Spec

-----------------------------------------------------------------------------
(* The promise made to whoever approved the job.                           *)

promiseVars == <<cand, added, lost, Completed>>

\* A run with somebody in its queue is not that of a completed job.
LEMMA Unfinished ==
    ASSUME IInv, CompletedIsDecided, NEW j \in Jobs, queue[j] # <<>>,
           Running(j), pc[j] = "closing" => after[j] = "loop"
    PROVE  Head(queue[j]) \in Eligible(j) /\ jstatus[j] # "completed"
<1>1. Enumerates(queue[j], Eligible(j))
  BY DEF IInv, Sound, Queued
<1>2. Head(queue[j]) \in Eligible(j)
  BY <1>1, TailEnumerates
<1> QED BY <1>2 DEF CompletedIsDecided, Completed

LEMMA StatusMoves ==
    ASSUME TypeOK, NEW j \in Jobs, jstatus[j] # "completed", NEW s, s # "completed",
           jstatus' = [jstatus EXCEPT ![j] = s]
    PROVE  Completed' = Completed
BY DEF TypeOK, Completed

LEMMA SamePromise ==
    ASSUME jstatus' = jstatus, cand' = cand, added' = added, lost' = lost
    PROVE  UNCHANGED promiseVars
BY DEF promiseVars, Completed

\* Starting a job, finding or opening a session for it decides nothing.
LEMMA StatusSteps ==
    ASSUME IInv, CompletedIsDecided, NEW j \in Jobs,
           \/ Execute(j) \/ SchedulerStarts(j) \/ Claim(j) \/ Opened(j) \/ OpenFails(j)
           \/ SelectSession(j) /\ pc[j] = "loop" /\ queue[j] # <<>>
    PROVE  UNCHANGED promiseVars
<1>1. cand' = cand /\ added' = added /\ lost' = lost
  BY DEF Execute, SchedulerStarts, Claim, Opened, OpenFails, SelectSession, jobVars, history
<1>2. TypeOK
  BY DEF IInv
<1>3. CASE jstatus' = jstatus
  BY <1>1, <1>3, SamePromise
<1>4. ASSUME jstatus[j] # "completed",
             \E s : s # "completed" /\ jstatus' = [jstatus EXCEPT ![j] = s]
      PROVE  UNCHANGED promiseVars
  BY <1>1, <1>2, <1>4, StatusMoves DEF promiseVars
<1>5. CASE Execute(j)
  BY <1>3, <1>4, <1>5 DEF Execute, Resumable, Runnable, jobVars
<1>6. CASE SchedulerStarts(j)
  BY <1>3, <1>6 DEF SchedulerStarts, jobVars
<1>7. CASE Claim(j)
  BY <1>3, <1>4, <1>7 DEF Claim, Runnable
<1>8. CASE Opened(j) \/ OpenFails(j)
  <2>1. pc[j] = "opening" /\ queue[j] # <<>>
    BY <1>8 DEF Opened, OpenFails, IInv, Sound, Queued
  <2>2. jstatus[j] # "completed"
    BY <2>1, Unfinished DEF Running
  <2>3. \/ jstatus' = jstatus
        \/ \E s \in {"running", "failed"} : jstatus' = [jstatus EXCEPT ![j] = s]
    BY <1>8 DEF Opened, OpenFails
  <2> QED BY <1>3, <1>4, <2>2, <2>3
<1>9. CASE SelectSession(j) /\ pc[j] = "loop" /\ queue[j] # <<>>
  <2>1. jstatus[j] # "completed"
    BY <1>9, Unfinished DEF Running
  <2>2. PICK choice : choice = SelectFor(j)
    OBVIOUS
  <2>3. RunOutOfSessions(j, choice) \/ TakeSession(j, choice)
    BY <1>9, <2>2 DEF SelectSession
  <2>4. CASE RunOutOfSessions(j, choice)
    <3>1. PICK s : s = StatusWithoutSession(j, choice.resume)
      OBVIOUS
    <3>2. jstatus' = [jstatus EXCEPT ![j] = s]
      BY <2>4, <3>1 DEF RunOutOfSessions
    <3>3. s # "completed"
      BY <3>1 DEF StatusWithoutSession
    <3> QED BY <1>4, <2>1, <3>2, <3>3
  <2>5. CASE TakeSession(j, choice)
    BY <1>3, <2>5 DEF TakeSession
  <2> QED BY <2>3, <2>4, <2>5
<1> QED BY <1>5, <1>6, <1>7, <1>8, <1>9

\* A run completes its job when nobody is left.
LEMMA LoopKeepsPromise ==
    ASSUME IInv, CompletedIsDecided, NEW j \in Jobs, Loop(j)
    PROVE  [Promise!Next]_promiseVars
<1>1. TypeOK /\ pc[j] = "loop"
  BY DEF IInv, Loop
<1>2. CASE queue[j] = <<>> /\ LeaveRun(j, "completed")
  <2>1. Enumerates(queue[j], Eligible(j))
    BY <1>1 DEF IInv, Sound, Queued, Running
  <2>2. Eligible(j) = {}
    BY <1>2, <2>1 DEF Enumerates
  <2>3. Completed' = Completed \cup {j}
    BY <1>1, <1>2 DEF LeaveRun, TypeOK, Completed
  <2>4. UNCHANGED <<cand, added, lost>>
    BY <1>2 DEF LeaveRun, history
  <2>5. Promise!Undecided(j) = {}
    BY <2>2 DEF Promise!Undecided, Eligible
  <2>6. Promise!Complete(j)
    BY <2>3, <2>4, <2>5 DEF Promise!Complete
  <2> QED BY <2>6 DEF Promise!Next
<1>3. CASE queue[j] # <<>> /\ LeaveRun(j, "scheduled")
  <2>1. jstatus[j] # "completed"
    BY <1>1, <1>3, Unfinished DEF Running
  <2>2. jstatus' = [jstatus EXCEPT ![j] = "scheduled"] /\ UNCHANGED <<cand, added, lost>>
    BY <1>3 DEF LeaveRun, history
  <2> QED BY <1>1, <2>1, <2>2, StatusMoves DEF promiseVars
<1>4. CASE UNCHANGED <<jobVars, history>>
  BY <1>4, SamePromise DEF jobVars, history
<1>5. CASE queue[j] # <<>> /\ SelectSession(j)
  BY <1>1, <1>5, StatusSteps
<1> QED BY <1>2, <1>3, <1>4, <1>5 DEF Loop

\* An answer decides the candidate it is about.
LEMMA AnswerKeepsPromise ==
    ASSUME IInv, CompletedIsDecided, NEW j \in Jobs, Invited(j) \/ NotInvited(j)
    PROVE  Promise!Next
<1>1. pc[j] = "request" /\ queue[j] # <<>>
  BY DEF Invited, NotInvited, IInv, Sound, Queued
<1>2. PICK c : c = Head(queue[j])
  OBVIOUS
<1>3. c \in Promise!Undecided(j) /\ c \in Candidates
  BY <1>1, <1>2, Unfinished DEF Running, Promise!Undecided, Eligible
<1>4. Completed' = Completed /\ lost' = lost
  BY DEF Invited, NotInvited, Completed
<1>5. ASSUME Invited(j) PROVE Promise!Decide(j, c, "invited")
  <2>1. cand' = [cand EXCEPT ![j][c] = "invited"]
    BY <1>2, <1>5 DEF Invited, Record
  <2>2. added' = [added EXCEPT ![j] = @ \cup {c}]
    BY <1>2, <1>5 DEF Invited
  <2> QED BY <1>3, <1>4, <2>1, <2>2 DEF Promise!Decide
<1>6. ASSUME NotInvited(j)
      PROVE  \E v \in {"existing", "skipped", "failed"} : Promise!Decide(j, c, v)
  <2>1. \/ \E v \in {"existing", "skipped", "failed"} : Record(j, v) /\ added' = added
        \/ Record(j, "failed") /\ added' = [added EXCEPT ![j] = @ \cup {c}]
    BY <1>2, <1>6 DEF NotInvited
  <2>2. CASE Record(j, "failed") /\ added' = [added EXCEPT ![j] = @ \cup {c}]
    <3>1. cand' = [cand EXCEPT ![j][c] = "failed"]
      BY <1>2, <2>2 DEF Record
    <3> QED BY <1>3, <1>4, <2>2, <3>1 DEF Promise!Decide
  <2>3. ASSUME NEW v \in {"existing", "skipped", "failed"}, Record(j, v), added' = added
        PROVE  Promise!Decide(j, c, v)
    <3>1. cand' = [cand EXCEPT ![j][c] = v]
      BY <1>2, <2>3 DEF Record
    <3> QED BY <1>3, <1>4, <2>3, <3>1 DEF Promise!Decide
  <2> QED BY <2>1, <2>2, <2>3
<1> QED BY <1>3, <1>5, <1>6 DEF Promise!Next, Promise!Verdicts

\* A crash cuts off the requests under way, one of each job at most.
LEMMA RestartKeepsPromise ==
    ASSUME IInv, CompletedIsDecided, Restart PROVE Promise!Next
<1>1. PICK reached \in SUBSET {j \in Jobs : pc[j] = "request"} :
        LET them(j) == IF j \in reached THEN {Head(queue[j])} ELSE {}
        IN  /\ added' = [j \in Jobs |-> added[j] \cup them(j)]
            /\ lost' = [j \in Jobs |-> lost[j] \cup them(j)]
  BY DEF Restart
<1>2. PICK cut : cut = [j \in Jobs |-> IF j \in reached THEN {Head(queue[j])} ELSE {}]
  OBVIOUS
<1>3. ASSUME NEW j \in reached PROVE Head(queue[j]) \in Promise!Undecided(j)
  <2>1. j \in Jobs /\ pc[j] = "request"
    OBVIOUS
  <2>2. queue[j] # <<>>
    BY <2>1 DEF IInv, Sound, Queued
  <2> QED BY <2>1, <2>2, Unfinished DEF Running, Promise!Undecided, Eligible
<1>4. \A j \in Jobs : cut[j] = {} \/ \E c \in Promise!Undecided(j) : cut[j] = {c}
  BY <1>2, <1>3
<1>5. cut \in [Jobs -> SUBSET Candidates]
  BY <1>2, <1>3 DEF Promise!Undecided
<1>6. /\ added' = [j \in Jobs |-> added[j] \cup cut[j]]
      /\ lost' = [j \in Jobs |-> lost[j] \cup cut[j]]
  BY <1>1, <1>2
<1>7. cand' = cand /\ Completed' = Completed
  BY DEF Restart, Completed
<1> QED BY <1>4, <1>5, <1>6, <1>7 DEF Promise!Die, Promise!Next

LEMMA StepKeepsPromise ==
    ASSUME IInv, CompletedIsDecided, [Next]_vars PROVE [Promise!Next]_promiseVars
<1>1. ASSUME NEW j \in Jobs, Run(j) PROVE [Promise!Next]_promiseVars
  <2>1. CASE Try(j) \/ SessionFails(j) \/ Wake(j) \/ Close(j)
    <3>1. UNCHANGED <<jobVars, history>>
      BY <2>1, Zenon DEF Try, SessionFails, Wake, Close
    <3> QED BY <3>1, SamePromise DEF jobVars, history
  <2> QED BY <1>1, <2>1, StatusSteps, LoopKeepsPromise, AnswerKeepsPromise DEF Run
<1>2. ASSUME NEW s \in Sessions, Operate(s) \/ World(s) PROVE UNCHANGED promiseVars
  <2>1. UNCHANGED <<jobVars, added, lost>>
    BY <1>2, Zenon DEF Operate, World, Turn, OtherEnds, OtherJoins, OtherTakes, TestProxy,
                   FloodEnds, RestEnds, history
  <2> QED BY <2>1, SamePromise DEF jobVars
<1>3. CASE NewDay \/ UNCHANGED vars
  <2>1. UNCHANGED <<jobVars, added, lost>>
    BY <1>3, Zenon DEF NewDay, vars, history
  <2> QED BY <2>1, SamePromise DEF jobVars
<1> QED BY <1>1, <1>2, <1>3, StatusSteps, RestartKeepsPromise DEF Next

\* What is decided stays decided, and completed jobs were.
LEMMA PromiseStays ==
    ASSUME TypeOK, CompletedIsDecided, [Promise!Next]_promiseVars PROVE CompletedIsDecided'
<1> SUFFICES ASSUME NEW j \in Completed' PROVE Eligible(j)' = {}
  BY DEF CompletedIsDecided
<1>1. j \in Jobs
  BY DEF Completed
<1>2. ASSUME cand' = cand PROVE Eligible(j)' = Eligible(j)
  BY <1>2 DEF Eligible
<1>3. CASE UNCHANGED promiseVars \/ Promise!Die
  BY <1>2, <1>3 DEF promiseVars, Promise!Die, CompletedIsDecided
<1>4. ASSUME NEW k \in Jobs, Promise!Complete(k) PROVE Eligible(j)' = {}
  <2>1. Eligible(k) = {} /\ cand' = cand /\ Completed' = Completed \cup {k}
    BY <1>4 DEF Promise!Complete, Promise!Undecided, Eligible
  <2> QED BY <1>2, <2>1 DEF CompletedIsDecided
<1>5. ASSUME NEW k \in Jobs, NEW c \in Candidates, NEW v \in Promise!Verdicts,
             Promise!Decide(k, c, v)
      PROVE  Eligible(j)' = {}
  <2>1. cand' = [cand EXCEPT ![k][c] = v] /\ v # "eligible" /\ Completed' = Completed
    BY <1>5 DEF Promise!Decide, Promise!Verdicts
  <2>2. Eligible(j) = {}
    BY <2>1 DEF CompletedIsDecided
  <2>3. \A d \in Candidates : cand[j][d] # "eligible"
    BY <2>2 DEF Eligible
  <2>4. \A d \in Candidates : cand'[j][d] # "eligible"
    BY <1>1, <2>1, <2>3 DEF TypeOK
  <2> QED BY <2>4 DEF Eligible
<1> QED BY <1>3, <1>4, <1>5 DEF Promise!Next

LEMMA PromiseInvariance ==
    /\ Init => Promise!Init /\ CompletedIsDecided
    /\ IInv /\ CompletedIsDecided /\ [Next]_vars =>
         [Promise!Next]_<<cand, added, lost, Completed>> /\ CompletedIsDecided'
<1>1. ASSUME Init PROVE Promise!Init /\ CompletedIsDecided
  <2>1. cand \in [Jobs -> [Candidates -> Promise!Verdicts \cup {"eligible"}]]
    BY <1>1 DEF Init
  <2>2. Completed = {}
    BY <1>1 DEF Init, InitRest, Completed
  <2> QED BY <1>1, <2>1, <2>2 DEF Init, InitRest, Promise!Init, CompletedIsDecided
<1>2. IInv /\ CompletedIsDecided /\ [Next]_vars =>
        [Promise!Next]_promiseVars /\ CompletedIsDecided'
  BY StepKeepsPromise, PromiseStays DEF IInv
<1> QED BY <1>1, <1>2 DEF promiseVars

\* Whoever approved a job gets what InvitePromise says, from any number of jobs
\* and sessions: every candidate is decided once, additions and decisions go
\* together but for a crash, and 'completed' means that nobody is left.
THEOREM PromiseRefined == Spec => KeepsPromise
BY PromiseInvariance, Invariance, PTL DEF Spec, KeepsPromise, Promise!Spec

\* A job that reports to be 'completed' has nobody left, and stays so.
THEOREM CompletedAreDone == Spec => []CompletedIsDecided
BY PromiseInvariance, Invariance, PTL DEF Spec

\* The final status of a candidate is final: no later answer, deferral, restart
\* or second run of the job writes to the row again.
THEOREM VerdictsFinal == Spec => DecidedForGood
<1> DEFINE Final == \A j \in Jobs, c \in Candidates :
                       cand[j][c] # "eligible" => cand'[j][c] = cand[j][c]
<1>1. ASSUME IInv, CompletedIsDecided, [Next]_vars PROVE Final
  <2> SUFFICES ASSUME NEW j \in Jobs, NEW c \in Candidates, cand[j][c] # "eligible"
               PROVE  cand'[j][c] = cand[j][c]
    OBVIOUS
  <2>1. CASE cand' = cand
    BY <2>1
  <2>2. ASSUME NEW k \in Jobs, NEW d \in Candidates, NEW v, Promise!Decide(k, d, v)
        PROVE  cand'[j][c] = cand[j][c]
    <3>1. cand' = [cand EXCEPT ![k][d] = v] /\ cand[k][d] = "eligible"
      BY <2>2 DEF Promise!Decide, Promise!Undecided
    <3> QED BY <1>1, <3>1 DEF IInv, TypeOK
  <2>3. [Promise!Next]_promiseVars
    BY <1>1, StepKeepsPromise
  <2> QED BY <2>1, <2>2, <2>3
       DEF Promise!Next, Promise!Complete, Promise!Die, promiseVars
<1>2. IInv /\ CompletedIsDecided /\ [Next]_vars => [Final]_vars
  BY <1>1
<1>3. Spec => [][Final]_vars
  <2> HIDE DEF Final
  <2> QED BY <1>2, CompletedAreDone, Invariance, PTL DEF Spec
<1> QED BY <1>3 DEF DecidedForGood

-----------------------------------------------------------------------------
(* The batch limit.  A run counts the additions of its session in memory   *)
(* and in the table, side by side: what it remembers is what the table has *)
(* for as long as it works with the session.                               *)

Counted(j) == j \notin stale /\ Working(j) => done[j] = successes[at[j]]
CountInv == BatchKept /\ \A j \in Jobs : Counted(j)

\* A job that works goes on with its session and its count.
Carries(k) ==
    k \notin stale' /\ Working(k)' =>
        k \notin stale /\ Working(k) /\ at'[k] = at[k] /\ done'[k] = done[k]

LEMMA SameCount ==
    ASSUME CountInv, stale \subseteq stale', successes' = successes, \A k \in Jobs : Carries(k)
    PROVE  CountInv'
<1>1. BatchKept'
  BY DEF CountInv, BatchKept
<1>2. ASSUME NEW k \in Jobs PROVE Counted(k)'
  BY DEF CountInv, Counted, Carries
<1> QED BY <1>1, <1>2 DEF CountInv

LEMMA OthersCarry ==
    ASSUME TypeOK, NEW j \in Jobs, stale' = stale,
           \A k \in Jobs \ {j} : /\ pc'[k] = pc[k] /\ at'[k] = at[k] /\ done'[k] = done[k]
                                 /\ queue'[k] = queue[k]
    PROVE  \A k \in Jobs \ {j} : Carries(k)
BY DEF Carries, Working, Using

\* A turn of the loop that needs no other session.
GoesOn(j) ==
    /\ pc[j] = "loop"
    /\ \/ LeaveRun(j, "completed")
       \/ LeaveRun(j, "scheduled")
       \/ queue[j] # <<>> /\ at[j] # NoSession /\ Goto(j, "try")
          /\ UNCHANGED <<sessVars, queue, at, used, done, stale>>

\* The steps of a run that add nobody.
LEMMA RunKeepsCount ==
    ASSUME IInv, CountInv, NEW j \in Jobs,
           \/ Execute(j) \/ SchedulerStarts(j) \/ Claim(j) \/ Opened(j) \/ OpenFails(j) \/ Try(j)
           \/ NotInvited(j) \/ SessionFails(j) \/ Wake(j) \/ Close(j)
           \/ GoesOn(j)
    PROVE  CountInv'
<1>1. TypeOK /\ Sound(j)
  BY DEF IInv
<1>2. stale' = stale /\ successes' = successes
  <2>1. CASE Execute(j) \/ SchedulerStarts(j) \/ Claim(j) \/ NotInvited(j)
    BY <2>1 DEF Execute, SchedulerStarts, Claim, NotInvited, sessVars, history
  <2>2. CASE Opened(j) \/ OpenFails(j) \/ SessionFails(j)
    BY <2>2 DEF Opened, OpenFails, SessionFails, MarkFlood, MarkPeer, MarkProxy, ProxyWorks,
                sessVars, history
  <2>3. CASE Try(j) \/ Wake(j) \/ Close(j) \/ GoesOn(j)
    BY <2>3 DEF Try, Wake, Close, GoesOn, LeaveRun, sessVars, history
  <2> QED BY <2>1, <2>2, <2>3
<1>3. \A k \in Jobs \ {j} : /\ pc'[k] = pc[k] /\ at'[k] = at[k] /\ done'[k] = done[k]
                            /\ queue'[k] = queue[k]
  <2>1. CASE Execute(j) \/ SchedulerStarts(j) \/ Claim(j)
    BY <1>1, <2>1 DEF Execute, SchedulerStarts, Claim, Goto, TypeOK
  <2>2. CASE Opened(j) \/ OpenFails(j)
    BY <1>1, <2>2 DEF Opened, OpenFails, Goto, Forget, ForgetContext, TypeOK
  <2>3. CASE SessionFails(j) \/ NotInvited(j)
    <3>1. \E p : Goto(j, p)
      BY <2>3 DEF SessionFails, NotInvited, Proceed, CloseThen
    <3>2. queue' = queue \/ \E q : queue' = [queue EXCEPT ![j] = q]
      BY <2>3 DEF SessionFails, NotInvited, Record
    <3>3. UNCHANGED <<at, done>>
      BY <2>3 DEF SessionFails, NotInvited
    <3> QED BY <1>1, <3>1, <3>2, <3>3 DEF Goto, TypeOK
  <2>4. CASE Try(j) \/ Wake(j) \/ Close(j)
    BY <1>1, <2>4 DEF Try, Wake, Close, CloseThen, Goto, ForgetContext, TypeOK
  <2>5. CASE GoesOn(j)
    BY <1>1, <2>5 DEF GoesOn, LeaveRun, Goto, Forget, TypeOK
  <2> QED BY <2>1, <2>2, <2>3, <2>4, <2>5
<1>4. ASSUME Working(j)' PROVE Working(j) /\ at'[j] = at[j] /\ done'[j] = done[j]
  <2>1. CASE Execute(j) \/ SchedulerStarts(j) \/ Claim(j)
    <3>1. pc[j] \in {"idle", "ready"} /\ at'[j] = at[j]
      BY <2>1 DEF Execute, SchedulerStarts, Claim
    <3>2. at'[j] = NoSession
      BY <1>1, <3>1 DEF Sound, Placed
    <3>3. pc'[j] \in {"idle", "ready", "loop"}
      BY <1>1, <2>1, <3>1 DEF Execute, SchedulerStarts, Claim, Goto, TypeOK
    <3> QED BY <1>4, <3>2, <3>3 DEF Working, Using
  <2>2. CASE Opened(j)
    BY <2>2 DEF Opened, Working, Using
  <2>3. CASE OpenFails(j)
    <3>1. pc'[j] \in {"idle", "loop"} /\ at'[j] = NoSession
      BY <1>1, <2>3 DEF OpenFails, Goto, ForgetContext, TypeOK
    <3> QED BY <1>4, <3>1 DEF Working, Using
  <2>4. CASE SessionFails(j) \/ NotInvited(j)
    BY <2>4 DEF SessionFails, NotInvited, Working, Using
  <2>5. CASE Try(j) \/ Wake(j)
    BY <2>5 DEF Try, Wake, Working, Using
  <2>6. CASE Close(j)
    <3>1. pc'[j] \in {"idle", "loop"} /\ at'[j] = NoSession
      BY <1>1, <2>6 DEF Close, Goto, ForgetContext, TypeOK
    <3> QED BY <1>4, <3>1 DEF Working, Using
  <2>7. CASE GoesOn(j)
    <3>1. CASE \E s : LeaveRun(j, s)
      <4>1. pc'[j] \in {"idle", "closing"}
        BY <1>1, <3>1 DEF LeaveRun, Goto, TypeOK
      <4> QED BY <1>4, <4>1 DEF Working, Using
    <3>2. CASE pc[j] = "loop" /\ queue[j] # <<>> /\ at[j] # NoSession /\ UNCHANGED <<at, done>>
      BY <3>2 DEF Working
    <3> QED BY <2>7, <3>1, <3>2 DEF GoesOn
  <2> QED BY <2>1, <2>2, <2>3, <2>4, <2>5, <2>6, <2>7
<1>5. Carries(j)
  BY <1>2, <1>4 DEF Carries
<1>6. \A k \in Jobs : Carries(k)
  BY <1>1, <1>2, <1>3, <1>5, OthersCarry
<1> QED BY <1>2, <1>6, SameCount

\* Telegram added a user: both counts go up, or both begin anew.
LEMMA InvitedKeepsCount ==
    ASSUME IInv, CountInv, NEW j \in Jobs, Invited(j) PROVE CountInv'
<1>1. PICK s : s = at[j]
  OBVIOUS
<1>2. PICK full : full = BatchFull(j)
  OBVIOUS
<1>3. /\ TypeOK /\ Sound(j) /\ pc[j] = "request" /\ stale' = stale /\ at' = at
      /\ done' = [done EXCEPT ![j] = IF full THEN 0 ELSE @ + 1]
      /\ successes' = [successes EXCEPT ![s] = IF full THEN 0 ELSE @ + 1]
  BY <1>1, <1>2 DEF IInv, Invited
<1>4. s \in Sessions /\ s # NoSession /\ owner[s] = j
  BY <1>1, <1>3, NoSessionAssumption DEF Sound, Placed, IInv, Leases, LeaseKept
<1>5. j \notin stale => done[j] = successes[s]
  BY <1>1, <1>3 DEF CountInv, Counted, Working, Using
<1>6. /\ done'[j] = IF full THEN 0 ELSE done[j] + 1
      /\ successes'[s] = IF full THEN 0 ELSE successes[s] + 1
      /\ \A k \in Jobs \ {j} : done'[k] = done[k]
      /\ \A r \in Sessions \ {s} : successes'[r] = successes[r]
      /\ done[j] \in Nat /\ successes[s] \in Nat /\ BatchLimit \in Nat
  BY <1>3, <1>4, LimitsAssumption DEF TypeOK
<1>7. BatchKept'
  <2> SUFFICES ASSUME BatchLimit > 0, stale = {}, NEW r \in Sessions
               PROVE  successes'[r] < BatchLimit
    BY <1>3 DEF BatchKept
  <2>1. CASE r # s
    BY <1>6, <2>1 DEF CountInv, BatchKept
  <2>2. CASE r = s
    <3>1. done[j] = successes[s] /\ (~full => ~(done[j] + 1 >= BatchLimit))
      BY <1>2, <1>5 DEF BatchFull
    <3>2. successes'[s] = IF full THEN 0 ELSE successes[s] + 1
      BY <1>6
    <3>3. done[j] \in Nat /\ BatchLimit \in Nat
      BY <1>6
    <3> QED BY <2>2, <3>1, <3>2, <3>3
  <2> QED BY <2>1, <2>2
<1>8. Counted(j)'
  BY <1>1, <1>3, <1>5, <1>6 DEF Counted
<1>9. ASSUME NEW k \in Jobs \ {j} PROVE Counted(k)'
  <2> SUFFICES ASSUME k \notin stale, Working(k)' PROVE done'[k] = successes'[at[k]]
    BY <1>3 DEF Counted
  <2>1. pc'[k] = pc[k] /\ queue'[k] = queue[k]
    <3>1. \E p : Goto(j, p)
      BY DEF Invited, Proceed, CloseThen
    <3>2. \E q : queue' = [queue EXCEPT ![j] = q]
      BY DEF Invited, Record
    <3> QED BY <1>3, <3>1, <3>2 DEF Goto, TypeOK
  <2>2. Working(k)
    BY <1>3, <2>1 DEF Working, Using
  <2>3. done[k] = successes[at[k]]
    BY <2>2 DEF CountInv, Counted
  <2>4. at[k] \in Sessions /\ owner[at[k]] = k
    BY <2>2, <1>3, NoSessionAssumption
       DEF Working, Using, IInv, Sound, Placed, Leases, LeaseKept, TypeOK
  <2>5. at[k] # s
    BY <1>4, <2>4
  <2> QED BY <1>6, <2>3, <2>4, <2>5
<1> QED BY <1>7, <1>8, <1>9 DEF CountInv

\* The selector clears the counts of sessions whose rest is over, which nobody
\* works with; the count of the session it finds is remembered as it stands.
LEMMA SelectKeepsCount ==
    ASSUME IInv, CountInv, NEW j \in Jobs, pc[j] = "loop", at[j] = NoSession, SelectSession(j)
    PROVE  CountInv'
<1>1. PICK choice : choice = SelectFor(j)
  OBVIOUS
<1>2. /\ TypeOK /\ Sound(j) /\ stale' = stale
      /\ successes' = [s \in Sessions |-> choice.rows[s].successes]
      /\ RunOutOfSessions(j, choice) \/ TakeSession(j, choice)
  BY <1>1 DEF IInv, SelectSession, WriteBack, history
<1>3. ASSUME NEW s \in Sessions
      PROVE  /\ choice.rows[s].successes \in {0, successes[s]}
             /\ status[s] \notin Waiting => choice.rows[s].successes = successes[s]
  <2>1. choice.rows[s] = Refreshed(RowOf(s), 0)
    BY <1>1 DEF SelectFor, Select
  <2> QED BY <1>2, <2>1, RefreshedCount
<1>4. BatchKept'
  <2> SUFFICES ASSUME BatchLimit > 0, stale = {}, NEW s \in Sessions
               PROVE  successes'[s] < BatchLimit
    BY <1>2 DEF BatchKept
  <2>1. successes'[s] \in {0, successes[s]}
    BY <1>2, <1>3
  <2>2. successes[s] < BatchLimit
    BY DEF CountInv, BatchKept
  <2> QED BY <2>1, <2>2
<1>5. ASSUME NEW k \in Jobs \ {j} PROVE Counted(k)'
  <2> SUFFICES ASSUME k \notin stale, Working(k)' PROVE done'[k] = successes'[at'[k]]
    BY <1>2 DEF Counted
  <2>1. pc'[k] = pc[k] /\ at'[k] = at[k] /\ done'[k] = done[k] /\ queue'[k] = queue[k]
    <3>1. CASE RunOutOfSessions(j, choice)
      BY <1>2, <3>1 DEF RunOutOfSessions, Goto, Forget, TypeOK
    <3>2. CASE TakeSession(j, choice)
      BY <1>2, <3>2 DEF TakeSession, Goto, TypeOK
    <3> QED BY <1>2, <3>1, <3>2
  <2>2. Working(k)
    BY <2>1 DEF Working, Using
  <2>3. done[k] = successes[at[k]] /\ status[at[k]] \notin Waiting
    BY <2>2 DEF CountInv, Counted, IInv, Sound, Fit
  <2>4. at[k] \in Sessions
    BY <1>2, <2>2 DEF Working, Using, IInv, Sound, Placed, TypeOK
  <2> QED BY <1>2, <1>3, <2>1, <2>3, <2>4
<1>6. Counted(j)'
  <2>1. CASE RunOutOfSessions(j, choice)
    <3>1. pc'[j] = "idle"
      BY <1>2, <2>1 DEF RunOutOfSessions, Goto, TypeOK
    <3> QED BY <3>1 DEF Counted, Working, Using
  <2>2. CASE TakeSession(j, choice)
    <3>1. at'[j] = choice.session /\ done'[j] = choice.rows[choice.session].successes
      BY <1>2, <2>2 DEF TakeSession, TypeOK
    <3>2. choice.session \in Sessions
      BY <1>1, <1>2, <2>2, Selected DEF TakeSession
    <3> QED BY <1>2, <3>1, <3>2 DEF Counted
  <2> QED BY <1>2, <2>1, <2>2
<1> QED BY <1>4, <1>5, <1>6 DEF CountInv

LEMMA WorldKeepsCount ==
    ASSUME IInv, CountInv,
           \/ \E s \in Sessions : Operate(s) \/ World(s)
           \/ NewDay \/ Restart \/ UNCHANGED vars
    PROVE  CountInv'
<1>1. TypeOK
  BY DEF IInv
<1>2. CASE UNCHANGED <<runVars, stale, successes>>
  BY <1>2, SameCount DEF runVars, Carries, Working, Using
<1>3. ASSUME NEW s \in Sessions, Turn(s) PROVE CountInv'
  <2>1. /\ stale' = stale \cup (Jobs \cap {Head(line[s])})
        /\ UNCHANGED <<successes, queue, at, done>>
        /\ \A k \in Jobs : k # Head(line[s]) => pc'[k] = pc[k]
    BY <1>1, <1>3 DEF Turn, sessVars, TypeOK
  <2>2. ASSUME NEW k \in Jobs PROVE Carries(k)
    BY <2>1 DEF Carries, Working, Using
  <2> QED BY <2>1, <2>2, SameCount
<1>4. CASE Restart
  <2>1. /\ stale' = stale /\ successes' = successes /\ \A k \in Jobs : pc'[k] = "idle"
    BY <1>4 DEF Restart, sessVars
  <2>2. ASSUME NEW k \in Jobs PROVE Carries(k)
    BY <2>1 DEF Carries, Working, Using
  <2> QED BY <2>1, <2>2, SameCount
<1>5. ASSUME NEW s \in Sessions, OtherEnds(s) \/ World(s)
      PROVE  UNCHANGED <<runVars, stale, successes>>
  <2>1. CASE OtherEnds(s) \/ TestProxy(s)
    BY <2>1 DEF OtherEnds, TestProxy, MarkFlood, MarkProxy, ProxyWorks, history
  <2>2. CASE OtherJoins(s) \/ OtherTakes(s) \/ FloodEnds(s) \/ RestEnds(s)
    BY <2>2 DEF OtherJoins, OtherTakes, FloodEnds, RestEnds, sessVars, history
  <2> QED BY <1>5, <2>1, <2>2 DEF World
<1>6. NewDay \/ UNCHANGED vars => UNCHANGED <<runVars, stale, successes>>
  BY DEF NewDay, vars, sessVars, history
<1> QED BY <1>2, <1>3, <1>4, <1>5, <1>6 DEF Operate

\* A session adds no more users than its batch limit before its count starts
\* again, and no more in a day than the quota, however many jobs take turns with
\* it, unless one of them has waited for its lease.
THEOREM LimitsHold == Spec => []LimitsKept
<1>1. ASSUME Init PROVE CountInv
  <2>1. BatchKept
    BY <1>1 DEF Init, InitRest, BatchKept
  <2>2. ASSUME NEW j \in Jobs PROVE Counted(j)
    BY <1>1 DEF Init, InitRest, Counted, Working, Using
  <2> QED BY <2>1, <2>2 DEF CountInv
<1>2. ASSUME IInv, CountInv, [Next]_vars PROVE CountInv'
  <2>1. ASSUME NEW j \in Jobs, Loop(j) PROVE CountInv'
    <3>1. GoesOn(j) \/ (pc[j] = "loop" /\ at[j] = NoSession /\ SelectSession(j))
      BY <2>1 DEF Loop, GoesOn, history
    <3> QED BY <1>2, <3>1, SelectKeepsCount, RunKeepsCount
  <2> QED BY <1>2, <2>1, RunKeepsCount, InvitedKeepsCount, WorldKeepsCount DEF Next, Run
<1>3. IInv /\ CountInv => LimitsKept
  BY DEF IInv, CountInv, LimitsKept
<1>4. Init => CountInv
  BY <1>1
<1>5. IInv /\ CountInv /\ [Next]_vars => CountInv'
  BY <1>2
<1> QED BY <1>3, <1>4, <1>5, Invariance, PTL DEF Spec

-----------------------------------------------------------------------------
(* The selector.                                                           *)

\* The last of the sorted elements.
LEMMA Largest ==
    ASSUME NEW S \in SUBSET Nat, IsFiniteSet(S), S # {}
    PROVE  \E m \in S : \A y \in S : y <= m
<1>1. PICK q : Sorted(q, S)
  BY Sortable
<1> DEFINE n == Cardinality(S)
<1>2. n \in Nat /\ n # 0
  BY FS_CardinalityType, FS_EmptySet
<1>3. q \in [1..n -> S] /\ \A i, k \in 1..n : i # k => q[i] # q[k]
  BY <1>1 DEF Sorted, SetToSeqs
<1>4. \A i, k \in 1..n : i < k => q[i] < q[k]
  BY <1>1 DEF Sorted
<1>5. IsFiniteSet(1..n) /\ Cardinality(1..n) = n
  BY <1>2, FS_Interval
<1>6. q \in Injection(1..n, S)
  BY <1>3 DEF Injection, IsInjective
<1>7. q \in Surjection(1..n, S)
  BY <1>5, <1>6, FS_Injection
<1> HIDE DEF n
<1>8. ASSUME NEW y \in S PROVE y <= q[n]
  <2>1. PICK i \in 1..n : q[i] = y
    BY <1>7 DEF Surjection
  <2>2. n \in 1..n /\ (i = n \/ i < n)
    BY <1>2
  <2>3. q[n] \in Nat /\ q[i] \in Nat
    BY <1>3, <2>2
  <2>4. q[i] = q[n] \/ q[i] < q[n]
    BY <1>4, <2>2
  <2> QED BY <2>1, <2>3, <2>4
<1>9. q[n] \in S
  BY <1>2, <1>3
<1> QED BY <1>8, <1>9

\* The selector's part takes the minimum that the executor's part takes.
LEMMA SameMin == ASSUME NEW T PROVE Selector!Min(T) = Min(T)
BY DEF Selector!Min, Min

\* What a row will look like at an instant to come.
Later(row, t) ==
    [row EXCEPT !.count = IF t >= Midnight THEN 0 ELSE @, !.locked = FALSE]
IsRow(row, n) ==
    /\ row \in Selector!Rows(Nat, Nat)
    /\ n >= Midnight => row.count = 0
Clear(row, n) == ~Selector!Rejected(Selector!Refreshed(row, n), FALSE)
Obstacles(row, n) == Selector!Blockers(Selector!Refreshed(row, n), n, Limit, Midnight)

LEMMA RefreshedFields ==
    ASSUME NEW n \in Nat, NEW row \in Selector!Rows(Nat, Nat)
    PROVE  LET fresh == Selector!Refreshed(row, n)
               over  == /\ row.status \in {"flood_wait", "batch_wait"}
                        /\ row.until # NoTime /\ row.until <= n
           IN  /\ fresh \in Selector!Rows(Nat, Nat)
               /\ fresh.data = row.data /\ fresh.proxyOn = row.proxyOn
               /\ fresh.proxyFailed = row.proxyFailed
               /\ fresh.count = row.count /\ fresh.locked = row.locked
               /\ over => fresh.status = "active" /\ fresh.until = NoTime
               /\ ~over => fresh.status = row.status /\ fresh.until = row.until
BY DEF Selector!Refreshed, Selector!Expired, Selector!Rows, Selector!Statuses

\* Each obstacle goes away by itself, later than now and on time.
LEMMA ObstaclesTimes ==
    ASSUME NEW n \in Nat, NEW row, IsRow(row, n)
    PROVE  /\ Obstacles(row, n) \in SUBSET Nat /\ IsFiniteSet(Obstacles(row, n))
           /\ \A b \in Obstacles(row, n) : b > n
<1> DEFINE fresh == Selector!Refreshed(row, n)
<1>1. /\ fresh \in Selector!Rows(Nat, Nat)
      /\ fresh.count = row.count
      /\ Selector!Waits(fresh) => fresh.until \in Nat /\ fresh.until > n
  BY NoTimeAssumption, RefreshedFields DEF IsRow, Selector!Rows, Selector!Waits
<1> HIDE DEF fresh
<1>2. Selector!Full(fresh, Limit) => Midnight > n
  BY <1>1, ClockAssumption DEF IsRow, Selector!Full
<1> DEFINE three == ({fresh.until} \cup {Midnight}) \cup {n + 1}
           B == Selector!Blockers(fresh, n, Limit, Midnight)
<1>3. B \in SUBSET three /\ \A b \in B : b \in Nat /\ b > n
  BY <1>1, <1>2, ClockAssumption DEF Selector!Blockers, Selector!LockRetry
<1>4. IsFiniteSet(three)
  <2>1. IsFiniteSet({fresh.until})
    BY FS_Singleton
  <2>2. IsFiniteSet({fresh.until} \cup {Midnight})
    BY <2>1, FS_AddElement
  <2> QED BY <2>2, FS_AddElement
<1>5. IsFiniteSet(B)
  BY <1>3, <1>4, FS_Subset
<1> QED BY <1>3, <1>5 DEF Obstacles, fresh

\* A session is usable at a later instant exactly if nothing rejects its row
\* for good and each of its obstacles is gone by then.
LEMMA UsableWhenClear ==
    ASSUME NEW n \in Nat, NEW row, IsRow(row, n), NEW t \in Nat, t > n
    PROVE  Selector!UsableAt(Later(row, t), t) <=>
              Clear(row, n) /\ \A b \in Obstacles(row, n) : b <= t
<1> DEFINE fresh == Selector!Refreshed(row, n)
           over  == /\ row.status \in {"flood_wait", "batch_wait"}
                    /\ row.until # NoTime /\ row.until <= n
           then  == Later(row, t)
<1>1. /\ row \in Selector!Rows(Nat, Nat) /\ fresh \in Selector!Rows(Nat, Nat)
      /\ fresh.data = row.data /\ fresh.proxyOn = row.proxyOn
      /\ fresh.proxyFailed = row.proxyFailed
      /\ fresh.count = row.count /\ fresh.locked = row.locked
      /\ over => fresh.status = "active" /\ fresh.until = NoTime
      /\ ~over => fresh.status = row.status /\ fresh.until = row.until
  BY RefreshedFields DEF IsRow
<1>2. /\ then.data = row.data /\ then.proxyOn = row.proxyOn
      /\ then.proxyFailed = row.proxyFailed
      /\ then.status = row.status /\ then.until = row.until
      /\ then.count = (IF t >= Midnight THEN 0 ELSE row.count) /\ then.locked = FALSE
  BY <1>1 DEF Later, Selector!Rows
<1>3. /\ row.status \in Selector!Statuses /\ row.until \in Nat \cup {NoTime}
      /\ row.count \in Nat /\ (n >= Midnight => row.count = 0)
      /\ Limit \in Nat /\ Midnight \in Nat
  BY <1>1, ClockAssumption DEF IsRow, Selector!Rows
<1> HIDE DEF fresh, then
<1> DEFINE back == row.status = "active" \/ (row.status \in {"flood_wait", "batch_wait"}
                                             /\ row.until # NoTime /\ row.until <= t)
           sound == row.data /\ row.proxyOn /\ ~row.proxyFailed
           waits == Selector!Waits(fresh)
           full == Selector!Full(fresh, Limit)
<1>4. Selector!UsableAt(then, t) <=> sound /\ back /\ (full => Midnight <= t)
  <2>1. (Limit = 0 \/ then.count < Limit) <=> (full => Midnight <= t)
    BY <1>1, <1>2, <1>3 DEF Selector!Full
  <2> QED BY <1>2, <2>1 DEF Selector!UsableAt
<1>5. Clear(row, n) <=> sound /\ fresh.status \in {"active", "flood_wait", "batch_wait"}
                              /\ (fresh.status = "active" \/ waits)
  BY <1>1 DEF Clear, Selector!Rejected, fresh
<1>6. (\A b \in Obstacles(row, n) : b <= t) <=>
         (waits => fresh.until <= t) /\ (full => Midnight <= t)
  <2>1. n + 1 <= t
    OBVIOUS
  <2>2. \A b : b \in Obstacles(row, n) <=>
                  \/ waits /\ b = fresh.until
                  \/ full /\ b = Midnight
                  \/ fresh.locked /\ b = n + 1
    BY DEF Obstacles, Selector!Blockers, Selector!LockRetry, fresh
  <2> HIDE DEF waits, full
  <2> QED BY <2>1, <2>2
<1>7. back <=> /\ fresh.status \in {"active", "flood_wait", "batch_wait"}
               /\ fresh.status = "active" \/ waits
               /\ waits => fresh.until <= t
  BY <1>1, <1>3, NoTimeAssumption DEF Selector!Waits, Selector!Statuses
<1> HIDE DEF back, sound, waits, full
<1> QED BY <1>4, <1>5, <1>6, <1>7 DEF then

\* It is usable now if nothing rejects it and it has no obstacle.
LEMMA UsableNow ==
    ASSUME NEW n \in Nat, NEW row, IsRow(row, n)
    PROVE  Selector!UsableAt(row, n) <=> Clear(row, n) /\ Obstacles(row, n) = {}
<1> DEFINE fresh == Selector!Refreshed(row, n)
           over  == /\ row.status \in {"flood_wait", "batch_wait"}
                    /\ row.until # NoTime /\ row.until <= n
<1>1. /\ row \in Selector!Rows(Nat, Nat)
      /\ fresh.data = row.data /\ fresh.proxyOn = row.proxyOn
      /\ fresh.proxyFailed = row.proxyFailed
      /\ fresh.count = row.count /\ fresh.locked = row.locked
      /\ over => fresh.status = "active" /\ fresh.until = NoTime
      /\ ~over => fresh.status = row.status /\ fresh.until = row.until
  BY RefreshedFields DEF IsRow
<1>2. /\ row.status \in Selector!Statuses /\ row.until \in Nat \cup {NoTime}
      /\ row.count \in Nat /\ Limit \in Nat
  BY <1>1, ClockAssumption DEF Selector!Rows
<1> HIDE DEF fresh
<1> DEFINE waits == Selector!Waits(fresh)
           full == Selector!Full(fresh, Limit)
<1>3. full <=> ~(Limit = 0 \/ row.count < Limit)
  BY <1>1, <1>2 DEF Selector!Full
<1>4. Obstacles(row, n) = {} <=> ~waits /\ ~full /\ ~row.locked
  BY <1>1 DEF Obstacles, Selector!Blockers, fresh
<1>5. Clear(row, n) <=> /\ row.data /\ row.proxyOn /\ ~row.proxyFailed
                        /\ fresh.status \in {"active", "flood_wait", "batch_wait"}
                        /\ fresh.status = "active" \/ waits
  BY <1>1 DEF Clear, Selector!Rejected, fresh
<1>6. row.status = "active" \/ over <=>
         fresh.status \in {"active", "flood_wait", "batch_wait"}
            /\ (fresh.status = "active" \/ waits) /\ ~waits
  BY <1>1, <1>2, NoTimeAssumption DEF Selector!Waits, Selector!Statuses
<1>7. Selector!UsableAt(row, n) <=>
         /\ row.data /\ row.proxyOn /\ ~row.proxyFailed
         /\ row.status = "active" \/ over
         /\ Limit = 0 \/ row.count < Limit
         /\ ~row.locked
  BY DEF Selector!UsableAt
<1> HIDE DEF waits, full, over
<1> QED BY <1>3, <1>4, <1>5, <1>6, <1>7

-----------------------------------------------------------------------------
(* What the selector returns.                                              *)

ClockInv ==
    /\ rows \in [Ids -> Selector!Rows(Nat, Nat)]
    /\ now \in Nat /\ excluded \subseteq Ids
    /\ now >= Midnight => \A s \in Ids : rows[s].count = 0

Live == {s \in Ids : s \notin excluded /\ Clear(rows[s], now)}
Available == {s \in Live : Obstacles(rows[s], now) = {}}
FreeAgain(s) == Selector!Max(Obstacles(rows[s], now))

\* One call, in terms of the rows it reads.
LEMMA Call ==
    ASSUME NEW from
    PROVE  LET choice == Selector!Select(rows, now, from, NoSession, excluded, Limit, Midnight)
           IN  /\ choice.rows = [s \in Ids |-> Selector!Refreshed(rows[s], now)]
               /\ choice.session = IF Available = {} THEN NoSession
                                   ELSE Selector!Rotate(Available, from, NoSession)
               /\ choice.resume = IF Available # {} \/ Live = {} THEN NoTime
                                  ELSE Min({FreeAgain(s) : s \in Live})
<1> DEFINE fresh == [s \in Ids |-> Selector!Refreshed(rows[s], now)]
           live == {s \in Ids : ~Selector!Rejected(fresh[s], s \in excluded)}
           Block(s) == Selector!Blockers(fresh[s], now, Limit, Midnight)
           available == {s \in live : Block(s) = {}}
           times == {Selector!Max(Block(s)) : s \in live}
           choice == Selector!Select(rows, now, from, NoSession, excluded, Limit, Midnight)
<1>1. /\ choice.rows = fresh
      /\ choice.session = IF available = {} THEN NoSession
                          ELSE Selector!Rotate(available, from, NoSession)
      /\ choice.resume = IF available # {} \/ live = {} THEN NoTime ELSE Selector!Min(times)
  BY DEF Selector!Select
<1>2. live = Live
  BY DEF Live, Clear, Selector!Rejected
<1>3. \A s \in Live : Block(s) = Obstacles(rows[s], now)
  BY DEF Live, Obstacles
<1>4. available = Available
  BY <1>2, <1>3 DEF Available
<1>5. times = {FreeAgain(s) : s \in Live}
  BY <1>2, <1>3, Zenon DEF FreeAgain
<1>6. Selector!Min(times) = Min({FreeAgain(s) : s \in Live})
  BY <1>5, SameMin
<1> HIDE DEF choice, fresh, live, available, times
<1> QED BY <1>1, <1>2, <1>4, <1>6 DEF choice, fresh

\* The turn goes to the first available session behind the last one, and from
\* the end back to the first of all.
LEMMA Rotation ==
    ASSUME ClockInv, Available # {}, NEW from
    PROVE  LET next   == Selector!Rotate(Available, from, NoSession)
               behind == {s \in Available : s > from}
           IN  /\ next \in Available
               /\ from \in Ids => IF behind # {}
                                  THEN next \in behind /\ \A s \in behind : next <= s
                                  ELSE \A s \in Available : next <= s
<1> DEFINE behind == {s \in Available : s > from}
<1>1. Available \in SUBSET Nat /\ NoSession \notin Available /\ NoSession \notin Ids
  BY IdsAssumption DEF Available, Live
<1>2. behind \in SUBSET Nat
  BY <1>1
<1>3. Selector!Rotate(Available, from, NoSession) =
        IF from # NoSession /\ behind # {} THEN Min(behind) ELSE Min(Available)
  BY <1>1, SameMin DEF Selector!Rotate
<1> HIDE DEF behind
<1>4. behind # {} => Min(behind) \in behind /\ \A s \in behind : Min(behind) <= s
  BY <1>2, Least
<1>5. Min(Available) \in Available /\ \A s \in Available : Min(Available) <= s
  BY <1>1, Least
<1>6. from \in Ids => from # NoSession
  BY <1>1
<1> QED BY <1>3, <1>4, <1>5, <1>6 DEF behind

\* The instant at which a session is free again.
LEMMA FreeAgainTime ==
    ASSUME ClockInv, NEW s \in Live, Available = {}
    PROVE  /\ FreeAgain(s) \in Nat /\ FreeAgain(s) > now
           /\ \A t \in Nat : FreeAgain(s) <= t <=> \A b \in Obstacles(rows[s], now) : b <= t
<1> DEFINE B == Obstacles(rows[s], now)
<1>1. IsRow(rows[s], now) /\ now \in Nat
  BY DEF ClockInv, IsRow, Live
<1>2. B \in SUBSET Nat /\ IsFiniteSet(B) /\ \A b \in B : b > now
  BY <1>1, ObstaclesTimes
<1>3. B # {}
  BY DEF Available
<1> HIDE DEF B
<1>4. \E m \in B : \A y \in B : m >= y
  <2>1. PICK m \in B : \A y \in B : y <= m
    BY <1>2, <1>3, Largest
  <2> QED BY <1>2, <2>1
<1>5. Selector!Max(B) \in B /\ \A y \in B : Selector!Max(B) >= y
  BY <1>4 DEF Selector!Max
<1> DEFINE m == Selector!Max(B)
<1>6. m \in B /\ (\A y \in B : m >= y) /\ m \in Nat /\ m > now
  BY <1>2, <1>5
<1> HIDE DEF m
<1>7. \A t \in Nat : m <= t <=> \A b \in B : b <= t
  BY <1>2, <1>6
<1> QED BY <1>6, <1>7 DEF FreeAgain, m, B

\* Who is usable at a later instant, with the rows as they will be by then.
LEMMA UsableLater ==
    ASSUME ClockInv, NEW t \in Nat, t > now
    PROVE  Selector!UsableSet(Selector!AtTime(t), t) =
              {s \in Live : \A b \in Obstacles(rows[s], now) : b <= t}
<1>1. ASSUME NEW s \in Ids
      PROVE  /\ Selector!AtTime(t)[s] = Later(rows[s], t)
             /\ Selector!UsableAt(Selector!AtTime(t)[s], t) <=>
                   Clear(rows[s], now) /\ \A b \in Obstacles(rows[s], now) : b <= t
  <2>1. Selector!AtTime(t)[s] = Later(rows[s], t)
    BY DEF Selector!AtTime, Later
  <2>2. IsRow(rows[s], now) /\ now \in Nat
    BY DEF ClockInv, IsRow
  <2> QED BY <2>1, <2>2, UsableWhenClear
<1> QED BY <1>1 DEF Selector!UsableSet, Live

LEMMA UsableSessions ==
    ASSUME ClockInv PROVE Selector!UsableSet(rows, now) = Available
<1>1. ASSUME NEW s \in Ids
      PROVE  Selector!UsableAt(rows[s], now) <=>
                Clear(rows[s], now) /\ Obstacles(rows[s], now) = {}
  <2>1. IsRow(rows[s], now) /\ now \in Nat
    BY DEF ClockInv, IsRow
  <2> QED BY <2>1, UsableNow
<1> QED BY <1>1 DEF Selector!UsableSet, Live, Available

LEMMA ResumeExact == ClockInv => ResumeIsExact
<1> SUFFICES ASSUME ClockInv, Selector!Choice.session = NoSession PROVE ResumeIsExact
  BY DEF ResumeIsExact, Selector!ResumeIsExact
<1> DEFINE choice == Selector!Choice
           times == {FreeAgain(s) : s \in Live}
<1>1. /\ choice.session = IF Available = {} THEN NoSession
                          ELSE Selector!Rotate(Available, rotated, NoSession)
      /\ choice.resume = IF Available # {} \/ Live = {} THEN NoTime ELSE Min(times)
  BY Call DEF Selector!Choice
<1>2. now \in Nat /\ MaxTime \in Nat
  BY ClockAssumption DEF ClockInv
<1>3. Available = {}
  <2> SUFFICES ASSUME Available # {} PROVE FALSE
    OBVIOUS
  <2>1. Selector!Rotate(Available, rotated, NoSession) \in Available
    BY Rotation
  <2>2. NoSession \notin Available
    BY IdsAssumption DEF Available, Live
  <2> QED BY <1>1, <2>1, <2>2
<1>4. ASSUME NEW t \in Nat, t > now
      PROVE  Selector!UsableSet(Selector!AtTime(t), t) = {s \in Live : FreeAgain(s) <= t}
  BY <1>3, <1>4, UsableLater, FreeAgainTime
<1>5. CASE Live = {}
  <2>1. choice.resume = NoTime
    BY <1>1, <1>5
  <2>2. \A t \in now + 1 .. MaxTime : Selector!UsableSet(Selector!AtTime(t), t) = {}
    BY <1>2, <1>4, <1>5
  <2> QED BY <2>1, <2>2 DEF ResumeIsExact, Selector!ResumeIsExact
<1>6. CASE Live # {}
  <2>1. times \in SUBSET Nat /\ times # {} /\ \A b \in times : b > now
    BY <1>3, <1>6, FreeAgainTime
  <2>2. Min(times) \in times /\ \A b \in times : Min(times) <= b
    BY <2>1, Least
  <2>3. choice.resume = Min(times)
    BY <1>1, <1>3, <1>6
  <2> DEFINE m == choice.resume
  <2>4. m \in Nat /\ m > now /\ m # NoTime
    BY <2>1, <2>2, <2>3, NoTimeAssumption
  <2>5. \E s \in Live : FreeAgain(s) = m
    BY <2>2, <2>3
  <2>6. \A s \in Live : m <= FreeAgain(s)
    BY <2>2, <2>3
  <2> HIDE DEF times, m
  <2>7. Selector!UsableSet(Selector!AtTime(m), m) # {}
    BY <1>4, <2>4, <2>5
  <2>8. ASSUME NEW t \in now + 1 .. m - 1
        PROVE  Selector!UsableSet(Selector!AtTime(t), t) = {}
    <3>1. t \in Nat /\ t > now /\ t < m
      BY <1>2, <2>4
    <3>2. \A s \in Live : FreeAgain(s) \in Nat
      BY <1>3, FreeAgainTime
    <3> QED BY <1>4, <2>4, <2>6, <3>1, <3>2
  <2> QED BY <2>4, <2>7, <2>8 DEF ResumeIsExact, Selector!ResumeIsExact, m
<1> QED BY <1>5, <1>6

\* A part of the available sessions that the rotation does not leave: behind its
\* last session comes the first of all, and in front of any session that is not
\* in the part stands one of the part that does not skip it.
LEMMA FairTurns == ClockInv => EveryoneGetsATurn
<1> SUFFICES ASSUME ClockInv PROVE EveryoneGetsATurn
  OBVIOUS
<1>1. Selector!UsableSet(rows, now) = Available
  BY UsableSessions
<1>2. Available \in SUBSET Nat /\ Available \subseteq Ids /\ IsFiniteSet(Available)
  BY IdsAssumption, FS_Subset DEF Available, Live
<1>3. Selector!Choice.session = IF Available = {} THEN NoSession
                                ELSE Selector!Rotate(Available, rotated, NoSession)
  BY Call DEF Selector!Choice
<1>4. ASSUME Available # {} PROVE Selector!Choice.session \in Available
  BY <1>3, <1>4, Rotation
<1>5. ASSUME NEW part \in SUBSET Available, part # {}, \A s \in part : Selector!After(s) \in part
      PROVE  part = Available
  <2> DEFINE next(s) == Selector!Rotate(Available, s, NoSession)
  <2>1. ASSUME NEW s \in part
        PROVE  /\ next(s) \in part
               /\ IF {a \in Available : a > s} # {}
                  THEN next(s) > s /\ \A a \in Available : a > s => next(s) <= a
                  ELSE \A a \in Available : next(s) <= a
    <3>1. Selector!After(s) = next(s)
      BY <1>5, Call DEF Selector!After
    <3>2. s \in Ids
      BY <1>2, <1>5
    <3> QED BY <1>5, <3>1, <3>2, Rotation
  <2> HIDE DEF next
  <2>2. part \in SUBSET Nat /\ IsFiniteSet(part)
    BY <1>2, FS_Subset
  <2>3. \E f \in part : \A a \in Available : f <= a
    <3>1. PICK m \in part : \A y \in part : y <= m
      BY <1>5, <2>2, Largest
    <3>2. {a \in Available : a > m} = {}
      <4>1. next(m) \in part /\ next(m) <= m
        BY <2>1, <3>1
      <4>2. next(m) \in Nat /\ m \in Nat
        BY <2>2, <4>1
      <4>3. ~(next(m) > m)
        BY <4>1, <4>2
      <4> QED BY <2>1, <4>3
    <3> QED BY <2>1, <3>2
  <2>4. ASSUME NEW x \in Available, x \notin part PROVE FALSE
    <3> DEFINE before == {s \in part : s < x}
    <3>1. before \in SUBSET Nat /\ IsFiniteSet(before)
      BY <2>2, FS_Subset
    <3>2. before # {}
      <4>1. PICK f \in part : f <= x
        BY <2>3
      <4>2. f \in Nat /\ x \in Nat /\ f # x
        BY <1>2, <2>2, <2>4
      <4> QED BY <4>1, <4>2
    <3>3. PICK p \in before : \A s \in before : s <= p
      BY <3>1, <3>2, Largest
    <3>4. p \in part /\ p \in Nat /\ x \in Nat /\ x > p
      BY <1>2, <2>2, <3>3
    <3>5. next(p) \in part /\ next(p) > p /\ next(p) <= x
      BY <2>1, <3>4
    <3>6. next(p) \in Nat /\ next(p) # x
      BY <2>2, <2>4, <3>5
    <3>7. next(p) \in before /\ next(p) <= p
      BY <3>3, <3>4, <3>5, <3>6
    <3> QED BY <3>4, <3>5, <3>6, <3>7
  <2> QED BY <2>4
<1>6. Selector!Choice.session \in IF Available = {} THEN {NoSession} ELSE Available
  BY <1>3, <1>4
<1>7. \A part \in (SUBSET Available) \ {{}} :
         (\A s \in part : Selector!After(s) \in part) => part = Available
  <2> TAKE part \in (SUBSET Available) \ {{}}
  <2>1. part \in SUBSET Available /\ part # {}
    OBVIOUS
  <2> QED BY <1>5, <2>1
<1> QED BY <1>1, <1>6, <1>7, Zenon DEF EveryoneGetsATurn, Selector!EveryoneGetsATurn

-----------------------------------------------------------------------------
(* The selector's clock.                                                   *)

LEMMA ClockInit == MCInit => ClockInv
<1>1. ASSUME NEW row \in Selector!Kinds
      PROVE  row \in Selector!Rows(Nat, Nat)
  <2> DEFINE sound == Selector!Healthy
  <2>1. sound \in Selector!Rows(Nat, Nat)
    BY DEF Selector!Healthy, Selector!Rows, Selector!Statuses
  <2> HIDE DEF sound
  <2>2. ASSUME NEW u \in Nat, NEW w \in {"flood_wait", "batch_wait"}
        PROVE  LET row1 == [sound EXCEPT !.status = w, !.until = u]
               IN  /\ row1 \in Selector!Rows(Nat, Nat)
                   /\ [row1 EXCEPT !.count = Limit] \in Selector!Rows(Nat, Nat)
                   /\ [row1 EXCEPT !.locked = TRUE] \in Selector!Rows(Nat, Nat)
    BY <2>1, ClockAssumption DEF Selector!Rows, Selector!Statuses
  <2>3. /\ [sound EXCEPT !.data = FALSE] \in Selector!Rows(Nat, Nat)
        /\ [sound EXCEPT !.proxyOn = FALSE] \in Selector!Rows(Nat, Nat)
        /\ [sound EXCEPT !.proxyFailed = TRUE] \in Selector!Rows(Nat, Nat)
        /\ [sound EXCEPT !.locked = TRUE] \in Selector!Rows(Nat, Nat)
        /\ [sound EXCEPT !.count = Limit] \in Selector!Rows(Nat, Nat)
        /\ [sound EXCEPT !.status = "proxy_error"] \in Selector!Rows(Nat, Nat)
        /\ [sound EXCEPT !.status = "flood_wait"] \in Selector!Rows(Nat, Nat)
    BY <2>1, ClockAssumption DEF Selector!Rows, Selector!Statuses
  <2>4. /\ [sound EXCEPT !.status = "flood_wait", !.until = MaxTime, !.count = Limit]
             = [[sound EXCEPT !.status = "flood_wait", !.until = MaxTime] EXCEPT !.count = Limit]
        /\ [sound EXCEPT !.status = "batch_wait", !.until = 2, !.count = Limit]
             = [[sound EXCEPT !.status = "batch_wait", !.until = 2] EXCEPT !.count = Limit]
        /\ [sound EXCEPT !.status = "batch_wait", !.until = 1, !.locked = TRUE]
             = [[sound EXCEPT !.status = "batch_wait", !.until = 1] EXCEPT !.locked = TRUE]
    BY <2>1 DEF Selector!Rows
  <2>5. 1 \in Nat /\ 2 \in Nat /\ 3 \in Nat /\ MaxTime \in Nat
    BY ClockAssumption
  <2> QED BY <1>1, <2>1, <2>2, <2>3, <2>4, <2>5, Zenon DEF Selector!Kinds, sound
<1>2. CASE Selector!Init
  <2>1. rows \in [Ids -> Selector!Rows(Nat, Nat)]
    BY <1>1, <1>2 DEF Selector!Init
  <2>2. now = 0 /\ ~(now >= Midnight) /\ excluded \subseteq Ids
    BY <1>2, ClockAssumption DEF Selector!Init
  <2> QED BY <2>1, <2>2 DEF ClockInv
<1>3. CASE SelectorIdle
  <2> DEFINE row == [Selector!Healthy EXCEPT !.data = FALSE]
  <2>1. row \in Selector!Rows(Nat, Nat) /\ row.count = 0
    BY DEF Selector!Healthy, Selector!Rows, Selector!Statuses
  <2> HIDE DEF row
  <2>2. rows = [s \in Ids |-> row] /\ now \in Nat /\ excluded = {}
    BY <1>3, ClockAssumption DEF SelectorIdle, row
  <2> QED BY <2>1, <2>2 DEF ClockInv
<1> QED BY <1>2, <1>3 DEF MCInit

LEMMA ClockStep == ClockInv /\ [MCNext]_<<vars, clockVars>> => ClockInv'
<1> SUFFICES ASSUME ClockInv, [MCNext]_<<vars, clockVars>> PROVE ClockInv'
  OBVIOUS
<1>1. CASE UNCHANGED clockVars
  BY <1>1 DEF ClockInv, clockVars
<1>2. CASE Selector!Pick
  <2>1. rows' = [s \in Ids |-> Selector!Refreshed(rows[s], now)] /\ UNCHANGED <<now, excluded>>
    BY <1>2, Call DEF Selector!Pick, Selector!Choice
  <2>2. ASSUME NEW s \in Ids
        PROVE  /\ Selector!Refreshed(rows[s], now) \in Selector!Rows(Nat, Nat)
               /\ Selector!Refreshed(rows[s], now).count = rows[s].count
    BY RefreshedFields DEF ClockInv
  <2> QED BY <2>1, <2>2 DEF ClockInv
<1>3. CASE Selector!Tick
  <2>1. rows' = Selector!AtTime(now + 1) /\ now' = now + 1 /\ excluded' = excluded
    BY <1>3 DEF Selector!Tick
  <2>2. rows' = [s \in Ids |-> Later(rows[s], now + 1)]
    BY <2>1 DEF Selector!AtTime, Later
  <2>3. ASSUME NEW s \in Ids, NEW t \in Nat
        PROVE  /\ Later(rows[s], t) \in Selector!Rows(Nat, Nat)
               /\ t >= Midnight => Later(rows[s], t).count = 0
    BY DEF ClockInv, Later, Selector!Rows
  <2>4. now + 1 \in Nat
    BY DEF ClockInv
  <2> QED BY <2>1, <2>2, <2>3, <2>4 DEF ClockInv
<1> QED BY <1>1, <1>2, <1>3 DEF MCNext, Selector!Next, clockVars

LEMMA Clock == MCSpec => []ClockInv
BY ClockInit, ClockStep, PTL DEF MCSpec

\* However many sessions there are, whatever their rows hold and whenever the
\* usage date changes: a job without a session is put off to the first instant
\* at which select_next_available_session would return one.
THEOREM ResumeHolds == MCSpec => []ResumeIsExact
BY Clock, ResumeExact, PTL

\* However many sessions there are: select_next_available_session returns a
\* session exactly if one is usable, and its rotation keeps none of them out.
THEOREM TurnsHold == MCSpec => []EveryoneGetsATurn
BY Clock, FairTurns, PTL
=============================================================================
