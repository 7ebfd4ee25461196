--------------------------- MODULE LicensingProofs ---------------------------
(***************************************************************************)
(* Proofs about Licensing for any number of devices and any durations.     *)
(*                                                                         *)
(* That a working device was entitled less than a lease ago is not         *)
(* inductive: the lease it works with was issued by a validate() that had  *)
(* read the licence and the activation at two moments, and was applied     *)
(* later.  The invariant follows the lease backwards: a stored lease and   *)
(* one on its way are backed by the last moment of entitlement, and while  *)
(* validate() is between its reads an active activation means that this    *)
(* moment is now.  The last part survives an activation between the reads  *)
(* because activate() checks the licence in the same transaction.          *)
(***************************************************************************)
EXTENDS Licensing, FiniteSetTheorems, TLAPS

-----------------------------------------------------------------------------
(* The inductive invariant.                                                *)

\* The lease was issued no later than the last moment of entitlement.
Backed(d, lease) == lease.exp <= lapse[d] + Lease

Backing ==
    /\ \A d \in Devices : lapse[d] <= now
    /\ \A d \in Devices : Backed(d, token[d])
    /\ \A d \in Devices, c \in Callers :
        call[d][c].at = "granted" => Backed(d, call[d][c].lease)
    /\ \A d \in Devices, c \in Callers :
        call[d][c].at = "checked" /\ act[d] = "active" => lapse[d] = now

\* Only a licence with an end is extended.
LimitedOnly == \A a \in Admins : extending[a] # {} => ~IsUnlimited

IInv == TypeOK /\ DeviceLimit /\ Backing /\ LimitedOnly

-----------------------------------------------------------------------------
(* Types.                                                                  *)

LEMMA IssuedType ==
    ASSUME TypeOK, NEW until \in Nat
    PROVE  /\ Issued(until) \in Leases
           /\ Issued(until).exp <= now + Lease
<1>1. now + Lease \in Nat
  BY TimeAssumption DEF TypeOK
<1> QED BY <1>1 DEF Issued, Leases

LEMMA EndsType ==
    ASSUME TypeOK
    PROVE  EndsAt \in Nat /\ Until(EndsAt) \in Nat /\ Until(expires) \in Nat
<1>1. Never \in Nat
  BY TimeAssumption DEF Never
<1>2. ~IsUnlimited => duration \in Nat
  BY DEF TypeOK, IsUnlimited
<1>3. EndsAt \in Nat
  BY <1>1, <1>2 DEF TypeOK, EndsAt
<1> QED BY <1>1, <1>3 DEF TypeOK, Until

\* The history variable moves to the present exactly while the device is
\* entitled, and never back.
LEMMA LapseStep ==
    ASSUME TypeOK, \A d \in Devices : lapse[d] <= now,
           now' \in {now, now + 1}, Remember
    PROVE  /\ now' \in Nat /\ lapse' \in [Devices -> Nat]
           /\ \A d \in Devices : lapse[d] <= lapse'[d] /\ lapse'[d] <= now'
           /\ \A d \in Devices : Entitled(d)' => lapse'[d] = now'
           /\ \A d \in Devices : lapse'[d] \in {lapse[d], now'}
<1>1. now \in Nat /\ now' \in Nat /\ now <= now'
  BY DEF TypeOK
<1>2. ASSUME NEW d \in Devices
      PROVE  /\ lapse[d] \in Nat /\ lapse[d] <= now
             /\ lapse'[d] = IF Entitled(d)' THEN now' ELSE lapse[d]
  BY <1>2 DEF TypeOK, Remember
<1>3. lapse' \in [Devices -> Nat]
  BY <1>1, <1>2 DEF Remember
<1> QED BY <1>1, <1>2, <1>3

\* A transaction of activate() leaves its device entitled, and one place less.
LEMMA EnterStep ==
    ASSUME TypeOK, DeviceLimit, NEW d \in Devices, Enter(d), now' = now
    PROVE  /\ Entitled(d)'
           /\ \A e \in Devices : e # d => act'[e] = act[e]
           /\ DeviceLimit'
           /\ status' \in {"active", "revoked"} /\ started' \in BOOLEAN
           /\ duration' \in (Nat \ {0}) \cup {Unlimited} /\ expires' \in Nat
           /\ act' \in [Devices -> {"none", "active", "reset"}]
<1>1. /\ act' \in [Devices -> {"none", "active", "reset"}] /\ act'[d] = "active"
      /\ \A e \in Devices : e # d => act'[e] = act[e]
  BY DEF TypeOK, Enter
<1>2. /\ status' = status /\ duration' = duration
      /\ started' = TRUE /\ expires' = EndsAt
  BY DEF Enter
<1>3. Entitled(d)'
  <2>1. CASE Usable
    <3>1. EndsAt = expires
      BY <2>1 DEF Usable, EndsAt, Begins
    <3> QED BY <1>1, <1>2, <2>1, <3>1 DEF Usable, Entitled, IsUnlimited
  <2>2. CASE Begins
    <3>1. ~IsUnlimited => duration \in Nat /\ duration > 0
      BY DEF TypeOK, IsUnlimited
    <3>2. ~IsUnlimited => now < EndsAt
      BY <2>2, <3>1 DEF EndsAt, TypeOK
    <3> QED BY <1>1, <1>2, <2>2, <3>2 DEF Begins, Usable, Entitled, IsUnlimited
  <2> QED BY <2>1, <2>2 DEF Enter, MayEnter
<1>4. DeviceLimit'
  <2>1. Active' = Active \cup {d}
    BY <1>1 DEF Active
  <2>2. IsFiniteSet(Active)
    BY DevicesAssumption, FS_Subset DEF Active
  <2>3. Cardinality(Active \cup {d})
          = IF d \in Active THEN Cardinality(Active) ELSE Cardinality(Active) + 1
    BY <2>2, FS_AddElement
  <2>4. Cardinality(Active) \in Nat
    BY <2>2, FS_CardinalityType
  <2>5. d \in Active \/ Cardinality(Active) < MaxDevices
    BY DEF Enter, MayEnter, Active
  <2> QED BY <2>1, <2>3, <2>4, <2>5, LimitAssumption DEF DeviceLimit
<1>5. expires' \in Nat
  BY <1>2, EndsType
<1> QED BY <1>1, <1>2, <1>3, <1>4, <1>5 DEF TypeOK

-----------------------------------------------------------------------------
(* The initial states.                                                     *)

LEMMA InitInvariant == Init => IInv
<1> SUFFICES ASSUME Init PROVE IInv
  OBVIOUS
<1>1. /\ NoLease \in Leases
      /\ Quiet \in Requests
  BY DEF Quiet, NoLease, Stages, Requests, Leases
<1>2. TypeOK
  <2>1. duration \in (Nat \ {0}) \cup {Unlimited}
    BY DurationAssumption DEF Init
  <2>2. token \in [Devices -> Leases]
    BY <1>1 DEF Init
  <2>3. call \in [Devices -> [Callers -> Requests]]
    BY <1>1 DEF Init
  <2>4. extending \in [Admins -> SUBSET [started : BOOLEAN, expires : Nat]]
    BY DEF Init
  <2> QED BY <2>1, <2>2, <2>3, <2>4 DEF Init, TypeOK
<1>3. DeviceLimit
  <2>1. Active = {}
    BY DEF Init, Active
  <2> QED BY <2>1, FS_EmptySet, LimitAssumption DEF DeviceLimit
<1>4. Backing
  BY TimeAssumption DEF Init, Backing, Backed, Quiet, NoLease
<1>5. LimitedOnly
  BY DEF Init, LimitedOnly
<1> QED BY <1>2, <1>3, <1>4, <1>5 DEF IInv

-----------------------------------------------------------------------------
(* The steps.  Each action keeps the types and the device limit, and does  *)
(* to leases, requests and activations only what a backed step may do.     *)

\* What a step may do to keep leases backed: a stored lease is new only if it
\* was on its way, one is put on its way only to a device that is entitled, a
\* licence is only read while it is usable, and a device becomes active only
\* when it is entitled.
BackedStep ==
    /\ now' = now
    /\ \A d \in Devices :
        \/ token'[d] \in {token[d], NoLease}
        \/ \E c \in Callers : call[d][c].at = "granted" /\ token'[d] = call[d][c].lease
    /\ \A d \in Devices, c \in Callers :
        call'[d][c].at = "granted" =>
            \/ call'[d][c] = call[d][c]
            \/ Entitled(d)' /\ call'[d][c].lease.exp <= now + Lease
            \/ lapse[d] = now /\ call'[d][c].lease.exp <= now + Lease
    /\ \A d \in Devices, c \in Callers :
        call'[d][c].at = "checked" => call[d][c].at = "checked" \/ Usable'
    /\ \A d \in Devices : act'[d] = "active" => act[d] = "active" \/ Entitled(d)'

\* A backed step keeps every lease backed.
LEMMA BackingStep ==
    ASSUME IInv, TypeOK', Remember, BackedStep
    PROVE  Backing'
<1> USE DEF IInv
<1>1. \A d \in Devices : lapse[d] <= now
  BY DEF Backing
<1>2. /\ now' \in Nat /\ lapse' \in [Devices -> Nat]
      /\ \A d \in Devices : lapse[d] <= lapse'[d] /\ lapse'[d] <= now'
      /\ \A d \in Devices : Entitled(d)' => lapse'[d] = now'
      /\ \A d \in Devices : lapse'[d] \in {lapse[d], now'}
  BY <1>1, LapseStep DEF BackedStep
<1>3. ASSUME NEW d \in Devices, NEW lease \in Leases, Backed(d, lease)
      PROVE  lease.exp <= lapse'[d] + Lease
  BY <1>2, <1>3, TimeAssumption DEF Backed, TypeOK, Leases
<1>4. ASSUME NEW d \in Devices
      PROVE  Backed(d, token[d])'
  <2>1. CASE token'[d] = token[d]
    BY <2>1, <1>3 DEF Backing, Backed, TypeOK
  <2>2. CASE token'[d] = NoLease
    BY <2>2, <1>2, TimeAssumption DEF NoLease, Backed
  <2>3. ASSUME NEW c \in Callers, call[d][c].at = "granted",
               token'[d] = call[d][c].lease
        PROVE  Backed(d, token[d])'
    <3>1. call[d][c].lease \in Leases
      BY DEF TypeOK, Requests
    <3>2. Backed(d, call[d][c].lease)
      BY <2>3 DEF Backing
    <3> QED BY <2>3, <3>1, <3>2, <1>3 DEF Backed
  <2> QED BY <2>1, <2>2, <2>3 DEF BackedStep
<1>5. ASSUME NEW d \in Devices, NEW c \in Callers, call'[d][c].at = "granted"
      PROVE  Backed(d, call[d][c].lease)'
  <2>1. CASE call'[d][c] = call[d][c]
    <3>1. call[d][c].lease \in Leases
      BY DEF TypeOK, Requests
    <3>2. Backed(d, call[d][c].lease)
      BY <2>1, <1>5 DEF Backing
    <3> QED BY <2>1, <3>1, <3>2, <1>3 DEF Backed
  <2>2. CASE Entitled(d)' /\ call'[d][c].lease.exp <= now + Lease
    BY <2>2, <1>2 DEF Backed, BackedStep
  <2>3. CASE lapse[d] = now /\ call'[d][c].lease.exp <= now + Lease
    <3>1. lapse'[d] = now
      BY <2>3, <1>2 DEF BackedStep
    <3> QED BY <2>3, <3>1 DEF Backed
  <2> QED BY <1>5, <2>1, <2>2, <2>3 DEF BackedStep
<1>6. ASSUME NEW d \in Devices, NEW c \in Callers,
             call'[d][c].at = "checked", act'[d] = "active"
      PROVE  lapse'[d] = now'
  <2>1. CASE Entitled(d)'
    BY <2>1, <1>2
  <2>2. CASE ~Entitled(d)'
    <3>1. act[d] = "active" /\ call[d][c].at = "checked"
      BY <1>6, <2>2 DEF BackedStep, Entitled
    <3>2. lapse[d] = now
      BY <3>1 DEF Backing
    <3> QED BY <3>2, <1>2 DEF BackedStep
  <2> QED BY <2>1, <2>2
<1> QED BY <1>2, <1>4, <1>5, <1>6 DEF Backing

\* Moving one request keeps the type of all and leaves the others alone.
LEMMA MoveStep ==
    ASSUME TypeOK, NEW d \in Devices, NEW c \in Callers, NEW at \in Stages,
           NEW lease \in Leases, Move(d, c, at, lease)
    PROVE  /\ call' \in [Devices -> [Callers -> Requests]]
           /\ call'[d][c] = [at |-> at, lease |-> lease]
           /\ \A e \in Devices, b \in Callers :
                ~(e = d /\ b = c) => call'[e][b] = call[e][b]
<1>1. [at |-> at, lease |-> lease] \in Requests
  BY DEF Requests
<1>2. call \in [Devices -> [Callers -> Requests]]
  BY DEF TypeOK
<1>3. call' = [call EXCEPT ![d][c] = [at |-> at, lease |-> lease]]
  BY DEF Move
<1> HIDE DEF Requests
<1>4. call' \in [Devices -> [Callers -> Requests]]
  BY <1>1, <1>2, <1>3
<1>5. call'[d][c] = [at |-> at, lease |-> lease]
  BY <1>2, <1>3
<1>6. \A e \in Devices, b \in Callers : ~(e = d /\ b = c) => call'[e][b] = call[e][b]
  BY <1>2, <1>3
<1> QED BY <1>4, <1>5, <1>6

\* Fewer or the same active devices keep the limit.
LEMMA FewerActive ==
    ASSUME DeviceLimit, \A d \in Devices : act'[d] = "active" => act[d] = "active"
    PROVE  DeviceLimit'
<1>1. Active' \subseteq Active
  BY DEF Active
<1>2. IsFiniteSet(Active)
  BY DevicesAssumption, FS_Subset DEF Active
<1>3. /\ Cardinality(Active') <= Cardinality(Active)
      /\ Cardinality(Active') \in Nat /\ Cardinality(Active) \in Nat
  BY <1>1, <1>2, FS_Subset, FS_CardinalityType
<1> QED BY <1>3, LimitAssumption DEF DeviceLimit

\* The hypotheses that every action below shares.
Stable == IInv /\ lapse' \in [Devices -> Nat]

Preserved == TypeOK' /\ DeviceLimit' /\ LimitedOnly' /\ BackedStep

\* A step that leaves the server alone, moves one request of one device and
\* perhaps stores a lease that was on its way.
LEMMA DeviceStep ==
    ASSUME Stable, NEW d \in Devices, NEW c \in Callers, NEW at \in Stages,
           NEW lease \in Leases, Move(d, c, at, lease),
           UNCHANGED <<server, extending, online, now>>,
           lost' \subseteq Devices, token' \in [Devices -> Leases],
           block' \in [Devices -> {"none", "revoked", "server_unreachable"}],
           asks' \in Nat, orders' \in Nat, faults' \in Nat,
           \A e \in Devices :
              \/ token'[e] \in {token[e], NoLease}
              \/ \E b \in Callers :
                    call[e][b].at = "granted" /\ token'[e] = call[e][b].lease,
           at = "granted" => lapse[d] = now /\ lease.exp <= now + Lease,
           at = "checked" => Usable
    PROVE  Preserved
<1> USE DEF Stable, IInv
<1>1. TypeOK
  OBVIOUS
<1>2. /\ call' \in [Devices -> [Callers -> Requests]]
      /\ call'[d][c] = [at |-> at, lease |-> lease]
      /\ \A e \in Devices, b \in Callers :
           ~(e = d /\ b = c) => call'[e][b] = call[e][b]
  BY <1>1, MoveStep
<1>3. UNCHANGED <<status, started, duration, expires, act>>
  BY DEF server
<1>4. TypeOK'
  BY <1>2, <1>3 DEF TypeOK
<1>5. DeviceLimit'
  BY <1>3, FewerActive
<1>6. Usable => Usable'
  BY <1>3 DEF Usable, IsUnlimited
<1>7. \A e \in Devices, b \in Callers :
        /\ call'[e][b].at = "granted" =>
            \/ call'[e][b] = call[e][b]
            \/ lapse[e] = now /\ call'[e][b].lease.exp <= now + Lease
        /\ call'[e][b].at = "checked" => call[e][b].at = "checked" \/ Usable'
  BY <1>2, <1>6
<1>8. LimitedOnly'
  BY <1>3 DEF LimitedOnly, IsUnlimited
<1> QED BY <1>3, <1>4, <1>5, <1>7, <1>8 DEF BackedStep, Preserved

\* The transaction of activate(), whoever waits for it.
LEMMA ActivatePreserves ==
    ASSUME Stable, NEW d \in Devices, Activate(d)
    PROVE  Preserved
<1> USE DEF Stable, IInv
<1>1. /\ "form" \in Callers /\ now' = now
      /\ UNCHANGED <<lost, extending, online, token, block, asks, orders, faults>>
  BY DEF Activate, Callers, device, bounds
<1> DEFINE l == Issued(Until(EndsAt))
<1>2. l \in Leases /\ l.exp <= now + Lease
  BY EndsType, IssuedType
<1> HIDE DEF l
<1>3. CASE Enter(d) /\ Move(d, "form", "granted", l)
  <2>1. "granted" \in Stages /\ TypeOK
    BY DEF Stages
  <2>2. /\ call' \in [Devices -> [Callers -> Requests]]
        /\ call'[d]["form"] = [at |-> "granted", lease |-> l]
        /\ \A e \in Devices, b \in Callers :
             ~(e = d /\ b = "form") => call'[e][b] = call[e][b]
    BY <1>1, <1>2, <1>3, <2>1, MoveStep
  <2>3. /\ Entitled(d)' /\ DeviceLimit'
        /\ \A e \in Devices : e # d => act'[e] = act[e]
        /\ status' \in {"active", "revoked"} /\ started' \in BOOLEAN
        /\ duration' \in (Nat \ {0}) \cup {Unlimited} /\ expires' \in Nat
        /\ act' \in [Devices -> {"none", "active", "reset"}]
    BY <1>1, <1>3, EnterStep
  <2>4. TypeOK'
    BY <1>1, <2>2, <2>3 DEF TypeOK
  <2>5. BackedStep
    BY <1>1, <1>2, <2>2, <2>3 DEF BackedStep
  <2>6. LimitedOnly'
    BY <1>1, <1>3 DEF Enter, LimitedOnly, IsUnlimited
  <2> QED BY <2>3, <2>4, <2>5, <2>6 DEF Preserved
<1>4. CASE Refuse(d, "form") /\ UNCHANGED server
  <2>1. "refused" \in Stages /\ NoLease \in Leases
    BY DEF NoLease, Leases, Stages
  <2>2. Move(d, "form", "refused", NoLease)
    BY <1>4 DEF Refuse
  <2> QED BY <1>1, <1>4, <2>1, <2>2, DeviceStep DEF TypeOK
<1> QED BY <1>3, <1>4 DEF Activate, l

LEMMA ActivateLostPreserves ==
    ASSUME Stable, NEW d \in Devices, ActivateLost(d)
    PROVE  Preserved
<1> USE DEF Stable, IInv
<1>1. /\ now' = now /\ lost' \subseteq Devices
      /\ UNCHANGED <<extending, online, token, block, call, asks, orders, faults>>
  BY DEF ActivateLost, device, bounds, TypeOK
<1>2. CASE Enter(d)
  <2>1. /\ Entitled(d)' /\ DeviceLimit'
        /\ \A e \in Devices : e # d => act'[e] = act[e]
        /\ status' \in {"active", "revoked"} /\ started' \in BOOLEAN
        /\ duration' \in (Nat \ {0}) \cup {Unlimited} /\ expires' \in Nat
        /\ act' \in [Devices -> {"none", "active", "reset"}]
    BY <1>1, <1>2, EnterStep
  <2>2. TypeOK'
    BY <1>1, <2>1 DEF TypeOK
  <2>3. LimitedOnly'
    BY <1>1, <1>2 DEF Enter, LimitedOnly, IsUnlimited
  <2> QED BY <1>1, <2>1, <2>2, <2>3 DEF BackedStep, Preserved
<1>3. CASE UNCHANGED server
  <2>1. UNCHANGED <<status, started, duration, expires, act>>
    BY <1>3 DEF server
  <2>2. TypeOK' /\ DeviceLimit'
    BY <1>1, <2>1, FewerActive DEF TypeOK
  <2>3. LimitedOnly'
    BY <1>1, <2>1 DEF LimitedOnly, IsUnlimited
  <2> QED BY <1>1, <2>1, <2>2, <2>3 DEF BackedStep, Preserved
<1> QED BY <1>2, <1>3 DEF ActivateLost

\* The administrator touches no request, and makes no device active.
LEMMA OrdersPreserve ==
    ASSUME Stable,
           \/ Revoke \/ ResetDevices
           \/ \E a \in Admins : BeginExtend(a) \/ FinishExtend(a)
    PROVE  Preserved
<1> USE DEF Stable, IInv
<1>1. /\ now' = now /\ UNCHANGED <<lost, online, token, block, call>>
      /\ asks' \in Nat /\ orders' \in Nat /\ faults' \in Nat
  BY DEF Revoke, ResetDevices, BeginExtend, FinishExtend, Order, device, bounds, TypeOK
<1>2. \A d \in Devices : act'[d] = "active" => act[d] = "active"
  BY DEF Revoke, ResetDevices, BeginExtend, FinishExtend, server
<1>3. DeviceLimit'
  BY <1>2, FewerActive
<1>4. BackedStep
  BY <1>1, <1>2 DEF BackedStep
<1>5. TypeOK'
  <2>1. CASE Revoke
    BY <1>1, <2>1 DEF Revoke, TypeOK
  <2>2. CASE ResetDevices
    BY <1>1, <2>2 DEF ResetDevices, TypeOK
  <2>3. ASSUME NEW a \in Admins, BeginExtend(a) PROVE TypeOK'
    <3>1. Record \in [started : BOOLEAN, expires : Nat]
      BY DEF Record, TypeOK
    <3>2. extending' \in [Admins -> SUBSET [started : BOOLEAN, expires : Nat]]
      BY <2>3, <3>1 DEF BeginExtend, TypeOK
    <3> QED BY <1>1, <2>3, <3>2 DEF BeginExtend, server, TypeOK
  <2>4. ASSUME NEW a \in Admins, FinishExtend(a) PROVE TypeOK'
    <3>1. PICK r \in extending[a] : Extended(r)
      BY <2>4 DEF FinishExtend
    <3>2. r.started \in BOOLEAN /\ r.expires \in Nat
      BY DEF TypeOK
    <3>3. expires' \in Nat
      BY <3>1, <3>2, TimeAssumption DEF Extended, TypeOK
    <3>4. duration' \in (Nat \ {0}) \cup {Unlimited}
      <4>1. duration \in Nat \ {0}
        BY <2>4 DEF FinishExtend, LimitedOnly, IsUnlimited, TypeOK
      <4> QED BY <3>1, <4>1, TimeAssumption DEF Extended
    <3>5. extending' \in [Admins -> SUBSET [started : BOOLEAN, expires : Nat]]
      BY <2>4 DEF FinishExtend, TypeOK
    <3> QED BY <1>1, <2>4, <3>3, <3>4, <3>5 DEF FinishExtend, TypeOK
  <2> QED BY <2>1, <2>2, <2>3, <2>4
<1>6. LimitedOnly'
  <2>1. CASE UNCHANGED <<duration, extending>>
    BY <2>1 DEF LimitedOnly, IsUnlimited
  <2>2. ASSUME NEW a \in Admins, BeginExtend(a) PROVE LimitedOnly'
    BY <2>2 DEF BeginExtend, server, LimitedOnly, IsUnlimited
  <2>3. ASSUME NEW a \in Admins, FinishExtend(a) PROVE LimitedOnly'
    <3>1. duration \in Nat /\ duration' \in {duration, duration + Bonus}
      BY <2>3 DEF FinishExtend, Extended, LimitedOnly, IsUnlimited, TypeOK
    <3> QED BY <3>1, TimeAssumption, DurationAssumption DEF LimitedOnly, IsUnlimited
  <2> QED BY <2>1, <2>2, <2>3 DEF Revoke, ResetDevices
<1> QED BY <1>3, <1>4, <1>5, <1>6 DEF Preserved

\* validate() between its two reads, and after them.
LEMMA ValidatePreserves ==
    ASSUME Stable, NEW d \in Devices, NEW c \in Callers,
           ReadLicence(d, c) \/ ReadActivation(d, c)
    PROVE  Preserved
<1> USE DEF Stable, IInv
<1>1. UNCHANGED <<server, lost, extending, online, now, token, block, asks, orders, faults>>
  BY DEF ReadLicence, ReadActivation, device, bounds
<1>2. /\ {"checked", "refused", "granted"} \subseteq Stages /\ NoLease \in Leases
      /\ call[d][c].lease \in Leases
  BY DEF Stages, NoLease, Leases, TypeOK, Requests
<1>3. CASE Refuse(d, c)
  BY <1>1, <1>2, <1>3, DeviceStep DEF Refuse, TypeOK
<1>4. CASE Usable /\ Move(d, c, "checked", [exp |-> 0, until |-> Until(expires)])
  <2>1. [exp |-> 0, until |-> Until(expires)] \in Leases
    BY EndsType DEF Leases
  <2> QED BY <1>1, <1>2, <1>4, <2>1, DeviceStep DEF TypeOK
<1> DEFINE l == Issued(call[d][c].lease.until)
<1>5. l \in Leases /\ l.exp <= now + Lease
  <2>1. call[d][c].lease.until \in Nat
    BY <1>2 DEF Leases
  <2> QED BY <2>1, IssuedType
<1> HIDE DEF l
<1>6. CASE call[d][c].at = "checked" /\ act[d] = "active" /\ Move(d, c, "granted", l)
  <2>1. lapse[d] = now
    BY <1>6 DEF Backing
  <2> QED BY <1>1, <1>2, <1>5, <1>6, <2>1, DeviceStep DEF TypeOK
<1> QED BY <1>3, <1>4, <1>6 DEF ReadLicence, ReadActivation, l

\* A device asks, hears an answer or gives up.
LEMMA DevicePreserves ==
    ASSUME Stable, NEW d \in Devices, NEW c \in Callers,
           \/ Refresh(d) \/ Ask(d, c) \/ Fail(d, c)
           \/ HearGranted(d, c) \/ HearRefused(d, c)
    PROVE  Preserved
<1> USE DEF Stable, IInv
<1>1. /\ {"idle", "sent"} \subseteq Stages /\ NoLease \in Leases /\ "loop" \in Callers
      /\ call[d][c].lease \in Leases
  BY DEF Stages, NoLease, Leases, Callers, TypeOK, Requests
<1>2. CASE Refresh(d)
  <2>1. Move(d, "loop", "sent", NoLease)
    BY <1>2 DEF Refresh, Send
  <2>2. UNCHANGED <<server, lost, extending, online, now, token, block, asks, orders, faults>>
    BY <1>2 DEF Refresh, Send, device, bounds
  <2> QED BY <1>1, <2>1, <2>2, DeviceStep DEF TypeOK
<1>3. CASE Ask(d, c)
  <2>1. Move(d, c, "sent", NoLease)
    BY <1>3 DEF Ask, Send
  <2>2. UNCHANGED <<server, lost, extending, online, now, token, block, orders, faults>>
    BY <1>3 DEF Ask, Send, device
  <2>3. asks' \in Nat
    BY <1>3 DEF Ask, TypeOK
  <2> QED BY <1>1, <2>1, <2>2, <2>3, DeviceStep DEF TypeOK
<1>4. CASE Fail(d, c)
  <2>1. Move(d, c, "idle", NoLease)
    BY <1>4 DEF Fail, HangUp
  <2>2. UNCHANGED <<server, extending, online, now, token, asks, orders>>
    BY <1>4 DEF Fail
  <2>3. faults' \in Nat /\ lost' \subseteq Devices
    BY <1>4 DEF Fail, Abandon, TypeOK
  <2>4. block' \in [Devices -> {"none", "revoked", "server_unreachable"}]
    BY <1>4 DEF Fail, TypeOK
  <2> QED BY <1>1, <2>1, <2>2, <2>3, <2>4, DeviceStep DEF TypeOK
<1>5. CASE HearGranted(d, c)
  <2>1. Move(d, c, "idle", NoLease)
    BY <1>5 DEF HearGranted, HangUp
  <2>2. UNCHANGED <<server, lost, extending, online, now, asks, orders, faults>>
    BY <1>5 DEF HearGranted, bounds
  <2>3. UNCHANGED device \/ Accept(d, call[d][c].lease)
    BY <1>5 DEF HearGranted
  <2>4. /\ token' \in [Devices -> Leases]
        /\ block' \in [Devices -> {"none", "revoked", "server_unreachable"}]
    BY <1>1, <2>3 DEF device, Accept, TypeOK
  <2>5. \A e \in Devices :
          token'[e] = token[e] \/ (e = d /\ token'[e] = call[d][c].lease)
    BY <2>3 DEF device, Accept, TypeOK
  <2>6. call[d][c].at = "granted"
    BY <1>5 DEF HearGranted
  <2> QED BY <1>1, <2>1, <2>2, <2>4, <2>5, <2>6, DeviceStep DEF TypeOK
<1>6. CASE HearRefused(d, c)
  <2>1. Move(d, c, "idle", NoLease)
    BY <1>6 DEF HearRefused, HangUp
  <2>2. UNCHANGED <<server, lost, extending, online, now, asks, orders, faults>>
    BY <1>6 DEF HearRefused, bounds
  <2>3. UNCHANGED device \/ Refused(d)
    BY <1>6 DEF HearRefused
  <2>4. /\ token' \in [Devices -> Leases]
        /\ block' \in [Devices -> {"none", "revoked", "server_unreachable"}]
        /\ \A e \in Devices : token'[e] \in {token[e], NoLease}
    BY <1>1, <2>3 DEF device, Refused, TypeOK
  <2> QED BY <1>1, <2>1, <2>2, <2>4, DeviceStep DEF TypeOK
<1> QED BY <1>2, <1>3, <1>4, <1>5, <1>6

LEMMA RestartPreserves ==
    ASSUME Stable, NEW d \in Devices, Restart(d)
    PROVE  Preserved
<1> USE DEF Stable, IInv
<1>1. /\ UNCHANGED <<status, started, duration, expires, act, extending, online,
                     token, block, now, orders, faults>>
      /\ asks' \in Nat /\ lost' \subseteq Devices
  BY DEF Restart, Abandon, server, device, TypeOK
<1>2. Quiet \in Requests /\ Quiet.at = "idle"
  BY DEF Quiet, NoLease, Stages, Requests, Leases
<1>3. /\ call' \in [Devices -> [Callers -> Requests]]
      /\ \A e \in Devices, b \in Callers : call'[e][b] = call[e][b] \/ call'[e][b] = Quiet
  BY <1>2 DEF Restart, TypeOK
<1>4. TypeOK'
  BY <1>1, <1>3 DEF TypeOK
<1>5. DeviceLimit' /\ LimitedOnly'
  BY <1>1, FewerActive DEF LimitedOnly, IsUnlimited
<1>6. BackedStep
  BY <1>1, <1>2, <1>3 DEF BackedStep
<1> QED BY <1>4, <1>5, <1>6 DEF Preserved

\* A tick finds no validate() between its reads.
LEMMA TickPreserves ==
    ASSUME IInv, Remember, Tick
    PROVE  IInv'
<1> USE DEF IInv
<1>1. /\ UNCHANGED <<status, started, duration, expires, act, lost, extending, online,
                     token, block, call, asks, orders, faults>>
      /\ now' = now + 1
  BY DEF Tick, server, device, bounds
<1>2. \A d \in Devices : lapse[d] <= now
  BY DEF Backing
<1>3. /\ now' \in Nat /\ lapse' \in [Devices -> Nat]
      /\ \A d \in Devices : lapse[d] <= lapse'[d] /\ lapse'[d] <= now'
  BY <1>1, <1>2, LapseStep
<1>4. TypeOK'
  BY <1>1, <1>3 DEF TypeOK
<1>5. DeviceLimit' /\ LimitedOnly'
  BY <1>1, FewerActive DEF LimitedOnly, IsUnlimited
<1>6. Backing'
  <2>1. ASSUME NEW d \in Devices, NEW lease \in Leases, Backed(d, lease)
        PROVE  lease.exp <= lapse'[d] + Lease
    BY <1>3, <2>1, TimeAssumption DEF Backed, TypeOK, Leases
  <2>2. \A d \in Devices : Backed(d, token[d])'
    BY <1>1, <2>1 DEF Backing, Backed, TypeOK
  <2>3. ASSUME NEW d \in Devices, NEW c \in Callers, call'[d][c].at = "granted"
        PROVE  Backed(d, call[d][c].lease)'
    <3>1. call[d][c].lease \in Leases /\ Backed(d, call[d][c].lease)
      BY <1>1, <2>3 DEF Backing, TypeOK, Requests
    <3> QED BY <1>1, <2>1, <3>1 DEF Backed
  <2>4. \A d \in Devices, c \in Callers : call'[d][c].at # "checked"
    BY <1>1 DEF Tick, Working
  <2> QED BY <1>3, <2>2, <2>3, <2>4 DEF Backing
<1> QED BY <1>4, <1>5, <1>6

LEMMA StepInvariant == IInv /\ [Next]_vars => IInv'
<1> SUFFICES ASSUME IInv, [Next]_vars PROVE IInv'
  OBVIOUS
<1>1. CASE Tick /\ Remember
  BY <1>1, TickPreserves
<1>2. CASE UNCHANGED vars
  <2>1. UNCHANGED <<status, started, duration, expires, act, lost, extending, online,
                    token, block, call, now, lapse, asks, orders, faults>>
    BY <1>2 DEF vars, server, device, bounds
  <2> QED BY <2>1 DEF IInv, TypeOK, DeviceLimit, Active, Backing, Backed,
                      LimitedOnly, IsUnlimited
<1>3. ASSUME Step, ~Tick, Remember
      PROVE  IInv'
  <2>1. now' = now
    BY <1>3 DEF Step, ReadLicence, ReadActivation, HearGranted, HearRefused, Fail,
                Ask, Send, Activate, ActivateLost, Refresh, Restart, BeginExtend,
                FinishExtend, Revoke, ResetDevices
  <2>2. Stable
    <3>1. TypeOK /\ \A d \in Devices : lapse[d] <= now
      BY DEF IInv, Backing
    <3> QED BY <1>3, <2>1, <3>1, LapseStep DEF Stable
  <2>3. Preserved
    <3>1. ASSUME NEW d \in Devices, NEW c \in Callers,
                 ReadLicence(d, c) \/ ReadActivation(d, c)
          PROVE  Preserved
      BY <2>2, <3>1, ValidatePreserves
    <3>2. ASSUME NEW d \in Devices, NEW c \in Callers,
                 \/ Refresh(d) \/ Ask(d, c) \/ Fail(d, c)
                 \/ HearGranted(d, c) \/ HearRefused(d, c)
          PROVE  Preserved
      BY <2>2, <3>2, DevicePreserves
    <3>3. ASSUME NEW d \in Devices, Activate(d) \/ ActivateLost(d) \/ Restart(d)
          PROVE  Preserved
      BY <2>2, <3>3, ActivatePreserves, ActivateLostPreserves, RestartPreserves
    <3>4. ASSUME \/ Revoke \/ ResetDevices
                 \/ \E a \in Admins : BeginExtend(a) \/ FinishExtend(a)
          PROVE  Preserved
      BY <2>2, <3>4, OrdersPreserve
    <3>5. "loop" \in Callers
      BY DEF Callers
    <3> QED BY <1>3, <3>1, <3>2, <3>3, <3>4, <3>5 DEF Step
  <2>4. Backing'
    BY <1>3, <2>3, BackingStep DEF Preserved
  <2> QED BY <2>3, <2>4 DEF Preserved, IInv
<1> QED BY <1>1, <1>2, <1>3 DEF Next

-----------------------------------------------------------------------------
(* The theorems.                                                           *)

\* The licence server, its devices and the requests under way keep the
\* invariant, for any number of devices and administrators.
THEOREM Invariance == Spec => []IInv
BY InitInvariant, StepInvariant, PTL DEF Spec

\* Every licence, activation, lease and request has its type.
THEOREM TypeCorrect == Spec => []TypeOK
<1>1. IInv => TypeOK
  BY DEF IInv
<1> QED BY <1>1, Invariance, PTL

\* However activations, resets and late requests interleave, the devices that
\* are active never exceed max_devices.
THEOREM Limit == Spec => []DeviceLimit
<1>1. IInv => DeviceLimit
  BY DEF IInv
<1> QED BY <1>1, Invariance, PTL

\* A device that may work was entitled less than lease_hours ago.
THEOREM Tolerance == Spec => []OfflineTolerance
<1>1. IInv => OfflineTolerance
  <2> SUFFICES ASSUME IInv, NEW d \in Devices, Valid(d)
               PROVE  now < lapse[d] + Lease
    BY DEF OfflineTolerance
  <2>1. /\ now < token[d].exp /\ token[d].exp <= lapse[d] + Lease
        /\ token[d].exp \in Nat /\ now \in Nat /\ lapse[d] \in Nat
    BY DEF IInv, Backing, Backed, Valid, TypeOK, Leases
  <2> QED BY <2>1, TimeAssumption
<1> QED BY <1>1, Invariance, PTL
=============================================================================
