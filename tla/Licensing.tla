------------------------------ MODULE Licensing ------------------------------
(***************************************************************************)
(* One licence of the licence server (license_server/main.py), the devices *)
(* that use it (app/licensing.py) and the administrator who revokes it,    *)
(* extends it and resets its devices, all at the same time.                *)
(*                                                                         *)
(* The handlers of the server are threads over SQLite.  activate is one    *)
(* transaction (BEGIN IMMEDIATE); validate reads the licence and then the  *)
(* activation, extend reads the licence and then writes it, each in two    *)
(* transactions between which anything may happen.  A device asks from     *)
(* three places: its refresh loop (with the refresh at startup), the       *)
(* status page and the activation form; the answers are applied whenever   *)
(* they arrive.                                                            *)
(*                                                                         *)
(* Time is a count of ticks of about an hour.  A handler of the server     *)
(* takes milliseconds: it does not see a tick.  The clocks of server and   *)
(* devices agree, so that the test of the device's clock never fails.      *)
(***************************************************************************)
EXTENDS Naturals, FiniteSets

CONSTANTS
    Devices,        \* device ids
    Admins,         \* threads that serve the administrator's extensions
    MaxDevices,     \* max_devices of the licence
    Durations,      \* the durations a licence is sold with
    Unlimited,      \* the duration -1
    Lease,          \* lease_hours, in ticks
    Bonus,          \* duration_days of an extension, in ticks
    MaxTime,        \* bound: the last tick
    MaxAsks,        \* bound: requests of users, restarts of devices
    MaxOrders,      \* bound: requests of the administrator
    MaxFaults       \* bound: requests that fail or whose answer is lost

ASSUME DevicesAssumption == IsFiniteSet(Devices)
ASSUME LimitAssumption == MaxDevices \in Nat \ {0}
ASSUME TimeAssumption == Lease \in Nat \ {0} /\ Bonus \in Nat \ {0} /\ MaxTime \in Nat
ASSUME DurationAssumption ==
    Unlimited \notin Nat /\ Durations \subseteq (Nat \ {0}) \cup {Unlimited}
ASSUME BoundAssumption == {MaxAsks, MaxOrders, MaxFaults} \subseteq Nat

VARIABLES
    status,     \* licenses.status
    started,    \* licenses.starts_at is set
    duration,   \* licenses.duration_days
    expires,    \* licenses.expires_at, once started
    act,        \* activations.status of each device
    lost,       \* activation requests whose sender has given up
    extending,  \* what each extend handler has read of the licence
    online,     \* licensing_online_required of the devices
    token,      \* the lease each device has stored
    block,      \* license_runtime_block_status of each device
    call,       \* the request each caller of a device has under way
    now,        \* the clock
    lapse,      \* history: when each device was last entitled
    asks, orders, faults

server == <<status, started, duration, expires, act>>
device == <<token, block>>
bounds == <<asks, orders, faults>>
vars == <<server, lost, extending, online, device, call, now, lapse, bounds>>

Callers == {"loop", "status", "form"}
Never == MaxTime + Lease + 1            \* UNLIMITED_LICENSE_EXPIRY
Record == [started |-> started, expires |-> expires]
NoLease == [exp |-> 0, until |-> 0]
Quiet == [at |-> "idle", lease |-> NoLease]

-----------------------------------------------------------------------------
(* What the server decides.                                                *)

IsUnlimited == duration = Unlimited

\* license_is_usable() of a record that has begun.
Usable == status = "active" /\ started /\ (IsUnlimited \/ now < expires)

\* The device may use the program, as far as the server knows.
Entitled(d) == Usable /\ act[d] = "active"

Active == {d \in Devices : act[d] = "active"}

\* issue_lease() for a licence that ends at "until": never beyond that end.
Issued(until) ==
    [exp |-> IF now + Lease < until THEN now + Lease ELSE until, until |-> until]

Until(end) == IF IsUnlimited THEN Never ELSE end

(* What the device decides.                                                *)

\* local_license_status()["valid"].
Valid(d) ==
    /\ ~(online /\ block[d] # "none")
    /\ token[d] # NoLease
    /\ now < token[d].exp
    /\ now < token[d].until

-----------------------------------------------------------------------------
(* The handlers of the server.                                             *)

\* The request of a caller moves on.
Move(d, c, at, lease) ==
    call' = [call EXCEPT ![d][c] = [at |-> at, lease |-> lease]]

Refuse(d, c) == Move(d, c, "refused", NoLease)

\* The first activation starts the clock of the licence.
Begins == status = "active" /\ ~started
EndsAt == IF ~Begins THEN expires ELSE IF IsUnlimited THEN Never ELSE now + duration

\* A plausible slip at the boundary: ">" for ">=" in the test of the limit.
MayEnterOneMore(d) ==
    /\ Begins \/ Usable
    /\ act[d] = "active" \/ Cardinality(Active) <= MaxDevices

MayEnter(d) ==
    /\ Begins \/ Usable
    /\ act[d] = "active" \/ Cardinality(Active) < MaxDevices

\* The transaction of activate(), which a refusal rolls back.
Enter(d) ==
    /\ MayEnter(d)
    /\ started' = TRUE
    /\ expires' = EndsAt
    /\ act' = [act EXCEPT ![d] = "active"]
    /\ UNCHANGED <<status, duration>>

Activate(d) ==
    /\ call[d]["form"].at = "sent"
    /\ \/ Enter(d) /\ Move(d, "form", "granted", Issued(Until(EndsAt)))
       \/ ~MayEnter(d) /\ Refuse(d, "form") /\ UNCHANGED server
    /\ UNCHANGED <<lost, extending, online, device, now, bounds>>

\* The same for a request nobody waits for any more.
ActivateLost(d) ==
    /\ d \in lost
    /\ lost' = lost \ {d}
    /\ Enter(d) \/ (~MayEnter(d) /\ UNCHANGED server)
    /\ UNCHANGED <<extending, online, device, call, now, bounds>>

\* validate() reads the licence ...
ReadLicence(d, c) ==
    /\ c # "form" /\ call[d][c].at = "sent"
    /\ IF Usable
       THEN Move(d, c, "checked", [exp |-> 0, until |-> Until(expires)])
       ELSE Refuse(d, c)
    /\ UNCHANGED <<server, lost, extending, online, device, now, bounds>>

\* A plausible slip: validate() looks at the licence only.
ReadActivationOfAnyStatus(d, c) ==
    /\ call[d][c].at = "checked"
    /\ Move(d, c, "granted", Issued(call[d][c].lease.until))
    /\ UNCHANGED <<server, lost, extending, online, device, now, bounds>>

\* ... then the activation, and issues a lease for the licence it has read.
ReadActivation(d, c) ==
    /\ call[d][c].at = "checked"
    /\ IF act[d] = "active"
       THEN Move(d, c, "granted", Issued(call[d][c].lease.until))
       ELSE Refuse(d, c)
    /\ UNCHANGED <<server, lost, extending, online, device, now, bounds>>

Order == orders < MaxOrders /\ orders' = orders + 1 /\ UNCHANGED <<asks, faults>>

Revoke ==
    /\ Order
    /\ status' = "revoked"
    /\ UNCHANGED <<started, duration, expires, act, lost, extending, online,
                   device, call, now>>

ResetDevices ==
    /\ Order
    /\ act' = [d \in Devices |-> IF act[d] = "active" THEN "reset" ELSE act[d]]
    /\ UNCHANGED <<status, started, duration, expires, lost, extending, online,
                   device, call, now>>

\* extend() reads the licence, and refuses if it is unlimited ...
BeginExtend(a) ==
    /\ Order
    /\ extending[a] = {} /\ ~IsUnlimited
    /\ extending' = [extending EXCEPT ![a] = {Record}]
    /\ UNCHANGED <<server, lost, online, device, call, now>>

\* ... then writes the end it has computed, or the duration if the licence had
\* not begun, and makes the licence active whatever it was.
Extended(r) ==
    /\ expires' = IF ~r.started THEN expires
                  ELSE (IF r.expires < now THEN now ELSE r.expires) + Bonus
    /\ duration' = IF r.started THEN duration ELSE duration + Bonus

FinishExtend(a) ==
    /\ \E r \in extending[a] : Extended(r)
    /\ status' = "active"
    /\ extending' = [extending EXCEPT ![a] = {}]
    /\ UNCHANGED <<started, act, lost, online, device, call, now, bounds>>

-----------------------------------------------------------------------------
(* The devices.                                                            *)

\* refresh_license() and activate_license() up to their request.
Send(d, c) ==
    /\ call[d][c].at = "idle"
    /\ c = "form" \/ token[d] # NoLease
    /\ Move(d, c, "sent", NoLease)
    /\ UNCHANGED <<server, lost, extending, online, device, now>>

\* The refresh at startup and every turn of license_refresh_loop().
Refresh(d) == Send(d, "loop") /\ UNCHANGED bounds

\* GET /api/license/status and POST /api/license/activate.
Ask(d, c) ==
    /\ c # "loop"
    /\ asks < MaxAsks /\ asks' = asks + 1
    /\ Send(d, c)
    /\ UNCHANGED <<orders, faults>>

HangUp(d, c) == Move(d, c, "idle", NoLease)

\* A plausible slip: the lease is stored and the block forgotten.
AcceptBlocked(d, lease) ==
    /\ token' = [token EXCEPT ![d] = lease]
    /\ UNCHANGED block

\* An accepted request: the lease is stored and the block cleared.  The form
\* does not take a lease that has already run out.
Accept(d, lease) ==
    /\ token' = [token EXCEPT ![d] = lease]
    /\ block' = [block EXCEPT ![d] = "none"]

HearGranted(d, c) ==
    /\ call[d][c].at = "granted"
    /\ IF c = "form" /\ call[d][c].lease.exp <= now
       THEN UNCHANGED device
       ELSE Accept(d, call[d][c].lease)
    /\ HangUp(d, c)
    /\ UNCHANGED <<server, lost, extending, online, now, bounds>>

\* A plausible slip: a refusal is treated as a server that cannot be reached,
\* and a program that may work offline goes on with its lease.
RefusedSoftly(d) ==
    /\ block' = [block EXCEPT ![d] = IF online THEN @ ELSE "revoked"]
    /\ UNCHANGED token

\* A refused refresh forgets whatever lease is stored and blocks the program.
Refused(d) ==
    /\ token' = [token EXCEPT ![d] = NoLease]
    /\ block' = [block EXCEPT ![d] = "revoked"]

HearRefused(d, c) ==
    /\ call[d][c].at = "refused"
    /\ IF c = "form" THEN UNCHANGED device ELSE Refused(d)
    /\ HangUp(d, c)
    /\ UNCHANGED <<server, lost, extending, online, now, bounds>>

\* Nobody waits for the form's request any more.  One that had not reached the
\* database may still do so; two of one device count as one.
Abandon(d) == lost' = IF call[d]["form"].at = "sent" THEN lost \cup {d} ELSE lost

\* No answer, or one that cannot be read.
Fail(d, c) ==
    /\ call[d][c].at # "idle"
    /\ faults < MaxFaults /\ faults' = faults + 1
    /\ IF c = "form"
       THEN Abandon(d) /\ UNCHANGED block
       ELSE /\ block' = IF online THEN [block EXCEPT ![d] = "server_unreachable"]
                                  ELSE block
            /\ UNCHANGED lost
    /\ HangUp(d, c)
    /\ UNCHANGED <<server, extending, online, token, now, asks, orders>>

\* The program is closed and started again; what the server does of its
\* requests is not undone.
Restart(d) ==
    /\ asks < MaxAsks /\ asks' = asks + 1
    /\ call' = [call EXCEPT ![d] = [c \in Callers |-> Quiet]]
    /\ Abandon(d)
    /\ UNCHANGED <<server, extending, online, device, now, orders, faults>>

Working ==
    \/ \E a \in Admins : extending[a] # {}
    \/ \E d \in Devices, c \in Callers : call[d][c].at = "checked"

Tick ==
    /\ now < MaxTime /\ ~Working
    /\ now' = now + 1
    /\ UNCHANGED <<server, lost, extending, online, device, call, bounds>>

-----------------------------------------------------------------------------
Init ==
    /\ status = "active" /\ started = FALSE /\ expires = 0
    /\ duration \in Durations
    /\ act = [d \in Devices |-> "none"]
    /\ lost = {} /\ extending = [a \in Admins |-> {}]
    /\ online \in BOOLEAN
    /\ token = [d \in Devices |-> NoLease] /\ block = [d \in Devices |-> "none"]
    /\ call = [d \in Devices |-> [c \in Callers |-> Quiet]]
    /\ now = 0 /\ lapse = [d \in Devices |-> 0]
    /\ asks = 0 /\ orders = 0 /\ faults = 0

Serve(d, c) == ReadLicence(d, c) \/ ReadActivation(d, c) \/ (c = "form" /\ Activate(d))
Hear(d, c) == HearGranted(d, c) \/ HearRefused(d, c)

Step ==
    \/ \E d \in Devices, c \in Callers :
        \/ ReadLicence(d, c) \/ ReadActivation(d, c)
        \/ HearGranted(d, c) \/ HearRefused(d, c) \/ Fail(d, c) \/ Ask(d, c)
    \/ \E d \in Devices : Activate(d) \/ ActivateLost(d) \/ Refresh(d) \/ Restart(d)
    \/ \E a \in Admins : BeginExtend(a) \/ FinishExtend(a)
    \/ Revoke \/ ResetDevices \/ Tick

\* The history variable follows every step.
Remember == lapse' = [d \in Devices |-> IF Entitled(d)' THEN now' ELSE lapse[d]]

Next == Step /\ Remember

Spec == Init /\ [][Next]_vars

\* A thread of the server ends; a request is answered or times out; the loop
\* asks again and again.  Users, the administrator and the clock owe nothing.
FairSpec ==
    /\ Spec
    /\ \A a \in Admins : WF_vars(FinishExtend(a) /\ Remember)
    /\ \A d \in Devices :
        /\ WF_vars(Refresh(d) /\ Remember)
        /\ \A c \in Callers :
            WF_vars((Serve(d, c) \/ Hear(d, c) \/ Fail(d, c)) /\ Remember)

-----------------------------------------------------------------------------
(* Properties.                                                             *)

Stages == {"idle", "sent", "checked", "granted", "refused"}
Leases == [exp : Nat, until : Nat]
Requests == [at : Stages, lease : Leases]

\* Type invariant of the licence, the devices and the requests under way.
TypeOK ==
    /\ status \in {"active", "revoked"} /\ started \in BOOLEAN
    /\ duration \in (Nat \ {0}) \cup {Unlimited} /\ expires \in Nat
    /\ act \in [Devices -> {"none", "active", "reset"}]
    /\ lost \subseteq Devices
    /\ extending \in [Admins -> SUBSET [started : BOOLEAN, expires : Nat]]
    /\ online \in BOOLEAN
    /\ token \in [Devices -> Leases]
    /\ block \in [Devices -> {"none", "revoked", "server_unreachable"}]
    /\ call \in [Devices -> [Callers -> Requests]]
    /\ now \in Nat /\ lapse \in [Devices -> Nat]
    /\ asks \in Nat /\ orders \in Nat /\ faults \in Nat

\* Never are more devices active than the licence allows: concurrent
\* activations, requests whose sender has given up and devices that come back
\* after a reset all take their place in activate().
DeviceLimit == Cardinality(Active) <= MaxDevices

\* The offline tolerance is that of the lease: a device that may work was
\* entitled less than Lease ticks ago, whatever was revoked, reset, extended
\* or activated between the two reads of validate() and however late its
\* answer was applied.
OfflineTolerance == \A d \in Devices : Valid(d) => now < lapse[d] + Lease

\* A device of the online edition that is no longer entitled stops working,
\* unless it is entitled again: no late answer keeps it alive for good.
CutOff == \A d \in Devices : online => []<>(Entitled(d) \/ ~Valid(d))

\* A device that stays entitled and keeps its lease works again after the
\* server could not be reached: the block does not outlive the next answer.
AccessReturns ==
    \A d \in Devices :
        <>[](Entitled(d) /\ token[d] # NoLease) => []<>Valid(d)
=============================================================================
