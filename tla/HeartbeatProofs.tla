-------------------------- MODULE HeartbeatProofs --------------------------
(***************************************************************************)
(* Proofs about Heartbeat, and Accounts under it, for any sets of sessions,*)
(* accounts, proxies, operations and logins.                               *)
(*                                                                         *)
(* That a client uses the proxy tested for it needs what holds during the  *)
(* test: the row still has the proxy that was read, or has been given      *)
(* another one, or has none and the test is marked 'dropped'.  That no     *)
(* interval sees two messages needs a debit for the message under way: it  *)
(* counts as sent as soon as its attempt has begun.                        *)
(***************************************************************************)
EXTENDS Heartbeat, TLAPS

-----------------------------------------------------------------------------
(* The inductive invariant.                                                *)

\* A proxy that is switched on is there.
Configured == \A s \in Sessions : enabled[s] => proxy[s] # NoProxy

\* The row has the proxy that is being tested, or at least some proxy, as far as
\* the test is not overtaken, and so has the client that was made after it.
Sane(o) ==
    /\ at[o] = "testing" =>
          /\ overtaken[o] = "no" => tested[o] = ProxyOf(on[o])
          /\ overtaken[o] # "dropped" => ProxyOf(on[o]) # NoProxy
    /\ o \in Leased /\ at[o] \in {"connecting", "connected"} =>
          /\ overtaken[o] = "no" => via[o] = tested[o]
          /\ overtaken[o] # "dropped" => via[o] # NoProxy

\* The messages of a session, with the one under way, against what its savings
\* allow: one less before its turn, and when it may be due.
Charged(s) ==
    /\ sent[s] <= 1 + wipes[s]
    /\ UnderWay(s) => sent[s] <= wipes[s]
    /\ s \in todo \/ (beating /\ next[s] # "later") =>
          sent[s] <= wipes[s] /\ (UnderWay(s) => sent[s] <= wipes[s] - 1)

IInv ==
    /\ TypeOK /\ Configured /\ OneRowPerAccount
    /\ \A o \in Ops : Sane(o)
    /\ \A s \in Sessions : Charged(s)

-----------------------------------------------------------------------------
(* Types.                                                                  *)

LEMMA RequestTypes ==
    ASSUME AccountsTypeOK, Request PROVE requests' \in 0 .. MaxRequests
<1>1. requests \in 0 .. MaxRequests /\ requests < MaxRequests /\ requests' = requests + 1
  BY DEF AccountsTypeOK, Request
<1> QED BY <1>1, RequestsAssumption

LEMMA Names ==
    /\ {"idle", "lined", "testing", "connecting", "connected"} \subseteq Places
    /\ {"active", "proxy_pending", "proxy_error", "flood_wait"} \subseteq Statuses
    /\ NoProxy \in Routes /\ Testers \cup Workers \cup Beats \subseteq Ops
    /\ (CHOOSE s \in Sessions : TRUE) \in Sessions /\ Rows \subseteq Sessions
BY SessionsAssumption DEF Places, Statuses, Routes, Ops, Rows

\* What an operation holds, except its lease.
OpTypes ==
    /\ lease \in [Sessions -> Leased \cup {NoOp}] /\ at \in [Ops -> Places]
    /\ on \in [Ops -> Sessions] /\ tested \in [Ops -> Routes] /\ via \in [Ops -> Routes]
    /\ overtaken \in [Ops -> {"no", "changed", "dropped"}]
RowTypes ==
    /\ user \in [Sessions -> Users \cup {NoUser}] /\ proxy \in [Sessions -> Routes]
    /\ enabled \in [Sessions -> BOOLEAN] /\ status \in [Sessions -> Statuses]
LoginTypes ==
    /\ pending \in [Users -> Routes \cup {NoRequest}]
    /\ login \in [Logins -> {"idle", "requesting", "verifying"}]
    /\ whose \in [Logins -> Users \cup {NoUser}] /\ route \in [Logins -> Routes]

LEMMA TypesSplit ==
    AccountsTypeOK <=> RowTypes /\ OpTypes /\ LoginTypes /\ requests \in 0 .. MaxRequests
BY DEF AccountsTypeOK, RowTypes, OpTypes, LoginTypes

LEMMA TypesJoin ==
    RowTypes' /\ OpTypes' /\ LoginTypes' /\ requests' \in 0 .. MaxRequests => AccountsTypeOK'
BY DEF AccountsTypeOK, RowTypes, OpTypes, LoginTypes

LEMMA EndsTypes ==
    ASSUME OpTypes, NEW o \in Ops, Ends(o) PROVE OpTypes'
BY Names DEF OpTypes, Ends

LEMMA TestsTypes ==
    ASSUME OpTypes, RowTypes, NEW o \in Ops, NEW s \in Sessions, Tests(o, s),
           lease' = lease \/ (o \in Leased /\ lease' = [lease EXCEPT ![s] = o])
    PROVE  OpTypes'
<1>1. ProxyOf(s) \in Routes
  BY Names DEF RowTypes, ProxyOf
<1>2. lease' \in [Sessions -> Leased \cup {NoOp}]
  BY DEF OpTypes
<1> QED BY <1>1, <1>2, Names DEF OpTypes, Tests, TestsUnconfigured

LEMMA StatusTypes ==
    ASSUME RowTypes, NEW s \in Sessions, NEW st \in Statuses, SetStatus(s, st)
    PROVE  status' \in [Sessions -> Statuses]
BY DEF RowTypes, SetStatus

LEMMA PassesTypes ==
    ASSUME RowTypes, OpTypes, NEW o \in Ops, TestPasses(o)
    PROVE  RowTypes' /\ OpTypes'
<1>1. on[o] \in Sessions /\ ProxyOf(on[o]) \in Routes
  BY Names DEF OpTypes, RowTypes, ProxyOf
<1>2. RowTypes'
  BY <1>1, Names, StatusTypes DEF TestPasses, RowTypes
<1>3. CASE Ends(o)
  BY <1>2, <1>3, EndsTypes
<1>4. CASE /\ at' = [at EXCEPT ![o] = "connecting"] /\ via' = [via EXCEPT ![o] = ProxyOf(on[o])]
           /\ UNCHANGED <<lease, on, tested, overtaken>>
  BY <1>1, <1>2, <1>4, Names DEF OpTypes
<1> QED BY <1>3, <1>4 DEF TestPasses

LEMMA UnreachableTypes ==
    ASSUME RowTypes, OpTypes, NEW o \in Ops, Unreachable(o)
    PROVE  RowTypes' /\ OpTypes'
<1>1. OpTypes'
  BY EndsTypes DEF Unreachable
<1>2. on[o] \in Sessions
  BY DEF OpTypes
<1>3. status' \in [Sessions -> Statuses]
  BY <1>2, Names, StatusTypes DEF Unreachable, RowTypes
<1> QED BY <1>1, <1>3 DEF Unreachable, RowTypes

LEMMA ConnectsTypes ==
    ASSUME OpTypes, NEW o \in Ops, Connects(o) PROVE OpTypes'
BY Names DEF OpTypes, Connects

\* Steps that only write to rows.
LEMMA SettingsTypes ==
    ASSUME AccountsTypeOK, NEW s \in Sessions, NEW p \in Routes, NEW b \in BOOLEAN,
           SaveProxy(s, p, b) \/ DeleteProxy(s)
    PROVE  AccountsTypeOK'
<1> USE TypesSplit, TypesJoin
<1>1. requests' \in 0 .. MaxRequests
  BY RequestTypes DEF SaveProxy, DeleteProxy
<1>2. status' \in [Sessions -> Statuses]
  BY Names, StatusTypes DEF SaveProxy, DeleteProxy, Unless, RowTypes
<1>3. RowTypes'
  BY <1>2, Names DEF SaveProxy, DeleteProxy, RowTypes
<1>4. OpTypes'
  BY DEF SaveProxy, DeleteProxy, OpTypes, Overtake
<1>5. LoginTypes'
  BY DEF SaveProxy, DeleteProxy, LoginTypes, loginVars
<1> QED BY <1>1, <1>3, <1>4, <1>5

LEMMA BulkTypes ==
    ASSUME AccountsTypeOK, NEW list \in [Sessions -> Proxies], BulkAssign(list)
    PROVE  AccountsTypeOK'
<1> USE TypesSplit, TypesJoin
<1>1. requests' \in 0 .. MaxRequests
  BY RequestTypes DEF BulkAssign
<1>2. RowTypes'
  BY Names DEF BulkAssign, Unless, RowTypes, Routes
<1>3. OpTypes'
  BY DEF BulkAssign, OpTypes, Overtake
<1>4. LoginTypes'
  BY DEF BulkAssign, LoginTypes, loginVars
<1> QED BY <1>1, <1>2, <1>3, <1>4

LEMMA LoginEndsTypes ==
    ASSUME LoginTypes, NEW l \in Logins, LoginEnds(l)
    PROVE  /\ login' \in [Logins -> {"idle", "requesting", "verifying"}]
           /\ whose' \in [Logins -> Users \cup {NoUser}] /\ route' \in [Logins -> Routes]
BY Names DEF LoginTypes, LoginEnds

\* Logins, as far as they write to no row.
LEMMA LoginStepTypes ==
    ASSUME AccountsTypeOK, NEW l \in Logins, NEW a \in Users, NEW p \in Routes,
           \/ StartLogin(l, a, p) \/ CodeSent(l) \/ VerifyLogin(l, a) \/ Forget(a)
           \/ LoginFails(l)
    PROVE  AccountsTypeOK'
<1> USE TypesSplit, TypesJoin
<1>1. requests' \in 0 .. MaxRequests
  BY RequestTypes DEF StartLogin, CodeSent, VerifyLogin, Forget, LoginFails
<1>2. RowTypes' /\ OpTypes'
  BY DEF StartLogin, CodeSent, VerifyLogin, Forget, LoginFails, RowTypes, OpTypes, rowVars, opVars
<1>3. CASE StartLogin(l, a, p)
  BY <1>1, <1>2, <1>3 DEF StartLogin, LoginTypes
<1>4. CASE CodeSent(l)
  <2>1. pending' \in [Users -> Routes \cup {NoRequest}]
    BY <1>4 DEF CodeSent, LoginTypes
  <2> QED BY <1>1, <1>2, <1>4, <2>1, LoginEndsTypes DEF CodeSent, LoginTypes
<1>5. CASE VerifyLogin(l, a)
  <2>1. pending[a] \in Routes
    BY <1>5 DEF VerifyLogin, LoginTypes
  <2> QED BY <1>1, <1>2, <1>5, <2>1 DEF VerifyLogin, LoginTypes
<1>6. CASE Forget(a)
  BY <1>1, <1>2, <1>6 DEF Forget, LoginTypes
<1>7. CASE LoginFails(l)
  BY <1>1, <1>2, <1>7, LoginEndsTypes DEF LoginFails, LoginTypes
<1> QED BY <1>3, <1>4, <1>5, <1>6, <1>7

LEMMA VerifiedTypes ==
    ASSUME AccountsTypeOK, NEW l \in Logins, Verified(l)
    PROVE  AccountsTypeOK'
<1> USE TypesSplit, TypesJoin
<1>1. PICK s \in RowsFor(whose[l]) :
        /\ user' = [user EXCEPT ![s] = whose[l]]
        /\ proxy' = [proxy EXCEPT ![s] = route[l]]
        /\ enabled' = [enabled EXCEPT ![s] = route[l] # NoProxy]
        /\ SetStatus(s, Unless(s, {"flood_wait"},
                               IF route[l] = NoProxy THEN "proxy_error" ELSE "active"))
        /\ Overtake({s})
        /\ pending' = [pending EXCEPT ![whose[l]] = NoRequest]
        /\ LoginEnds(l)
        /\ UNCHANGED <<lease, at, on, tested, via, requests>>
  BY DEF Verified
<1>2. s \in Sessions /\ whose[l] \in Users \cup {NoUser} /\ route[l] \in Routes
  BY Names DEF RowsFor, LoginTypes
<1>3. Unless(s, {"flood_wait"}, IF route[l] = NoProxy THEN "proxy_error" ELSE "active") \in Statuses
  BY <1>2, Names DEF Unless, RowTypes
<1>4. status' \in [Sessions -> Statuses]
  BY <1>1, <1>2, <1>3, StatusTypes
<1>5. RowTypes'
  BY <1>1, <1>2, <1>4 DEF RowTypes
<1>6. OpTypes'
  BY <1>1 DEF OpTypes, Overtake
<1>7. LoginTypes'
  BY <1>1, LoginEndsTypes DEF LoginTypes
<1> QED BY <1>1, <1>5, <1>6, <1>7

LEMMA OpStepTypes ==
    ASSUME AccountsTypeOK, NEW o \in Testers \cup Workers, NEW s \in Sessions,
           TestRequest(o, s) \/ Begin(o, s) \/ Proceed(o)
    PROVE  AccountsTypeOK'
<1> USE TypesSplit, TypesJoin
<1>1. o \in Ops /\ (o \in Workers => o \in Leased)
  BY DEF Ops, Leased
<1>2. CASE TestRequest(o, s)
  <2>1. OpTypes'
    BY <1>1, <1>2, TestsTypes DEF TestRequest
  <2> QED BY <1>2, <2>1, RequestTypes DEF TestRequest, RowTypes, LoginTypes, rowVars, loginVars
<1>3. CASE Begin(o, s)
  <2>1. requests' \in 0 .. MaxRequests /\ LoginTypes'
    BY <1>3, RequestTypes DEF Begin, LoginTypes, loginVars
  <2>2. CASE Tests(o, s) /\ lease' = [lease EXCEPT ![s] = o] /\ UNCHANGED rowVars
    <3>1. OpTypes'
      BY <1>1, <1>3, <2>2, TestsTypes DEF Begin
    <3> QED BY <2>1, <2>2, <3>1 DEF RowTypes, rowVars
  <2>3. CASE SetStatus(s, "proxy_error") /\ UNCHANGED <<user, proxy, enabled, opVars>>
    BY <2>1, <2>3, Names, StatusTypes DEF RowTypes, OpTypes, opVars
  <2> QED BY <1>3, <2>2, <2>3 DEF Begin
<1>4. CASE TestPasses(o)
  BY <1>1, <1>4, PassesTypes DEF TestPasses, LoginTypes, loginVars
<1>5. CASE Unreachable(o)
  BY <1>1, <1>5, UnreachableTypes DEF Unreachable, LoginTypes, loginVars
<1>6. CASE Connects(o)
  BY <1>1, <1>6, ConnectsTypes DEF Connects, RowTypes, LoginTypes, rowVars, loginVars
<1>7. CASE Finishes(o)
  <2>1. OpTypes'
    BY <1>1, <1>7, EndsTypes DEF Finishes
  <2>2. on[o] \in Sessions
    BY <1>1 DEF OpTypes
  <2>3. status' \in [Sessions -> Statuses]
    BY <1>7, <2>2, Names, StatusTypes DEF Finishes, RowTypes
  <2> QED BY <1>7, <2>1, <2>3 DEF Finishes, RowTypes, LoginTypes, loginVars
<1>8. CASE IsCancelled(o)
  BY <1>1, <1>8, EndsTypes DEF IsCancelled, RowTypes, LoginTypes, rowVars, loginVars
<1> QED BY <1>2, <1>3, <1>4, <1>5, <1>6, <1>7, <1>8 DEF Proceed

LEMMA WaitTypes ==
    ASSUME AccountsTypeOK, NEW s \in Sessions, WaitExpires(s) PROVE AccountsTypeOK'
<1> USE TypesSplit, TypesJoin
<1>1. status' \in [Sessions -> Statuses]
  BY Names, StatusTypes DEF WaitExpires
<1> QED BY <1>1 DEF WaitExpires, RowTypes, OpTypes, LoginTypes, opVars, loginVars

LEMMA AccountTypes == ASSUME AccountsTypeOK, AccountStep PROVE AccountsTypeOK'
<1>1. ASSUME NEW o \in Ops, NEW s \in Sessions, TestRequest(o, s) \/ Begin(o, s)
      PROVE  AccountsTypeOK'
  <2>1. o \in Testers \cup Workers
    BY <1>1 DEF TestRequest, Begin
  <2> QED BY <1>1, <2>1, OpStepTypes
<1>2. ASSUME NEW o \in Testers \cup Workers, Proceed(o) PROVE AccountsTypeOK'
  BY <1>2, SessionsAssumption, OpStepTypes
<1>3. ASSUME NEW l \in Logins, CodeSent(l) \/ LoginFails(l) PROVE AccountsTypeOK'
  <2>1. CASE Users # {}
    BY <1>3, <2>1, Names, LoginStepTypes
  <2>2. CASE Users = {}
    BY <1>3, <2>2, TypesSplit, TypesJoin, LoginEndsTypes
       DEF CodeSent, LoginFails, LoginTypes, RowTypes, OpTypes, rowVars, opVars
  <2> QED BY <2>1, <2>2
<1>4. ASSUME NEW a \in Users, Forget(a) PROVE AccountsTypeOK'
  BY <1>4, TypesSplit, TypesJoin DEF Forget, LoginTypes, RowTypes, OpTypes, rowVars, opVars
<1>5. ASSUME NEW l \in Logins, NEW a \in Users, VerifyLogin(l, a) PROVE AccountsTypeOK'
  BY <1>5, Names, LoginStepTypes
<1>6. ASSUME NEW s \in Sessions, DeleteProxy(s) PROVE AccountsTypeOK'
  BY <1>6, Names, SettingsTypes
<1> QED BY <1>1, <1>2, <1>3, <1>4, <1>5, <1>6, SettingsTypes, BulkTypes, LoginStepTypes,
           VerifiedTypes, WaitTypes DEF AccountStep

LEMMA RestartTypes == ASSUME AccountsTypeOK, RestartRows PROVE AccountsTypeOK'
<1> USE TypesSplit, TypesJoin
<1>1. requests' \in 0 .. MaxRequests
  BY RequestTypes DEF RestartRows
<1>2. RowTypes'
  <2>1. CASE UNCHANGED rowVars
    BY <2>1 DEF RowTypes, rowVars
  <2>2. CASE ~UNCHANGED rowVars
    <3>1. PICK p \in Proxies, waiting \in SUBSET Rows :
             /\ proxy' = [s \in Sessions |-> IF s \in Rows THEN p ELSE proxy[s]]
             /\ enabled' = [s \in Sessions |-> s \in Rows]
             /\ status' = [s \in Sessions |-> IF s \in Rows \ waiting
                                              THEN "proxy_pending" ELSE status[s]]
             /\ UNCHANGED user
      BY <2>2 DEF RestartRows
    <3> QED BY <3>1, Names DEF RowTypes, Routes
  <2> QED BY <2>1, <2>2
<1>3. OpTypes'
  BY Names DEF RestartRows, OpTypes
<1>4. LoginTypes'
  BY Names DEF RestartRows, LoginTypes
<1> QED BY <1>1, <1>2, <1>3, <1>4

\* Steps of the heartbeat itself.
LEMMA BeatTypes ==
    ASSUME TypeOK, NEW h \in Beats, Beat(h) PROVE TypeOK'
<1> USE TypesSplit, TypesJoin
<1>1. h \in Ops /\ h \in Leased
  BY DEF Ops, Leased
<1>2. CASE StartCycle(h)
  BY <1>2 DEF StartCycle, TypeOK, AccountsTypeOK, accountVars, rowVars, opVars, loginVars
<1>3. ASSUME NEW s \in Sessions, Attempt(h, s) PROVE TypeOK'
  <2>1. next' \in [Sessions -> {"none", "later", "passed"}] /\ todo' \subseteq Sessions
    BY <1>3 DEF Attempt, TypeOK
  <2>2. OpTypes'
    <3>1. CASE TakesLease(h, s)
      BY <1>1, <3>1, TestsTypes DEF TakesLease, TypeOK
    <3>2. CASE JoinsLine(h, s)
      BY <1>1, <3>2, Names DEF JoinsLine, TypeOK, OpTypes
    <3>3. CASE UNCHANGED opVars
      BY <3>3 DEF TypeOK, OpTypes, opVars
    <3> QED BY <1>3, <3>1, <3>2, <3>3 DEF Attempt
  <2>3. RowTypes' /\ LoginTypes' /\ requests' \in 0 .. MaxRequests
    BY <1>3 DEF Attempt, TypeOK, RowTypes, LoginTypes, rowVars, loginVars
  <2> QED BY <1>3, <2>1, <2>2, <2>3 DEF Attempt, TypeOK
<1>4. ASSUME NEW s \in Sessions, CycleBreaks(h, s) PROVE TypeOK'
  <2>1. next' \in [Sessions -> {"none", "later", "passed"}] /\ todo' \subseteq Sessions
    BY <1>4 DEF CycleBreaks, TypeOK
  <2>2. faults' \in 0 .. MaxFaults
    <3>1. faults \in 0 .. MaxFaults /\ faults < MaxFaults /\ faults' = faults + 1
      BY <1>4 DEF CycleBreaks, TypeOK
    <3> QED BY <3>1, FaultsAssumption
  <2>3. AccountsTypeOK'
    BY <1>4 DEF CycleBreaks, TypeOK, AccountsTypeOK, accountVars, rowVars, opVars, loginVars
  <2> QED BY <1>4, <2>1, <2>2, <2>3 DEF CycleBreaks, TypeOK
<1>5. CASE BeatConnects(h)
  <2>1. UNCHANGED beatVars
    BY <1>5 DEF BeatConnects
  <2>2. AccountsTypeOK'
    BY <1>1, <1>5, PassesTypes, ConnectsTypes
       DEF BeatConnects, TypeOK, TestPasses, Connects, RowTypes, LoginTypes, rowVars, loginVars
  <2> QED BY <2>1, <2>2 DEF TypeOK, beatVars
<1>6. CASE Deliver(h)
  <2>1. AccountsTypeOK'
    BY <1>6 DEF Deliver, TypeOK, AccountsTypeOK, accountVars, rowVars, opVars, loginVars
  <2>2. sent' \in [Sessions -> Int]
    <3>1. on[h] \in Sessions
      BY <1>1 DEF TypeOK, OpTypes
    <3>2. sent[on[h]] + 1 \in Int
      BY <3>1 DEF TypeOK
    <3> QED BY <1>6, <3>1, <3>2 DEF Deliver, TypeOK
  <2> QED BY <1>6, <2>1, <2>2 DEF Deliver, TypeOK
<1>7. ASSUME Record(h) PROVE /\ next' \in [Sessions -> {"none", "later", "passed"}]
                             /\ beating' \in BOOLEAN /\ todo' \subseteq Sessions
                             /\ delivered' \in BOOLEAN /\ sent' \in [Sessions -> Int]
                             /\ wipes' \in [Sessions -> Nat] /\ faults' \in 0 .. MaxFaults
  BY <1>7 DEF Record, TypeOK
<1>8. CASE BeatFails(h)
  <2>1. AccountsTypeOK'
    BY <1>1, <1>8, UnreachableTypes
       DEF BeatFails, TypeOK, Unreachable, LoginTypes, loginVars
  <2> QED BY <1>7, <1>8, <2>1 DEF BeatFails, TypeOK
<1>9. CASE BeatEnds(h)
  <2>1. AccountsTypeOK'
    BY <1>1, <1>9, EndsTypes DEF BeatEnds, TypeOK, RowTypes, LoginTypes, rowVars, loginVars
  <2> QED BY <1>7, <1>9, <2>1 DEF BeatEnds, TypeOK
<1>10. CASE TakesTurn(h)
  <2>1. RowTypes' /\ LoginTypes' /\ requests' \in 0 .. MaxRequests
    BY <1>10 DEF TakesTurn, TypeOK, RowTypes, LoginTypes, rowVars, loginVars
  <2>2. CASE TakesLease(h, on[h]) /\ UNCHANGED beatVars
    <3>1. on[h] \in Sessions
      BY <1>1 DEF TypeOK, OpTypes
    <3>2. OpTypes'
      BY <1>1, <2>2, <3>1, TestsTypes DEF TakesLease, TypeOK
    <3> QED BY <2>1, <2>2, <3>2 DEF TypeOK, beatVars
  <2>3. CASE Ends(h) /\ Record(h)
    BY <1>1, <1>7, <2>1, <2>3, EndsTypes DEF TypeOK
  <2> QED BY <1>10, <2>2, <2>3 DEF TakesTurn
<1>11. CASE TurnBreaks(h)
  <2>1. faults' \in 0 .. MaxFaults
    <3>1. faults \in 0 .. MaxFaults /\ faults < MaxFaults /\ faults' = faults + 1
      BY <1>11 DEF TurnBreaks, TypeOK
    <3> QED BY <3>1, FaultsAssumption
  <2>2. AccountsTypeOK'
    BY <1>1, <1>11, EndsTypes DEF TurnBreaks, TypeOK, RowTypes, LoginTypes, rowVars, loginVars
  <2> QED BY <1>11, <2>1, <2>2 DEF TurnBreaks, TypeOK
<1> QED BY <1>2, <1>3, <1>4, <1>5, <1>6, <1>8, <1>9, <1>10, <1>11 DEF Beat

LEMMA TypesStep == ASSUME TypeOK, [Next]_vars PROVE TypeOK'
<1>1. CASE AccountStep /\ UNCHANGED beatVars
  BY <1>1, AccountTypes DEF TypeOK, beatVars
<1>2. ASSUME NEW s \in Sessions, TimeComes(s) PROVE TypeOK'
  <2>1. AccountsTypeOK'
    BY <1>2 DEF TimeComes, TypeOK, AccountsTypeOK, accountVars, rowVars, opVars, loginVars
  <2> QED BY <1>2, <2>1 DEF TimeComes, TypeOK, NoneSince
<1>3. ASSUME NEW b \in BOOLEAN, SaveSettings(b) PROVE TypeOK'
  <2>1. requests' \in 0 .. MaxRequests
    BY <1>3, RequestTypes DEF SaveSettings, TypeOK
  <2>2. AccountsTypeOK'
    BY <1>3, <2>1 DEF SaveSettings, TypeOK, AccountsTypeOK, rowVars, opVars, loginVars
  <2>3. wipes' \in [Sessions -> Nat]
    BY <1>3 DEF SaveSettings, TypeOK
  <2> QED BY <1>3, <2>2, <2>3 DEF SaveSettings, TypeOK
<1>4. CASE Restart
  BY <1>4, RestartTypes DEF Restart, TypeOK
<1>5. CASE UNCHANGED vars
  BY <1>5 DEF TypeOK, AccountsTypeOK, vars, accountVars, beatVars, rowVars, opVars, loginVars
<1> QED BY <1>1, <1>2, <1>3, <1>4, <1>5, BeatTypes DEF Next

-----------------------------------------------------------------------------
(* Proxies and accounts.                                                   *)

LEMMA ConfiguredStep == ASSUME IInv, [Next]_vars PROVE Configured'
<1>1. proxy \in [Sessions -> Routes] /\ enabled \in [Sessions -> BOOLEAN] /\ Configured
  BY DEF IInv, TypeOK, AccountsTypeOK
<1>2. CASE UNCHANGED <<proxy, enabled>>
  BY <1>1, <1>2 DEF Configured
<1>3. ASSUME NEW s \in Sessions, NEW p \in Routes, NEW b \in BOOLEAN,
             b => p # NoProxy,
             proxy' = [proxy EXCEPT ![s] = p], enabled' = [enabled EXCEPT ![s] = b]
      PROVE  Configured'
  BY <1>1, <1>3 DEF Configured
<1>4. ASSUME NEW list \in [Sessions -> Proxies], BulkAssign(list) PROVE Configured'
  BY <1>1, <1>4, AbsentAssumption DEF BulkAssign, Configured
<1>5. CASE RestartRows
  BY <1>1, <1>2, <1>5, AbsentAssumption DEF RestartRows, Configured, rowVars
<1>6. ASSUME NEW s \in Sessions, NEW p \in Routes, NEW b \in BOOLEAN, SaveProxy(s, p, b)
      PROVE  Configured'
  BY <1>3, <1>6 DEF SaveProxy
<1>7. ASSUME NEW s \in Sessions, DeleteProxy(s) PROVE Configured'
  BY <1>3, <1>7, Names DEF DeleteProxy
<1>8. ASSUME NEW l \in Logins, Verified(l) PROVE Configured'
  <2>1. PICK s \in RowsFor(whose[l]) :
           /\ proxy' = [proxy EXCEPT ![s] = route[l]]
           /\ enabled' = [enabled EXCEPT ![s] = route[l] # NoProxy]
    BY <1>8 DEF Verified
  <2>2. s \in Sessions /\ route[l] \in Routes
    BY Names DEF RowsFor, IInv, TypeOK, AccountsTypeOK
  <2> QED BY <1>3, <2>1, <2>2
<1>9. ASSUME NEW o \in Ops, NEW s \in Sessions, TestRequest(o, s) \/ Begin(o, s)
      PROVE  UNCHANGED <<proxy, enabled>>
  BY <1>9 DEF TestRequest, Begin, rowVars
<1>10. ASSUME NEW o \in Testers \cup Workers, Proceed(o)
       PROVE  UNCHANGED <<proxy, enabled>>
  BY <1>10 DEF Proceed, TestPasses, Unreachable, Connects, Finishes, IsCancelled, rowVars
<1>11. ASSUME NEW l \in Logins, NEW a \in Users,
              VerifyLogin(l, a) \/ \E p \in Routes : StartLogin(l, a, p)
       PROVE  UNCHANGED <<proxy, enabled>>
  BY <1>11 DEF StartLogin, VerifyLogin, rowVars
<1>12. ASSUME NEW l \in Logins, CodeSent(l) \/ LoginFails(l)
       PROVE  UNCHANGED <<proxy, enabled>>
  BY <1>12 DEF CodeSent, LoginFails, rowVars
<1>13. ASSUME \/ \E a \in Users : Forget(a)
              \/ \E s \in Sessions : WaitExpires(s) \/ TimeComes(s)
              \/ \E b \in BOOLEAN : SaveSettings(b)
              \/ UNCHANGED vars
       PROVE  UNCHANGED <<proxy, enabled>>
  BY <1>13 DEF Forget, WaitExpires, TimeComes, SaveSettings, vars, rowVars, accountVars
<1>14. ASSUME NEW h \in Beats, Beat(h) PROVE UNCHANGED <<proxy, enabled>>
  BY <1>14 DEF Beat, StartCycle, Attempt, CycleBreaks, TakesTurn, TurnBreaks, BeatConnects,
               TestPasses, Connects, Deliver, BeatFails, Unreachable, BeatEnds, rowVars,
               accountVars
<1>15. ASSUME AccountStep PROVE Configured'
  BY <1>2, <1>4, <1>6, <1>7, <1>8, <1>9, <1>10, <1>11, <1>12, <1>13, <1>15 DEF AccountStep
<1> QED BY <1>2, <1>5, <1>13, <1>14, <1>15 DEF Next, Restart

\* One operation goes on, and the proxies stay.
LEMMA MoveSane ==
    ASSUME IInv, UNCHANGED <<proxy, enabled>>, NEW o \in Ops, Sane(o)',
           \A q \in Ops \ {o} : /\ at'[q] = at[q] /\ on'[q] = on[q] /\ tested'[q] = tested[q]
                                /\ via'[q] = via[q] /\ overtaken'[q] = overtaken[q]
    PROVE  \A q \in Ops : Sane(q)'
<1>1. ASSUME NEW q \in Ops, q # o PROVE Sane(q)'
  <2>1. Sane(q)
    BY DEF IInv
  <2> QED BY <1>1, <2>1 DEF Sane, ProxyOf
<1> QED BY <1>1

\* Proxies change, and what is under way is told.
LEMMA SettingSane ==
    ASSUME IInv, Configured', NEW S, Overtake(S), UNCHANGED <<at, on, tested, via>>,
           \A s \in Sessions \ S : proxy'[s] = proxy[s] /\ enabled'[s] = enabled[s]
    PROVE  \A q \in Ops : Sane(q)'
<1>1. ASSUME NEW q \in Ops, at[q] = "testing", on[q] \in S PROVE Sane(q)'
  <2>1. overtaken'[q] = IF enabled'[on[q]] THEN "changed" ELSE "dropped"
    BY <1>1 DEF Overtake
  <2>2. on[q] \in Sessions
    BY DEF IInv, TypeOK, AccountsTypeOK
  <2>3. enabled'[on[q]] => ProxyOf(on[q])' # NoProxy
    BY <2>2 DEF Configured, ProxyOf
  <2> QED BY <1>1, <2>1, <2>3 DEF Sane
<1>2. ASSUME NEW q \in Ops, at[q] # "testing" \/ on[q] \notin S PROVE Sane(q)'
  <2>1. overtaken'[q] = overtaken[q] /\ on[q] \in Sessions
    BY <1>2 DEF Overtake, IInv, TypeOK, AccountsTypeOK
  <2>2. Sane(q)
    BY DEF IInv
  <2> QED BY <1>2, <2>1, <2>2 DEF Sane, ProxyOf
<1> QED BY <1>1, <1>2

\* No operation, no proxy.
LEMMA QuietSane ==
    ASSUME IInv, UNCHANGED <<proxy, enabled, at, on, tested, via, overtaken>>
    PROVE  \A q \in Ops : Sane(q)'
BY DEF IInv, Sane, ProxyOf

LEMMA EndsSane ==
    ASSUME IInv, UNCHANGED <<proxy, enabled>>, NEW o \in Ops, Ends(o)
    PROVE  \A q \in Ops : Sane(q)'
<1>1. Sane(o)'
  BY DEF Ends, Sane, IInv, TypeOK, AccountsTypeOK
<1> QED BY <1>1, MoveSane DEF Ends, IInv, TypeOK, AccountsTypeOK

LEMMA TestsSane ==
    ASSUME IInv, UNCHANGED <<proxy, enabled>>, NEW o \in Ops, NEW s \in Sessions, Tests(o, s)
    PROVE  \A q \in Ops : Sane(q)'
<1>1. at'[o] = "testing" /\ on'[o] = s /\ tested'[o] = ProxyOf(s)
  BY DEF Tests, TestsUnconfigured, IInv, TypeOK, AccountsTypeOK
<1>2. ProxyOf(s)' = ProxyOf(s) /\ ProxyOf(s) # NoProxy
  BY DEF Tests, ProxyOf, Configured, IInv
<1>3. Sane(o)'
  BY <1>1, <1>2 DEF Sane, ProxyOf
<1> QED BY <1>3, MoveSane DEF Tests, TestsUnconfigured, IInv, TypeOK, AccountsTypeOK

LEMMA PassesSane ==
    ASSUME IInv, NEW o \in Ops, TestPasses(o)
    PROVE  \A q \in Ops : Sane(q)'
<1>1. UNCHANGED <<proxy, enabled>> /\ Sane(o) /\ at[o] = "testing"
  BY DEF TestPasses, IInv
<1>2. CASE Ends(o)
  BY <1>1, <1>2, EndsSane
<1>3. CASE /\ at' = [at EXCEPT ![o] = "connecting"] /\ via' = [via EXCEPT ![o] = ProxyOf(on[o])]
           /\ UNCHANGED <<lease, on, tested, overtaken>>
  <2>1. at'[o] = "connecting" /\ via'[o] = ProxyOf(on[o])
    BY <1>3 DEF IInv, TypeOK, AccountsTypeOK
  <2>2. Sane(o)'
    BY <1>1, <1>3, <2>1 DEF Sane
  <2> QED BY <1>1, <1>3, <2>2, MoveSane DEF IInv, TypeOK, AccountsTypeOK
<1> QED BY <1>2, <1>3 DEF TestPasses

LEMMA ConnectsSane ==
    ASSUME IInv, NEW o \in Ops, Connects(o)
    PROVE  \A q \in Ops : Sane(q)'
<1>1. at'[o] = "connected" /\ at[o] = "connecting" /\ Sane(o)
  BY DEF Connects, IInv, TypeOK, AccountsTypeOK
<1>2. Sane(o)'
  BY <1>1 DEF Connects, Sane
<1> QED BY <1>2, MoveSane DEF Connects, rowVars, IInv, TypeOK, AccountsTypeOK

\* Taking a place in line, and leaving it.
LEMMA LineSane ==
    ASSUME IInv, UNCHANGED <<proxy, enabled>>, NEW o \in Ops, NEW s \in Sessions,
           JoinsLine(o, s)
    PROVE  \A q \in Ops : Sane(q)'
<1>1. at'[o] = "lined"
  BY DEF JoinsLine, IInv, TypeOK, AccountsTypeOK
<1>2. Sane(o)'
  BY <1>1 DEF Sane
<1> QED BY <1>2, MoveSane DEF JoinsLine, IInv, TypeOK, AccountsTypeOK

LEMMA AccountSane == ASSUME IInv, AccountStep, Configured' PROVE \A q \in Ops : Sane(q)'
<1>1. ASSUME NEW o \in Ops, NEW s \in Sessions, TestRequest(o, s) \/ Begin(o, s)
      PROVE  \A q \in Ops : Sane(q)'
  <2>1. CASE Tests(o, s) /\ UNCHANGED <<proxy, enabled>>
    BY <2>1, TestsSane
  <2>2. CASE UNCHANGED <<proxy, enabled, opVars>>
    BY <2>2, QuietSane DEF opVars
  <2> QED BY <1>1, <2>1, <2>2 DEF TestRequest, Begin, rowVars
<1>2. ASSUME NEW o \in Testers \cup Workers, Proceed(o)
      PROVE  \A q \in Ops : Sane(q)'
  <2>1. o \in Ops
    BY DEF Ops
  <2>2. CASE Unreachable(o) \/ Finishes(o) \/ IsCancelled(o)
    BY <2>1, <2>2, EndsSane DEF Unreachable, Finishes, IsCancelled, rowVars
  <2> QED BY <1>2, <2>1, <2>2, PassesSane, ConnectsSane DEF Proceed
<1>3. ASSUME NEW s \in Sessions,
             DeleteProxy(s) \/ \E p \in Routes, b \in BOOLEAN : SaveProxy(s, p, b)
      PROVE  \A q \in Ops : Sane(q)'
  <2>1. /\ Overtake({s}) /\ UNCHANGED <<at, on, tested, via>>
        /\ \A r \in Sessions \ {s} : proxy'[r] = proxy[r] /\ enabled'[r] = enabled[r]
    BY <1>3 DEF DeleteProxy, SaveProxy, IInv, TypeOK, AccountsTypeOK
  <2> QED BY <2>1, SettingSane
<1>4. ASSUME NEW list \in [Sessions -> Proxies], BulkAssign(list)
      PROVE  \A q \in Ops : Sane(q)'
  <2>1. PICK given \in SUBSET Rows :
           /\ Overtake(given) /\ UNCHANGED <<at, on, tested, via>>
           /\ proxy' = [s \in Sessions |-> IF s \in given THEN list[s] ELSE proxy[s]]
           /\ enabled' = [s \in Sessions |-> s \in given \/ enabled[s]]
    BY <1>4 DEF BulkAssign
  <2>2. \A r \in Sessions \ given : proxy'[r] = proxy[r] /\ enabled'[r] = enabled[r]
    BY <2>1 DEF IInv, TypeOK, AccountsTypeOK
  <2> QED BY <2>1, <2>2, SettingSane
<1>5. ASSUME NEW l \in Logins, Verified(l) PROVE \A q \in Ops : Sane(q)'
  <2>1. PICK s \in RowsFor(whose[l]) :
           /\ Overtake({s}) /\ UNCHANGED <<at, on, tested, via>>
           /\ proxy' = [proxy EXCEPT ![s] = route[l]]
           /\ enabled' = [enabled EXCEPT ![s] = route[l] # NoProxy]
    BY <1>5 DEF Verified
  <2>2. \A r \in Sessions \ {s} : proxy'[r] = proxy[r] /\ enabled'[r] = enabled[r]
    BY <2>1 DEF IInv, TypeOK, AccountsTypeOK
  <2> QED BY <2>1, <2>2, SettingSane
<1>6. ASSUME \/ \E l \in Logins, a \in Users :
                   VerifyLogin(l, a) \/ \E p \in Routes : StartLogin(l, a, p)
             \/ \E l \in Logins : CodeSent(l) \/ LoginFails(l)
             \/ \E a \in Users : Forget(a)
             \/ \E s \in Sessions : WaitExpires(s)
      PROVE  \A q \in Ops : Sane(q)'
  <2>1. UNCHANGED <<proxy, enabled, opVars>>
    BY <1>6 DEF VerifyLogin, StartLogin, CodeSent, LoginFails, Forget, WaitExpires, rowVars
  <2> QED BY <2>1, QuietSane DEF opVars
<1> QED BY <1>1, <1>2, <1>3, <1>4, <1>5, <1>6 DEF AccountStep

LEMMA SaneStep == ASSUME IInv, [Next]_vars, Configured' PROVE \A q \in Ops : Sane(q)'
<1>1. ASSUME NEW h \in Beats, Beat(h) PROVE \A q \in Ops : Sane(q)'
  <2>1. h \in Ops
    BY DEF Ops
  <2>2. CASE StartCycle(h) \/ Deliver(h) \/ \E s \in Sessions : CycleBreaks(h, s)
    BY <2>2, QuietSane DEF StartCycle, Deliver, CycleBreaks, accountVars, rowVars, opVars
  <2>3. ASSUME NEW s \in Sessions, Attempt(h, s) PROVE \A q \in Ops : Sane(q)'
    <3>1. CASE TakesLease(h, s)
      BY <2>1, <2>3, <3>1, TestsSane DEF Attempt, TakesLease, rowVars
    <3>2. CASE UNCHANGED opVars
      BY <2>3, <3>2, QuietSane DEF Attempt, rowVars, opVars
    <3>3. CASE JoinsLine(h, s)
      BY <2>1, <2>3, <3>3, LineSane DEF Attempt, rowVars
    <3> QED BY <2>3, <3>1, <3>2, <3>3 DEF Attempt
  <2>4. CASE BeatConnects(h)
    BY <2>1, <2>4, PassesSane, ConnectsSane DEF BeatConnects
  <2>5. CASE BeatFails(h) \/ BeatEnds(h)
    BY <2>1, <2>5, EndsSane DEF BeatFails, BeatEnds, Unreachable, rowVars
  <2>6. CASE TakesTurn(h)
    <3>1. on[h] \in Sessions
      BY <2>1 DEF IInv, TypeOK, AccountsTypeOK
    <3>2. CASE TakesLease(h, on[h])
      BY <2>1, <2>6, <3>1, <3>2, TestsSane DEF TakesTurn, TakesLease, rowVars
    <3>3. CASE Ends(h)
      BY <2>1, <2>6, <3>3, EndsSane DEF TakesTurn, rowVars
    <3> QED BY <2>6, <3>2, <3>3 DEF TakesTurn
  <2>7. CASE TurnBreaks(h)
    BY <2>1, <2>7, EndsSane DEF TurnBreaks, rowVars
  <2> QED BY <1>1, <2>2, <2>3, <2>4, <2>5, <2>6, <2>7 DEF Beat
<1>2. CASE Restart
  BY <1>2 DEF Restart, RestartRows, Sane
<1>3. CASE \/ \E s \in Sessions : TimeComes(s)
           \/ \E b \in BOOLEAN : SaveSettings(b)
           \/ UNCHANGED vars
  BY <1>3, QuietSane DEF TimeComes, SaveSettings, vars, accountVars, rowVars, opVars
<1> QED BY <1>1, <1>2, <1>3, AccountSane DEF Next

\* A row changes hands only in Verified, and only a new row.
LEMMA VerifiedOneRow ==
    ASSUME OneRowPerAccount, user \in [Sessions -> Users \cup {NoUser}],
           NEW l \in Logins, Verified(l)
    PROVE  OneRowPerAccount'
<1>1. PICK s \in RowsFor(whose[l]) : user' = [user EXCEPT ![s] = whose[l]]
  BY DEF Verified
<1>2. CASE \E r \in Rows : user[r] = whose[l]
  <2>1. s \in Rows /\ user[s] = whose[l]
    BY <1>2 DEF RowsFor
  <2>2. user' = user
    BY <1>1, <2>1
  <2> QED BY <2>2 DEF OneRowPerAccount, Rows
<1>3. CASE ~\E r \in Rows : user[r] = whose[l]
  <2>1. s \in Sessions \ Rows
    BY <1>3 DEF RowsFor
  <2>2. \A r \in Sessions : user'[r] = IF r = s THEN whose[l] ELSE user[r]
    BY <1>1, <2>1
  <2>3. \A r \in Rows' : r # s => r \in Rows /\ user'[r] = user[r] /\ user[r] # whose[l]
    BY <1>3, <2>2 DEF Rows
  <2> QED BY <2>1, <2>2, <2>3 DEF OneRowPerAccount, Rows
<1> QED BY <1>2, <1>3

LEMMA OneRowStep == ASSUME IInv, [Next]_vars PROVE OneRowPerAccount'
<1>1. CASE UNCHANGED user
  BY <1>1 DEF IInv, OneRowPerAccount, Rows
<1>2. CASE \E l \in Logins : Verified(l)
  BY <1>2, VerifiedOneRow DEF IInv, TypeOK, AccountsTypeOK
<1>3. AccountStep => UNCHANGED user \/ \E l \in Logins : Verified(l)
  BY DEF AccountStep, TestRequest, Begin, Proceed, TestPasses, Unreachable, Connects, Finishes,
         IsCancelled, SaveProxy, DeleteProxy, BulkAssign, WaitExpires, StartLogin, CodeSent,
         VerifyLogin, Forget, LoginFails, rowVars
<1>4. \A h \in Beats : Beat(h) => UNCHANGED user
  BY DEF Beat, StartCycle, Attempt, CycleBreaks, TakesTurn, TurnBreaks, BeatConnects,
         TestPasses, Connects, Deliver, BeatFails, Unreachable, BeatEnds, rowVars, accountVars
<1>5. \/ \E s \in Sessions : TimeComes(s)
      \/ \E b \in BOOLEAN : SaveSettings(b)
      \/ Restart \/ UNCHANGED vars
      => UNCHANGED user
  BY DEF TimeComes, SaveSettings, Restart, RestartRows, vars, rowVars, accountVars
<1> QED BY <1>1, <1>2, <1>3, <1>4, <1>5 DEF Next

-----------------------------------------------------------------------------
(* Messages and intervals.                                                 *)

\* A session is charged for no more than before.
LEMMA Uncharged ==
    ASSUME NEW s \in Sessions, Charged(s), sent'[s] = sent[s], wipes'[s] = wipes[s],
           UnderWay(s)' => UnderWay(s),
           s \in todo' \/ (beating' /\ next'[s] # "later") =>
               s \in todo \/ (beating /\ next[s] # "later")
    PROVE  Charged(s)'
BY DEF Charged

\* The sessions of the heartbeat are not those of other operations' steps.
LEMMA AccountKeepsBeats ==
    ASSUME IInv, AccountStep
    PROVE  \A h \in Beats : at'[h] = at[h] /\ on'[h] = on[h]
<1> USE SlotsAssumption DEF Ops
<1>1. at \in [Ops -> Places] /\ on \in [Ops -> Sessions]
  BY DEF IInv, TypeOK, AccountsTypeOK
<1>2. CASE UNCHANGED <<at, on>>
  BY <1>2
<1>3. ASSUME NEW o \in Testers \cup Workers, NEW p \in Places, NEW s \in Sessions,
             at' = [at EXCEPT ![o] = p], on' = [on EXCEPT ![o] = s] \/ on' = on
      PROVE  \A h \in Beats : at'[h] = at[h] /\ on'[h] = on[h]
  BY <1>1, <1>3
<1>4. ASSUME NEW o \in Ops, NEW s \in Sessions, TestRequest(o, s) \/ Begin(o, s)
      PROVE  \A h \in Beats : at'[h] = at[h] /\ on'[h] = on[h]
  <2>1. CASE UNCHANGED <<at, on>>
    BY <1>2, <2>1
  <2>2. CASE Tests(o, s)
    BY <1>3, <1>4, <2>2, Names DEF Tests, TestsUnconfigured, TestRequest, Begin
  <2> QED BY <1>4, <2>1, <2>2 DEF TestRequest, Begin, opVars
<1>5. ASSUME NEW o \in Testers \cup Workers, Proceed(o)
      PROVE  \A h \in Beats : at'[h] = at[h] /\ on'[h] = on[h]
  <2>1. CASE Ends(o)
    BY <1>3, <2>1, Names DEF Ends
  <2>2. CASE \E p \in Places : at' = [at EXCEPT ![o] = p] /\ UNCHANGED on
    BY <1>1, <2>2
  <2> QED BY <1>5, <2>1, <2>2, Names
          DEF Proceed, TestPasses, Unreachable, Connects, Finishes, IsCancelled
<1>6. ASSUME \/ \E s \in Sessions, p \in Routes, b \in BOOLEAN : SaveProxy(s, p, b)
             \/ \E s \in Sessions : DeleteProxy(s) \/ WaitExpires(s)
             \/ \E list \in [Sessions -> Proxies] : BulkAssign(list)
             \/ \E l \in Logins, a \in Users, p \in Routes : StartLogin(l, a, p)
             \/ \E l \in Logins, a \in Users : VerifyLogin(l, a)
             \/ \E l \in Logins : CodeSent(l) \/ Verified(l) \/ LoginFails(l)
             \/ \E a \in Users : Forget(a)
      PROVE  UNCHANGED <<at, on>>
  BY <1>6 DEF SaveProxy, DeleteProxy, WaitExpires, BulkAssign, StartLogin, VerifyLogin,
              CodeSent, Verified, LoginFails, Forget, opVars
<1> QED BY <1>2, <1>4, <1>5, <1>6 DEF AccountStep

LEMMA AccountCharged ==
    ASSUME IInv, AccountStep, UNCHANGED beatVars PROVE \A s \in Sessions : Charged(s)'
<1>1. ASSUME NEW s \in Sessions PROVE UnderWay(s)' => UnderWay(s)
  BY AccountKeepsBeats DEF UnderWay, Free, beatVars
<1> QED BY <1>1, Uncharged DEF IInv, beatVars

\* Nothing is under way when the only heartbeat is free.
LEMMA NothingUnderWay ==
    ASSUME NEW h \in Beats, Free(h), NEW s \in Sessions PROVE ~UnderWay(s)
BY OneHeartbeat DEF UnderWay, Free

LEMMA AttemptCharged ==
    ASSUME IInv, NEW h \in Beats, NEW s \in Sessions, Attempt(h, s)
    PROVE  \A r \in Sessions : Charged(r)'
<1>1. /\ todo' = todo \ {s} /\ s \in todo /\ next' = [next EXCEPT ![s] = "later"]
      /\ UNCHANGED <<sent, wipes, beating, delivered>> /\ Free(h)
  BY DEF Attempt, Turn
<1>2. /\ next \in [Sessions -> {"none", "later", "passed"}] /\ sent \in [Sessions -> Int]
      /\ wipes \in [Sessions -> Nat]
  BY DEF IInv, TypeOK
<1>3. \A r \in Sessions : Charged(r) /\ ~UnderWay(r)
  BY <1>1, NothingUnderWay DEF IInv
<1>4. at \in [Ops -> Places] /\ on \in [Ops -> Sessions] /\ h \in Ops
  BY DEF IInv, TypeOK, AccountsTypeOK, Ops
<1>5. ASSUME NEW r \in Sessions, r # s PROVE ~UnderWay(r)'
  <2>1. \A g \in Beats : g = h
    BY OneHeartbeat
  <2>2. CASE TakesLease(h, s) \/ JoinsLine(h, s)
    <3>1. on'[h] = s
      BY <1>4, <2>2 DEF TakesLease, JoinsLine, Tests, TestsUnconfigured
    <3> QED BY <1>5, <2>1, <3>1 DEF UnderWay
  <2>3. CASE UNCHANGED opVars
    BY <1>1, <1>3, <2>3 DEF UnderWay, Free, opVars
  <2> QED BY <2>2, <2>3 DEF Attempt
<1>6. ASSUME NEW r \in Sessions, r # s PROVE Charged(r)'
  <2>1. next'[r] = next[r] /\ (r \in todo' <=> r \in todo)
    BY <1>1, <1>2, <1>6
  <2> QED BY <1>1, <1>3, <1>5, <1>6, <2>1, Uncharged
<1>7. Charged(s)'
  <2>1. sent[s] <= wipes[s] /\ sent[s] \in Int /\ wipes[s] \in Nat
    BY <1>1, <1>2, <1>3 DEF Charged
  <2>2. next'[s] = "later" /\ s \notin todo' /\ sent'[s] = sent[s] /\ wipes'[s] = wipes[s]
    BY <1>1, <1>2
  <2>3. sent[s] <= 1 + wipes[s]
    BY <2>1
  <2> QED BY <2>1, <2>2, <2>3 DEF Charged
<1> QED BY <1>6, <1>7

LEMMA DeliverCharged ==
    ASSUME IInv, NEW h \in Beats, Deliver(h) PROVE \A r \in Sessions : Charged(r)'
<1>1. /\ at[h] = "connected" /\ ~delivered /\ delivered' = TRUE
      /\ sent' = [sent EXCEPT ![on[h]] = @ + 1] /\ UNCHANGED <<next, todo, wipes, beating>>
  BY DEF Deliver
<1>2. /\ h \in Ops /\ on[h] \in Sessions /\ sent \in [Sessions -> Int]
      /\ wipes \in [Sessions -> Nat]
  BY DEF IInv, TypeOK, AccountsTypeOK, Ops
<1>3. \A r \in Sessions : ~UnderWay(r)'
  BY <1>1 DEF UnderWay
<1>4. ASSUME NEW r \in Sessions, r # on[h] PROVE Charged(r)'
  <2>1. sent'[r] = sent[r] /\ Charged(r)
    BY <1>1, <1>2, <1>4 DEF IInv
  <2> QED BY <1>1, <1>3, <2>1, Uncharged
<1>5. ASSUME NEW r \in Sessions, r = on[h] PROVE Charged(r)'
  <2>1. UnderWay(r) /\ Charged(r)
    BY <1>1, <1>5 DEF UnderWay, Free, IInv
  <2>2. sent'[r] = sent[r] + 1 /\ sent[r] \in Int /\ wipes[r] \in Nat
    BY <1>1, <1>2, <1>5
  <2>3. sent'[r] <= 1 + wipes[r]
    BY <2>1, <2>2 DEF Charged
  <2>4. r \in todo \/ (beating /\ next[r] # "later") => sent'[r] <= wipes[r]
    BY <2>1, <2>2 DEF Charged
  <2> QED BY <1>1, <1>3, <2>3, <2>4 DEF Charged
<1> QED BY <1>4, <1>5

\* An attempt ends, or the program: what was under way is no longer.
LEMMA RecordCharged ==
    ASSUME IInv, NEW h \in Beats, Ends(h), Record(h) PROVE \A r \in Sessions : Charged(r)'
<1>1. at \in [Ops -> Places] /\ h \in Ops
  BY DEF IInv, TypeOK, AccountsTypeOK, Ops
<1>2. at'[h] = "idle"
  BY <1>1 DEF Ends
<1>3. \A r \in Sessions : ~UnderWay(r)'
  BY <1>2, OneHeartbeat DEF UnderWay, Free
<1>4. \A r \in Sessions : next'[r] # "later" => next[r] # "later"
  BY DEF Record, IInv, TypeOK
<1> QED BY <1>3, <1>4, Uncharged DEF Record, IInv

\* The books are closed: what is under way is charged to the time before.
LEMMA ClosedCharged ==
    ASSUME NEW s \in Sessions, sent'[s] = NoneSince(s), wipes'[s] = 0,
           UNCHANGED <<at, on, delivered>>
    PROVE  Charged(s)'
<1>1. UnderWay(s)' <=> UnderWay(s)
  BY DEF UnderWay, Free
<1> QED BY <1>1 DEF Charged, NoneSince

\* A saving gives a session its time, or one more message if it is on and has
\* none; switched off, no session is due.
LEMMA SavedCharged ==
    ASSUME IInv, NEW b \in BOOLEAN, SaveSettings(b), NEW s \in Sessions PROVE Charged(s)'
<1>1. /\ UNCHANGED <<at, on, delivered, todo, sent>> /\ beating' = b
      /\ next'[s] \in {"later", "none"}
      /\ wipes'[s] = IF b /\ next'[s] = "none" THEN wipes[s] + 1 ELSE wipes[s]
  BY DEF SaveSettings, opVars
<1>2. (UnderWay(s)' <=> UnderWay(s)) /\ Charged(s)
  BY <1>1 DEF UnderWay, Free, IInv
<1>3. sent[s] \in Int /\ wipes[s] \in Nat
  BY DEF IInv, TypeOK
<1>4. CASE b /\ next'[s] = "none"
  BY <1>1, <1>2, <1>3, <1>4 DEF Charged
<1>5. CASE ~(b /\ next'[s] = "none")
  <2>1. s \in todo' \/ (beating' /\ next'[s] # "later") => s \in todo
    BY <1>1, <1>5
  <2> QED BY <1>1, <1>2, <1>5, <2>1, Uncharged
<1> QED BY <1>4, <1>5

LEMMA ChargedStep == ASSUME IInv, [Next]_vars PROVE \A s \in Sessions : Charged(s)'
<1>1. ASSUME NEW h \in Beats, StartCycle(h) PROVE \A s \in Sessions : Charged(s)'
  <2>1. /\ UNCHANGED <<at, on, delivered, next, sent, wipes, beating>> /\ beating
        /\ todo' = {s \in Sessions : Due(s)}
    BY <1>1 DEF StartCycle, accountVars, opVars
  <2>2. \A s \in Sessions : s \in todo' => next[s] # "later"
    BY <2>1 DEF Due
  <2>3. \A s \in Sessions : UnderWay(s)' => UnderWay(s)
    BY <2>1 DEF UnderWay, Free
  <2> QED BY <2>1, <2>2, <2>3, Uncharged DEF IInv
<1>2. ASSUME NEW h \in Beats, NEW s \in Sessions, CycleBreaks(h, s)
      PROVE  \A r \in Sessions : Charged(r)'
  <2>1. /\ UNCHANGED <<at, on, delivered, sent, wipes, beating>> /\ todo' = {}
        /\ \A r \in Sessions : next'[r] # "later" => next[r] # "later"
    BY <1>2 DEF CycleBreaks, accountVars, opVars, IInv, TypeOK
  <2>2. \A r \in Sessions : UnderWay(r)' => UnderWay(r)
    BY <2>1 DEF UnderWay, Free
  <2> QED BY <2>1, <2>2, Uncharged DEF IInv
<1>3. ASSUME NEW h \in Beats, BeatConnects(h) PROVE \A s \in Sessions : Charged(s)'
  <2>1. /\ UNCHANGED beatVars /\ UNCHANGED on /\ h \notin Testers /\ h \in Ops /\ ~Free(h)
        /\ at' = [at EXCEPT ![h] = "connecting"] \/ at' = [at EXCEPT ![h] = "connected"]
    BY <1>3, SlotsAssumption DEF BeatConnects, TestPasses, Connects, Ops, Free
  <2>2. at \in [Ops -> Places] /\ Beats \subseteq Ops
    BY DEF IInv, TypeOK, AccountsTypeOK, Ops
  <2>3. \A s \in Sessions : UnderWay(s)' => UnderWay(s)
    BY <2>1, <2>2, OneHeartbeat DEF UnderWay, Free, beatVars
  <2> QED BY <2>1, <2>3, Uncharged DEF IInv, beatVars
<1>4. ASSUME NEW h \in Beats, BeatFails(h) \/ BeatEnds(h)
      PROVE  \A s \in Sessions : Charged(s)'
  BY <1>4, RecordCharged DEF BeatFails, BeatEnds, Unreachable
<1>10. ASSUME NEW h \in Beats, TakesTurn(h) PROVE \A s \in Sessions : Charged(s)'
  <2>1. CASE Ends(h) /\ Record(h)
    BY <2>1, RecordCharged
  <2>2. CASE TakesLease(h, on[h]) /\ UNCHANGED beatVars
    <3>1. h \in Ops /\ at \in [Ops -> Places] /\ on \in [Ops -> Sessions] /\ ~Free(h)
      BY <1>10 DEF TakesTurn, Free, IInv, TypeOK, AccountsTypeOK, Ops
    <3>2. on'[h] = on[h]
      BY <2>2, <3>1 DEF TakesLease, Tests, TestsUnconfigured
    <3>3. \A s \in Sessions : UnderWay(s)' => UnderWay(s)
      BY <2>2, <3>1, <3>2, OneHeartbeat DEF UnderWay, beatVars
    <3> QED BY <2>2, <3>3, Uncharged DEF IInv, beatVars
  <2> QED BY <1>10, <2>1, <2>2 DEF TakesTurn
<1>11. ASSUME NEW h \in Beats, TurnBreaks(h) PROVE \A s \in Sessions : Charged(s)'
  <2>1. Free(h)'
    BY <1>11 DEF TurnBreaks, Ends, Free, IInv, TypeOK, AccountsTypeOK, Ops
  <2>2. \A s \in Sessions : ~UnderWay(s)'
    BY <2>1, OneHeartbeat DEF UnderWay
  <2> QED BY <1>11, <2>2, Uncharged DEF TurnBreaks, IInv
<1>5. ASSUME NEW s \in Sessions, TimeComes(s) PROVE \A r \in Sessions : Charged(r)'
  <2>1. /\ UNCHANGED <<at, on, delivered, todo, beating>>
        /\ sent \in [Sessions -> Int] /\ wipes \in [Sessions -> Nat]
    BY <1>5 DEF TimeComes, accountVars, opVars, IInv, TypeOK
  <2>2. sent'[s] = NoneSince(s) /\ wipes'[s] = 0
    BY <1>5, <2>1 DEF TimeComes
  <2>3. \A r \in Sessions : r # s => /\ sent'[r] = sent[r] /\ wipes'[r] = wipes[r]
                                     /\ next'[r] = next[r]
    BY <1>5, <2>1 DEF TimeComes, IInv, TypeOK
  <2>4. \A r \in Sessions : UnderWay(r)' => UnderWay(r)
    BY <2>1 DEF UnderWay, Free
  <2> QED BY <2>1, <2>2, <2>3, <2>4, ClosedCharged, Uncharged DEF IInv
<1>6. ASSUME NEW b \in BOOLEAN, SaveSettings(b) PROVE \A r \in Sessions : Charged(r)'
  BY <1>6, SavedCharged
<1>7. CASE Restart
  <2>1. \A h \in Beats : Free(h)'
    BY <1>7 DEF Restart, RestartRows, Free, Ops
  <2>2. \A s \in Sessions : ~UnderWay(s)'
    BY <2>1 DEF UnderWay
  <2>3. UNCHANGED <<next, sent, wipes, beating>> /\ todo' = {}
    BY <1>7 DEF Restart
  <2> QED BY <2>2, <2>3, Uncharged DEF IInv
<1>8. CASE UNCHANGED vars
  <2>1. UNCHANGED <<at, on, delivered, next, sent, wipes, beating, todo>>
    BY <1>8 DEF vars, accountVars, opVars, beatVars
  <2>2. \A r \in Sessions : UnderWay(r)' => UnderWay(r)
    BY <2>1 DEF UnderWay, Free
  <2> QED BY <2>1, <2>2, Uncharged DEF IInv
<1>9. ASSUME NEW h \in Beats, Beat(h) PROVE \A s \in Sessions : Charged(s)'
  BY <1>1, <1>2, <1>3, <1>4, <1>9, <1>10, <1>11, AttemptCharged, DeliverCharged DEF Beat
<1> QED BY <1>5, <1>6, <1>7, <1>8, <1>9, AccountCharged DEF Next

-----------------------------------------------------------------------------
(* The theorems.                                                           *)

LEMMA InitInv == Init => IInv
<1> SUFFICES ASSUME Init PROVE IInv
  OBVIOUS
<1>1. PICK rows \in SUBSET Sessions, p \in Proxies : InitWith(rows, p)
  BY DEF Init
<1>2. 0 \in 0 .. MaxRequests /\ 0 \in 0 .. MaxFaults
  BY RequestsAssumption, FaultsAssumption
<1>3. TypeOK
  <2>1. RowTypes
    BY <1>1, Names DEF InitWith, RowTypes, Routes
  <2>2. OpTypes /\ LoginTypes
    BY <1>1, Names DEF InitWith, OpTypes, LoginTypes
  <2>3. AccountsTypeOK
    BY <1>1, <1>2, <2>1, <2>2, TypesSplit DEF InitWith
  <2>4. beating \in BOOLEAN /\ todo \subseteq Sessions /\ faults = 0
    BY Zenon DEF Init
  <2>5. delivered \in BOOLEAN
    BY Zenon DEF Init
  <2>6. next \in [Sessions -> {"none", "later", "passed"}]
    BY DEF Init
  <2>7. sent \in [Sessions -> Int] /\ wipes \in [Sessions -> Nat]
    <3>1. sent = [s \in Sessions |-> 0] /\ wipes = [s \in Sessions |-> 0]
      BY DEF Init
    <3> QED BY <3>1
  <2> QED BY <1>2, <2>3, <2>4, <2>5, <2>6, <2>7 DEF TypeOK
<1>4. Configured /\ OneRowPerAccount
  BY <1>1, AbsentAssumption DEF InitWith, Configured, OneRowPerAccount
<1>5. \A o \in Ops : Sane(o)
  BY <1>1 DEF InitWith, Sane
<1>6. ASSUME NEW s \in Sessions PROVE Charged(s)
  <2>1. \A h \in Beats : Free(h)
    BY <1>1 DEF InitWith, Free, Ops
  <2>2. ~UnderWay(s) /\ sent[s] = 0 /\ wipes[s] = 0
    BY <2>1 DEF UnderWay, Init
  <2> QED BY <2>2 DEF Charged
<1> QED BY <1>3, <1>4, <1>5, <1>6 DEF IInv

\* The invariant holds in every reachable state.
THEOREM Invariance == Spec => []IInv
<1>1. IInv /\ [Next]_vars => IInv'
  <2> SUFFICES ASSUME IInv, [Next]_vars PROVE IInv'
    OBVIOUS
  <2>1. TypeOK'
    BY TypesStep DEF IInv
  <2> QED BY <2>1, ConfiguredStep, OneRowStep, SaneStep, ChargedStep DEF IInv
<1> QED BY <1>1, InitInv, PTL DEF Spec

\* Every variable of accounts and heartbeat keeps its type.
THEOREM TypeCorrect == Spec => []TypeOK
<1>1. IInv => TypeOK
  BY DEF IInv
<1> QED BY <1>1, Invariance, PTL

\* A client goes through the proxy that was tested for it, or the one the session
\* was given during the test, and through none only if the proxy was taken away
\* during that very test, whatever else is under way.
THEOREM Tested == Spec => []TestedBeforeUse
<1>1. IInv => TestedBeforeUse
  BY DEF IInv, Sane, TestedBeforeUse, Leased, Ops
<1> QED BY <1>1, Invariance, PTL

\* An account has one row, however many of its logins are verified at once.
THEOREM OneRow == Spec => []OneRowPerAccount
<1>1. IInv => OneRowPerAccount
  BY DEF IInv
<1> QED BY <1>1, Invariance, PTL

\* No session sends two messages without an interval between their attempts, but
\* for one with each saving of the settings that finds it not active.
THEOREM OneMessage == Spec => []OneMessagePerInterval
<1>1. IInv => OneMessagePerInterval
  BY DEF IInv, Charged, OneMessagePerInterval
<1> QED BY <1>1, Invariance, PTL

-----------------------------------------------------------------------------
(* The leases.                                                             *)

\* Who holds a lease works on that session, and whoever works holds it.
Works(o) == at[o] \notin {"idle", "lined"}
Covered == \A o \in Leased, s \in Sessions : lease[s] = o <=> Works(o) /\ on[o] = s

CInv == TypeOK /\ Covered
Orderly == Covered' /\ [Mutex!Next]_lease

LEMMA LeasesRest == ASSUME CInv, UNCHANGED <<lease, at, on>> PROVE Orderly
BY DEF CInv, Covered, Works, Orderly

LEMMA LeasesGoOn ==
    ASSUME CInv, NEW o \in Ops, Works(o), NEW p, p \notin {"idle", "lined"},
           at' = [at EXCEPT ![o] = p], UNCHANGED <<lease, on>>
    PROVE  Orderly
<1>1. \A q \in Ops : at'[q] = IF q = o THEN p ELSE at[q]
  BY DEF CInv, TypeOK, AccountsTypeOK
<1>2. Leased \subseteq Ops
  BY DEF Leased, Ops
<1> QED BY <1>1, <1>2 DEF CInv, Covered, Orderly, Works

\* Who takes a place in line has no lease, and gets none with it.
LEMMA LeaseAwaited ==
    ASSUME CInv, NEW o \in Leased, NEW s \in Sessions, at[o] = "idle", JoinsLine(o, s)
    PROVE  Orderly
<1>1. o \in Ops /\ Leased \subseteq Ops
  BY DEF Leased, Ops
<1>2. /\ \A q \in Ops \ {o} : at'[q] = at[q] /\ on'[q] = on[q]
      /\ at'[o] = "lined" /\ lease' = lease
  BY <1>1 DEF JoinsLine, CInv, TypeOK, AccountsTypeOK
<1> QED BY <1>1, <1>2 DEF CInv, Covered, Orderly, Works

\* An operation that ends gives back the lease it has, if it has one.
LEMMA LeaseEnds == ASSUME CInv, NEW o \in Ops, Ends(o) PROVE Orderly
<1>1. /\ lease \in [Sessions -> Leased \cup {NoOp}] /\ at \in [Ops -> Places]
      /\ on \in [Ops -> Sessions] /\ o # NoOp /\ Leased \subseteq Ops
  BY SlotsAssumption DEF CInv, TypeOK, AccountsTypeOK, Leased, Ops
<1>2. /\ lease' = [s \in Sessions |-> IF lease[s] = o THEN NoOp ELSE lease[s]]
      /\ \A q \in Ops \ {o} : at'[q] = at[q] /\ on'[q] = on[q]
      /\ at'[o] = "idle"
  BY <1>1 DEF Ends
<1>3. Covered'
  <2> SUFFICES ASSUME NEW q \in Leased, NEW s \in Sessions
               PROVE  lease'[s] = q <=> Works(q)' /\ on'[q] = s
    BY DEF Covered
  <2>1. lease'[s] = q <=> lease[s] = q /\ q # o
    BY <1>1, <1>2, SlotsAssumption DEF Leased, Ops
  <2>2. lease[s] = q <=> Works(q) /\ on[q] = s
    BY DEF CInv, Covered
  <2> QED BY <1>1, <1>2, <2>1, <2>2 DEF Works
<1>4. CASE \A s \in Sessions : lease[s] # o
  <2>1. lease' = lease
    BY <1>1, <1>2, <1>4
  <2> QED BY <1>3, <2>1 DEF Orderly
<1>5. ASSUME NEW s \in Sessions, lease[s] = o PROVE Mutex!GiveBack(s)
  <2>1. o \in Leased
    BY <1>1, <1>5
  <2>2. \A r \in Sessions : lease[r] = o <=> r = s
    BY <1>5, <2>1 DEF CInv, Covered
  <2>3. lease' = [lease EXCEPT ![s] = NoOp]
    BY <1>1, <1>2, <2>2
  <2> QED BY <1>1, <1>5, <2>3 DEF Mutex!GiveBack
<1> QED BY <1>3, <1>4, <1>5 DEF Orderly, Mutex!Next

\* A test begins: with the lease of its session, or in a slot that takes none.
LEMMA LeaseTaken ==
    ASSUME CInv, NEW o \in Ops, NEW s \in Sessions, ~Works(o), Tests(o, s),
           \/ o \in Testers /\ lease' = lease
           \/ o \in Leased /\ lease[s] = NoOp /\ lease' = [lease EXCEPT ![s] = o]
    PROVE  Orderly
<1>1. /\ lease \in [Sessions -> Leased \cup {NoOp}] /\ Leased \subseteq Ops /\ NoOp \notin Leased
      /\ Testers \cap Leased = {}
  BY SlotsAssumption DEF CInv, TypeOK, AccountsTypeOK, Leased, Ops
<1>2. /\ \A q \in Ops \ {o} : at'[q] = at[q] /\ on'[q] = on[q]
      /\ at'[o] = "testing" /\ on'[o] = s
  BY DEF Tests, TestsUnconfigured, CInv, TypeOK, AccountsTypeOK
<1>3. CASE o \in Testers /\ lease' = lease
  <2>1. Covered'
    BY <1>1, <1>2, <1>3 DEF CInv, Covered, Works
  <2> QED BY <1>3, <2>1 DEF Orderly
<1>4. CASE o \in Leased /\ lease[s] = NoOp /\ lease' = [lease EXCEPT ![s] = o]
  <2>1. \A r \in Sessions : lease'[r] = IF r = s THEN o ELSE lease[r]
    BY <1>1, <1>4
  <2>2. \A r \in Sessions : lease[r] # o
    BY <1>4 DEF CInv, Covered
  <2>3. Mutex!Grant(o, s)
    BY <1>4, <2>2 DEF Mutex!Grant
  <2>4. Covered'
    <3> SUFFICES ASSUME NEW q \in Leased, NEW r \in Sessions
                 PROVE  lease'[r] = q <=> Works(q)' /\ on'[q] = r
      BY DEF Covered
    <3>1. lease[r] = q <=> Works(q) /\ on[q] = r
      BY DEF CInv, Covered
    <3>2. CASE q = o
      BY <1>2, <2>1, <2>2, <3>2 DEF Works
    <3>3. CASE q # o
      BY <1>1, <1>2, <1>4, <2>1, <3>1, <3>3 DEF Works
    <3> QED BY <3>2, <3>3
  <2> QED BY <1>4, <2>3, <2>4 DEF Orderly, Mutex!Next
<1> QED BY <1>3, <1>4

LEMMA LeasePasses == ASSUME CInv, NEW o \in Ops, TestPasses(o) \/ Connects(o) PROVE Orderly
<1>1. CASE Ends(o)
  BY <1>1, LeaseEnds
<1>2. Ends(o) \/ \E p \in {"connecting", "connected"} :
                    Works(o) /\ at' = [at EXCEPT ![o] = p] /\ UNCHANGED <<lease, on>>
  BY DEF TestPasses, Connects, Works
<1> QED BY <1>1, <1>2, LeasesGoOn

LEMMA AccountOrderly == ASSUME CInv, AccountStep PROVE Orderly
<1>1. ASSUME NEW o \in Ops, NEW s \in Sessions, TestRequest(o, s) \/ Begin(o, s)
      PROVE  Orderly
  <2>1. CASE UNCHANGED opVars
    BY <2>1, LeasesRest DEF opVars
  <2>2. CASE TestRequest(o, s)
    BY <2>2, LeaseTaken DEF TestRequest, Works
  <2> QED BY <1>1, <2>1, <2>2, LeaseTaken DEF Begin, Leased, Works
<1>2. ASSUME NEW o \in Testers \cup Workers, Proceed(o) PROVE Orderly
  <2>1. o \in Ops
    BY DEF Ops
  <2>2. Ends(o) \/ TestPasses(o) \/ Connects(o)
    BY <1>2 DEF Proceed, Unreachable, Finishes, IsCancelled
  <2> QED BY <2>1, <2>2, LeaseEnds, LeasePasses
<1>3. ASSUME \/ \E s \in Sessions, p \in Routes, b \in BOOLEAN : SaveProxy(s, p, b)
             \/ \E s \in Sessions : DeleteProxy(s) \/ WaitExpires(s)
             \/ \E list \in [Sessions -> Proxies] : BulkAssign(list)
      PROVE  Orderly
  <2>1. UNCHANGED <<lease, at, on>>
    BY <1>3 DEF SaveProxy, DeleteProxy, WaitExpires, BulkAssign, opVars
  <2> QED BY <2>1, LeasesRest
<1>4. ASSUME \/ \E l \in Logins, a \in Users :
                   VerifyLogin(l, a) \/ \E p \in Routes : StartLogin(l, a, p)
             \/ \E l \in Logins : CodeSent(l) \/ Verified(l) \/ LoginFails(l)
             \/ \E a \in Users : Forget(a)
      PROVE  Orderly
  <2>1. UNCHANGED <<lease, at, on>>
    BY <1>4 DEF VerifyLogin, StartLogin, CodeSent, Verified, LoginFails, Forget, opVars
  <2> QED BY <2>1, LeasesRest
<1> QED BY <1>1, <1>2, <1>3, <1>4 DEF AccountStep

LEMMA LeasesOrderly == ASSUME CInv, [Next]_vars PROVE Orderly
<1>1. ASSUME NEW h \in Beats, Beat(h) PROVE Orderly
  <2>1. h \in Ops /\ h \in Leased
    BY DEF Ops, Leased
  <2>2. CASE StartCycle(h) \/ Deliver(h) \/ \E s \in Sessions : CycleBreaks(h, s)
    BY <2>2, LeasesRest DEF StartCycle, Deliver, CycleBreaks, accountVars, opVars
  <2>3. ASSUME NEW s \in Sessions, Attempt(h, s) PROVE Orderly
    <3>1. CASE UNCHANGED opVars
      BY <3>1, LeasesRest DEF opVars
    <3>2. CASE TakesLease(h, s) /\ lease[s] = NoOp
      BY <2>1, <2>3, <3>2, LeaseTaken DEF Attempt, TakesLease, Free, Works
    <3>3. CASE JoinsLine(h, s)
      BY <2>1, <2>3, <3>3, LeaseAwaited DEF Attempt, Free
    <3> QED BY <2>3, <3>1, <3>2, <3>3 DEF Attempt
  <2>4. CASE BeatConnects(h)
    BY <2>1, <2>4, LeasePasses DEF BeatConnects
  <2>5. CASE BeatFails(h) \/ BeatEnds(h)
    BY <2>1, <2>5, LeaseEnds DEF BeatFails, BeatEnds, Unreachable
  <2>6. CASE TakesTurn(h)
    <3>1. CASE Ends(h)
      BY <2>1, <3>1, LeaseEnds
    <3>2. CASE TakesLease(h, on[h])
      <4>1. on[h] \in Sessions /\ ~Works(h) /\ lease[on[h]] = NoOp
        BY <2>1, <2>6 DEF TakesTurn, Works, CInv, TypeOK, AccountsTypeOK
      <4> QED BY <2>1, <3>2, <4>1, LeaseTaken DEF TakesLease
    <3> QED BY <2>6, <3>1, <3>2 DEF TakesTurn
  <2>7. CASE TurnBreaks(h)
    BY <2>1, <2>7, LeaseEnds DEF TurnBreaks
  <2> QED BY <1>1, <2>2, <2>3, <2>4, <2>5, <2>6, <2>7 DEF Beat
<1>2. CASE Restart
  <2>1. /\ lease' = [s \in Sessions |-> NoOp] /\ at' = [o \in Ops |-> "idle"]
        /\ Leased \subseteq Ops /\ NoOp \notin Leased
    BY <1>2, SlotsAssumption DEF Restart, RestartRows, Leased, Ops
  <2>2. Covered'
    BY <2>1 DEF Covered, Works
  <2> QED BY <2>1, <2>2 DEF Orderly, Mutex!Restart, Mutex!Next
<1>3. CASE \/ \E s \in Sessions : TimeComes(s)
           \/ \E b \in BOOLEAN : SaveSettings(b)
           \/ UNCHANGED vars
  BY <1>3, LeasesRest DEF TimeComes, SaveSettings, vars, accountVars, opVars
<1> QED BY <1>1, <1>2, <1>3, AccountOrderly DEF Next

LEMMA InitCovered == Init => Covered /\ Mutex!Init
<1> SUFFICES ASSUME Init PROVE Covered /\ Mutex!Init
  OBVIOUS
<1>1. /\ lease = [s \in Sessions |-> NoOp] /\ at = [o \in Ops |-> "idle"]
      /\ Leased \subseteq Ops /\ NoOp \notin Leased
  BY SlotsAssumption DEF Init, InitWith, Leased, Ops
<1> QED BY <1>1 DEF Covered, Works, Mutex!Init

\* Every client that may act on Telegram has the lease of its session from the
\* proxy test on until it is disconnected, and nobody else has one.
THEOREM LeaseCovers == Spec => []Covered
<1>1. TypeOK /\ Covered /\ [Next]_vars => Covered'
  BY LeasesOrderly DEF CInv, Orderly
<1> QED BY <1>1, InitCovered, TypeCorrect, PTL DEF Spec

\* The heartbeat and the operations of the panel take and give back leases as
\* session_operation.py lets them, whatever proxy tests without a lease, logins
\* and settings are under way with the same session.
THEOREM MutexRefined == Spec => Mutex!Spec
<1>1. TypeOK /\ Covered /\ [Next]_vars => [Mutex!Next]_lease
  BY LeasesOrderly DEF CInv, Orderly
<1> QED BY <1>1, InitCovered, TypeCorrect, LeaseCovers, PTL DEF Spec, Mutex!Spec
=============================================================================
