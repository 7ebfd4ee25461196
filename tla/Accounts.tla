------------------------------ MODULE Accounts ------------------------------
(***************************************************************************)
(* The Telegram sessions of the panel, their proxies and every connection  *)
(* made with them: login by code (start, verify, cancel), proxy settings   *)
(* (save, delete, bulk assignment, the revision of a customer package),    *)
(* the proxy test, and _client_for, through which every operation on a     *)
(* session gets its client: read the row, test the proxy, read the row     *)
(* again, connect.                                                         *)
(*                                                                         *)
(* A request or an operation is interleaved with the others at each of its *)
(* awaits.  The lease is the one SessionMutex promises.  'flood_wait'      *)
(* stands for 'batch_wait' too: both outlast every change of the proxy but *)
(* the deletion.  The detected type and the latency of a proxy are left    *)
(* out, and so are the credentials of the default login proxy.             *)
(***************************************************************************)
EXTENDS Integers, FiniteSets

CONSTANTS Sessions,    \* ids of telegram_sessions rows
          Users,       \* Telegram accounts, one phone number each
          Proxies,
          NoUser, NoProxy, NoRequest, NoOp,
          Testers,     \* slots of POST .../proxy/test
          Workers,     \* slots of operations with the lease, which write what they find
          Beats,       \* the heartbeat: the lease, and nothing written to the session
          Logins,      \* slots of login requests
          MaxRequests  \* bound on requests of the user and restarts

ASSUME SessionsAssumption == Sessions \subseteq Nat /\ Sessions # {}
ASSUME AbsentAssumption ==
    NoUser \notin Users /\ NoProxy \notin Proxies /\ NoRequest \notin Proxies \cup {NoProxy}
ASSUME RequestsAssumption == MaxRequests \in Nat

Ops == Testers \cup Workers \cup Beats
Leased == Workers \cup Beats
Routes == Proxies \cup {NoProxy}     \* NoProxy: the machine's own address

ASSUME SlotsAssumption ==
    /\ Testers \cap Workers = {} /\ Beats \cap (Testers \cup Workers) = {}
    /\ NoOp \notin Ops

VARIABLES
    user,       \* the account of each row; NoUser: no such row
    proxy,      \* host and port of the row, NoProxy if there are none
    enabled,    \* proxy_enabled
    status,
    lease,      \* who owns the session
    at,         \* where each operation is
    on,         \* the session it is about
    tested,     \* the proxy it has read and tests
    via,        \* what its client connects through
    overtaken,  \* history: what became of the session's proxy during the test
    pending,    \* pending_auth: how the code was requested, per phone number
    login,      \* where each login request is
    whose,      \* its phone number
    route,      \* how it connects
    requests

rowVars   == <<user, proxy, enabled, status>>
opVars    == <<lease, at, on, tested, via, overtaken>>
loginVars == <<pending, login, whose, route>>
accountVars == <<rowVars, opVars, loginVars, requests>>

Statuses == {"active", "proxy_pending", "proxy_error", "flood_wait"}
Places == {"idle", "lined", "testing", "connecting", "connected"}

Request == requests < MaxRequests /\ requests' = requests + 1
Rows == {s \in Sessions : user[s] # NoUser}
SetStatus(s, st) == status' = [status EXCEPT ![s] = st]
\* The proxy that _proxy_config makes of a row.
ProxyOf(s) == IF enabled[s] THEN proxy[s] ELSE NoProxy

\* Init for the rows 'rows', each with a working proxy.
InitWith(rows, p) ==
    /\ user \in [Sessions -> Users \cup {NoUser}]
    /\ Rows = rows /\ \A s, r \in Rows : user[s] = user[r] => s = r
    /\ proxy = [s \in Sessions |-> IF s \in rows THEN p ELSE NoProxy]
    /\ enabled = [s \in Sessions |-> s \in rows]
    /\ status = [s \in Sessions |-> IF s \in rows THEN "active" ELSE "proxy_error"]
    /\ lease = [s \in Sessions |-> NoOp]
    /\ at = [o \in Ops |-> "idle"] /\ on = [o \in Ops |-> CHOOSE s \in Sessions : TRUE]
    /\ tested = [o \in Ops |-> NoProxy] /\ via = [o \in Ops |-> NoProxy]
    /\ overtaken = [o \in Ops |-> "no"]
    /\ pending = [a \in Users |-> NoRequest]
    /\ login = [l \in Logins |-> "idle"] /\ whose = [l \in Logins |-> NoUser]
    /\ route = [l \in Logins |-> NoProxy]
    /\ requests = 0

-----------------------------------------------------------------------------
(* Operations on a session.                                                *)

\* The proxies of 'rows' are exchanged, or dropped, while they are tested.
Overtake(rows) ==
    overtaken' = [o \in Ops |-> IF at[o] = "testing" /\ on[o] \in rows
                                THEN IF enabled'[on[o]] THEN "changed" ELSE "dropped"
                                ELSE overtaken[o]]

\* The operation ends: its client is disconnected and its lease released.
Ends(o) ==
    /\ at' = [at EXCEPT ![o] = "idle"]
    /\ lease' = [s \in Sessions |-> IF lease[s] = o THEN NoOp ELSE lease[s]]
    /\ tested' = [tested EXCEPT ![o] = NoProxy] /\ via' = [via EXCEPT ![o] = NoProxy]
    /\ overtaken' = [overtaken EXCEPT ![o] = "no"]
    /\ on' = [on EXCEPT ![o] = CHOOSE s \in Sessions : TRUE]

\* The row is read and its proxy is being tested.
TestsUnconfigured(o, s) ==
    /\ at' = [at EXCEPT ![o] = "testing"] /\ on' = [on EXCEPT ![o] = s]
    /\ tested' = [tested EXCEPT ![o] = ProxyOf(s)]
    /\ UNCHANGED <<via, overtaken>>
Tests(o, s) ==
    /\ enabled[s]
    /\ TestsUnconfigured(o, s)

\* POST /api/sessions/{id}/proxy/test: no lease.
TestRequest(o, s) ==
    /\ o \in Testers /\ at[o] = "idle" /\ s \in Rows
    /\ Request /\ Tests(o, s)
    /\ UNCHANGED <<rowVars, lease, loginVars>>

\* An operation takes the lease and asks _client_for for a client; without a
\* proxy the session becomes 'proxy_error' and the operation is over.
Begin(o, s) ==
    /\ o \in Workers /\ at[o] = "idle" /\ s \in Rows /\ lease[s] = NoOp
    /\ Request
    /\ \/ Tests(o, s) /\ lease' = [lease EXCEPT ![s] = o] /\ UNCHANGED rowVars
       \/ /\ ~enabled[s] /\ SetStatus(s, "proxy_error")
          /\ UNCHANGED <<user, proxy, enabled, opVars>>
    /\ UNCHANGED loginVars

\* test_session_proxy has its answer; _client_for reads the row again.
TestPasses(o) ==
    LET s == on[o]
    IN  /\ at[o] = "testing"
        /\ IF o \notin Beats /\ status[s] \in {"proxy_error", "proxy_pending"}
           THEN SetStatus(s, "active") ELSE UNCHANGED status
        /\ IF o \in Testers THEN Ends(o)
           ELSE /\ at' = [at EXCEPT ![o] = "connecting"]
                /\ via' = [via EXCEPT ![o] = ProxyOf(s)]
                /\ UNCHANGED <<lease, on, tested, overtaken>>
        /\ UNCHANGED <<user, proxy, enabled, loginVars, requests>>

\* The test or the connection fails.
Unreachable(o) ==
    /\ at[o] \in {"testing", "connecting"}
    /\ IF o \in Beats THEN UNCHANGED status ELSE SetStatus(on[o], "proxy_error")
    /\ Ends(o)
    /\ UNCHANGED <<user, proxy, enabled, loginVars, requests>>

Connects(o) ==
    /\ at[o] = "connecting"
    /\ at' = [at EXCEPT ![o] = "connected"]
    /\ UNCHANGED <<rowVars, lease, on, tested, via, overtaken, loginVars, requests>>

\* The work is done, or Telegram answers FloodWait, PeerFlood or not at all.
Finishes(o) ==
    /\ o \in Workers /\ at[o] = "connected"
    /\ \/ UNCHANGED status
       \/ \E st \in {"flood_wait", "active", "proxy_error"} : SetStatus(on[o], st)
    /\ Ends(o)
    /\ UNCHANGED <<user, proxy, enabled, loginVars, requests>>

\* The 30 seconds of _open_invite_session, or a cancellation.
IsCancelled(o) ==
    /\ o \in Workers /\ at[o] \in {"testing", "connecting"}
    /\ Ends(o)
    /\ UNCHANGED <<rowVars, loginVars, requests>>

-----------------------------------------------------------------------------
(* Proxy settings.                                                         *)

Unless(s, kept, st) == IF status[s] \in kept THEN status[s] ELSE st

\* PUT /api/sessions/{id}/proxy: enabled, which takes a proxy, or not.
SaveProxy(s, p, on_) ==
    /\ s \in Rows /\ (on_ => p # NoProxy) /\ Request
    /\ proxy' = [proxy EXCEPT ![s] = p] /\ enabled' = [enabled EXCEPT ![s] = on_]
    /\ SetStatus(s, Unless(s, {"flood_wait"}, IF on_ THEN "proxy_pending" ELSE "proxy_error"))
    /\ Overtake({s})
    /\ UNCHANGED <<user, lease, at, on, tested, via, loginVars>>

\* DELETE /api/sessions/{id}/proxy.
DeleteProxy(s) ==
    /\ s \in Rows /\ Request
    /\ proxy' = [proxy EXCEPT ![s] = NoProxy] /\ enabled' = [enabled EXCEPT ![s] = FALSE]
    /\ SetStatus(s, "proxy_error")
    /\ Overtake({s})
    /\ UNCHANGED <<user, lease, at, on, tested, via, loginVars>>

\* POST /api/proxies/bulk-assign: the first rows without a proxy, as many as
\* the list has proxies.
BulkAssign(list) ==
    \E given \in SUBSET {s \in Rows : proxy[s] = NoProxy} \ {{}} :
        /\ \A s \in given, r \in Rows \ given : proxy[r] = NoProxy => s < r
        /\ Request
        /\ proxy' = [s \in Sessions |-> IF s \in given THEN list[s] ELSE proxy[s]]
        /\ enabled' = [s \in Sessions |-> s \in given \/ enabled[s]]
        /\ status' = [s \in Sessions |-> IF s \in given
                                         THEN Unless(s, {"flood_wait"}, "proxy_pending")
                                         ELSE status[s]]
        /\ Overtake(given)
        /\ UNCHANGED <<user, lease, at, on, tested, via, loginVars>>

\* release_expired_session_waits.
WaitExpires(s) ==
    /\ status[s] = "flood_wait"
    /\ SetStatus(s, "active")
    /\ UNCHANGED <<user, proxy, enabled, opVars, loginVars, requests>>

-----------------------------------------------------------------------------
(* Login.                                                                  *)

\* start_login: connect, through the proxy or directly, and request a code.
StartLogin(l, a, p) ==
    /\ login[l] = "idle" /\ Request
    /\ login' = [login EXCEPT ![l] = "requesting"]
    /\ whose' = [whose EXCEPT ![l] = a] /\ route' = [route EXCEPT ![l] = p]
    /\ UNCHANGED <<rowVars, opVars, pending>>

LoginEnds(l) ==
    /\ login' = [login EXCEPT ![l] = "idle"]
    /\ whose' = [whose EXCEPT ![l] = NoUser] /\ route' = [route EXCEPT ![l] = NoProxy]

CodeSent(l) ==
    /\ login[l] = "requesting"
    /\ pending' = [pending EXCEPT ![whose[l]] = route[l]]
    /\ LoginEnds(l)
    /\ UNCHANGED <<rowVars, opVars, requests>>

\* verify_login: the request is read, and deleted if it is 15 minutes old.
VerifyLogin(l, a) ==
    /\ login[l] = "idle" /\ pending[a] # NoRequest /\ Request
    /\ login' = [login EXCEPT ![l] = "verifying"]
    /\ whose' = [whose EXCEPT ![l] = a] /\ route' = [route EXCEPT ![l] = pending[a]]
    /\ UNCHANGED <<rowVars, opVars, pending>>

Forget(a) ==
    /\ pending[a] # NoRequest
    /\ pending' = [pending EXCEPT ![a] = NoRequest]
    /\ UNCHANGED <<rowVars, opVars, login, whose, route, requests>>

\* Telegram accepts the code: the row of the account is overwritten, or one
\* is inserted, and the request is deleted, a newer one as well.
RowsForNew(a) == Sessions \ Rows
RowsFor(a) ==
    IF \E s \in Rows : user[s] = a THEN {s \in Rows : user[s] = a} ELSE Sessions \ Rows
Verified(l) ==
    \E s \in RowsFor(whose[l]) :
        /\ login[l] = "verifying" /\ \A r \in RowsFor(whose[l]) : s <= r
        /\ user' = [user EXCEPT ![s] = whose[l]]
        /\ proxy' = [proxy EXCEPT ![s] = route[l]]
        /\ enabled' = [enabled EXCEPT ![s] = route[l] # NoProxy]
        /\ SetStatus(s, Unless(s, {"flood_wait"},
                               IF route[l] = NoProxy THEN "proxy_error" ELSE "active"))
        /\ Overtake({s})
        /\ pending' = [pending EXCEPT ![whose[l]] = NoRequest]
        /\ LoginEnds(l)
        /\ UNCHANGED <<lease, at, on, tested, via, requests>>

\* No connection, a wrong code, a password that is missing.
LoginFails(l) ==
    /\ login[l] # "idle"
    /\ LoginEnds(l)
    /\ UNCHANGED <<rowVars, opVars, pending, requests>>

-----------------------------------------------------------------------------
\* The program is started again; sync_customer_release_proxy may give every
\* row the proxy of a new customer package; 'waiting' still have to wait.
RestartRows ==
    /\ Request
    /\ \/ UNCHANGED rowVars
       \/ \E p \in Proxies, waiting \in SUBSET {s \in Rows : status[s] = "flood_wait"} :
             /\ proxy' = [s \in Sessions |-> IF s \in Rows THEN p ELSE proxy[s]]
             /\ enabled' = [s \in Sessions |-> s \in Rows]
             /\ status' = [s \in Sessions |-> IF s \in Rows \ waiting
                                              THEN "proxy_pending" ELSE status[s]]
             /\ UNCHANGED user
    /\ lease' = [s \in Sessions |-> NoOp]
    /\ at' = [o \in Ops |-> "idle"] /\ on' = [o \in Ops |-> CHOOSE s \in Sessions : TRUE]
    /\ tested' = [o \in Ops |-> NoProxy] /\ via' = [o \in Ops |-> NoProxy]
    /\ overtaken' = [o \in Ops |-> "no"]
    /\ login' = [l \in Logins |-> "idle"] /\ whose' = [l \in Logins |-> NoUser]
    /\ route' = [l \in Logins |-> NoProxy]
    /\ UNCHANGED pending

\* What an operation does by itself.
Proceed(o) == TestPasses(o) \/ Unreachable(o) \/ Connects(o) \/ Finishes(o) \/ IsCancelled(o)

AccountStep ==
    \/ \E o \in Ops, s \in Sessions : TestRequest(o, s) \/ Begin(o, s)
    \/ \E o \in Testers \cup Workers : Proceed(o)
    \/ \E s \in Sessions, p \in Routes, b \in BOOLEAN : SaveProxy(s, p, b)
    \/ \E s \in Sessions : DeleteProxy(s) \/ WaitExpires(s)
    \/ \E list \in [Sessions -> Proxies] : BulkAssign(list)
    \/ \E l \in Logins, a \in Users, p \in Routes : StartLogin(l, a, p)
    \/ \E l \in Logins, a \in Users : VerifyLogin(l, a)
    \/ \E l \in Logins : CodeSent(l) \/ Verified(l) \/ LoginFails(l)
    \/ \E a \in Users : Forget(a)

\* The leases are those of session_operation.py; testers and logins take none.
Mutex == INSTANCE SessionMutex WITH Tasks <- Leased, NoTask <- NoOp, owner <- lease

-----------------------------------------------------------------------------
AccountsTypeOK ==
    /\ user \in [Sessions -> Users \cup {NoUser}] /\ proxy \in [Sessions -> Routes]
    /\ enabled \in [Sessions -> BOOLEAN] /\ status \in [Sessions -> Statuses]
    /\ lease \in [Sessions -> Leased \cup {NoOp}] /\ at \in [Ops -> Places]
    /\ on \in [Ops -> Sessions] /\ tested \in [Ops -> Routes] /\ via \in [Ops -> Routes]
    /\ overtaken \in [Ops -> {"no", "changed", "dropped"}]
    /\ pending \in [Users -> Routes \cup {NoRequest}]
    /\ login \in [Logins -> {"idle", "requesting", "verifying"}]
    /\ whose \in [Logins -> Users \cup {NoUser}] /\ route \in [Logins -> Routes]
    /\ requests \in 0 .. MaxRequests

\* README: a proxy "is tested before the client is created", and the program
\* makes no connection over the main address.  A client goes through the very
\* proxy that was tested for it, unless the session was given another one
\* during the test: then it goes through that one, untested.  A saving, a bulk
\* assignment or a login that meets the test never leads to a client without a
\* proxy, nor does any change after it; only taking the proxy away during the
\* test does, and the property leaves that case out.
TestedBeforeUse ==
    \A o \in Leased : at[o] \in {"connecting", "connected"} =>
        /\ overtaken[o] = "no" => via[o] = tested[o]
        /\ overtaken[o] # "dropped" => via[o] # NoProxy

\* verify_login finds the row of the account after its last await: an account
\* has one row, one heartbeat and one limit however many of its logins are
\* verified at the same time.
OneRowPerAccount == \A s, r \in Rows : user[s] = user[r] => s = r
=============================================================================
