----------------------------- MODULE MCHeartbeat ----------------------------
(* Two rows, two accounts and two proxies, one slot of each kind of request  *)
(* and two logins at a time.  Accounts and proxies are named in the order of *)
(* the rows, which loses nothing: the others are renamings.  The heartbeat   *)
(* is on at first and may be saved off and on again.                         *)
EXTENDS Heartbeat

NamedInOrder ==
    /\ \A s \in Rows : proxy[s] = CHOOSE p \in Proxies : TRUE
    /\ \E s \in Rows : user[s] = CHOOSE a \in Users : TRUE
    /\ \A s, r \in Rows : user[s] = (CHOOSE a \in Users : TRUE) => s <= r

MCInit == Init /\ NamedInOrder /\ beating
MCSpec == MCInit /\ [][Next]_vars /\ Fairness
=============================================================================
