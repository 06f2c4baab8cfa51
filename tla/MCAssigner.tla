----------------------------- MODULE MCAssigner -----------------------------
(***************************************************************************)
(* Instances of Assigner for TLC.  Addresses 1..4: 1 is the server, 2 the  *)
(* static peer_ip, 3 and 4 the pool.                                       *)
(***************************************************************************)
EXTENDS Assigner

CONSTANTS n1, n2, n3, p1, p2

MCOffset == [n \in Node |-> IF n = n1 THEN 2 ELSE 3]

\* The TUN host range 1..4 with peer_ip reserved.
OneConfig == {[start |-> 1, end |-> 4, reserved |-> {2}]}

\* The TUN host range, and an assign_pool below it.
ShrinkPool == OneConfig \cup {[start |-> 3, end |-> 3, reserved |-> {2}]}

\* A row of the lease file as an operator might leave it after an edit: the
\* address of another node, with an IPv6 address that is not its embedding.
EditedRows == {[node_id |-> n2, ip4 |-> 3, ip6 |-> 4, last_seen |-> 1,
                last_peer |-> p1]}

NoRows == {}
NoTimes == {}
=============================================================================
