--------------------------- MODULE MCLearnRouting ---------------------------
(***************************************************************************)
(* Instances of LearnRouting for TLC.  Addresses 1..3: 1 is the server, 2  *)
(* and 3 the pool.                                                         *)
(***************************************************************************)
EXTENDS LearnRouting

\* The slice of the instance a behaviour explores.
VARIABLE slice

CONSTANTS n1, n2, p1, p2, Slices

MCOffset == [n \in Node |-> IF n = n1 THEN 1 ELSE 2]
PoolOfOne == {[start |-> 1, end |-> 2, reserved |-> {}]}
PoolOfTwo == {[start |-> 1, end |-> 3, reserved |-> {}]}
Pools == PoolOfOne \cup PoolOfTwo

DualSource == {<<4, 2>>, <<6, 2>>}
OneSource == {<<4, 2>>}

OneNet == {{<<4, 2>>}}

MCCandidates ==
  [x \in Label \X (Node \cup Ip4) |-> IF x[2] = n1 THEN <<"pi-n1">> ELSE <<"pi-2">>]

Empty == {}

\* "leases": two nodes, two addresses and both families compete for the client
\* map, and nobody advertises routes or names.  "ages": one node, one IPv4
\* address, and everything that can go stale is advertised.  "names": two
\* nodes, one family, and names.
SliceNodes == IF slice = "ages" THEN {n1} ELSE Node
SlicePool == IF slice = "ages" THEN PoolOfOne ELSE PoolOfTwo
SliceSource == IF slice = "leases" THEN Source ELSE OneSource
SliceNets == IF slice = "ages" THEN Net ELSE {}
SliceNames == IF slice = "leases" THEN {None} ELSE Optional(Wanted)
SliceFamilies == IF slice = "leases" THEN BOOLEAN ELSE {FALSE}

MCInit == LInit /\ slice \in Slices /\ cfg \in SlicePool

MCNext ==
  /\ UNCHANGED slice
  /\ \/ \E p \in Peer, src \in SliceSource : Data(p, src)
     \/ \E p \in Peer : Keepalive(p, {})
     \/ \E p \in Peer, i \in SliceSource : i[1] = 4 /\ Keepalive(p, {i})
     \/ \E p \in Peer, S \in Announced, advertised \in SUBSET SliceNets :
          S \subseteq SliceSource /\ RouteAdvert(p, S, advertised)
     \/ \E p \in Peer, S \in Announced, i \in Source, wanted \in SliceNames :
          /\ i \in S /\ i[1] = 4 /\ S \subseteq SliceSource
          /\ NameAdvert(p, S, i[2], wanted)
     \/ \E n \in SliceNodes, p \in Peer, hint \in Ip4, want6 \in SliceFamilies :
          AssignReq(n, p, hint, want6)
     \/ Sweep
     \/ ServerCrash
     \/ \E c \in SlicePool : ServerStart(c)
     \/ ServerTick

MCSpec == MCInit /\ [][MCNext]_<<lvars, slice>>
=============================================================================
