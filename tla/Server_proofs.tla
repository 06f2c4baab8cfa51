--------------------------- MODULE Server_proofs ----------------------------
(***************************************************************************)
(* Proofs about the server's lease table (Assigner) and the client map it  *)
(* keeps in step with (LearnRouting), for any number of nodes, endpoints   *)
(* and addresses and any sequence of requests, packets, crashes, restarts  *)
(* and file faults.                                                        *)
(*                                                                         *)
(* The invariant is the conjunction of the type invariant and the two      *)
(* index invariants: an operation keeps the address indexes inverse to     *)
(* by_node only because they were so before, and unbinds the right         *)
(* endpoint only because a binding names the lease's last_peer.  The       *)
(* lemmas show, operator by operator, that a well-formed table stays one.  *)
(*                                                                         *)
(* The second part is about what the lease file and the pool promise, on   *)
(* top of this invariant.                                                  *)
(*                                                                         *)
(* FileHoldsBindings is not inductive: it is about a running server, and   *)
(* it would let the file hold two rows of one node that differ in          *)
(* last_seen, of which load keeps one only.  So FileOK says that the rows  *)
(* match the leases while the server is down, too, and are one for a node. *)
(* A refused request shows that the pool is full only because every lease  *)
(* lies in the pool (PoolOK): the address freed by the lease that allocate *)
(* has just dropped would have been picked.                                *)
(*                                                                         *)
(* LearnRouting, on top of the invariant of the lease table.               *)
(*                                                                         *)
(* The client map agrees with the lease table because each handler repairs *)
(* it in the step that changes the table: maybe_learn believes only the    *)
(* endpoint bound to the holder, an assignment learns every address it     *)
(* grants, and what it or the sweeper drops is unlearned.                  *)
(*                                                                         *)
(* Ages are bounded at the sweeper's next round, not now: `Swept' says how *)
(* old everything can be by then, which no handler and no tick changes,    *)
(* and that this round is at most an interval away.                        *)
(***************************************************************************)
EXTENDS LearnRouting, TLAPS, WellFoundedInduction, FiniteSetTheorems

-----------------------------------------------------------------------------
(* Assigner.                                                               *)

WellFormed(T) == T \in Table /\ Owners(T) /\ Bindings(T)

SameAddresses(T, U, m) ==
  /\ m \in Held(U)
  /\ U.by_node[m].ip4 = T.by_node[m].ip4
  /\ U.by_node[m].ip6 = T.by_node[m].ip6

IInv == TypeOK /\ OneOwnerPerAddress /\ BindingFollowsLease

-----------------------------------------------------------------------------
\* A set of natural numbers has a least element: the probe of pick_addrs stops
\* at the first usable candidate.
LEMMA LeastExists ==
  ASSUME NEW S, S \subseteq Nat, S # {}
  PROVE  \E k \in S : \A j \in S : k <= j
<1> DEFINE R == {e \in Nat \X Nat : e[1] < e[2]}
<1>1. IsWellFoundedOn(R, Nat)
  BY NatLessThanWellFounded, Zenon DEF OpToRel
<1> HIDE DEF R
<1>2. PICK k \in S : \A j \in S : ~(<<j, k>> \in R)
  BY <1>1, WFMin, Zenon
<1>3. \A j \in S : ~(j < k)
  BY <1>2, Zenon DEF R
<1> QED
  BY <1>3

\* drop_lease keeps the indexes consistent and drops exactly the given leases.
LEMMA DropKeeps ==
  ASSUME NEW T, WellFormed(T), NEW D, D \subseteq Held(T)
  PROVE  /\ WellFormed(DropLeases(T, D))
         /\ Held(DropLeases(T, D)) = Held(T) \ D
<1> DEFINE U == DropLeases(T, D)
<1> USE NoneAssumption
<1>1. T \in Table /\ Owners(T) /\ Bindings(T)
  BY Zenon DEF WellFormed
<1>2. U \in Table
  BY <1>1, Zenon DEF DropLeases, Table, Optional, Held
<1>3. Held(U) = Held(T) \ D
  BY <1>1, Zenon DEF DropLeases, Held, Table
<1>4. Owners(U)
  <2>1. /\ \A m \in Node : U.by_node[m] = IF m \in D THEN None ELSE T.by_node[m]
        /\ \A x \in Ip4 : /\ U.by_ip4[x] = IF \E m \in D : T.by_node[m].ip4 = x
                                           THEN None ELSE T.by_ip4[x]
                         /\ U.by_ip6[x] = IF \E m \in D : T.by_node[m].ip6 = x
                                           THEN None ELSE T.by_ip6[x]
    BY Zenon DEF DropLeases
  <2>2. Held(T) \subseteq Node /\ \A m : m \in Held(U) <=> m \in Held(T) /\ m \notin D
    BY <1>3 DEF Held
  <2> HIDE DEF U
  <2>3. \A m \in Held(U) : U.by_node[m].node_id = m
    BY <1>1, <2>1, <2>2 DEF Owners
  <2>4. ASSUME NEW x \in Ip4, NEW m \in Node
        PROVE  /\ U.by_ip4[x] = m <=> m \in Held(U) /\ U.by_node[m].ip4 = x
               /\ U.by_ip6[x] = m <=> m \in Held(U) /\ U.by_node[m].ip6 = x
    <3>1. m # None /\ D \subseteq Node
      BY Zenon DEF Held
    <3>2. /\ T.by_ip4[x] = m <=> m \in Held(T) /\ T.by_node[m].ip4 = x
          /\ \A k \in D : T.by_node[k].ip4 = x => T.by_ip4[x] = k
          /\ T.by_ip6[x] = m <=> m \in Held(T) /\ T.by_node[m].ip6 = x
          /\ \A k \in D : T.by_node[k].ip6 = x => T.by_ip6[x] = k
      BY <1>1, <3>1, Zenon DEF Owners
    <3> QED
      BY <2>1, <2>2, <3>1, <3>2
  <2> QED
    BY <2>3, <2>4, Zenon DEF Owners
<1>5. Bindings(U)
  BY <1>1, <1>3, Zenon DEF DropLeases, Held, Table, Bindings
<1> QED
  BY <1>2, <1>3, <1>4, <1>5, Zenon DEF WellFormed

\* refresh_existing moves the binding with the lease and no address.
LEMMA RefreshKeeps ==
  ASSUME NEW T, WellFormed(T), NEW n \in Held(T), NEW p \in Peer, NEW t \in Int
  PROVE  /\ WellFormed(Refresh(T, n, p, t))
         /\ \A m \in Held(T) : SameAddresses(T, Refresh(T, n, p, t), m)
<1> DEFINE U == Refresh(T, n, p, t)
<1> USE NoneAssumption
<1>1. T \in Table /\ Owners(T) /\ Bindings(T) /\ T.by_node[n] \in Lease
  BY Zenon DEF WellFormed, Held, Table, Optional
<1>2. /\ U.by_node = [T.by_node EXCEPT ![n] =
                       [T.by_node[n] EXCEPT !.last_seen = t, !.last_peer = p]]
      /\ U.by_ip4 = T.by_ip4 /\ U.by_ip6 = T.by_ip6
      /\ U.by_peer = [q \in Peer |->
                       IF q = p THEN n
                       ELSE IF q = T.by_node[n].last_peer /\ T.by_peer[q] = n
                            THEN None ELSE T.by_peer[q]]
      /\ U = [by_node |-> U.by_node, by_ip4 |-> U.by_ip4,
              by_ip6 |-> U.by_ip6, by_peer |-> U.by_peer]
  BY <1>1, Zenon DEF Refresh, Table
<1> DEFINE l == [T.by_node[n] EXCEPT !.last_seen = t, !.last_peer = p]
<1>3. /\ l \in Lease /\ l # None /\ l.last_peer = p
      /\ l.node_id = T.by_node[n].node_id
      /\ l.ip4 = T.by_node[n].ip4 /\ l.ip6 = T.by_node[n].ip6
  BY <1>1, Zenon DEF Lease, Optional
<1>4. /\ n \in Node /\ T.by_node[n] # None
      /\ \A m \in Node : U.by_node[m] = IF m = n THEN l ELSE T.by_node[m]
  BY <1>1, <1>2, Zenon DEF Table, Held
<1> HIDE DEF U, l
<1>5. U \in Table
  <2>1. U.by_node \in [Node -> Optional(Lease)]
    BY <1>1, <1>2, <1>3, <1>4 DEF Table, Optional, l
  <2> QED
    BY <1>1, <1>2, <1>4, <2>1 DEF Table, Optional
<1>6. Held(U) = Held(T)
  BY <1>3, <1>4, Zenon DEF Held
<1>7. Owners(U)
  BY <1>1, <1>2, <1>3, <1>4, <1>6, SMTT(30) DEF Owners, Held
<1>8. Bindings(U)
  BY <1>1, <1>2, <1>3, <1>4, <1>6 DEF Bindings, Held, Table
<1>9. \A m \in Held(T) : SameAddresses(T, U, m)
  BY <1>3, <1>4, <1>6, Zenon DEF SameAddresses, Held
<1> QED
  BY <1>5, <1>7, <1>8, <1>9, Zenon DEF WellFormed, U

\* Unbinding an endpoint leaves every lease alone.
LEMMA UnbindKeeps ==
  ASSUME NEW T, WellFormed(T), NEW n \in Node, NEW p \in Peer
  PROVE  /\ WellFormed(UnbindPeer(T, n, p))
         /\ UnbindPeer(T, n, p).by_node = T.by_node
         /\ UnbindPeer(T, n, p).by_ip4 = T.by_ip4
         /\ UnbindPeer(T, n, p).by_ip6 = T.by_ip6
         /\ Held(UnbindPeer(T, n, p)) = Held(T)
  BY NoneAssumption, SMTT(30)
     DEF UnbindPeer, WellFormed, Table, Owners, Bindings, Held, Optional

\* pick_addrs answers with an address that try_ip4 accepted.
LEMMA PickIsUsable ==
  ASSUME NEW T, NEW c \in Configs, NEW n \in Node, NEW hint \in Ip4,
         NEW want6 \in BOOLEAN, PickAddr(T, c, n, hint, want6) # None
  PROVE  /\ PickAddr(T, c, n, hint, want6) \in Ip4
         /\ TryIp4(T, c, PickAddr(T, c, n, hint, want6), n, want6)
<1> DEFINE span == c.end - c.start + 1
           Cand(k) == c.start + ((Offset[n] + k) % span)
           hits == {k \in 0 .. span - 1 : TryIp4(T, c, Cand(k), n, want6)}
           least == CHOOSE k \in hits : \A j \in hits : k <= j
           a == PickAddr(T, c, n, hint, want6)
<1>1. c \in Config /\ c.start .. c.end \subseteq Ip4
  BY ConfigAssumption, Zenon
<1>2. a = IF TryIp4(T, c, hint, n, want6) THEN hint
          ELSE IF hits = {} THEN None ELSE Cand(least)
  BY Zenon DEF PickAddr
<1>3. CASE TryIp4(T, c, hint, n, want6)
  BY <1>2, <1>3, Zenon
<1>4. CASE ~TryIp4(T, c, hint, n, want6)
  <2>1. hits # {} /\ a = Cand(least)
    BY <1>2, <1>4, Zenon
  <2>2. hits \subseteq Nat
    BY <1>1, TypeAssumption DEF Config
  <2> HIDE DEF hits
  <2>3. \E k \in hits : \A j \in hits : k <= j
    BY <2>1, <2>2, LeastExists, Zenon
  <2>4. least \in hits
    BY <2>3, Zenon
  <2>5. TryIp4(T, c, Cand(least), n, want6)
    BY <2>4, Zenon DEF hits
  <2>6. Cand(least) \in Ip4
    BY <1>1, <2>5, Zenon DEF TryIp4, Usable
  <2> QED
    BY <2>1, <2>5, <2>6, Zenon
<1> QED
  BY <1>3, <1>4, Zenon

\* bind_new gives a node without a lease an address nobody holds.
LEMMA BindKeeps ==
  ASSUME NEW T, WellFormed(T), NEW c, NEW n \in Node, n \notin Held(T),
         NEW p \in Peer, NEW a \in Ip4, NEW want6 \in BOOLEAN, NEW t \in Int,
         TryIp4(T, c, a, n, want6)
  PROVE  WellFormed(BindNew(T, n, p, a, Ip6For(a, want6), t))
<1> DEFINE S == DropLeases(T, Held(T) \cap {n})
           a6 == Ip6For(a, want6)
           l == [node_id |-> n, ip4 |-> a, ip6 |-> a6, last_seen |-> t, last_peer |-> p]
           U == BindNew(T, n, p, a, a6, t)
<1> USE NoneAssumption
<1>1. WellFormed(S) /\ Held(S) = Held(T)
  <2>1. Held(T) \cap {n} \subseteq Held(T) /\ Held(T) \ (Held(T) \cap {n}) = Held(T)
    BY Zenon
  <2> QED
    BY <2>1, DropKeeps, Zenon
<1>2. S \in Table /\ Owners(S) /\ Bindings(S) /\ n \notin Held(S)
  BY <1>1, Zenon DEF WellFormed
<1>3. S.by_ip4[a] = None
  <2>1. T.by_ip4[a] \in {None, n} /\ T \in Table /\ Owners(T)
    BY Zenon DEF TryIp4, Usable, WellFormed
  <2>2. T.by_ip4[a] = None
    BY <2>1, Zenon DEF Owners
  <2> QED
    BY <2>2, Zenon DEF DropLeases
<1>4. a6 \in Optional(Ip4) /\ (a6 # None => a6 = a /\ S.by_ip6[a] = None)
  <2>1. a6 # None => T.by_ip6[a] \in {None, n} /\ a6 = a
    BY Zenon DEF TryIp4, Ip6Free, Ip6For
  <2>2. a6 # None => T.by_ip6[a] = None
    BY <2>1, Zenon DEF Owners, WellFormed
  <2> QED
    BY <2>1, <2>2, Zenon DEF DropLeases, Ip6For, Optional
<1>5. l \in Lease /\ l # None
  BY <1>4, SMTT(30) DEF Lease, Optional
<1>6. U = [by_node |-> [S.by_node EXCEPT ![n] = l],
           by_ip4  |-> [S.by_ip4 EXCEPT ![a] = n],
           by_ip6  |-> IF a6 = None THEN S.by_ip6 ELSE [S.by_ip6 EXCEPT ![a6] = n],
           by_peer |-> [S.by_peer EXCEPT ![p] = n]]
  BY Zenon DEF BindNew
<1> HIDE DEF U, S, a6
<1>7. U \in Table
  BY <1>2, <1>4, <1>5, <1>6, Zenon DEF Table, Optional
<1>8. Held(U) = Held(S) \cup {n}
  BY <1>2, <1>5, <1>6, SMTT(30) DEF Held, Table
<1>9. Owners(U)
  BY <1>2, <1>3, <1>4, <1>5, <1>6, <1>8, SMTT(30) DEF Owners, Held, Table, Optional
<1>10. Bindings(U)
  BY <1>2, <1>5, <1>6, <1>8, SMTT(30) DEF Bindings, Held, Table
<1> QED
  BY <1>7, <1>9, <1>10, Zenon DEF WellFormed, U, a6

\* load builds a consistent table from rows that do not conflict.
LEMMA TableOfKeeps ==
  ASSUME NEW S, S \subseteq Lease, \A r, s \in S : ~Conflict(r, s)
  PROVE  /\ WellFormed(TableOf(S))
         /\ \A r \in S : /\ r.node_id \in Held(TableOf(S))
                         /\ TableOf(S).by_node[r.node_id] = FromRow(r)
         /\ \A n \in Held(TableOf(S)) :
              \E r \in S : r.node_id = n /\ TableOf(S).by_node[n] = FromRow(r)
<1> DEFINE U == TableOf(S)
<1> USE NoneAssumption
<1>1. \A r \in S : /\ FromRow(r) \in Lease /\ FromRow(r).node_id = r.node_id
                   /\ FromRow(r).ip4 = r.ip4 /\ FromRow(r).ip6 = r.ip6
  BY TypeAssumption DEF FromRow, Lease
<1>2. \A r, s \in S :
        /\ r.node_id = s.node_id => r = s
        /\ r.ip4 = s.ip4 => r = s
        /\ r.ip6 # None /\ r.ip6 = s.ip6 => r = s
  BY Zenon DEF Conflict
<1>3. \A n \in Node :
        U.by_node[n] = IF \E r \in S : r.node_id = n
                       THEN FromRow(CHOOSE r \in S : r.node_id = n) ELSE None
  BY Zenon DEF TableOf
<1>4. \A r \in S : r.node_id \in Node /\ U.by_node[r.node_id] = FromRow(r)
  <2> SUFFICES ASSUME NEW r \in S
               PROVE  r.node_id \in Node /\ U.by_node[r.node_id] = FromRow(r)
    BY Zenon
  <2>1. r.node_id \in Node
    BY Zenon DEF Lease
  <2>2. (CHOOSE s \in S : s.node_id = r.node_id) = r
    BY <1>2, Zenon
  <2> QED
    BY <1>3, <2>1, <2>2, Zenon
<1>5. \A n \in Held(U) : \E r \in S : r.node_id = n /\ U.by_node[n] = FromRow(r)
  BY <1>3, <1>4, Zenon DEF Held
<1>6. \A r \in S : r.node_id \in Held(U)
  BY <1>1, <1>4, Zenon DEF Held
<1>7. \A a \in Ip4 :
        /\ \A r \in S : r.ip4 = a => U.by_ip4[a] = r.node_id
        /\ (\A r \in S : r.ip4 # a) => U.by_ip4[a] = None
  <2> SUFFICES ASSUME NEW a \in Ip4
               PROVE  /\ \A r \in S : r.ip4 = a => U.by_ip4[a] = r.node_id
                      /\ (\A r \in S : r.ip4 # a) => U.by_ip4[a] = None
    BY Zenon
  <2>1. U.by_ip4[a] = IF \E r \in S : r.ip4 = a
                      THEN (CHOOSE r \in S : r.ip4 = a).node_id ELSE None
    BY Zenon DEF TableOf
  <2>2. \A r \in S : r.ip4 = a => (CHOOSE s \in S : s.ip4 = a) = r
    BY <1>2, Zenon
  <2> QED
    BY <2>1, <2>2, Zenon
<1>8. \A a \in Ip4 :
        /\ \A r \in S : r.ip6 = a => U.by_ip6[a] = r.node_id
        /\ (\A r \in S : r.ip6 # a) => U.by_ip6[a] = None
  <2> SUFFICES ASSUME NEW a \in Ip4
               PROVE  /\ \A r \in S : r.ip6 = a => U.by_ip6[a] = r.node_id
                      /\ (\A r \in S : r.ip6 # a) => U.by_ip6[a] = None
    BY Zenon
  <2>1. U.by_ip6[a] = IF \E r \in S : r.ip6 = a
                      THEN (CHOOSE r \in S : r.ip6 = a).node_id ELSE None
    BY Zenon DEF TableOf
  <2>2. a # None
    BY Zenon
  <2>3. \A r \in S : r.ip6 = a => (CHOOSE s \in S : s.ip6 = a) = r
    BY <1>2, <2>2, Zenon
  <2> QED
    BY <2>1, <2>3, Zenon
<1>9. U \in Table
  <2>1. /\ U = [by_node |-> U.by_node, by_ip4 |-> U.by_ip4,
                by_ip6 |-> U.by_ip6, by_peer |-> U.by_peer]
        /\ DOMAIN U.by_node = Node /\ DOMAIN U.by_ip4 = Ip4
        /\ DOMAIN U.by_ip6 = Ip4 /\ U.by_peer = [p \in Peer |-> None]
        /\ U.by_node = [n \in Node |-> U.by_node[n]]
        /\ U.by_ip4 = [a \in Ip4 |-> U.by_ip4[a]]
        /\ U.by_ip6 = [a \in Ip4 |-> U.by_ip6[a]]
    BY Zenon DEF TableOf
  <2>2. \A n \in Node : U.by_node[n] \in Optional(Lease)
    BY <1>1, <1>5 DEF Held, Optional
  <2>3. \A a \in Ip4 : U.by_ip4[a] \in Optional(Node) /\ U.by_ip6[a] \in Optional(Node)
    BY <1>4, <1>7, <1>8, Zenon DEF Optional
  <2> HIDE DEF U
  <2> QED
    BY <2>1, <2>2, <2>3, Zenon DEF Table, Optional
<1> HIDE DEF U
<1>10. Owners(U)
  <2>1. \A n \in Held(U) : U.by_node[n].node_id = n
    BY <1>1, <1>5
  <2>2. \A a \in Ip4, n \in Node :
          U.by_ip4[a] = n <=> n \in Held(U) /\ U.by_node[n].ip4 = a
    BY <1>1, <1>4, <1>5, <1>6, <1>7
  <2>3. \A a \in Ip4, n \in Node :
          U.by_ip6[a] = n <=> n \in Held(U) /\ U.by_node[n].ip6 = a
    BY <1>1, <1>4, <1>5, <1>6, <1>8
  <2> QED
    BY <2>1, <2>2, <2>3, Zenon DEF Owners
<1>11. Bindings(U)
  BY Zenon DEF Bindings, TableOf, U
<1> QED
  BY <1>4, <1>5, <1>6, <1>9, <1>10, <1>11, Zenon DEF WellFormed, U

-----------------------------------------------------------------------------
\* The leases of a table are leases, and so are the rows written for them.
LEMMA RowsAreLeases ==
  ASSUME NEW T \in Table
  PROVE  /\ \A D \in SUBSET Held(T) : LeasesOf(T, D) \subseteq Lease
         /\ Snapshot(T) \subseteq Lease
<1>1. \A n \in Held(T) : T.by_node[n] \in Lease
  BY Zenon DEF Held, Table, Optional
<1>2. \A l \in Lease : ToRow(l) \in Lease
  BY TypeAssumption DEF ToRow, Lease
<1> QED
  BY <1>1, <1>2, Zenon DEF LeasesOf, Snapshot

\* Whether or not the write succeeds, there is a file, no file or an old file.
LEMMA PersistKeepsTypes ==
  ASSUME TypeOK, NEW T \in Table, NEW t \in Int, Persist(T, t)
  PROVE  file' \in File /\ last_persist' \in Int
  BY RowsAreLeases DEF TypeOK, Persist, WriteLeases, WriteFails, File

\* The same of a write that is made on a condition.
LEMMA PersistIfKeepsTypes ==
  ASSUME TypeOK, NEW T \in Table, NEW t \in Int, NEW cond, PersistIf(cond, T, t)
  PROVE  file' \in File /\ last_persist' \in Int
  BY PersistKeepsTypes, Zenon DEF TypeOK, PersistIf

\* What allocate and reap start from: the table without its expired leases.
LEMMA ReapedKeeps ==
  ASSUME IInv
  PROVE  /\ WellFormed(table) /\ WellFormed(Reaped)
         /\ Held(Reaped) = Held(table) \ Expired
         /\ Expired \subseteq Held(table)
         /\ LeasesOf(table, Expired) \subseteq Lease
<1>1. WellFormed(table) /\ table \in Table
  BY Zenon DEF IInv, TypeOK, OneOwnerPerAddress, BindingFollowsLease, WellFormed
<1>2. Expired \subseteq Held(table)
  BY Zenon DEF Expired, ExpiredNodes
<1> QED
  BY <1>1, <1>2, DropKeeps, RowsAreLeases, Zenon DEF Reaped

\* Binding an address of a table derived from the reaped one.
LEMMA BindStep ==
  ASSUME IInv, up \in BOOLEAN, NEW T, WellFormed(T), NEW n \in Node, n \notin Held(T),
         NEW p \in Peer, NEW hint \in Ip4, NEW want6 \in BOOLEAN,
         NEW dropped \in SUBSET Lease,
         PickAddr(T, cfg, n, hint, want6) # None,
         Bind(T, n, p, PickAddr(T, cfg, n, hint, want6), want6, dropped)
  PROVE  IInv'
<1> DEFINE a == PickAddr(T, cfg, n, hint, want6)
<1>1. TypeOK /\ cfg \in Configs /\ now \in Int
  BY Zenon DEF IInv, TypeOK
<1>2. a \in Ip4 /\ TryIp4(T, cfg, a, n, want6)
  BY <1>1, PickIsUsable, Zenon
<1> HIDE DEF a
<1>3. table' = BindNew(T, n, p, a, Ip6For(a, want6), now)
  BY Zenon DEF Bind, a
<1>4. WellFormed(table')
  BY <1>1, <1>2, <1>3, BindKeeps, Zenon
<1>5. table'.by_node[n] \in Lease
  <2>1. table'.by_node[n] = [node_id |-> n, ip4 |-> a, ip6 |-> Ip6For(a, want6),
                             last_seen |-> now, last_peer |-> p]
    <3>1. DropLeases(T, Held(T) \cap {n}).by_node \in [Node -> Optional(Lease)]
      BY DropKeeps, Zenon DEF WellFormed, Table
    <3> QED
      BY <1>3, <3>1, Zenon DEF BindNew
  <2> QED
    BY <1>1, <1>2, <2>1 DEF Lease, Ip6For, Optional
<1>6. out' \in Output
  BY <1>5, Zenon DEF Bind, Ok, Output, Lease, Optional
<1>7. file' \in File /\ last_persist' \in Int
  BY <1>1, <1>4, PersistKeepsTypes, Zenon DEF Bind, WellFormed
<1>8. cfg' \in Configs /\ up' \in BOOLEAN /\ now' \in Int
  BY <1>1, Zenon DEF Bind
<1> QED
  BY <1>4, <1>6, <1>7, <1>8, Zenon DEF IInv, TypeOK, OneOwnerPerAddress, BindingFollowsLease,
     WellFormed

\* IInv holds initially.
LEMMA EmptyIsWellFormed == WellFormed(EmptyTable)
<1> USE NoneAssumption
<1>1. EmptyTable \in Table /\ Held(EmptyTable) = {}
  BY Zenon DEF EmptyTable, Table, Held, Optional
<1>2. Owners(EmptyTable) /\ Bindings(EmptyTable)
  BY <1>1, Zenon DEF EmptyTable, Owners, Bindings
<1> QED
  BY <1>1, <1>2, Zenon DEF WellFormed

\* A server that has never run has an empty table and no file.
LEMMA InitIInv == Init => IInv
<1> SUFFICES ASSUME Init PROVE IInv
  BY Zenon
<1> USE NoneAssumption
<1>1. WellFormed(table)
  BY EmptyIsWellFormed, Zenon DEF Init
<1>3. file \in File /\ out \in Output
  BY Zenon DEF Init, File, Output, NoOutput, Optional
<1>4. up \in BOOLEAN
  BY Zenon DEF Init
<1>5. last_persist \in Int /\ now \in Int /\ cfg \in Configs
  BY DEF Init
<1> QED
  BY <1>1, <1>3, <1>4, <1>5, Zenon DEF IInv, TypeOK, OneOwnerPerAddress, BindingFollowsLease,
     WellFormed

\* Every call of the running server preserves IInv.
LEMMA AllocateIInv ==
  ASSUME IInv, NEW n \in Node, NEW p \in Peer, NEW hint \in Ip4,
         NEW want6 \in BOOLEAN, Allocate(n, p, hint, want6)
  PROVE  IInv'
<1> DEFINE T == UnbindPeer(Reaped, n, p)
<1>1. TypeOK /\ cfg \in Configs /\ up \in BOOLEAN /\ now \in Int
  BY Zenon DEF IInv, TypeOK
<1>2. /\ WellFormed(table) /\ WellFormed(Reaped) /\ Expired \subseteq Held(table)
      /\ Held(Reaped) = Held(table) \ Expired
      /\ LeasesOf(table, Expired) \subseteq Lease
  BY ReapedKeeps, Zenon
<1>3. WellFormed(T) /\ T.by_node = Reaped.by_node /\ Held(T) = Held(Reaped)
  BY <1>2, UnbindKeeps, Zenon
<1>4. \A o \in Held(T) : /\ WellFormed(DropLeases(T, {o}))
                         /\ Held(DropLeases(T, {o})) = Held(T) \ {o}
                         /\ LeasesOf(table, Expired \cup {o}) \subseteq Lease
  <2> SUFFICES ASSUME NEW o \in Held(T)
               PROVE  /\ WellFormed(DropLeases(T, {o}))
                      /\ Held(DropLeases(T, {o})) = Held(T) \ {o}
                      /\ LeasesOf(table, Expired \cup {o}) \subseteq Lease
    BY Zenon
  <2>1. {o} \subseteq Held(T) /\ Expired \cup {o} \in SUBSET Held(table)
    BY <1>2, <1>3, Zenon
  <2> QED
    BY <1>2, <1>3, <2>1, DropKeeps, RowsAreLeases, Zenon DEF WellFormed
<1> HIDE DEF T
<1>5. CASE AllocateRefresh(n, p)
  <2>1. n \in Held(Reaped) /\ table' = Refresh(Reaped, n, p, now)
    BY <1>5, Zenon DEF AllocateRefresh
  <2>2. WellFormed(table')
    BY <1>1, <1>2, <2>1, RefreshKeeps, Zenon
  <2>3. Reaped.by_node[n] \in Lease
    BY <1>2, <2>1, Zenon DEF WellFormed, Table, Held, Optional
  <2>4. out' \in Output
    BY <1>2, <1>5, <2>3, Zenon DEF AllocateRefresh, Ok, Output, Lease, Optional
  <2>5. file' \in File /\ last_persist' \in Int
    BY <1>1, <1>5, <2>2, PersistIfKeepsTypes, Zenon DEF AllocateRefresh, WellFormed
  <2>6. cfg' = cfg /\ up' = up /\ now' = now
    BY <1>5, Zenon DEF AllocateRefresh
  <2> QED
    BY <1>1, <2>2, <2>4, <2>5, <2>6, Zenon DEF IInv, TypeOK, OneOwnerPerAddress,
       BindingFollowsLease, WellFormed
<1>6. CASE AllocateFree(n, p, hint, want6)
  <2>1. /\ n \notin Held(T) /\ PickAddr(T, cfg, n, hint, want6) # None
        /\ Bind(T, n, p, PickAddr(T, cfg, n, hint, want6), want6,
                LeasesOf(table, Expired))
    BY <1>3, <1>6, Zenon DEF AllocateFree, T
  <2> QED
    BY <1>1, <1>2, <1>3, <2>1, BindStep, Zenon
<1>7. CASE AllocateReclaim(n, p, hint, want6)
  <2>1. PICK o \in Oldest(T) :
          LET S == DropLeases(T, {o})
              a == PickAddr(S, cfg, n, hint, want6) IN
          /\ a # None
          /\ Bind(S, n, p, a, want6, LeasesOf(table, Expired \cup {o}))
    BY <1>7, Zenon DEF AllocateReclaim, T
  <2>2. o \in Held(T) /\ n \notin Held(T)
    BY <1>3, <1>7, <2>1, Zenon DEF Oldest, AllocateReclaim
  <2> DEFINE S == DropLeases(T, {o})
  <2>3. WellFormed(S) /\ n \notin Held(S)
    BY <1>4, <2>2, Zenon
  <2> HIDE DEF S
  <2>4. /\ PickAddr(S, cfg, n, hint, want6) # None
        /\ Bind(S, n, p, PickAddr(S, cfg, n, hint, want6), want6,
                LeasesOf(table, Expired \cup {o}))
    BY <2>1, Zenon DEF S
  <2>5. LeasesOf(table, Expired \cup {o}) \in SUBSET Lease
    BY <1>4, <2>2, Zenon
  <2> QED
    BY <1>1, <2>3, <2>4, <2>5, BindStep, Zenon
<1>8. CASE AllocateExhausted(n, p, hint, want6)
  <2>1. cfg' = cfg /\ up' = up /\ now' = now
    BY <1>8, Zenon DEF AllocateExhausted
  <2>2. CASE /\ table' = T
             /\ out' = Exhausted(n, LeasesOf(table, Expired))
             /\ PersistIf(Expired # {}, T, now)
    <3>1. WellFormed(table') /\ file' \in File /\ last_persist' \in Int
      BY <1>1, <1>3, <2>2, PersistIfKeepsTypes, Zenon DEF WellFormed
    <3>2. out' \in Output
      BY <1>2, <2>2, Zenon DEF Exhausted, Output, Optional
    <3> QED
      BY <1>1, <2>1, <3>1, <3>2, Zenon DEF IInv, TypeOK, OneOwnerPerAddress, BindingFollowsLease,
         WellFormed
  <2>3. CASE \E o \in Oldest(T) :
               /\ table' = DropLeases(T, {o})
               /\ out' = Exhausted(n, LeasesOf(table, Expired \cup {o}))
               /\ Persist(table', now)
    <3>1. PICK o \in Held(T) :
            /\ table' = DropLeases(T, {o})
            /\ out' = Exhausted(n, LeasesOf(table, Expired \cup {o}))
            /\ Persist(table', now)
      BY <2>3, Zenon DEF Oldest
    <3>2. WellFormed(table') /\ LeasesOf(table, Expired \cup {o}) \subseteq Lease
      BY <1>4, <3>1, Zenon
    <3>3. file' \in File /\ last_persist' \in Int
      BY <1>1, <3>1, <3>2, PersistKeepsTypes, Zenon DEF WellFormed
    <3>4. out' \in Output
      BY <3>1, <3>2, Zenon DEF Exhausted, Output, Optional
    <3> QED
      BY <1>1, <2>1, <3>2, <3>3, <3>4, Zenon DEF IInv, TypeOK, OneOwnerPerAddress,
         BindingFollowsLease, WellFormed
  <2> QED
    BY <1>8, <2>2, <2>3, Zenon DEF AllocateExhausted, T
<1> QED
  BY <1>5, <1>6, <1>7, <1>8, Zenon DEF Allocate

\* reap drops the expired leases with all their index entries.
LEMMA ReapIInv ==
  ASSUME IInv, Reap
  PROVE  IInv'
<1>1. TypeOK /\ cfg \in Configs /\ up \in BOOLEAN /\ now \in Int
  BY Zenon DEF IInv, TypeOK
<1>2. WellFormed(Reaped) /\ LeasesOf(table, Expired) \subseteq Lease
  BY ReapedKeeps, Zenon
<1>3. file' \in File /\ last_persist' \in Int
  BY <1>1, <1>2, PersistIfKeepsTypes, Zenon DEF Reap, WellFormed
<1>4. out' \in Output
  BY <1>2, Zenon DEF Reap, NoOutput, Output, Optional
<1>5. WellFormed(table') /\ cfg' = cfg /\ up' = up /\ now' = now
  BY <1>2, Zenon DEF Reap
<1> QED
  BY <1>1, <1>3, <1>4, <1>5, Zenon DEF IInv, TypeOK, OneOwnerPerAddress, BindingFollowsLease,
     WellFormed

\* A start builds a well-formed table from any file, a foreign one included.
LEMMA StartIInv ==
  ASSUME IInv, NEW c \in Configs, RestartLoad(c) \/ RestartEmpty(c)
  PROVE  IInv'
<1>1. TypeOK /\ file \in File /\ last_persist \in Int /\ now \in Int
  BY Zenon DEF IInv, TypeOK
<1>2. cfg' = c /\ now' = now /\ out' \in Output /\ last_persist' = now
  BY SMTT(30) DEF RestartLoad, RestartEmpty, Start, NoOutput, Output, Optional
<1>3. up' \in BOOLEAN
  BY Zenon DEF RestartLoad, RestartEmpty, Start
<1>4. CASE RestartLoad(c)
  <2>1. PICK S \in Loadable(file.rows, now) :
          /\ table' = TableOf(S)
          /\ IF S = file.rows THEN UNCHANGED file
             ELSE WriteLeases(table') \/ WriteFails
    BY <1>4, Zenon DEF RestartLoad
  <2>2. WellFormed(table')
    <3>1. S \subseteq Lease /\ \A r, s \in S : ~Conflict(r, s)
      BY <1>1, <2>1, Zenon DEF Loadable, File
    <3> QED
      BY <2>1, <3>1, TableOfKeeps, Zenon
  <2>3. file' \in File
    BY <1>1, <2>1, <2>2, RowsAreLeases, SMTT(30)
       DEF WriteLeases, WriteFails, File, WellFormed
  <2> QED
    BY <1>1, <1>2, <1>3, <2>2, <2>3, Zenon DEF IInv, TypeOK, OneOwnerPerAddress,
       BindingFollowsLease, WellFormed
<1>5. CASE RestartEmpty(c)
  <2>1. WellFormed(table')
    BY <1>5, EmptyIsWellFormed, Zenon DEF RestartEmpty
  <2>2. file' \in File
    BY <1>1, <1>5 DEF RestartEmpty, File
  <2> QED
    BY <1>1, <1>2, <1>3, <2>1, <2>2, Zenon DEF IInv, TypeOK, OneOwnerPerAddress,
       BindingFollowsLease, WellFormed
<1> QED
  BY <1>4, <1>5, Zenon

\* The steps that leave the table alone.
LEMMA EnvironmentIInv ==
  ASSUME IInv,
         \/ Crash \/ CorruptFile \/ Tick
         \/ \E r \in ForeignRows : EditFile(r)
         \/ \E t \in ClockSets : SetClock(t)
  PROVE  IInv'
<1>1. /\ table \in Table /\ file \in File /\ last_persist \in Int
      /\ cfg \in Configs /\ up \in BOOLEAN /\ now \in Int
  BY Zenon DEF IInv, TypeOK
<1>2. table' = table /\ last_persist' = last_persist /\ cfg' = cfg
  BY Zenon DEF Crash, CorruptFile, Tick, EditFile, SetClock
<1>3. file' \in File
  BY <1>1, RowAssumption, SMTT(30) DEF Crash, CorruptFile, Tick, EditFile, SetClock, File
<1>4. out' \in Output
  BY SMTT(30) DEF Crash, CorruptFile, Tick, EditFile, SetClock, NoOutput, Output, Optional
<1>5. up' \in BOOLEAN
  BY <1>1, Zenon DEF Crash, CorruptFile, Tick, EditFile, SetClock
<1>6. now' \in Int
  BY <1>1, TypeAssumption, SMTT(30) DEF Crash, CorruptFile, Tick, EditFile, SetClock
<1> QED
  BY <1>1, <1>2, <1>3, <1>4, <1>5, <1>6, Zenon DEF IInv, TypeOK, OneOwnerPerAddress,
     BindingFollowsLease

\* Every step of the assigner keeps the invariant.
LEMMA NextIInv == IInv /\ [Next]_vars => IInv'
<1> SUFFICES ASSUME IInv, [Next]_vars PROVE IInv'
  BY Zenon
<1>1. CASE UNCHANGED vars
  BY <1>1, Zenon DEF IInv, TypeOK, OneOwnerPerAddress, BindingFollowsLease, vars
<1>2. CASE Next
  BY <1>2, AllocateIInv, ReapIInv, StartIInv, EnvironmentIInv, Zenon DEF Next
<1> QED
  BY <1>1, <1>2, Zenon

\* So it holds at all times.
LEMMA SpecIInv == Spec => []IInv
  BY InitIInv, NextIInv, PTL DEF Spec

-----------------------------------------------------------------------------
\* Every variable keeps its type, the replies and the rows of the lease file
\* included, whatever allocate, reap, load and the environment do.
THEOREM TypeCorrect == Spec => []TypeOK
<1>1. IInv => TypeOK
  BY Zenon DEF IInv
<1> QED
  BY <1>1, SpecIInv, PTL

\* No two nodes hold the same tunnel address, IPv4 or IPv6, and the indexes of
\* the Assigner are exact, across requests, reaps, reclaims, crashes and starts
\* from any lease file, an edited one with duplicate rows included.
THEOREM AddressesHaveOneOwner == Spec => []OneOwnerPerAddress
<1>1. IInv => OneOwnerPerAddress
  BY Zenon DEF IInv
<1> QED
  BY <1>1, SpecIInv, PTL

\* An endpoint that by_peer knows is the last_peer of the lease it stands for,
\* however nodes roam between endpoints and endpoints are recycled.
THEOREM BindingsFollowLeases == Spec => []BindingFollowsLease
<1>1. IInv => BindingFollowsLease
  BY Zenon DEF IInv
<1> QED
  BY <1>1, SpecIInv, PTL

-----------------------------------------------------------------------------
(* What one call does to the lease of a node.                              *)

\* A lease is kept with its addresses, or reported; a live one that is reported
\* is gone.
Accounted(U, dropped) ==
  \A m \in Held(table) :
    \/ SameAddresses(table, U, m)
    \/ /\ table.by_node[m] \in dropped
       /\ m \in Expired \/ m \notin Held(U)

\* Dropping D, which includes the expired leases, and binding a node that holds
\* none of the rest: reported leases are those of D.
LEMMA BindAccounts ==
  ASSUME IInv, NEW D \in SUBSET Held(table), Expired \subseteq D,
         NEW S \in Table, \A m \in Node : m \notin D => S.by_node[m] = table.by_node[m],
         Held(S) = Held(table) \ D,
         NEW n \in Node, n \notin Held(Reaped), n \notin Held(S),
         NEW p, NEW a, NEW a6, NEW t
  PROVE  Accounted(BindNew(S, n, p, a, a6, t), LeasesOf(table, D))
<1> DEFINE U == BindNew(S, n, p, a, a6, t)
<1> USE NoneAssumption
<1>1. Held(Reaped) = Held(table) \ Expired
  BY ReapedKeeps, Zenon
<1>2. Held(S) \cap {n} = {}
  BY Zenon
<1>3. \A m \in Node : m # n => U.by_node[m] = S.by_node[m]
  BY <1>2, Zenon DEF BindNew, DropLeases
<1>4. Held(U) \subseteq Held(S) \cup {n} /\ Held(S) \subseteq Held(U)
  BY <1>3, Zenon DEF Held
<1> HIDE DEF U
<1> SUFFICES ASSUME NEW m \in Held(table)
             PROVE  \/ SameAddresses(table, U, m)
                    \/ /\ table.by_node[m] \in LeasesOf(table, D)
                       /\ m \in Expired \/ m \notin Held(U)
  BY Zenon DEF Accounted, U
<1>5. CASE m \in D
  BY <1>1, <1>4, <1>5, Zenon DEF LeasesOf, Held
<1>6. CASE m \notin D
  <2>1. m \in Held(S) /\ m # n /\ m \in Node
    BY <1>6, Zenon DEF Held
  <2> QED
    BY <1>3, <1>4, <1>6, <2>1, Zenon DEF SameAddresses
<1> QED
  BY <1>5, <1>6, Zenon

\* The same without a bind.
LEMMA DropAccounts ==
  ASSUME IInv, NEW D \in SUBSET Held(table), NEW S,
         \A m \in Node : m \notin D => S.by_node[m] = table.by_node[m],
         Held(S) = Held(table) \ D
  PROVE  Accounted(S, LeasesOf(table, D))
  BY Zenon DEF Accounted, SameAddresses, LeasesOf, Held

\* allocate accounts for every lease it drops or replaces.
LEMMA AllocateAccounts ==
  ASSUME IInv, NEW n \in Node, NEW p \in Peer, NEW hint \in Ip4,
         NEW want6 \in BOOLEAN, Allocate(n, p, hint, want6)
  PROVE  Accounted(table', out'.dropped)
<1> DEFINE T == UnbindPeer(Reaped, n, p)
<1> USE NoneAssumption
<1>1. /\ WellFormed(Reaped) /\ Expired \in SUBSET Held(table)
      /\ Held(Reaped) = Held(table) \ Expired
  BY ReapedKeeps, Zenon
<1>2. \A m \in Node : m \notin Expired => Reaped.by_node[m] = table.by_node[m]
  BY Zenon DEF Reaped, DropLeases
<1>3. WellFormed(T) /\ T.by_node = Reaped.by_node /\ Held(T) = Held(Reaped)
  BY <1>1, UnbindKeeps, Zenon
<1> HIDE DEF T
<1>4. CASE AllocateRefresh(n, p)
  <2>1. /\ n \in Held(Reaped) /\ table' = Refresh(Reaped, n, p, now)
        /\ out'.dropped = LeasesOf(table, Expired)
    BY <1>4, Zenon DEF AllocateRefresh, Ok
  <2>2. \A m \in Held(Reaped) : SameAddresses(Reaped, table', m)
    BY <1>1, <2>1, RefreshKeeps, Zenon DEF IInv, TypeOK
  <2> QED
    BY <1>1, <1>2, <2>1, <2>2, Zenon DEF Accounted, SameAddresses, LeasesOf, Held
<1>5. CASE AllocateFree(n, p, hint, want6)
  <2>1. n \notin Held(Reaped)
    BY <1>5, Zenon DEF AllocateFree
  <2>2. PICK a, a6 : /\ table' = BindNew(T, n, p, a, a6, now)
                     /\ out'.dropped = LeasesOf(table, Expired)
    BY <1>5, Zenon DEF AllocateFree, Bind, Ok, T
  <2> QED
    BY <1>1, <1>2, <1>3, <2>1, <2>2, BindAccounts, SMTT(30) DEF WellFormed
<1>6. CASE AllocateReclaim(n, p, hint, want6)
  <2>1. PICK o \in Held(T) : \E a, a6 :
          /\ table' = BindNew(DropLeases(T, {o}), n, p, a, a6, now)
          /\ out'.dropped = LeasesOf(table, Expired \cup {o})
    <3>1. PICK o \in Oldest(T) :
            LET a == PickAddr(DropLeases(T, {o}), cfg, n, hint, want6) IN
            Bind(DropLeases(T, {o}), n, p, a, want6, LeasesOf(table, Expired \cup {o}))
      BY <1>6, Zenon DEF AllocateReclaim, T
    <3>2. o \in Held(T)
      BY Zenon DEF Oldest
    <3> QED
      BY <3>1, <3>2, Zenon DEF Bind, Ok
  <2>2. n \notin Held(Reaped)
    BY <1>6, Zenon DEF AllocateReclaim
  <2> DEFINE S == DropLeases(T, {o})
             D == Expired \cup {o}
  <2>3. {o} \subseteq Held(T) /\ D \in SUBSET Held(table) /\ Expired \subseteq D
    BY <1>1, <1>3, Zenon
  <2>4. /\ S \in Table /\ Held(S) = Held(T) \ {o}
    BY <1>3, <2>3, DropKeeps, Zenon DEF WellFormed
  <2>5. \A m \in Node : m \notin D => S.by_node[m] = table.by_node[m]
    BY <1>2, <1>3, Zenon DEF DropLeases
  <2>6. Held(S) = Held(table) \ D /\ n \notin Held(S)
    BY <1>1, <1>3, <2>2, <2>4, Zenon
  <2>7. PICK a, a6 : /\ table' = BindNew(S, n, p, a, a6, now)
                     /\ out'.dropped = LeasesOf(table, D)
    BY <2>1, Zenon
  <2> HIDE DEF S, D
  <2> QED
    BY <2>2, <2>3, <2>4, <2>5, <2>6, <2>7, BindAccounts, SMTT(30)
<1>7. CASE AllocateExhausted(n, p, hint, want6)
  <2>1. CASE table' = T /\ out'.dropped = LeasesOf(table, Expired)
    BY <1>1, <1>2, <1>3, <2>1, DropAccounts, Zenon
  <2>2. CASE \E o \in Held(T) : /\ table' = DropLeases(T, {o})
                                /\ out'.dropped = LeasesOf(table, Expired \cup {o})
    <3>1. PICK o \in Held(T) : /\ table' = DropLeases(T, {o})
                              /\ out'.dropped = LeasesOf(table, Expired \cup {o})
      BY <2>2, Zenon
    <3>2. {o} \subseteq Held(T) /\ Expired \cup {o} \in SUBSET Held(table)
      BY <1>1, <1>3, Zenon
    <3>3. Held(table') = Held(T) \ {o}
      BY <1>3, <3>1, <3>2, DropKeeps, Zenon
    <3>4. \A m \in Node : m \notin Expired \cup {o} => table'.by_node[m] = table.by_node[m]
      BY <1>2, <1>3, <3>1, Zenon DEF DropLeases
    <3>5. Held(table') = Held(table) \ (Expired \cup {o})
      BY <1>1, <1>3, <3>3, Zenon
    <3> QED
      BY <3>1, <3>2, <3>4, <3>5, DropAccounts, Zenon
  <2>3. Oldest(T) \subseteq Held(T)
    BY Zenon DEF Oldest
  <2>4. \/ table' = T /\ out' = Exhausted(n, LeasesOf(table, Expired))
        \/ \E o \in Oldest(T) :
             /\ table' = DropLeases(T, {o})
             /\ out' = Exhausted(n, LeasesOf(table, Expired \cup {o}))
    BY <1>7, Zenon DEF AllocateExhausted, T
  <2>5. \A D : Exhausted(n, D).dropped = D
    BY Zenon DEF Exhausted
  <2> QED
    BY <2>1, <2>2, <2>3, <2>4, <2>5, Zenon
<1> QED
  BY <1>4, <1>5, <1>6, <1>7, Zenon DEF Allocate

\* So does every other step of a running server.
LEMMA StepAccounts ==
  ASSUME IInv, up, up', [Next]_vars
  PROVE  Accounted(table', out'.dropped)
<1>1. ASSUME table' = table PROVE Accounted(table', out'.dropped)
  BY <1>1, Zenon DEF Accounted, SameAddresses
<1>2. CASE Reap
  <2>1. /\ Expired \in SUBSET Held(table)
        /\ Held(Reaped) = Held(table) \ Expired
    BY ReapedKeeps, Zenon
  <2>2. \A m \in Node : m \notin Expired => Reaped.by_node[m] = table.by_node[m]
    BY Zenon DEF Reaped, DropLeases
  <2>3. table' = Reaped /\ out'.dropped = LeasesOf(table, Expired)
    BY <1>2, Zenon DEF Reap, NoOutput
  <2> QED
    BY <2>1, <2>2, <2>3, DropAccounts, Zenon
<1>3. ASSUME NEW c \in Configs, RestartLoad(c) \/ RestartEmpty(c) PROVE FALSE
  BY <1>3, Zenon DEF RestartLoad, RestartEmpty, Start
<1>4. CASE UNCHANGED vars
  BY <1>1, <1>4, Zenon DEF vars
<1> QED
  BY <1>1, <1>2, <1>3, <1>4, AllocateAccounts, Zenon DEF Next, Crash, CorruptFile, EditFile, Tick,
     SetClock

\* No request, reap or reclaim renumbers a node whose lease is live: the
\* invariant makes every address index exact, so a bind never lands on the
\* lease of another node and refresh_existing only touches endpoint and time.
THEOREM LiveLeasesAreStable == Spec => AddressIsStable
<1>1. IInv /\ [Next]_vars =>
        (up /\ up' =>
           \A n \in Held(table) \ Expired :
             n \in Held(table)' =>
               /\ table'.by_node[n].ip4 = table.by_node[n].ip4
               /\ table'.by_node[n].ip6 = table.by_node[n].ip6)
  BY StepAccounts, Zenon DEF Accounted, SameAddresses, Held
<1> QED
  BY <1>1, SpecIInv, PTL DEF Spec, AddressIsStable

\* Whatever lease a call removes or renumbers is in the list it returns to
\* udp_to_tun, handle_control and the sweeper, so nothing escapes unlearning.
THEOREM NoSilentDrop == Spec => DropsAreReported
<1>1. IInv /\ [Next]_vars =>
        (up /\ up' =>
           \A n \in Held(table) :
             \/ table.by_node[n] \in out'.dropped
             \/ /\ n \in Held(table)'
                /\ table'.by_node[n].ip4 = table.by_node[n].ip4
                /\ table'.by_node[n].ip6 = table.by_node[n].ip6)
  BY StepAccounts, Zenon DEF Accounted, SameAddresses, Held
<1> QED
  BY <1>1, SpecIInv, PTL DEF Spec, DropsAreReported

-----------------------------------------------------------------------------
(* The lease file and the pool.                                            *)

\* A lease or a row of the file without its last_seen.
Bare(l) == [l EXCEPT !.last_seen = 0]

\* A call or a start that writes the file,
Wrote == file' = [state |-> "valid", rows |-> Snapshot(table')]

\* ... a call that leaves it alone: all it changed is the time of a lease,
\* shortly after the last write,
Skipped ==
  /\ file' = file /\ last_persist' = last_persist
  /\ \A n \in Node :
       \/ table'.by_node[n] = table.by_node[n]
       \/ /\ n \in Held(table) /\ ~ShouldPersist(now)
          /\ table'.by_node[n] = [table.by_node[n] EXCEPT !.last_seen = now]

\* ... and a start that takes every row of the file.
Loaded ==
  /\ file'.rows = file.rows
  /\ \/ table' = TableOf(file.rows) /\ file.rows \in Loadable(file.rows, now)
     \/ table' = EmptyTable /\ file.rows = {}

\* A file that is not there or not valid has no rows.  The rows of one that
\* never failed are those of the leases, one for each node.  An edit may add
\* rows, but only while the server is down.
RowsMatch(rows, T) ==
  /\ {Bare(r) : r \in rows} = {Bare(l) : l \in LeasesOf(T, Held(T))}
  /\ \A r, s \in rows : r.node_id = s.node_id => r = s

FileOK ==
  /\ file.state # "valid" => file.rows = {}
  /\ Faults = {} /\ (up \/ ForeignRows = {}) => RowsMatch(file.rows, table)

\* With one configuration every lease, in memory and in the file, has an
\* address of the pool.
PoolOK ==
  Configs = {cfg} /\ ForeignRows = {} =>
    /\ \A n \in Held(table) : table.by_node[n].ip4 \in Assignable(cfg)
    /\ \A r \in file.rows : r.ip4 \in Assignable(cfg)

FInv == IInv /\ FileOK /\ LastSeenLagIsBounded /\ PoolOK /\ ExhaustedMeansNone

\* The rows written for a table match it.
LEMMA SnapshotMatches ==
  ASSUME NEW T, WellFormed(T)
  PROVE  /\ RowsMatch(Snapshot(T), T)
         /\ \A n \in Held(T) : ToRow(T.by_node[n]) \in Snapshot(T)
<1>1. /\ \A n \in Held(T) : T.by_node[n] \in Lease /\ T.by_node[n].node_id = n
  BY DEF WellFormed, Owners, Held, Table, Optional
<1>2. \A l \in Lease : Bare(ToRow(l)) = Bare(l) /\ ToRow(l).node_id = l.node_id
  BY TypeAssumption, Zenon DEF Bare, ToRow, Lease
<1>3. Snapshot(T) = {ToRow(T.by_node[n]) : n \in Held(T)}
  BY Zenon DEF Snapshot, LeasesOf
<1>4. {Bare(l) : l \in LeasesOf(T, Held(T))} = {Bare(T.by_node[n]) : n \in Held(T)}
  BY Zenon DEF LeasesOf
<1>5. {Bare(r) : r \in Snapshot(T)} = {Bare(T.by_node[n]) : n \in Held(T)}
  <2>1. \A n \in Held(T) : Bare(ToRow(T.by_node[n])) = Bare(T.by_node[n])
    BY <1>1, <1>2, Zenon
  <2> QED
    BY <1>3, <2>1
<1>6. \A r, s \in Snapshot(T) : r.node_id = s.node_id => r = s
  BY <1>1, <1>2, <1>3
<1> QED
  BY <1>3, <1>4, <1>5, <1>6, Zenon DEF RowsMatch

\* So do the rows a table was built from, and the rows are written back as they
\* were: a whole number of seconds survives the conversion.
LEMMA LoadMatches ==
  ASSUME NEW S, S \subseteq Lease, \A r, s \in S : ~Conflict(r, s)
  PROVE  /\ RowsMatch(S, TableOf(S))
         /\ \A n \in Held(TableOf(S)) : ToRow(TableOf(S).by_node[n]) \in S
<1> DEFINE T == TableOf(S)
<1>1. /\ \A r \in S : r.node_id \in Held(T) /\ T.by_node[r.node_id] = FromRow(r)
      /\ \A n \in Held(T) : \E r \in S : r.node_id = n /\ T.by_node[n] = FromRow(r)
  BY TableOfKeeps
<1> HIDE DEF T
<1>2. \A r \in Lease : Bare(FromRow(r)) = Bare(r)
  BY TypeAssumption, Zenon DEF Bare, FromRow, Lease
<1>3. \A r \in Lease : ToRow(FromRow(r)) = r
  <2> SUFFICES ASSUME NEW r \in Lease PROVE ToRow(FromRow(r)) = r
    BY Zenon
  <2>1. \A x \in Int, k \in Nat \ {0} : (x * k) \div k = x
    OBVIOUS
  <2>2. r.last_seen \in Int /\ TicksPerSec \in Nat \ {0}
    BY TypeAssumption, Zenon DEF Lease
  <2>3. (r.last_seen * TicksPerSec) \div TicksPerSec = r.last_seen
    BY <2>1, <2>2, Zenon
  <2> QED
    BY <2>2, <2>3, Zenon DEF ToRow, FromRow, Lease
<1>4. {Bare(l) : l \in LeasesOf(T, Held(T))} = {Bare(T.by_node[n]) : n \in Held(T)}
  BY Zenon DEF LeasesOf
<1>5. {Bare(r) : r \in S} = {Bare(T.by_node[n]) : n \in Held(T)}
  <2>1. \A r \in S : Bare(FromRow(r)) = Bare(r)
    BY <1>2, Zenon
  <2> QED
    BY <1>1, <2>1
<1>6. \A r, s \in S : r.node_id = s.node_id => r = s
  BY Zenon DEF Conflict
<1>7. \A n \in Held(T) : ToRow(T.by_node[n]) \in S
  BY <1>1, <1>3, Zenon
<1> QED
  BY <1>4, <1>5, <1>6, <1>7, Zenon DEF RowsMatch, T

\* Without faults a call either writes the new table or has changed nothing but
\* the time of one lease, less than a quarter of the TTL after the last write.
LEMMA CallFiles ==
  ASSUME IInv, Faults = {},
         \/ Reap
         \/ \E n \in Node, p \in Peer, hint \in Ip4, want6 \in BOOLEAN :
              Allocate(n, p, hint, want6)
  PROVE  Wrote \/ Skipped
<1>1. \A T, t : Persist(T, t) => file' = [state |-> "valid", rows |-> Snapshot(T)]
  BY Zenon DEF Persist, WriteLeases, WriteFails
<1>2. /\ WellFormed(table) /\ WellFormed(Reaped)
      /\ Held(Reaped) = Held(table) \ Expired
  BY ReapedKeeps, Zenon
<1>3. Expired = {} => \A m \in Node : Reaped.by_node[m] = table.by_node[m]
  BY Zenon DEF Reaped, DropLeases
<1>4. CASE Reap
  BY <1>1, <1>3, <1>4, Zenon DEF Reap, PersistIf, Wrote, Skipped
<1>5. ASSUME NEW n \in Node, NEW p \in Peer, NEW hint \in Ip4, NEW want6 \in BOOLEAN,
             Allocate(n, p, hint, want6)
      PROVE  Wrote \/ Skipped
  <2> DEFINE T == UnbindPeer(Reaped, n, p)
  <2>1. T.by_node = Reaped.by_node
    BY <1>2, UnbindKeeps, Zenon
  <2> HIDE DEF T
  <2>2. CASE AllocateRefresh(n, p)
    <3> DEFINE cond == \/ Expired # {}
                       \/ Reaped.by_node[n].last_peer # p
                       \/ ShouldPersist(now)
    <3>1. /\ n \in Held(Reaped) /\ table' = Refresh(Reaped, n, p, now)
          /\ PersistIf(cond, table', now)
      BY <2>2, Zenon DEF AllocateRefresh
    <3>2. CASE cond
      BY <1>1, <3>1, <3>2, Zenon DEF PersistIf, Wrote
    <3>3. CASE ~cond
      <4>1. /\ Expired = {} /\ Reaped.by_node[n].last_peer = p /\ ~ShouldPersist(now)
            /\ file' = file /\ last_persist' = last_persist
        BY <3>1, <3>3, Zenon DEF PersistIf
      <4>2. Reaped.by_node \in [Node -> Optional(Lease)] /\ Reaped.by_node[n] \in Lease
        BY <1>2, <3>1, Zenon DEF WellFormed, Table, Held, Optional
      <4>3. [Reaped.by_node[n] EXCEPT !.last_seen = now, !.last_peer = p]
              = [Reaped.by_node[n] EXCEPT !.last_seen = now]
        BY <4>1, <4>2, Zenon DEF Lease
      <4>4. \A m \in Node : table'.by_node[m] =
              IF m = n THEN [Reaped.by_node[n] EXCEPT !.last_seen = now]
              ELSE Reaped.by_node[m]
        BY <3>1, <4>2, <4>3, Zenon DEF Refresh
      <4> QED
        BY <1>2, <1>3, <3>1, <4>1, <4>4, Zenon DEF Skipped, Held
    <3> QED
      BY <3>2, <3>3, Zenon
  <2>3. CASE AllocateFree(n, p, hint, want6)
    BY <1>1, <2>3, Zenon DEF AllocateFree, Bind, Wrote
  <2>4. CASE AllocateReclaim(n, p, hint, want6)
    BY <1>1, <2>4, Zenon DEF AllocateReclaim, Bind, Wrote
  <2>5. CASE AllocateExhausted(n, p, hint, want6)
    <3>1. CASE table' = T /\ PersistIf(Expired # {}, T, now)
      BY <1>1, <1>3, <2>1, <3>1, Zenon DEF PersistIf, Wrote, Skipped
    <3>2. CASE Persist(table', now)
      BY <1>1, <3>2, Zenon DEF Wrote
    <3> QED
      BY <2>5, <3>1, <3>2, Zenon DEF AllocateExhausted, T
  <2> QED
    BY <1>5, <2>2, <2>3, <2>4, <2>5, Zenon DEF Allocate
<1> QED
  BY <1>4, <1>5, Zenon

\* A start takes all rows, or writes the table of those it took.
LEMMA StartFiles ==
  ASSUME IInv, Faults = {}, file.state # "valid" => file.rows = {},
         NEW c \in Configs, RestartLoad(c) \/ RestartEmpty(c)
  PROVE  Wrote \/ Loaded
<1>1. CASE RestartLoad(c)
  <2>1. PICK S \in Loadable(file.rows, now) :
          /\ table' = TableOf(S)
          /\ IF S = file.rows THEN UNCHANGED file
             ELSE WriteLeases(table') \/ WriteFails
    BY <1>1, Zenon DEF RestartLoad
  <2>2. CASE S = file.rows
    BY <2>1, <2>2, Zenon DEF Loaded
  <2>3. CASE S # file.rows
    BY <2>1, <2>3, Zenon DEF WriteLeases, WriteFails, Wrote
  <2> QED
    BY <2>2, <2>3, Zenon
<1>2. CASE RestartEmpty(c)
  <2>1. /\ table' = EmptyTable
        /\ \/ file.state = "missing" /\ file' = file
           \/ file.state = "corrupt" /\ file' = [state |-> "missing", rows |-> {}]
    BY <1>2, Zenon DEF RestartEmpty
  <2> QED
    BY <2>1 DEF Loaded
<1> QED
  BY <1>1, <1>2, Zenon

\* Without foreign rows the file holds rows it held before or rows of the table.
LEMMA FileRows ==
  ASSUME [Next]_vars
  PROVE  /\ file' = file \/ file'.state = "valid" \/ file'.rows = {}
         /\ ForeignRows = {} => file'.rows \subseteq file.rows \cup Snapshot(table')
<1> DEFINE Good == \/ file' = file
                   \/ file' = [state |-> "valid", rows |-> Snapshot(table')]
                   \/ file' \in [state : {"missing", "corrupt"}, rows : {{}}]
<1>1. \A T, t : Persist(T, t) /\ T = table' => Good
  BY DEF Persist, WriteLeases, WriteFails
<1>2. \A cond, T, t : PersistIf(cond, T, t) /\ T = table' => Good
  BY <1>1, Zenon DEF PersistIf
<1>3. ASSUME NEW n \in Node, NEW p \in Peer, NEW hint \in Ip4, NEW want6 \in BOOLEAN,
             Allocate(n, p, hint, want6)
      PROVE  Good
  <2>1. CASE AllocateRefresh(n, p)
    BY <1>2, <2>1, Zenon DEF AllocateRefresh
  <2>2. CASE AllocateFree(n, p, hint, want6) \/ AllocateReclaim(n, p, hint, want6)
    BY <1>1, <2>2, Zenon DEF AllocateFree, AllocateReclaim, Bind
  <2>3. CASE AllocateExhausted(n, p, hint, want6)
    BY <1>1, <1>2, <2>3, Zenon DEF AllocateExhausted
  <2> QED
    BY <1>3, <2>1, <2>2, <2>3, Zenon DEF Allocate
<1>4. CASE Reap
  BY <1>2, <1>4 DEF Reap
<1>5. ASSUME NEW c \in Configs, RestartLoad(c) \/ RestartEmpty(c) PROVE Good
  BY <1>5 DEF RestartLoad, RestartEmpty, WriteLeases, WriteFails
<1>6. CASE Crash \/ CorruptFile \/ Tick \/ UNCHANGED vars
  BY <1>6 DEF Crash, CorruptFile, Tick, vars
<1>7. ASSUME NEW t \in ClockSets, SetClock(t) PROVE Good
  BY <1>7, Zenon DEF SetClock
<1>8. ASSUME NEW r \in ForeignRows, EditFile(r)
      PROVE  file'.state = "valid" /\ ForeignRows # {}
  BY <1>8, Zenon DEF EditFile
<1>9. Good => /\ file' = file \/ file'.state = "valid" \/ file'.rows = {}
              /\ file'.rows \subseteq file.rows \cup Snapshot(table')
  OBVIOUS
<1> HIDE DEF Good
<1> QED
  BY <1>3, <1>4, <1>5, <1>6, <1>7, <1>8, <1>9, Zenon DEF Next

\* A call is one of a running server, and leaves it running.
LEMMA CallsAreUp ==
  ASSUME \/ Reap
         \/ \E n \in Node, p \in Peer, hint \in Ip4, want6 \in BOOLEAN :
              Allocate(n, p, hint, want6)
  PROVE  up /\ up' /\ cfg' = cfg /\ now' = now
<1>1. CASE Reap
  BY <1>1, Zenon DEF Reap
<1>2. ASSUME NEW n \in Node, NEW p \in Peer, NEW hint \in Ip4, NEW want6 \in BOOLEAN,
             Allocate(n, p, hint, want6)
      PROVE  up /\ up' /\ cfg' = cfg /\ now' = now
  <2>1. CASE AllocateRefresh(n, p)
    BY <2>1, Zenon DEF AllocateRefresh
  <2>2. CASE AllocateFree(n, p, hint, want6)
    BY <2>2, Zenon DEF AllocateFree, Bind
  <2>3. CASE AllocateReclaim(n, p, hint, want6)
    BY <2>3, Zenon DEF AllocateReclaim, Bind
  <2>4. CASE AllocateExhausted(n, p, hint, want6)
    BY <2>4, Zenon DEF AllocateExhausted
  <2> QED
    BY <1>2, <2>1, <2>2, <2>3, <2>4, Zenon DEF Allocate
<1> QED
  BY <1>1, <1>2, Zenon

\* What a step does to the file of a server that is up after it.
LEMMA UpStep ==
  ASSUME IInv, FileOK, Faults = {}, up', [Next]_vars
  PROVE  \/ Wrote
         \/ up /\ Skipped
         \/ ~up /\ Loaded
<1> USE DEF Skipped
<1>1. file.state # "valid" => file.rows = {}
  BY Zenon DEF FileOK
<1>2. ASSUME \/ Reap
             \/ \E n \in Node, p \in Peer, hint \in Ip4, want6 \in BOOLEAN :
                  Allocate(n, p, hint, want6)
      PROVE  up /\ (Wrote \/ Skipped)
  BY <1>2, CallFiles, CallsAreUp, Zenon
<1>3. ASSUME NEW c \in Configs, RestartLoad(c) \/ RestartEmpty(c)
      PROVE  ~up /\ (Wrote \/ Loaded)
  <2>1. ~up
    BY <1>3, Zenon DEF RestartLoad, RestartEmpty, Start
  <2> QED
    BY <1>1, <1>3, <2>1, StartFiles, Zenon
<1>4. ASSUME \/ UNCHANGED vars \/ Tick
             \/ \E t \in ClockSets : SetClock(t)
      PROVE  up /\ Skipped
  <2>1. up /\ table' = table /\ file' = file /\ last_persist' = last_persist
    BY <1>4, Zenon DEF vars, Tick, SetClock
  <2> QED
    BY <2>1, Zenon
<1>5. ~Crash /\ ~CorruptFile /\ ~(\E r \in ForeignRows : EditFile(r))
  BY Zenon DEF Crash, CorruptFile, EditFile
<1> QED
  BY <1>2, <1>3, <1>4, <1>5, Zenon DEF Next

\* What a step does to the file of a server that is down after it.
LEMMA DownStep ==
  ASSUME Faults = {}, ForeignRows = {}, ~up', [Next]_vars
  PROVE  table' = table /\ file' = file
<1>1. CASE UNCHANGED vars \/ Crash \/ Tick
  BY <1>1, Zenon DEF vars, Crash, Tick
<1>2. ASSUME NEW t \in ClockSets, SetClock(t) PROVE table' = table /\ file' = file
  BY <1>2, Zenon DEF SetClock
<1>3. ~CorruptFile
  BY Zenon DEF CorruptFile
<1>4. ~ \/ Reap
        \/ \E n \in Node, p \in Peer, hint \in Ip4, want6 \in BOOLEAN :
             Allocate(n, p, hint, want6)
  BY CallsAreUp, Zenon
<1>5. ASSUME NEW c \in Configs, RestartLoad(c) \/ RestartEmpty(c) PROVE FALSE
  BY <1>5, Zenon DEF RestartLoad, RestartEmpty, Start
<1> QED
  BY <1>1, <1>2, <1>3, <1>4, <1>5, Zenon DEF Next

\* A step that skips the write keeps every lease but for a time.
LEMMA SkippedMatches ==
  ASSUME IInv, Skipped
  PROVE  /\ Held(table') = Held(table)
         /\ \A n \in Held(table) : Bare(table'.by_node[n]) = Bare(table.by_node[n])
         /\ {Bare(l) : l \in LeasesOf(table', Held(table'))}
              = {Bare(l) : l \in LeasesOf(table, Held(table))}
<1>1. \A n \in Held(table) : n \in Node /\ table.by_node[n] \in Lease
  BY Zenon DEF IInv, TypeOK, Held, Table, Optional
<1>2. \A l \in Lease : /\ [l EXCEPT !.last_seen = now] \in Lease
                       /\ Bare([l EXCEPT !.last_seen = now]) = Bare(l)
  BY Zenon DEF IInv, TypeOK, Lease, Bare
<1>3. Held(table') = Held(table)
  BY <1>1, <1>2, NoneAssumption, Zenon DEF Skipped, Held
<1>4. \A n \in Held(table) : Bare(table'.by_node[n]) = Bare(table.by_node[n])
  BY <1>1, <1>2, Zenon DEF Skipped
<1>5. \A T : {Bare(l) : l \in LeasesOf(T, Held(T))} = {Bare(T.by_node[n]) : n \in Held(T)}
  BY Zenon DEF LeasesOf
<1> QED
  BY <1>3, <1>4, <1>5, Zenon

\* The file keeps matching the table, and lags behind by little.
LEMMA FileStep ==
  ASSUME IInv, IInv', FileOK, LastSeenLagIsBounded, [Next]_vars
  PROVE  FileOK' /\ LastSeenLagIsBounded'
<1>1. file'.state # "valid" => file'.rows = {}
  BY FileRows, Zenon DEF FileOK
<1>2. WellFormed(table')
  BY Zenon DEF IInv, TypeOK, OneOwnerPerAddress, BindingFollowsLease, WellFormed
<1>3. ASSUME Faults = {}, ~up', ForeignRows = {} PROVE RowsMatch(file'.rows, table')
  <2>1. table' = table /\ file' = file
    BY <1>3, DownStep, Zenon
  <2> QED
    BY <1>3, <2>1, Zenon DEF FileOK
<1>4. ASSUME Faults = {}, up'
      PROVE  /\ RowsMatch(file'.rows, table')
             /\ \A n \in Held(table') :
                  \/ ToRow(table'.by_node[n]) \in file'.rows
                  \/ /\ last_persist' <= table'.by_node[n].last_seen
                     /\ 4 * (table'.by_node[n].last_seen - last_persist') < TTL
  <2>1. CASE Wrote
    BY <1>2, <2>1, SnapshotMatches, Zenon DEF Wrote
  <2>2. CASE up /\ Skipped
    <3>1. /\ RowsMatch(file.rows, table)
          /\ \A n \in Held(table) :
               \/ ToRow(table.by_node[n]) \in file.rows
               \/ /\ last_persist <= table.by_node[n].last_seen
                  /\ 4 * (table.by_node[n].last_seen - last_persist) < TTL
      BY <1>4, <2>2, Zenon DEF FileOK, LastSeenLagIsBounded
    <3>2. RowsMatch(file'.rows, table')
      BY <2>2, <3>1, SkippedMatches, Zenon DEF RowsMatch, Skipped
    <3> SUFFICES ASSUME NEW n \in Held(table')
                 PROVE  \/ ToRow(table'.by_node[n]) \in file'.rows
                        \/ /\ last_persist' <= table'.by_node[n].last_seen
                           /\ 4 * (table'.by_node[n].last_seen - last_persist') < TTL
      BY <3>2, Zenon
    <3>3. n \in Held(table) /\ n \in Node /\ table.by_node[n] \in Lease
      BY <2>2, SkippedMatches, Zenon DEF IInv, TypeOK, Held, Table, Optional
    <3>4. CASE table'.by_node[n] = table.by_node[n]
      BY <2>2, <3>1, <3>3, <3>4, Zenon DEF Skipped
    <3>5. CASE /\ ~ShouldPersist(now)
               /\ table'.by_node[n] = [table.by_node[n] EXCEPT !.last_seen = now]
      <4>1. table'.by_node[n].last_seen = now /\ last_persist' = last_persist
        BY <2>2, <3>3, <3>5, Zenon DEF Lease, Skipped
      <4>2. now \in Int /\ last_persist \in Int
        BY Zenon DEF IInv, TypeOK
      <4> QED
        BY <3>5, <4>1, <4>2, TypeAssumption DEF ShouldPersist
    <3> QED
      BY <2>2, <3>3, <3>4, <3>5, Zenon DEF Skipped
  <2>3. CASE ~up /\ Loaded
    <3>1. CASE table' = TableOf(file.rows) /\ file.rows \in Loadable(file.rows, now)
      <4>1. file.rows \subseteq Lease /\ \A r, s \in file.rows : ~Conflict(r, s)
        BY <3>1, Zenon DEF IInv, TypeOK, File, Loadable
      <4>2. /\ RowsMatch(file.rows, TableOf(file.rows))
            /\ \A n \in Held(TableOf(file.rows)) :
                 ToRow(TableOf(file.rows).by_node[n]) \in file.rows
        BY <4>1, LoadMatches, Zenon
      <4> QED
        BY <2>3, <3>1, <4>2, Zenon DEF Loaded
    <3>2. CASE table' = EmptyTable /\ file.rows = {}
      <4>1. Held(table') = {}
        BY <3>2, Zenon DEF EmptyTable, Held
      <4> QED
        BY <2>3, <3>2, <4>1, Zenon DEF Loaded, RowsMatch, LeasesOf
    <3> QED
      BY <2>3, <3>1, <3>2, Zenon DEF Loaded
  <2> QED
    BY <1>4, <2>1, <2>2, <2>3, UpStep, Zenon
<1> QED
  BY <1>1, <1>3, <1>4, Zenon DEF FileOK, LastSeenLagIsBounded

-----------------------------------------------------------------------------
(* The pool: what it means that pick_addrs finds nothing.                  *)

\* A probe that starts anywhere in a circle of s places passes each of them.
LEMMA ProbeIsComplete ==
  ASSUME NEW s \in Nat \ {0}, NEW o \in Nat, NEW x \in 0 .. s - 1
  PROVE  \E k \in 0 .. s - 1 : (o + k) % s = x
<1> DEFINE k == (x - o) % s
           q == (x - o) \div s
<1>1. k \in 0 .. s - 1 /\ q \in Int /\ x - o = s * q + k
  OBVIOUS
<1> HIDE DEF k, q
<1> DEFINE p == (o + k) \div s
           r == (o + k) % s
<1>2. o + k \in Int /\ p \in Int /\ r \in 0 .. s - 1 /\ o + k = s * p + r
  BY <1>1
<1>3. s * (p + q) = x - r
  BY <1>1, <1>2
<1> HIDE DEF p, r
<1>4. p + q = 0
  <2>1. x - r < s /\ x - r > -s
    BY <1>2
  <2>2. p + q >= 1 => s * (p + q) >= s
    BY <1>1, <1>2
  <2>3. p + q <= -1 => s * (p + q) <= -s
    BY <1>1, <1>2
  <2> QED
    BY <1>1, <1>2, <1>3, <2>1, <2>2, <2>3
<1>5. r = x
  BY <1>1, <1>2, <1>3, <1>4
<1> QED
  BY <1>1, <1>5, Zenon DEF r

\* pick_addrs gives up only when try_ip4 refuses every address of the pool.
LEMMA PickFails ==
  ASSUME NEW T, NEW c \in Configs, NEW n \in Node, NEW hint \in Ip4,
         NEW want6 \in BOOLEAN, PickAddr(T, c, n, hint, want6) = None
  PROVE  \A a \in c.start .. c.end : ~TryIp4(T, c, a, n, want6)
<1> DEFINE span == c.end - c.start + 1
           Cand(k) == c.start + ((Offset[n] + k) % span)
           hits == {k \in 0 .. span - 1 : TryIp4(T, c, Cand(k), n, want6)}
           least == CHOOSE k \in hits : \A j \in hits : k <= j
<1>1. c.start \in Nat /\ c.end \in Nat /\ Offset[n] \in Nat
      /\ c.start .. c.end \subseteq Ip4
  BY ConfigAssumption, TypeAssumption, Zenon DEF Config
<1>2. None = IF TryIp4(T, c, hint, n, want6) THEN hint
             ELSE IF hits = {} THEN None ELSE Cand(least)
  BY Zenon DEF PickAddr
<1>3. hits = {}
  <2> SUFFICES ASSUME hits # {} PROVE FALSE
    BY Zenon
  <2>1. Cand(least) = None
    BY <1>2, NoneAssumption, Zenon
  <2>2. hits \subseteq Nat
    BY <1>1
  <2> HIDE DEF hits
  <2>3. \E k \in hits : \A j \in hits : k <= j
    BY <2>2, LeastExists, Zenon
  <2>4. least \in hits
    BY <2>3, Zenon
  <2>5. TryIp4(T, c, Cand(least), n, want6)
    BY <2>4, Zenon DEF hits
  <2>6. Cand(least) \in Ip4
    BY <1>1, <2>5, Zenon DEF TryIp4, Usable
  <2> QED
    BY <2>1, <2>6, NoneAssumption, Zenon
<1> SUFFICES ASSUME NEW a \in c.start .. c.end PROVE ~TryIp4(T, c, a, n, want6)
  BY Zenon
<1>4. span \in Nat \ {0} /\ a - c.start \in 0 .. span - 1
  BY <1>1
<1>5. PICK k \in 0 .. span - 1 : (Offset[n] + k) % span = a - c.start
  <2> HIDE DEF span
  <2> QED
    BY <1>1, <1>4, ProbeIsComplete, Zenon
<1>6. Cand(k) = a
  <2> HIDE DEF span
  <2> QED
    BY <1>1, <1>5
<1>7. k \notin hits
  BY <1>3, Zenon
<1> QED
  BY <1>5, <1>6, <1>7, Zenon

\* The address of a lease of U is the one it had in the table, or of the pool.
PoolOr(U) ==
  \A m \in Held(U) :
    \/ m \in Held(table) /\ U.by_node[m].ip4 = table.by_node[m].ip4
    \/ U.by_node[m].ip4 \in Assignable(cfg)

\* bind_new takes its address from the pool.
LEMMA BindPool ==
  ASSUME IInv, NEW S, WellFormed(S), NEW n \in Node, n \notin Held(S),
         \A m \in Node : S.by_node[m] \in {None, table.by_node[m]},
         NEW p \in Peer, NEW hint \in Ip4, NEW want6 \in BOOLEAN, NEW dropped,
         PickAddr(S, cfg, n, hint, want6) # None,
         Bind(S, n, p, PickAddr(S, cfg, n, hint, want6), want6, dropped)
  PROVE  /\ PoolOr(table') /\ out'.status = "Ok"
         /\ Held(S) \subseteq Held(table') /\ n \in Held(table')
<1> DEFINE a == PickAddr(S, cfg, n, hint, want6)
<1>1. cfg \in Configs
  BY Zenon DEF IInv, TypeOK
<1>2. a \in Ip4 /\ TryIp4(S, cfg, a, n, want6)
  BY <1>1, PickIsUsable, Zenon
<1>3. a \in Assignable(cfg)
  BY <1>2, Zenon DEF TryIp4, Usable, Assignable
<1> HIDE DEF a
<1>4. table' = BindNew(S, n, p, a, Ip6For(a, want6), now) /\ out'.status = "Ok"
  BY Zenon DEF Bind, Ok, a
<1>5. Held(S) \cap {n} = {}
  BY Zenon
<1> DEFINE l == [node_id |-> n, ip4 |-> a, ip6 |-> Ip6For(a, want6),
                 last_seen |-> now, last_peer |-> p]
<1>6. \A m \in Node : table'.by_node[m] = IF m = n THEN l ELSE S.by_node[m]
  BY <1>4, <1>5, Zenon DEF BindNew, DropLeases
<1>7. l \in Lease
  BY <1>2, Zenon DEF Lease, Ip6For, Optional, IInv, TypeOK
<1>8. l # None /\ l.ip4 = a
  BY <1>7, NoneAssumption, Zenon
<1> HIDE DEF l
<1>9. Held(S) \subseteq Held(table') /\ n \in Held(table')
  BY <1>6, <1>8, Zenon DEF Held
<1> QED
  BY <1>3, <1>4, <1>6, <1>8, <1>9, Zenon DEF PoolOr, Held

\* Every call leaves the leases in the pool, and one that lost a live lease is an
\* allocate that found no address free and dropped an oldest lease for it.
LEMMA CallPool ==
  ASSUME IInv,
         \/ Reap
         \/ \E n \in Node, p \in Peer, hint \in Ip4, want6 \in BOOLEAN :
              Allocate(n, p, hint, want6)
  PROVE  /\ PoolOr(table')
         /\ \/ Held(Reaped) \subseteq Held(table')
            \/ \E n \in Node, p \in Peer, hint \in Ip4, want6 \in BOOLEAN :
                 LET T == UnbindPeer(Reaped, n, p) IN
                 /\ PickAddr(T, cfg, n, hint, want6) = None
                 /\ out'.status # "none"
                 /\ \E o \in Oldest(T) : Held(T) \ {o} = Held(table') \ {n}
<1>1. /\ WellFormed(Reaped) /\ Held(Reaped) = Held(table) \ Expired
      /\ \A m \in Node : Reaped.by_node[m] \in {None, table.by_node[m]}
  BY ReapedKeeps, Zenon DEF Reaped, DropLeases
<1>2. CASE Reap
  <2>1. table' = Reaped
    BY <1>2, Zenon DEF Reap
  <2> QED
    BY <1>1, <2>1, NoneAssumption, Zenon DEF PoolOr, Held
<1>3. ASSUME NEW n \in Node, NEW p \in Peer, NEW hint \in Ip4, NEW want6 \in BOOLEAN,
             Allocate(n, p, hint, want6)
      PROVE  /\ PoolOr(table')
             /\ \/ Held(Reaped) \subseteq Held(table')
                \/ LET T == UnbindPeer(Reaped, n, p) IN
                   /\ PickAddr(T, cfg, n, hint, want6) = None
                   /\ out'.status # "none"
                   /\ \E o \in Oldest(T) : Held(T) \ {o} = Held(table') \ {n}
  <2> DEFINE T == UnbindPeer(Reaped, n, p)
  <2>1. WellFormed(T) /\ T.by_node = Reaped.by_node /\ Held(T) = Held(Reaped)
    BY <1>1, UnbindKeeps, Zenon
  <2>2. \A o \in Oldest(T) :
          /\ WellFormed(DropLeases(T, {o}))
          /\ Held(DropLeases(T, {o})) = Held(T) \ {o}
          /\ \A m \in Node : DropLeases(T, {o}).by_node[m] \in {None, table.by_node[m]}
    <3> SUFFICES ASSUME NEW o \in Oldest(T)
                 PROVE  /\ WellFormed(DropLeases(T, {o}))
                        /\ Held(DropLeases(T, {o})) = Held(T) \ {o}
                        /\ \A m \in Node :
                             DropLeases(T, {o}).by_node[m] \in {None, table.by_node[m]}
      BY Zenon
    <3> HIDE DEF T
    <3>1. {o} \subseteq Held(T)
      BY Zenon DEF Oldest
    <3>2. WellFormed(DropLeases(T, {o})) /\ Held(DropLeases(T, {o})) = Held(T) \ {o}
      BY <2>1, <3>1, DropKeeps, Zenon
    <3>3. \A m \in Node : DropLeases(T, {o}).by_node[m] \in {None, T.by_node[m]}
      BY Zenon DEF DropLeases
    <3> QED
      BY <1>1, <2>1, <3>2, <3>3, Zenon
  <2> HIDE DEF T
  <2>3. CASE AllocateRefresh(n, p)
    <3>1. n \in Held(Reaped) /\ table' = Refresh(Reaped, n, p, now)
      BY <2>3, Zenon DEF AllocateRefresh
    <3>2. /\ WellFormed(table')
          /\ \A m \in Held(Reaped) : SameAddresses(Reaped, table', m)
      BY <1>1, <3>1, RefreshKeeps, Zenon DEF IInv, TypeOK
    <3>3. Held(table') \subseteq Held(Reaped)
      BY <1>1, <3>1, Zenon DEF Refresh, Held, WellFormed, Table
    <3> QED
      BY <1>1, <3>2, <3>3, Zenon DEF PoolOr, SameAddresses, Held
  <2>4. CASE AllocateFree(n, p, hint, want6)
    <3>1. /\ n \notin Held(T) /\ PickAddr(T, cfg, n, hint, want6) # None
          /\ Bind(T, n, p, PickAddr(T, cfg, n, hint, want6), want6,
                  LeasesOf(table, Expired))
      BY <2>1, <2>4, Zenon DEF AllocateFree, T
    <3>2. \A m \in Node : T.by_node[m] \in {None, table.by_node[m]}
      BY <1>1, <2>1, Zenon
    <3> QED
      BY <2>1, <3>1, <3>2, BindPool, Zenon
  <2>5. CASE AllocateReclaim(n, p, hint, want6)
    <3>1. PICK o \in Oldest(T) :
            LET S == DropLeases(T, {o})
                a == PickAddr(S, cfg, n, hint, want6) IN
            /\ a # None
            /\ Bind(S, n, p, a, want6, LeasesOf(table, Expired \cup {o}))
      BY <2>5, Zenon DEF AllocateReclaim, T
    <3>2. n \notin Held(T) /\ PickAddr(T, cfg, n, hint, want6) = None
      BY <2>1, <2>5, Zenon DEF AllocateReclaim, T
    <3> DEFINE S == DropLeases(T, {o})
    <3>3. /\ WellFormed(S) /\ Held(S) = Held(T) \ {o} /\ n \notin Held(S)
          /\ \A m \in Node : S.by_node[m] \in {None, table.by_node[m]}
      BY <2>2, <3>2, Zenon
    <3> HIDE DEF S
    <3>4. /\ PickAddr(S, cfg, n, hint, want6) # None
          /\ Bind(S, n, p, PickAddr(S, cfg, n, hint, want6), want6,
                  LeasesOf(table, Expired \cup {o}))
      BY <3>1, Zenon DEF S
    <3>5. /\ PoolOr(table') /\ out'.status = "Ok"
          /\ Held(S) \subseteq Held(table') /\ n \in Held(table')
      BY <3>3, <3>4, BindPool, Zenon
    <3>6. Held(table') \subseteq Held(S) \cup {n}
      BY <3>4, Zenon DEF Bind, BindNew, DropLeases, Held
    <3>7. Held(T) \ {o} = Held(table') \ {n}
      BY <3>3, <3>5, <3>6, Zenon
    <3> QED
      BY <3>2, <3>5, <3>7, Zenon DEF T
  <2>6. CASE AllocateExhausted(n, p, hint, want6)
    <3>1. /\ n \notin Held(T) /\ PickAddr(T, cfg, n, hint, want6) = None
          /\ out'.status = "Exhausted"
          /\ \/ table' = T
             \/ \E o \in Oldest(T) : table' = DropLeases(T, {o})
      <4>1. \A D : Exhausted(n, D).status = "Exhausted"
        BY Zenon DEF Exhausted
      <4>2. n \notin Held(T) /\ PickAddr(T, cfg, n, hint, want6) = None
        BY <2>1, <2>6, Zenon DEF AllocateExhausted, T
      <4>3. \/ table' = T /\ out' = Exhausted(n, LeasesOf(table, Expired))
            \/ \E o \in Oldest(T) :
                 /\ table' = DropLeases(T, {o})
                 /\ out' = Exhausted(n, LeasesOf(table, Expired \cup {o}))
        BY <2>6, Zenon DEF AllocateExhausted, T
      <4> QED
        BY <4>1, <4>2, <4>3, Zenon
    <3>2. CASE table' = T
      BY <1>1, <2>1, <3>2, NoneAssumption, Zenon DEF PoolOr, Held
    <3>3. CASE \E o \in Oldest(T) : table' = DropLeases(T, {o})
      <4>1. PICK o \in Oldest(T) : table' = DropLeases(T, {o})
        BY <3>3, Zenon
      <4>2. Held(table') = Held(T) \ {o} /\ Held(T) \ {o} = Held(table') \ {n}
        BY <2>2, <3>1, <4>1, Zenon
      <4>3. PoolOr(table')
        BY <2>2, <4>1, NoneAssumption, Zenon DEF PoolOr, Held
      <4> QED
        BY <3>1, <4>2, <4>3, Zenon DEF T
    <3> QED
      BY <3>1, <3>2, <3>3, Zenon
  <2> QED
    BY <1>3, <2>3, <2>4, <2>5, <2>6, Zenon DEF Allocate
<1> QED
  BY <1>2, <1>3

\* The leases stay in the pool, on disk too.
LEMMA PoolStep ==
  ASSUME IInv, IInv', PoolOK, [Next]_vars
  PROVE  PoolOK'
<1> SUFFICES ASSUME Configs = {cfg'}, ForeignRows = {}
             PROVE  /\ \A n \in Held(table') : table'.by_node[n].ip4 \in Assignable(cfg')
                    /\ \A r \in file'.rows : r.ip4 \in Assignable(cfg')
  BY Zenon DEF PoolOK
<1>1. cfg' = cfg
  BY Zenon DEF IInv, TypeOK
<1>2. /\ \A n \in Held(table) : table.by_node[n].ip4 \in Assignable(cfg)
      /\ \A r \in file.rows : r.ip4 \in Assignable(cfg)
  BY <1>1, Zenon DEF PoolOK
<1>3. \A n \in Held(table') : table'.by_node[n].ip4 \in Assignable(cfg)
  <2>1. CASE table' = table
    BY <1>2, <2>1, Zenon
  <2>2. CASE \/ Reap
             \/ \E n \in Node, p \in Peer, hint \in Ip4, want6 \in BOOLEAN :
                  Allocate(n, p, hint, want6)
    BY <1>2, <2>2, CallPool, Zenon DEF PoolOr
  <2>3. ASSUME NEW c \in Configs, RestartLoad(c)
        PROVE  \A n \in Held(table') : table'.by_node[n].ip4 \in Assignable(cfg)
    <3>1. PICK S \in Loadable(file.rows, now) : table' = TableOf(S)
      BY <2>3, Zenon DEF RestartLoad
    <3>2. S \subseteq file.rows /\ S \subseteq Lease /\ \A r, s \in S : ~Conflict(r, s)
      BY Zenon DEF Loadable, IInv, TypeOK, File
    <3>3. \A n \in Held(table') : \E r \in S : table'.by_node[n] = FromRow(r)
      BY <3>1, <3>2, TableOfKeeps
    <3>4. \A r \in S : FromRow(r).ip4 = r.ip4
      BY <3>2, Zenon DEF FromRow, Lease
    <3> QED
      BY <1>2, <3>2, <3>3, <3>4
  <2>4. ASSUME NEW c \in Configs, RestartEmpty(c)
        PROVE  \A n \in Held(table') : table'.by_node[n].ip4 \in Assignable(cfg)
    BY <2>4, Zenon DEF RestartEmpty, EmptyTable, Held
  <2>5. CASE \/ UNCHANGED vars \/ Crash \/ CorruptFile \/ Tick
             \/ \E r \in ForeignRows : EditFile(r)
             \/ \E t \in ClockSets : SetClock(t)
    BY <2>1, <2>5, Zenon DEF vars, Crash, CorruptFile, Tick, EditFile, SetClock
  <2> QED
    BY <2>2, <2>3, <2>4, <2>5, Zenon DEF Next
<1>4. \A r \in Snapshot(table') : r.ip4 \in Assignable(cfg)
  <2>1. \A n \in Held(table') : /\ table'.by_node[n] \in Lease
                                /\ ToRow(table'.by_node[n]).ip4 = table'.by_node[n].ip4
    BY Zenon DEF IInv, TypeOK, Table, Held, Optional, ToRow, Lease
  <2> QED
    BY <1>3, <2>1, Zenon DEF Snapshot, LeasesOf
<1>5. file'.rows \subseteq file.rows \cup Snapshot(table')
  BY FileRows, Zenon
<1> QED
  BY <1>1, <1>2, <1>3, <1>4, <1>5, Zenon

\* A step that answers Exhausted.
LEMMA ExhaustedStep ==
  ASSUME IInv, IInv', PoolOK, ExhaustedMeansNone, [Next]_vars
  PROVE  ExhaustedMeansNone'
<1> SUFFICES ASSUME Configs = {cfg'}, ForeignRows = {}, out'.status = "Exhausted",
                    NEW a \in Assignable(cfg')
             PROVE  /\ AssignIp6
                    /\ \/ a = ServerIp6 \/ table'.by_ip6[a] # None
                       \/ table'.by_ip4[a] # None
  BY Zenon DEF ExhaustedMeansNone
<1>1. cfg' = cfg /\ cfg \in Configs
  BY Zenon DEF IInv, TypeOK
<1>2. CASE UNCHANGED vars
  BY <1>1, <1>2, Zenon DEF ExhaustedMeansNone, vars
<1>3. ASSUME NEW n \in Node, NEW p \in Peer, NEW hint \in Ip4, NEW want6 \in BOOLEAN,
             AllocateExhausted(n, p, hint, want6)
      PROVE  /\ AssignIp6
             /\ \/ a = ServerIp6 \/ table'.by_ip6[a] # None
                \/ table'.by_ip4[a] # None
  <2> DEFINE T == UnbindPeer(Reaped, n, p)
  <2>1. /\ WellFormed(Reaped) /\ Held(Reaped) = Held(table) \ Expired
        /\ WellFormed(T) /\ T.by_node = Reaped.by_node /\ Held(T) = Held(Reaped)
    BY ReapedKeeps, UnbindKeeps, Zenon
  <2> HIDE DEF T
  <2>2. PickAddr(table', cfg, n, hint, want6) = None
    BY <1>3, Zenon DEF AllocateExhausted, T
  <2>3. \A b \in Assignable(cfg) : ~TryIp4(table', cfg, b, n, want6)
    BY <1>1, <2>2, PickFails DEF Assignable
  <2>4. \A b \in Assignable(cfg) :
          \/ table'.by_ip4[b] # None
          \/ AssignIp6 /\ (b = ServerIp6 \/ table'.by_ip6[b] # None)
    BY <2>3, Zenon DEF TryIp4, Usable, Ip6Free, Assignable
  <2>5. \E b \in Assignable(cfg) : table'.by_ip4[b] = None
    <3>1. CASE Held(T) = {} /\ table' = T
      <4>1. a \in Ip4 /\ T.by_ip4[a] \in Optional(Node)
        BY <1>1, <2>1, ConfigAssumption, Zenon DEF Assignable, WellFormed, Table
      <4>2. T.by_ip4[a] \notin Node
        BY <2>1, <3>1, <4>1 DEF WellFormed, Owners
      <4> QED
        BY <1>1, <3>1, <4>1, <4>2, Zenon DEF Optional
    <3>2. ASSUME NEW o \in Oldest(T), table' = DropLeases(T, {o})
          PROVE  \E b \in Assignable(cfg) : table'.by_ip4[b] = None
      <4>1. o \in Held(T) /\ o \in Held(table) /\ o \notin Expired /\ o \in Node
        BY <2>1, Zenon DEF Oldest, Held
      <4>2. T.by_node[o] = table.by_node[o]
        BY <2>1, <4>1, Zenon DEF Reaped, DropLeases
      <4>3. T.by_node[o].ip4 \in Assignable(cfg)
        BY <1>1, <4>1, <4>2, Zenon DEF PoolOK
      <4>4. T.by_node[o].ip4 \in Ip4
        BY <2>1, <4>1, Zenon DEF WellFormed, Table, Held, Optional, Lease
      <4>5. table'.by_ip4[T.by_node[o].ip4] = None
        BY <3>2, <4>4, Zenon DEF DropLeases
      <4> QED
        BY <4>3, <4>5, Zenon
    <3> QED
      BY <1>3, <3>1, <3>2, Zenon DEF AllocateExhausted, T
  <2> QED
    BY <1>1, <2>4, <2>5, Zenon
<1>4. ASSUME NEW n \in Node, NEW p \in Peer, NEW hint \in Ip4, NEW want6 \in BOOLEAN,
             Allocate(n, p, hint, want6)
      PROVE  AllocateExhausted(n, p, hint, want6)
  <2>1. \A l, D : Ok(n, l, D).status # "Exhausted"
    BY Zenon DEF Ok
  <2> QED
    BY <1>4, <2>1, Zenon DEF Allocate, AllocateRefresh, AllocateFree, AllocateReclaim, Bind
<1>5. NoOutput.status # "Exhausted"
  BY Zenon DEF NoOutput
<1>6. ~Reap
  BY Zenon DEF Reap, NoOutput
<1>7. ~Crash /\ ~CorruptFile /\ ~Tick
  BY <1>5, Zenon DEF Crash, CorruptFile, Tick
<1>8. ~(\E r \in ForeignRows : EditFile(r)) /\ ~(\E t \in ClockSets : SetClock(t))
  BY <1>5, Zenon DEF EditFile, SetClock
<1>9. ~(\E c \in Configs : RestartLoad(c) \/ RestartEmpty(c))
  BY <1>5, Zenon DEF RestartLoad, RestartEmpty, Start
<1> QED
  BY <1>2, <1>3, <1>4, <1>6, <1>7, <1>8, <1>9, Zenon DEF Next

\* So the file and the pool are as they should be at all times.
LEMMA SpecFInv == Spec => []FInv
<1>1. Init => FInv
  <2> SUFFICES ASSUME Init PROVE FInv
    BY Zenon
  <2>1. Held(table) = {} /\ file.rows = {}
    BY Zenon DEF Init, EmptyTable, Held
  <2>2. FileOK /\ PoolOK /\ LastSeenLagIsBounded
    BY <2>1, Zenon DEF FileOK, RowsMatch, LeasesOf, PoolOK, LastSeenLagIsBounded
  <2>3. ExhaustedMeansNone
    BY Zenon DEF ExhaustedMeansNone, Init, NoOutput
  <2> QED
    BY <2>2, <2>3, InitIInv, Zenon DEF FInv
<1>2. FInv /\ [Next]_vars => FInv'
  BY NextIInv, FileStep, PoolStep, ExhaustedStep, Zenon DEF FInv
<1> QED
  BY <1>1, <1>2, PTL DEF Spec

-----------------------------------------------------------------------------
\* While the server runs, what the lease file says of nodes, addresses and
\* endpoints is what the table says: allocate and reap write every change of a
\* binding before they return, so a crash between two calls loses none and
\* brings none back.  (For a file that can be read and written.)
THEOREM CrashesLoseNoBinding == Spec => []FileHoldsBindings
<1>1. FInv => FileHoldsBindings
  <2> SUFFICES ASSUME FInv, up, Faults = {}
               PROVE  /\ file.state = "valid" \/ Held(table) = {}
                      /\ {[r EXCEPT !.last_seen = 0] : r \in file.rows}
                           = {[l EXCEPT !.last_seen = 0] : l \in LeasesOf(table, Held(table))}
    BY Zenon DEF FileHoldsBindings
  <2>1. /\ file.state # "valid" => file.rows = {}
        /\ {Bare(r) : r \in file.rows} = {Bare(l) : l \in LeasesOf(table, Held(table))}
    BY Zenon DEF FInv, FileOK, RowsMatch
  <2>2. file.rows = {} => Held(table) = {}
    BY <2>1 DEF LeasesOf
  <2> QED
    BY <2>1, <2>2, Zenon DEF Bare
<1> QED
  BY <1>1, SpecFInv, PTL

\* The time of a lease in the file is the one in the table, or the request that
\* moved it came less than a quarter of the TTL after the last write: what
\* should_persist saves in writes costs a node no more than that at a crash.
THEOREM LagIsBounded == Spec => []LastSeenLagIsBounded
<1>1. FInv => LastSeenLagIsBounded
  BY Zenon DEF FInv
<1> QED
  BY <1>1, SpecFInv, PTL

\* A request is refused only if the pool has no assignable address, or IPv6 is
\* handed out and every address lacks a free half: otherwise the address of the
\* lease that allocate dropped would have been picked.
THEOREM RefusedOnlyWhenFull == Spec => []ExhaustedMeansNone
<1>1. FInv => ExhaustedMeansNone
  BY Zenon DEF FInv
<1> QED
  BY <1>1, SpecFInv, PTL

\* load brings back only leases that were held at the crash, with the addresses
\* they had, and leaves one out only when its row has expired: no two rows of a
\* file that followed the table conflict.
THEOREM RestartsKeepAddresses == Spec => RestartKeepsAddresses
<1>1. FInv /\ [Next]_vars =>
        (~up /\ up' /\ Faults = {} /\ ForeignRows = {} =>
           /\ \A n \in Held(table)' :
                /\ n \in Held(table)
                /\ table'.by_node[n].ip4 = table.by_node[n].ip4
                /\ table'.by_node[n].ip6 = table.by_node[n].ip6
           /\ \A n \in Held(table) \ Held(table)' :
                \E r \in file.rows :
                  r.node_id = n /\ IsExpired(FromRow(r).last_seen, now))
  <2> SUFFICES ASSUME FInv, [Next]_vars, ~up, up', Faults = {}, ForeignRows = {}
               PROVE  /\ \A n \in Held(table') :
                           /\ n \in Held(table)
                           /\ table'.by_node[n].ip4 = table.by_node[n].ip4
                           /\ table'.by_node[n].ip6 = table.by_node[n].ip6
                      /\ \A n \in Held(table) \ Held(table') :
                           \E r \in file.rows :
                             r.node_id = n /\ IsExpired(FromRow(r).last_seen, now)
    BY Zenon DEF Held
  <2>1. /\ IInv /\ file.rows \subseteq Lease /\ WellFormed(table)
        /\ \A n \in Held(table) : /\ table.by_node[n] \in Lease
                                  /\ table.by_node[n].node_id = n
                                  /\ n \in Node
    BY DEF FInv, IInv, TypeOK, OneOwnerPerAddress, BindingFollowsLease, Owners,
           WellFormed, File, Held, Table, Optional
  <2>2. /\ file.state # "valid" => file.rows = {}
        /\ {Bare(r) : r \in file.rows} = {Bare(l) : l \in LeasesOf(table, Held(table))}
        /\ \A r, s \in file.rows : r.node_id = s.node_id => r = s
    BY Zenon DEF FInv, FileOK, RowsMatch
  <2>3. \A r, l \in Lease : Bare(r) = Bare(l) =>
          r.node_id = l.node_id /\ r.ip4 = l.ip4 /\ r.ip6 = l.ip6
    BY Zenon DEF Bare, Lease
  <2>4. \A r \in file.rows :
          /\ r.node_id \in Held(table)
          /\ r.ip4 = table.by_node[r.node_id].ip4
          /\ r.ip6 = table.by_node[r.node_id].ip6
    <3> SUFFICES ASSUME NEW r \in file.rows
                 PROVE  /\ r.node_id \in Held(table)
                        /\ r.ip4 = table.by_node[r.node_id].ip4
                        /\ r.ip6 = table.by_node[r.node_id].ip6
      BY Zenon
    <3>1. \E l \in LeasesOf(table, Held(table)) : Bare(r) = Bare(l)
      BY <2>2, Zenon
    <3>2. PICK n \in Held(table) : Bare(r) = Bare(table.by_node[n])
      BY <3>1, Zenon DEF LeasesOf
    <3> QED
      BY <2>1, <2>3, <3>2
  <2>5. \A n \in Held(table) : \E r \in file.rows : r.node_id = n
    <3> SUFFICES ASSUME NEW n \in Held(table) PROVE \E r \in file.rows : r.node_id = n
      BY Zenon
    <3>1. Bare(table.by_node[n]) \in {Bare(l) : l \in LeasesOf(table, Held(table))}
      BY Zenon DEF LeasesOf
    <3>2. PICK r \in file.rows : Bare(r) = Bare(table.by_node[n])
      BY <2>2, <3>1, Zenon
    <3> QED
      BY <2>1, <2>3, <3>2, Zenon
  <2>6. ASSUME NEW c \in Configs, RestartLoad(c)
        PROVE  /\ \A n \in Held(table') :
                    /\ n \in Held(table)
                    /\ table'.by_node[n].ip4 = table.by_node[n].ip4
                    /\ table'.by_node[n].ip6 = table.by_node[n].ip6
               /\ \A n \in Held(table) \ Held(table') :
                    \E r \in file.rows :
                      r.node_id = n /\ IsExpired(FromRow(r).last_seen, now)
    <3>1. PICK S \in Loadable(file.rows, now) : table' = TableOf(S)
      BY <2>6, Zenon DEF RestartLoad
    <3>2. /\ S \subseteq file.rows /\ \A r, s \in S : ~Conflict(r, s)
          /\ \A r \in file.rows \ S :
               \/ IsExpired(FromRow(r).last_seen, now)
               \/ \E s \in S : Conflict(r, s)
      BY Zenon DEF Loadable
    <3>3. /\ \A r \in S : r.node_id \in Held(table')
          /\ \A n \in Held(table') :
               \E r \in S : r.node_id = n /\ table'.by_node[n] = FromRow(r)
      BY <2>1, <3>1, <3>2, TableOfKeeps
    <3>4. \A r \in Lease : FromRow(r).ip4 = r.ip4 /\ FromRow(r).ip6 = r.ip6
      BY Zenon DEF FromRow, Lease
    <3>5. \A r, s \in file.rows : ~Conflict(r, s)
      <4> SUFFICES ASSUME NEW r \in file.rows, NEW s \in file.rows, Conflict(r, s)
                   PROVE  FALSE
        BY Zenon
      <4>1. r.node_id # s.node_id
        BY <2>2, Zenon DEF Conflict
      <4>2. /\ r.node_id \in Node /\ s.node_id \in Node
            /\ r.ip4 \in Ip4 /\ r.ip6 \in Optional(Ip4)
            /\ s.ip4 \in Ip4 /\ s.ip6 \in Optional(Ip4)
        BY <2>1, Zenon DEF Lease
      <4>3. /\ table.by_ip4[r.ip4] = r.node_id /\ table.by_ip4[s.ip4] = s.node_id
            /\ r.ip6 # None => table.by_ip6[r.ip6] = r.node_id
            /\ s.ip6 # None => table.by_ip6[s.ip6] = s.node_id
        <5>1. Owners(table)
          BY <2>1, Zenon DEF WellFormed
        <5> QED
          BY <2>4, <4>2, <5>1 DEF Owners, Optional
      <4> QED
        BY <4>1, <4>3, Zenon DEF Conflict
    <3>6. \A n \in Held(table') :
            /\ n \in Held(table)
            /\ table'.by_node[n].ip4 = table.by_node[n].ip4
            /\ table'.by_node[n].ip6 = table.by_node[n].ip6
      BY <2>1, <2>4, <3>2, <3>3, <3>4
    <3>7. \A n \in Held(table) \ Held(table') :
            \E r \in file.rows : r.node_id = n /\ IsExpired(FromRow(r).last_seen, now)
      BY <2>5, <3>2, <3>3, <3>5
    <3> QED
      BY <3>6, <3>7, Zenon
  <2>7. ASSUME NEW c \in Configs, RestartEmpty(c)
        PROVE  Held(table') = {} /\ Held(table) = {}
    <3>1. table' = EmptyTable /\ file.state # "valid"
      BY <2>7, Zenon DEF RestartEmpty
    <3> QED
      BY <2>2, <2>5, <3>1, Zenon DEF EmptyTable, Held
  <2>8. \E c \in Configs : RestartLoad(c) \/ RestartEmpty(c)
    <3>1. ~ \/ Reap
            \/ \E n \in Node, p \in Peer, hint \in Ip4, want6 \in BOOLEAN :
                 Allocate(n, p, hint, want6)
      BY CallsAreUp, Zenon
    <3>2. ~ \/ UNCHANGED vars \/ Crash \/ CorruptFile \/ Tick
            \/ \E r \in ForeignRows : EditFile(r)
            \/ \E t \in ClockSets : SetClock(t)
      BY Zenon DEF vars, Crash, CorruptFile, Tick, EditFile, SetClock
    <3> QED
      BY <3>1, <3>2, Zenon DEF Next
  <2> QED
    BY <2>6, <2>7, <2>8, Zenon
<1> QED
  BY <1>1, SpecFInv, PTL DEF Spec, RestartKeepsAddresses

\* allocate drops a lease that has not expired only when pick_addrs has found
\* every address of the pool taken, and then one only, the one idle for longest;
\* the sweeper never does.
THEOREM ReclaimsAreLastResort == Spec => ReclaimIsLastResort
<1>1. FInv /\ [Next]_vars =>
        (up /\ up' =>
           LET lost == {n \in Held(table) \ Expired : n \notin Held(table)'} IN
           lost # {} =>
             /\ Cardinality(lost) = 1
             /\ \A n \in lost, m \in Held(Reaped) :
                  table.by_node[n].last_seen <= table.by_node[m].last_seen
             /\ out'.status # "none"
             /\ \A a \in cfg.start .. cfg.end :
                  \/ a = ServerIp \/ a \in cfg.reserved
                  \/ Reaped.by_ip4[a] # None
                  \/ AssignIp6 /\ a = ServerIp6
                  \/ AssignIp6 /\ Reaped.by_ip6[a] # None)
  <2> DEFINE lost == {n \in Held(table) \ Expired : n \notin Held(table')}
  <2> SUFFICES ASSUME FInv, [Next]_vars, up, up', lost # {}
               PROVE  /\ Cardinality(lost) = 1
                      /\ \A n \in lost, m \in Held(Reaped) :
                           table.by_node[n].last_seen <= table.by_node[m].last_seen
                      /\ out'.status # "none"
                      /\ \A a \in cfg.start .. cfg.end :
                           \/ a = ServerIp \/ a \in cfg.reserved
                           \/ Reaped.by_ip4[a] # None
                           \/ AssignIp6 /\ a = ServerIp6
                           \/ AssignIp6 /\ Reaped.by_ip6[a] # None
    BY Zenon DEF Held
  <2>1. /\ IInv /\ cfg \in Configs /\ WellFormed(Reaped)
        /\ Held(Reaped) = Held(table) \ Expired
    BY ReapedKeeps, Zenon DEF FInv, IInv, TypeOK
  <2>2. \/ Reap
        \/ \E n \in Node, p \in Peer, hint \in Ip4, want6 \in BOOLEAN :
             Allocate(n, p, hint, want6)
    <3>1. ASSUME \/ UNCHANGED vars \/ CorruptFile \/ Tick
                 \/ \E r \in ForeignRows : EditFile(r)
                 \/ \E t \in ClockSets : SetClock(t)
          PROVE  table' = table
      BY <3>1, Zenon DEF vars, CorruptFile, Tick, EditFile, SetClock
    <3>2. table' # table
      BY Zenon DEF Held
    <3>3. ~Crash
      BY Zenon DEF Crash
    <3>4. ~(\E c \in Configs : RestartLoad(c) \/ RestartEmpty(c))
      BY Zenon DEF RestartLoad, RestartEmpty, Start
    <3> QED
      BY <3>1, <3>2, <3>3, <3>4, Zenon DEF Next
  <2>3. PICK n \in Node, p \in Peer, hint \in Ip4, want6 \in BOOLEAN :
          LET T == UnbindPeer(Reaped, n, p) IN
          /\ PickAddr(T, cfg, n, hint, want6) = None
          /\ out'.status # "none"
          /\ \E o \in Oldest(T) : Held(T) \ {o} = Held(table') \ {n}
    <3>1. ~(Held(Reaped) \subseteq Held(table'))
      BY <2>1, Zenon
    <3> QED
      BY <2>1, <2>2, <3>1, CallPool, Zenon
  <2> DEFINE T == UnbindPeer(Reaped, n, p)
  <2>4. /\ WellFormed(T) /\ T.by_node = Reaped.by_node /\ Held(T) = Held(Reaped)
        /\ T.by_ip4 = Reaped.by_ip4 /\ T.by_ip6 = Reaped.by_ip6
    BY <2>1, UnbindKeeps, Zenon
  <2>5. PICK o \in Oldest(T) : Held(T) \ {o} = Held(table') \ {n}
    BY <2>3, Zenon
  <2>6. PickAddr(T, cfg, n, hint, want6) = None /\ out'.status # "none"
    BY <2>3, Zenon
  <2> HIDE DEF T
  <2>7. lost = {o}
    BY <2>1, <2>4, <2>5, Zenon
  <2>8. \A m \in Held(Reaped) : table.by_node[o].last_seen <= table.by_node[m].last_seen
    <3>1. \A m \in Held(Reaped) : Reaped.by_node[m] = table.by_node[m]
      BY <2>1, Zenon DEF Reaped, DropLeases, Held
    <3> QED
      BY <2>4, <3>1, Zenon DEF Oldest
  <2>9. \A a \in cfg.start .. cfg.end : ~TryIp4(T, cfg, a, n, want6)
    BY <2>1, <2>6, PickFails, Zenon
  <2>10. \A a \in cfg.start .. cfg.end :
           \/ a = ServerIp \/ a \in cfg.reserved
           \/ Reaped.by_ip4[a] # None
           \/ AssignIp6 /\ a = ServerIp6
           \/ AssignIp6 /\ Reaped.by_ip6[a] # None
    BY <2>4, <2>9, Zenon DEF TryIp4, Usable, Ip6Free
  <2>11. Cardinality(lost) = 1
    BY <2>7, FS_Singleton, Zenon
  <2> HIDE DEF lost
  <2> QED
    BY <2>6, <2>7, <2>8, <2>10, <2>11, Zenon
<1> QED
  BY <1>1, SpecFInv, PTL DEF Spec, ReclaimIsLastResort

-----------------------------------------------------------------------------
(* LearnRouting.                                                           *)

Mapped ==
  up => \A i \in Inner :
          (OwnerOf(table, i) # None /\ clients[i] # None) =>
            clients[i].peer = table.by_node[OwnerOf(table, i)].last_peer

LInv == IInv /\ Mapped

\* The address indexes answer with the node whose lease names the address.
LEMMA OwnerIsHolder ==
  ASSUME NEW T, WellFormed(T), NEW i \in Inner
  PROVE  /\ OwnerOf(T, i) # None =>
              /\ OwnerOf(T, i) \in Held(T)
              /\ i \in LeasedInner(T.by_node[OwnerOf(T, i)])
         /\ \A n \in Held(T) : i \in LeasedInner(T.by_node[n]) => OwnerOf(T, i) = n
<1> USE NoneAssumption
<1>1. PICK f \in {4, 6}, a \in Ip4 : i = <<f, a>>
  BY DEF Inner
<1>2. T \in Table /\ Owners(T)
  BY Zenon DEF WellFormed
<1>3. \A n \in Held(T) : n \in Node /\ T.by_node[n] \in Lease
  BY <1>2, Zenon DEF Held, Table, Optional
<1>4. CASE f = 4
  <2>1. OwnerOf(T, i) = T.by_ip4[a] /\ T.by_ip4[a] \in Node \cup {None}
    BY <1>1, <1>2, <1>4, Zenon DEF OwnerOf, Table, Optional
  <2>2. \A n \in Held(T) : i \in LeasedInner(T.by_node[n]) <=> T.by_node[n].ip4 = a
    BY <1>1, <1>4 DEF LeasedInner
  <2> QED
    BY <1>2, <1>3, <2>1, <2>2 DEF Owners
<1>5. CASE f = 6
  <2>1. OwnerOf(T, i) = T.by_ip6[a] /\ T.by_ip6[a] \in Node \cup {None}
    BY <1>1, <1>2, <1>5 DEF OwnerOf, Table, Optional
  <2>2. \A n \in Held(T) : i \in LeasedInner(T.by_node[n]) <=> T.by_node[n].ip6 = a
    BY <1>1, <1>5 DEF LeasedInner
  <2> QED
    BY <1>2, <1>3, <2>1, <2>2 DEF Owners
<1> QED
  BY <1>1, <1>4, <1>5, Zenon

\* allocate moves at most the lease of the node that asks, to the endpoint it asks
\* from, and answers with the addresses of that lease.
LEMMA AllocateMovesOne ==
  ASSUME IInv, Ip6Prefix # None, NEW n \in Node, NEW p \in Peer, NEW hint \in Ip4,
         NEW want6 \in BOOLEAN, Allocate(n, p, hint, want6)
  PROVE  /\ out'.status = "Ok" =>
              /\ n \in Held(table') /\ table'.by_node[n].last_peer = p
              /\ out'.ip4 = table'.by_node[n].ip4 /\ out'.ip6 = table'.by_node[n].ip6
         /\ \A m \in Held(table') :
              \/ m = n /\ out'.status = "Ok"
              \/ m # n /\ m \in Held(table) /\ table'.by_node[m] = table.by_node[m]
<1> DEFINE T == UnbindPeer(Reaped, n, p)
<1> USE NoneAssumption
<1>1. WellFormed(Reaped) /\ Held(Reaped) \subseteq Held(table)
  BY ReapedKeeps, Zenon
<1>2. \A m \in Held(Reaped) : m \in Node /\ Reaped.by_node[m] = table.by_node[m]
  BY Zenon DEF Reaped, DropLeases, Held
<1>3. WellFormed(T) /\ T.by_node = Reaped.by_node /\ Held(T) = Held(Reaped)
  BY <1>1, UnbindKeeps, Zenon
<1> HIDE DEF T
<1>4. ASSUME NEW S, WellFormed(S), n \notin Held(S),
             \A m \in Held(S) : m \in Held(table) /\ S.by_node[m] = table.by_node[m],
             NEW a \in Ip4, NEW D, Bind(S, n, p, a, want6, D)
      PROVE  /\ out'.status = "Ok"
             /\ n \in Held(table') /\ table'.by_node[n].last_peer = p
             /\ out'.ip4 = table'.by_node[n].ip4 /\ out'.ip6 = table'.by_node[n].ip6
             /\ \A m \in Held(table') :
                  m # n => m \in Held(table) /\ table'.by_node[m] = table.by_node[m]
  <2> DEFINE l == [node_id |-> n, ip4 |-> a, ip6 |-> Ip6For(a, want6),
                   last_seen |-> now, last_peer |-> p]
             R == DropLeases(S, Held(S) \cap {n})
  <2>1. R.by_node \in [Node -> Optional(Lease)]
    BY <1>4, DropKeeps, Zenon DEF WellFormed, Table
  <2>2. \A m \in Node : R.by_node[m] = S.by_node[m]
    BY <1>4, Zenon DEF DropLeases
  <2>3. table'.by_node = [R.by_node EXCEPT ![n] = l]
    BY <1>4, Zenon DEF Bind, BindNew
  <2>4. out'.status = "Ok" /\ out'.ip4 = table'.by_node[n].ip4
          /\ out'.ip6 = table'.by_node[n].ip6
    BY <1>4, Zenon DEF Bind, Ok
  <2>5. table'.by_node[n] = l /\ \A m \in Node : m # n => table'.by_node[m] = S.by_node[m]
    BY <2>1, <2>2, <2>3, Zenon
  <2>6. n \in Held(table')
    <3>1. now \in Int /\ Ip6For(a, want6) \in Optional(Ip4)
      BY <1>4, Zenon DEF IInv, TypeOK, Ip6For, Optional
    <3>2. l \in Lease
      BY <1>4, <3>1, Zenon DEF Lease, Optional
    <3> QED
      BY <2>5, <3>2, Zenon DEF Held
  <2>7. table'.by_node[n].last_peer = p
    BY <2>5
  <2> HIDE DEF l, R
  <2>8. \A m \in Held(table') :
          m # n => m \in Held(table) /\ table'.by_node[m] = table.by_node[m]
    BY <1>4, <2>5, Zenon DEF Held
  <2> QED
    BY <2>4, <2>6, <2>7, <2>8, Zenon
<1>5. CASE AllocateRefresh(n, p)
  <2>1. /\ n \in Held(Reaped) /\ table' = Refresh(Reaped, n, p, now)
        /\ out' = Ok(n, Reaped.by_node[n], LeasesOf(table, Expired))
    BY <1>5, Zenon DEF AllocateRefresh
  <2>2. /\ out'.status = "Ok" /\ out'.ip4 = Reaped.by_node[n].ip4
        /\ out'.ip6 = Reaped.by_node[n].ip6
    BY <2>1, Zenon DEF Ok
  <2>3. now \in Int
    BY Zenon DEF IInv, TypeOK
  <2>4. SameAddresses(Reaped, table', n)
    BY <1>1, <2>1, <2>3, RefreshKeeps, Zenon
  <2>5. Reaped.by_node \in [Node -> Optional(Lease)] /\ Reaped.by_node[n] \in Lease
    BY <1>1, <2>1, Zenon DEF WellFormed, Table, Held, Optional
  <2>6. table'.by_node = [Reaped.by_node EXCEPT ![n] =
                            [Reaped.by_node[n] EXCEPT !.last_seen = now, !.last_peer = p]]
    BY <2>1, Zenon DEF Refresh
  <2>7. /\ table'.by_node[n].last_peer = p
        /\ \A m \in Node : m # n => table'.by_node[m] = Reaped.by_node[m]
    BY <2>1, <2>5, <2>6, Zenon DEF Lease, Held
  <2>8. \A m \in Held(table') :
          m # n => m \in Held(table) /\ table'.by_node[m] = table.by_node[m]
    BY <1>1, <1>2, <2>7, Zenon DEF Held
  <2> QED
    BY <2>2, <2>4, <2>7, <2>8, Zenon DEF SameAddresses
<1>6. CASE AllocateFree(n, p, hint, want6)
  <2>1. /\ n \notin Held(T) /\ PickAddr(T, cfg, n, hint, want6) # None
        /\ Bind(T, n, p, PickAddr(T, cfg, n, hint, want6), want6, LeasesOf(table, Expired))
    BY <1>3, <1>6, Zenon DEF AllocateFree, T
  <2>2. PickAddr(T, cfg, n, hint, want6) \in Ip4
    BY <2>1, PickIsUsable, Zenon DEF IInv, TypeOK
  <2> QED
    BY <1>1, <1>2, <1>3, <1>4, <2>1, <2>2, Zenon
<1>7. CASE AllocateReclaim(n, p, hint, want6)
  <2>1. PICK o \in Oldest(T) :
          LET S == DropLeases(T, {o})
              a == PickAddr(S, cfg, n, hint, want6) IN
          /\ a # None
          /\ Bind(S, n, p, a, want6, LeasesOf(table, Expired \cup {o}))
    BY <1>7, Zenon DEF AllocateReclaim, T
  <2> DEFINE S == DropLeases(T, {o})
  <2>2. {o} \subseteq Held(T) /\ n \notin Held(T)
    BY <1>3, <1>7, Zenon DEF Oldest, AllocateReclaim
  <2>3. WellFormed(S) /\ Held(S) = Held(T) \ {o}
    BY <1>3, <2>2, DropKeeps, Zenon
  <2>4. \A m \in Held(S) : m \in Held(table) /\ S.by_node[m] = table.by_node[m]
    BY <1>1, <1>2, <1>3, <2>3, Zenon DEF DropLeases, Held
  <2>5. /\ PickAddr(S, cfg, n, hint, want6) # None
        /\ Bind(S, n, p, PickAddr(S, cfg, n, hint, want6), want6,
                LeasesOf(table, Expired \cup {o}))
    BY <2>1, Zenon
  <2> HIDE DEF S
  <2>6. PickAddr(S, cfg, n, hint, want6) \in Ip4
    BY <2>5, PickIsUsable, Zenon DEF IInv, TypeOK
  <2> QED
    BY <1>4, <2>2, <2>3, <2>4, <2>5, <2>6, Zenon
<1>8. CASE AllocateExhausted(n, p, hint, want6)
  <2>1. out'.status = "Exhausted" /\ n \notin Held(T)
    <3>1. \E D : out' = Exhausted(n, D)
      BY <1>8, Zenon DEF AllocateExhausted
    <3>2. n \notin Held(Reaped)
      BY <1>8, Zenon DEF AllocateExhausted
    <3> QED
      BY <1>3, <3>1, <3>2 DEF Exhausted
  <2>2. table' = T \/ \E o \in Oldest(T) : table' = DropLeases(T, {o})
    BY <1>8, Zenon DEF AllocateExhausted, T
  <2>3. \A m \in Held(table') : m \in Held(T) /\ table'.by_node[m] = T.by_node[m]
    BY <2>2 DEF DropLeases, Held
  <2> QED
    BY <1>1, <1>2, <1>3, <2>1, <2>3, Zenon
<1> QED
  BY <1>5, <1>6, <1>7, <1>8, Zenon DEF Allocate

-----------------------------------------------------------------------------
\* The table is well-formed before and after every step of the lease table.
LEMMA IInvIsWellFormed == IInv => WellFormed(table)
  BY Zenon DEF IInv, TypeOK, OneOwnerPerAddress, BindingFollowsLease, WellFormed

\* maybe_learn: whoever sends from a leased address is its holder's endpoint.
LEMMA LearnKeeps ==
  ASSUME LInv, NEW p \in Peer, NEW S \in SUBSET Inner, MaybeLearn(S, p),
         UNCHANGED <<table, file, last_persist, cfg, up, now>>, out' = NoOutput
  PROVE  LInv'
<1> USE NoneAssumption
<1>1. IInv'
  <2>1. out' \in Output
    BY Zenon DEF NoOutput, Output, Optional
  <2> QED
    BY <2>1, Zenon DEF LInv, IInv, TypeOK, OneOwnerPerAddress, BindingFollowsLease
<1>2. Mapped'
  <2> SUFFICES ASSUME up, NEW i \in Inner, OwnerOf(table, i) # None, clients'[i] # None
               PROVE  clients'[i].peer = table.by_node[OwnerOf(table, i)].last_peer
    BY Zenon DEF Mapped
  <2> DEFINE n == OwnerOf(table, i)
  <2>1. WellFormed(table) /\ n \in Held(table)
    BY IInvIsWellFormed, OwnerIsHolder, Zenon DEF LInv
  <2>2. CASE i \in S /\ MayLearn(table, i, p)
    <3>1. clients'[i].peer = p
      BY <2>2, Zenon DEF MaybeLearn, LearnAll
    <3>2. table.by_peer[p] = n
      BY <2>2, Zenon DEF MayLearn
    <3>3. table.by_node[n].last_peer = p
      BY <2>1, <3>2, Zenon DEF WellFormed, Bindings, Held
    <3> QED
      BY <3>1, <3>3, Zenon
  <2>3. CASE ~(i \in S /\ MayLearn(table, i, p))
    <3>1. clients'[i] = clients[i]
      BY <2>3, Zenon DEF MaybeLearn, LearnAll
    <3> QED
      BY <3>1, Zenon DEF LInv, Mapped
  <2> QED
    BY <2>2, <2>3, Zenon
<1> QED
  BY <1>1, <1>2, Zenon DEF LInv

\* An AssignRequest: the node's own addresses are learned from the endpoint that asks,
\* everybody else's lease and mapping stay or go.
LEMMA AssignKeeps ==
  ASSUME LInv, Ip6Prefix # None, NEW n \in Node, NEW p \in Peer, NEW hint \in Ip4,
         NEW want6 \in BOOLEAN, AssignReq(n, p, hint, want6)
  PROVE  LInv'
<1> USE NoneAssumption
<1>1. Allocate(n, p, hint, want6) /\ IInv
  BY Zenon DEF AssignReq, LInv
<1>2. IInv' /\ WellFormed(table) /\ WellFormed(table')
  <2>1. IInv'
    BY <1>1, AllocateIInv, Zenon
  <2> QED
    BY <1>1, <2>1, IInvIsWellFormed, Zenon DEF IInv, TypeOK, OneOwnerPerAddress,
       BindingFollowsLease, WellFormed
<1> DEFINE C == Unlearn(clients, out'.dropped, now)
           G == {<<4, out'.ip4>>} \cup (IF out'.ip6 = None THEN {} ELSE {<<6, out'.ip6>>})
<1>3. clients' = IF out'.status = "Ok" THEN LearnAll(C, G, p, now) ELSE C
  BY Zenon DEF AssignReq
<1>4. \A i \in Inner : C[i] = clients[i] \/ C[i] = None
  BY Zenon DEF Unlearn
<1> HIDE DEF C
<1>5. /\ out'.status = "Ok" =>
           /\ n \in Held(table') /\ table'.by_node[n].last_peer = p
           /\ G = LeasedInner(table'.by_node[n])
      /\ \A m \in Held(table') :
           \/ m = n /\ out'.status = "Ok"
           \/ m # n /\ m \in Held(table) /\ table'.by_node[m] = table.by_node[m]
  BY <1>1, AllocateMovesOne DEF LeasedInner
<1> HIDE DEF G
<1>6. up
  BY <1>1, Zenon DEF Allocate, AllocateRefresh, AllocateFree, AllocateReclaim, AllocateExhausted
<1>7. Mapped'
  <2> SUFFICES ASSUME NEW i \in Inner, OwnerOf(table', i) # None, clients'[i] # None
               PROVE  clients'[i].peer = table'.by_node[OwnerOf(table', i)].last_peer
    BY Zenon DEF Mapped
  <2> DEFINE m == OwnerOf(table', i)
  <2>1. m \in Held(table') /\ i \in LeasedInner(table'.by_node[m])
    BY <1>2, OwnerIsHolder, Zenon
  <2> HIDE DEF m
  <2>2. CASE m = n /\ out'.status = "Ok"
    <3>1. i \in G
      BY <1>5, <2>1, <2>2, Zenon
    <3>2. clients'[i].peer = p
      BY <1>3, <2>2, <3>1, Zenon DEF LearnAll
    <3> QED
      BY <1>5, <2>2, <3>2, Zenon DEF m
  <2>3. CASE m # n /\ m \in Held(table) /\ table'.by_node[m] = table.by_node[m]
    <3>1. OwnerOf(table, i) = m /\ m # None
      BY <1>2, <2>1, <2>3, OwnerIsHolder, Zenon DEF Held
    <3>2. out'.status = "Ok" => i \notin G
      <4> SUFFICES ASSUME out'.status = "Ok", i \in G PROVE FALSE
        BY Zenon
      <4>1. OwnerOf(table', i) = n
        BY <1>2, <1>5, OwnerIsHolder
      <4> QED
        BY <2>3, <4>1, Zenon DEF m
    <3>3. clients'[i] = C[i]
      BY <1>3, <3>2, Zenon DEF LearnAll
    <3>4. clients'[i] = clients[i]
      BY <1>4, <3>3, Zenon
    <3> QED
      BY <1>6, <2>3, <3>1, <3>4, Zenon DEF LInv, Mapped, m
  <2> QED
    BY <1>5, <2>1, <2>2, <2>3, Zenon
<1> QED
  BY <1>2, <1>7, Zenon DEF LInv

\* The sweeper only takes leases and mappings away.
LEMMA SweepKeeps ==
  ASSUME LInv, Sweep
  PROVE  LInv'
<1> USE NoneAssumption
<1>1. IInv /\ Reap /\ up /\ table' = Reaped
  BY Zenon DEF LInv, Sweep, Reap
<1>2. IInv' /\ WellFormed(table) /\ WellFormed(table')
  BY <1>1, ReapIInv, ReapedKeeps, Zenon
<1>3. \A i \in Inner : clients'[i] = clients[i] \/ clients'[i] = None
  BY Zenon DEF Sweep, Unlearn, ExpireClients
<1>4. \A m \in Held(table') : m \in Held(table) /\ table'.by_node[m] = table.by_node[m]
  BY <1>1, Zenon DEF Reaped, DropLeases, Held
<1>5. Mapped'
  <2> SUFFICES ASSUME NEW i \in Inner, OwnerOf(table', i) # None, clients'[i] # None
               PROVE  clients'[i].peer = table'.by_node[OwnerOf(table', i)].last_peer
    BY Zenon DEF Mapped
  <2> DEFINE m == OwnerOf(table', i)
  <2>1. m \in Held(table') /\ i \in LeasedInner(table'.by_node[m])
    BY <1>2, OwnerIsHolder, Zenon
  <2>2. OwnerOf(table, i) = m
    BY <1>2, <1>4, <2>1, OwnerIsHolder, Zenon
  <2> QED
    BY <1>1, <1>3, <1>4, <2>1, <2>2 DEF LInv, Mapped, Held
<1> QED
  BY <1>2, <1>5, Zenon DEF LInv

\* Every handler, the sweeper, a crash, a start and time keep the invariant.
LEMMA LInvInductive ==
  ASSUME Ip6Prefix # None
  PROVE  LInv /\ [LNext]_lvars => LInv'
<1> SUFFICES ASSUME LInv, [LNext]_lvars PROVE LInv'
  BY Zenon
<1>1. Source \subseteq Inner
  BY LearnAssumption, Zenon
<1>2. ASSUME NEW p \in Peer, NEW S \in SUBSET Inner, MaybeLearn(S, p), out' = NoOutput,
             UNCHANGED <<table, file, last_persist, cfg, up, now>>
      PROVE  LInv'
  BY <1>2, LearnKeeps, Zenon
<1>3. ASSUME NEW p \in Peer, NEW src \in Source, Data(p, src) PROVE LInv'
  <2>1. {src} \in SUBSET Inner
    BY <1>1, Zenon
  <2> QED
    BY <1>2, <1>3, <2>1, Zenon DEF Data
<1>4. ASSUME NEW p \in Peer, NEW S \in SUBSET Source, Keepalive(p, S) PROVE LInv'
  BY <1>1, <1>2, <1>4, Zenon DEF Keepalive
<1>5. ASSUME NEW p \in Peer, NEW S \in SUBSET Source, NEW A, RouteAdvert(p, S, A)
      PROVE  LInv'
  BY <1>1, <1>2, <1>5, Zenon DEF RouteAdvert
<1>6. ASSUME NEW p \in Peer, NEW S \in SUBSET Source, NEW a, NEW w, NameAdvert(p, S, a, w)
      PROVE  LInv'
  BY <1>1, <1>2, <1>6, Zenon DEF NameAdvert
<1>7. CASE ServerCrash
  <2>1. Crash /\ IInv /\ ~up'
    BY <1>7, Zenon DEF ServerCrash, Crash, LInv
  <2> QED
    BY <2>1, EnvironmentIInv, Zenon DEF LInv, Mapped
<1>8. ASSUME NEW c \in Configs, ServerStart(c) PROVE LInv'
  <2>1. IInv'
    BY <1>8, StartIInv, Zenon DEF ServerStart, LInv
  <2>2. \A i \in Inner : clients'[i] = None
    BY <1>8, Zenon DEF ServerStart
  <2> QED
    BY <2>1, <2>2, Zenon DEF LInv, Mapped
<1>9. CASE ServerTick
  <2>1. Tick /\ IInv /\ UNCHANGED <<table, clients, up>>
    BY <1>9, Zenon DEF ServerTick, Tick, LInv
  <2>2. IInv'
    BY <2>1, EnvironmentIInv, Zenon
  <2>3. Mapped'
    BY <2>1, Zenon DEF LInv, Mapped, OwnerOf
  <2> QED
    BY <2>2, <2>3, Zenon DEF LInv
<1>10. CASE UNCHANGED lvars
  <2>1. UNCHANGED vars /\ UNCHANGED <<table, clients, up>>
    BY <1>10, Zenon DEF lvars, vars
  <2>2. IInv'
    BY <2>1, NextIInv, Zenon DEF LInv
  <2>3. Mapped'
    BY <2>1, Zenon DEF LInv, Mapped, OwnerOf
  <2> QED
    BY <2>2, <2>3, Zenon DEF LInv
<1>11. \A S \in Announced : S \in SUBSET Source
  BY Zenon DEF Announced
<1>12. ASSUME NEW p \in Peer, Keepalive(p, {}) PROVE LInv'
  BY <1>4, <1>12, Zenon
<1>13. ASSUME NEW p \in Peer, NEW a \in Ip4, <<4, a>> \in Source, Keepalive(p, {<<4, a>>})
       PROVE  LInv'
  BY <1>4, <1>13, Zenon
<1>14. CASE LNext
  <2>1. CASE \E p \in Peer, src \in Source : Data(p, src)
    BY <1>3, <2>1, Zenon
  <2>2. CASE \E p \in Peer : Keepalive(p, {})
    BY <1>12, <2>2, Zenon
  <2>3. CASE \E p \in Peer, a \in Ip4 : <<4, a>> \in Source /\ Keepalive(p, {<<4, a>>})
    BY <1>13, <2>3, Zenon
  <2>4. CASE \E p \in Peer, S \in Announced, A \in SUBSET Net : RouteAdvert(p, S, A)
    BY <1>5, <1>11, <2>4, Zenon
  <2>5. CASE \E p \in Peer, S \in Announced, w \in Optional(Wanted) :
               \E a \in Ip4 : <<4, a>> \in S /\ NameAdvert(p, S, a, w)
    BY <1>6, <1>11, <2>5, Zenon
  <2>6. CASE \E n \in Node, p \in Peer, hint \in Ip4, want6 \in BOOLEAN :
               AssignReq(n, p, hint, want6)
    BY <2>6, AssignKeeps, Zenon
  <2>7. CASE Sweep
    BY <2>7, SweepKeeps, Zenon
  <2>8. CASE \E c \in Configs : ServerStart(c)
    BY <1>8, <2>8, Zenon
  <2> QED
    BY <1>7, <1>9, <1>14, <2>1, <2>2, <2>3, <2>4, <2>5, <2>6, <2>7, <2>8, Zenon DEF LNext
<1> QED
  BY <1>10, <1>14, Zenon

\* The empty server is mapped.
LEMMA LInitInv == LInit => LInv
<1> SUFFICES ASSUME LInit PROVE LInv
  BY Zenon
<1>1. IInv
  BY InitIInv, Zenon DEF LInit
<1>2. Mapped
  BY Zenon DEF LInit, Mapped
<1> QED
  BY <1>1, <1>2, Zenon DEF LInv

\* On a server with an IPv6 prefix, a leased address is never mapped to an endpoint
\* other than the one its holder last asked from.
THEOREM RoutesLeadToHolders ==
  ASSUME Ip6Prefix # None
  PROVE  LSpec => []RouteToHolder
<1>1. LInv => RouteToHolder
  <2> SUFFICES ASSUME LInv, up, NEW i \in Inner, OwnerOf(table, i) # None
               PROVE  LET holder == table.by_node[OwnerOf(table, i)].last_peer IN
                      /\ clients[i] # None => clients[i].peer = holder
                      /\ \A p \in Peer :
                           Forward(p, i) \in {"Tun", "Bounce", holder,
                                              Subnets!LookupRoute(routes, i)}
    BY Zenon DEF RouteToHolder
  <2>1. clients[i] # None =>
          clients[i].peer = table.by_node[OwnerOf(table, i)].last_peer
    BY Zenon DEF LInv, Mapped
  <2>2. \/ Lookup(i) = clients[i].peer /\ clients[i] # None
        \/ Lookup(i) = Subnets!LookupRoute(routes, i)
    BY Zenon DEF Lookup
  <2>3. \A p \in Peer : Forward(p, i) \in {"Tun", "Bounce", Lookup(i)}
    BY Zenon DEF Forward
  <2> QED
    BY <2>1, <2>2, <2>3, Zenon
<1> QED
  BY <1>1, LInitInv, LInvInductive, PTL DEF LSpec

\* The addresses of a lease are inner addresses, and its node is their owner.
LEMMA LeasedIsOwned ==
  ASSUME NEW T, WellFormed(T), NEW n \in Held(T), NEW i \in LeasedInner(T.by_node[n])
  PROVE  i \in Inner /\ OwnerOf(T, i) = n /\ n # None
<1> USE NoneAssumption
<1>1. n \in Node /\ T.by_node[n] \in Lease
  BY Zenon DEF WellFormed, Table, Held, Optional
<1>2. T.by_node[n].ip4 \in Ip4 /\ T.by_node[n].ip6 \in Ip4 \cup {None}
  BY <1>1, Zenon DEF Lease, Optional
<1>3. i \in Inner
  BY <1>2 DEF LeasedInner, Inner
<1> QED
  BY <1>1, <1>3, OwnerIsHolder, Zenon

\* unlearn recognises the mapping of a dropped lease: it names the holder's endpoint.
LEMMA UnlearnForgets ==
  ASSUME LInv, up, NEW n \in Held(table), NEW i \in LeasedInner(table.by_node[n]),
         NEW C, C[i] \in {clients[i], None}, NEW D, table.by_node[n] \in D
  PROVE  Unlearn(C, D, now)[i] = None
<1>1. WellFormed(table)
  BY IInvIsWellFormed, Zenon DEF LInv
<1>2. i \in Inner /\ OwnerOf(table, i) = n /\ n # None
  BY <1>1, LeasedIsOwned, Zenon
<1>3. C[i] # None => C[i].peer = table.by_node[n].last_peer
  BY <1>2, Zenon DEF LInv, Mapped
<1> QED
  BY <1>2, <1>3, Zenon DEF Unlearn

\* On a server with an IPv6 prefix, the step that drops a lease forgets the route to
\* its holder: the mapping was the holder's, so unlearn recognises it.
THEOREM DroppedLeasesAreUnlearned ==
  ASSUME Ip6Prefix # None
  PROVE  LSpec => DroppedIsUnlearned
<1> DEFINE Forgets ==
      up /\ up' =>
        \A n \in Held(table) :
          \A i \in LeasedInner(table.by_node[n]) :
            OwnerOf(table', i) # n =>
              \/ clients'[i] = None
              \/ /\ OwnerOf(table', i) # None
                 /\ clients'[i].peer = table'.by_node[OwnerOf(table', i)].last_peer
<1>1. LInv /\ LInv' /\ [LNext]_lvars => [Forgets]_lvars
  <2> SUFFICES ASSUME LInv, LInv', LNext, up, up', NEW n \in Held(table),
                      NEW i \in LeasedInner(table.by_node[n]),
                      OwnerOf(table', i) # n
               PROVE  \/ clients'[i] = None
                      \/ /\ OwnerOf(table', i) # None
                         /\ clients'[i].peer
                              = table'.by_node[OwnerOf(table', i)].last_peer
    BY Zenon
  <2>1. WellFormed(table) /\ WellFormed(table') /\ IInv
    BY Zenon DEF LInv, IInv, TypeOK, OneOwnerPerAddress, BindingFollowsLease, WellFormed
  <2>2. i \in Inner /\ OwnerOf(table, i) = n /\ n # None
    BY <2>1, LeasedIsOwned, Zenon
  <2> SUFFICES ASSUME OwnerOf(table', i) = None PROVE clients'[i] = None
    BY <2>2, Zenon DEF LInv, Mapped
  <2>3. ASSUME Accounted(table', out'.dropped) PROVE table.by_node[n] \in out'.dropped
    <3>1. ASSUME SameAddresses(table, table', n) PROVE FALSE
      <4>1. n \in Held(table') /\ i \in LeasedInner(table'.by_node[n])
        BY <3>1, Zenon DEF SameAddresses, LeasedInner
      <4> QED
        BY <2>1, <2>2, <4>1, LeasedIsOwned, Zenon
    <3> QED
      BY <2>3, <3>1, Zenon DEF Accounted
  <2>4. table' # table
    BY <2>2, Zenon DEF OwnerOf
  <2>5. ASSUME NEW m \in Node, NEW p \in Peer, NEW hint \in Ip4, NEW want6 \in BOOLEAN,
               AssignReq(m, p, hint, want6)
        PROVE  clients'[i] = None
    <3> DEFINE C == Unlearn(clients, out'.dropped, now)
               G == {<<4, out'.ip4>>}
                      \cup (IF out'.ip6 = None THEN {} ELSE {<<6, out'.ip6>>})
    <3>1. /\ Allocate(m, p, hint, want6)
          /\ clients' = IF out'.status = "Ok" THEN LearnAll(C, G, p, now) ELSE C
      BY <2>5, Zenon DEF AssignReq
    <3>2. table.by_node[n] \in out'.dropped
      BY <2>1, <2>3, <3>1, AllocateAccounts, Zenon
    <3>3. C[i] = None
      BY <3>2, UnlearnForgets, SMTT(30)
    <3>4. out'.status = "Ok" => m \in Held(table') /\ G = LeasedInner(table'.by_node[m])
      BY <2>1, <3>1, AllocateMovesOne, SMTT(30) DEF LeasedInner
    <3> HIDE DEF C, G
    <3>5. out'.status = "Ok" => i \notin G
      BY <2>1, <3>4, LeasedIsOwned
    <3> QED
      BY <2>2, <3>1, <3>3, <3>5, Zenon DEF LearnAll
  <2>6. CASE Sweep
    <3>1. Reap /\ clients' = Unlearn(ExpireClients(clients, now), out'.dropped, now)
      BY <2>6, Zenon DEF Sweep
    <3>2. table.by_node[n] \in out'.dropped
      BY <2>1, <2>3, <3>1, StepAccounts, Zenon DEF Next
    <3>3. ExpireClients(clients, now)[i] \in {clients[i], None}
      BY <2>2, Zenon DEF ExpireClients
    <3> QED
      BY <3>1, <3>2, <3>3, UnlearnForgets, SMTT(30)
  <2>7. ~ServerCrash /\ \A c \in Configs : ~ServerStart(c)
    BY Zenon DEF ServerCrash, Crash, ServerStart, RestartLoad, RestartEmpty, Start
  <2> QED
    BY <2>4, <2>5, <2>6, <2>7, Zenon DEF LNext, Data, Keepalive, RouteAdvert, NameAdvert,
       ServerTick, Tick
<1> QED
  BY <1>1, LInitInv, LInvInductive, PTL DEF LSpec, DroppedIsUnlearned

-----------------------------------------------------------------------------
(* Ages.                                                                   *)

\* What may still be older than the TTL when the sweeper next runs is at most one of its
\* intervals older.
Young(e) == e # None => next_sweep - e.last_seen <= LeaseTTL + SweepEvery

\* The sweeper is on time, and leaves nothing behind that could outlive its next round
\* by more than the TTL.
Swept ==
  up => /\ now <= next_sweep /\ next_sweep <= now + SweepEvery
        /\ \A i \in Inner : Young(clients[i])
        /\ \A n \in Net : Young(routes[n])
        /\ \A p \in Peer : Young(names.by_peer[p])

\* What the client map becomes keeps its type, and its entries are old ones or of now.
LEMMA ClientTypes ==
  ASSUME NEW C \in [Inner -> Optional(ClientEntry)], NEW S, NEW D, NEW p \in Peer,
         NEW t \in Int
  PROVE  /\ LearnAll(C, S, p, t) \in [Inner -> Optional(ClientEntry)]
         /\ Unlearn(C, D, t) \in [Inner -> Optional(ClientEntry)]
         /\ ExpireClients(C, t) \in [Inner -> Optional(ClientEntry)]
         /\ \A i \in Inner :
              /\ LearnAll(C, S, p, t)[i] \in {C[i], [peer |-> p, last_seen |-> t]}
              /\ Unlearn(C, D, t)[i] \in {C[i], None}
              /\ ExpireClients(C, t)[i] \in {C[i], None}
              /\ ExpireClients(C, t)[i] # None => t - C[i].last_seen <= LeaseTTL
<1>1. [peer |-> p, last_seen |-> t] \in ClientEntry
  BY Zenon DEF ClientEntry
<1>2. LearnAll(C, S, p, t) \in [Inner -> Optional(ClientEntry)]
  BY <1>1, Zenon DEF LearnAll, Optional
<1>3. Unlearn(C, D, t) \in [Inner -> Optional(ClientEntry)]
  BY Zenon DEF Unlearn, Optional
<1>4. ExpireClients(C, t) \in [Inner -> Optional(ClientEntry)]
  BY Zenon DEF ExpireClients, Optional
<1> QED
  BY <1>2, <1>3, <1>4, Zenon DEF LearnAll, Unlearn, ExpireClients, IsLive

\* The same of the subnet routes.
LEMMA AdvertiseRoutesTypes ==
  ASSUME NEW R \in [Net -> Optional(Subnets!SubnetRoute)], NEW p \in Peer, NEW A,
         NEW t \in Int
  PROVE  /\ Subnets!AdvertiseRoutes(R, p, A, t) \in [Net -> Optional(Subnets!SubnetRoute)]
         /\ \A n \in Net :
              \/ Subnets!AdvertiseRoutes(R, p, A, t)[n] \in {R[n], None}
              \/ Subnets!AdvertiseRoutes(R, p, A, t)[n].last_seen = t
<1>1. \A n \in Net : [peer |-> p, approved |-> Subnets!Approves(n), last_seen |-> t]
                       \in Subnets!SubnetRoute
  BY LearnAssumption, Zenon DEF Subnets!SubnetRoute, Subnets!Approves
<1>2. Subnets!AdvertiseRoutes(R, p, A, t) \in [Net -> Optional(Subnets!SubnetRoute)]
  BY <1>1, Zenon DEF Subnets!AdvertiseRoutes, Optional
<1> QED
  BY <1>2, Zenon DEF Subnets!AdvertiseRoutes

\* What expire leaves has been advertised within the TTL.
LEMMA ExpireRoutesTypes ==
  ASSUME NEW R \in [Net -> Optional(Subnets!SubnetRoute)], NEW t \in Int
  PROVE  /\ Subnets!ExpireRoutes(R, t) \in [Net -> Optional(Subnets!SubnetRoute)]
         /\ \A n \in Net :
              Subnets!ExpireRoutes(R, t)[n] # None =>
                t - Subnets!ExpireRoutes(R, t)[n].last_seen <= LeaseTTL
<1>1. Subnets!ExpireRoutes(R, t) \in [Net -> Optional(Subnets!SubnetRoute)]
  BY Zenon DEF Subnets!ExpireRoutes, Optional
<1>2. \A n \in Net : R[n] # None => R[n].last_seen \in Int
  BY Zenon DEF Optional, Subnets!SubnetRoute
<1> QED
  BY <1>1, <1>2, LearnAssumption DEF Subnets!ExpireRoutes

\* The label unique_name grants is a label.
LEMMA UniqueNameType ==
  ASSUME NEW T, NEW w \in Label, NEW tag \in Node \cup Ip4
  PROVE  Names!UniqueName(T, w, tag) \in Label
<1> DEFINE cand == Candidates[w, tag]
           free == {i \in 1 .. Len(cand) : ~Names!NameTaken(T, cand[i])}
           least == CHOOSE i \in free : \A j \in free : i <= j
<1>1. cand \in Seq(Label) /\ Len(cand) > 0
  BY LearnAssumption, Zenon
<1>2. Names!UniqueName(T, w, tag) = IF ~Names!NameTaken(T, w) THEN w
                                    ELSE IF free = {} THEN cand[1] ELSE cand[least]
  BY Zenon DEF Names!UniqueName
<1> HIDE DEF cand
<1>3. \A i \in 1 .. Len(cand) : cand[i] \in Label
  BY <1>1
<1>4. 1 \in 1 .. Len(cand) /\ free \subseteq Nat /\ free \subseteq 1 .. Len(cand)
  BY <1>1
<1> HIDE DEF free
<1>5. free # {} => least \in free
  BY <1>4, LeastExists, Zenon
<1> HIDE DEF least
<1> QED
  BY <1>2, <1>3, <1>4, <1>5, Zenon

\* The same of the name table: withdrawing only takes rows away.
LEMMA WithdrawTypes ==
  ASSUME NEW T \in Names!Names, NEW D
  PROVE  /\ Names!WithdrawAll(T, D) \in Names!Names
         /\ \A q \in Peer : /\ Names!WithdrawAll(T, D).by_peer[q] \in {T.by_peer[q], None}
                            /\ q \in D => Names!WithdrawAll(T, D).by_peer[q] = None
  BY Zenon DEF Names!WithdrawAll, Names!Names

\* An advert stamps the row of its endpoint and touches no other.
LEMMA AdvertiseNameTypes ==
  ASSUME NEW T \in Names!Names, NEW p \in Peer, NEW w \in Label, NEW a \in Ip4,
         NEW tag \in Node \cup Ip4, NEW t \in Int
  PROVE  /\ Names!AdvertiseName(T, p, w, a, tag, t) \in Names!Names
         /\ \A q \in Peer :
              \/ Names!AdvertiseName(T, p, w, a, tag, t).by_peer[q] = T.by_peer[q]
              \/ Names!AdvertiseName(T, p, w, a, tag, t).by_peer[q].last_seen = t
<1>1. CASE T.by_peer[p] # None /\ T.by_peer[p].requested = w
  <2> DEFINE r == [[T.by_peer[p] EXCEPT !.ip4 = a] EXCEPT !.last_seen = t]
             f == [T.by_peer EXCEPT ![p] = r]
             N == Names!AdvertiseName(T, p, w, a, tag, t)
  <2>1. T.by_peer \in [Peer -> Names!Row \cup {None}]
        /\ T.by_name \in [Label -> Peer \cup {None}]
    BY Zenon DEF Names!Names
  <2>2. T.by_peer[p] \in Names!Row
    BY <1>1, <2>1, Zenon
  <2>3. r \in Names!Row /\ r.last_seen = t
    BY <2>2, Zenon DEF Names!Row
  <2>4. N.by_peer = f /\ N.by_name = T.by_name /\ N = [by_peer |-> f, by_name |-> T.by_name]
    BY <1>1, <2>1, <2>2, Zenon DEF Names!AdvertiseName, Names!Names, Names!Row
  <2> HIDE DEF r, N
  <2>5. f \in [Peer -> Names!Row \cup {None}]
    BY <2>1, <2>3, Zenon
  <2>6. N \in Names!Names
    BY <2>1, <2>4, <2>5, Zenon DEF Names!Names
  <2>7. \A q \in Peer : N.by_peer[q] = T.by_peer[q] \/ N.by_peer[q].last_seen = t
    BY <2>1, <2>3, <2>4, Zenon
  <2> QED
    BY <2>6, <2>7, Zenon DEF N
<1>2. CASE ~(T.by_peer[p] # None /\ T.by_peer[p].requested = w)
  <2> DEFINE S == Names!WithdrawAll(T, {p})
             g == Names!UniqueName(S, w, tag)
             r == [requested |-> w, granted |-> g, ip4 |-> a, last_seen |-> t]
             N == Names!AdvertiseName(T, p, w, a, tag, t)
  <2>1. N = [by_peer |-> [S.by_peer EXCEPT ![p] = r], by_name |-> [S.by_name EXCEPT ![g] = p]]
    BY <1>2, Zenon DEF Names!AdvertiseName, Names!Grant
  <2>2. S \in Names!Names /\ \A q \in Peer : q # p => S.by_peer[q] = T.by_peer[q]
    BY Zenon DEF Names!WithdrawAll, Names!Names
  <2>3. g \in Label
    BY UniqueNameType, Zenon
  <2> HIDE DEF S, g, N
  <2>4. r \in Names!Row
    BY <2>3, Zenon DEF Names!Row
  <2>5. r.last_seen = t
    BY Zenon
  <2> HIDE DEF r
  <2>6. S.by_peer \in [Peer -> Names!Row \cup {None}]
        /\ S.by_name \in [Label -> Peer \cup {None}]
    BY <2>2, Zenon DEF Names!Names
  <2>7. N \in Names!Names
    BY <2>1, <2>3, <2>4, <2>6, Zenon DEF Names!Names
  <2>8. \A q \in Peer : N.by_peer[q] = T.by_peer[q] \/ N.by_peer[q].last_seen = t
    BY <2>1, <2>2, <2>5, <2>6, Zenon
  <2> QED
    BY <2>7, <2>8, Zenon DEF N
<1> QED
  BY <1>1, <1>2, Zenon

\* Whatever the server does, the lease table keeps its invariant.
LEMMA ServerIInv == IInv /\ [LNext]_lvars => IInv'
<1> SUFFICES ASSUME IInv, [LNext]_lvars PROVE IInv'
  BY Zenon
<1> USE NoneAssumption
<1>1. ASSUME UNCHANGED <<table, file, last_persist, cfg, up, now>>, out' = NoOutput
      PROVE  IInv'
  <2>1. out' \in Output
    BY <1>1, Zenon DEF NoOutput, Output, Optional
  <2> QED
    BY <1>1, <2>1, Zenon DEF IInv, TypeOK, OneOwnerPerAddress, BindingFollowsLease
<1>2. ASSUME NEW p, NEW src, Data(p, src) PROVE IInv'
  BY <1>1, <1>2, Zenon DEF Data
<1>3. ASSUME NEW p, NEW S, Keepalive(p, S) PROVE IInv'
  BY <1>1, <1>3, Zenon DEF Keepalive
<1>4. ASSUME NEW p, NEW S, NEW A, RouteAdvert(p, S, A) PROVE IInv'
  BY <1>1, <1>4, Zenon DEF RouteAdvert
<1>5. ASSUME NEW p, NEW S, NEW a, NEW w, NameAdvert(p, S, a, w) PROVE IInv'
  BY <1>1, <1>5, Zenon DEF NameAdvert
<1>6. ASSUME NEW n \in Node, NEW p \in Peer, NEW hint \in Ip4, NEW want6 \in BOOLEAN,
             AssignReq(n, p, hint, want6)
      PROVE  IInv'
  BY <1>6, AllocateIInv, Zenon DEF AssignReq
<1>7. CASE Sweep
  BY <1>7, ReapIInv, Zenon DEF Sweep
<1>8. CASE ServerCrash \/ ServerTick
  BY <1>8, EnvironmentIInv, Zenon DEF ServerCrash, ServerTick
<1>9. ASSUME NEW c \in Configs, ServerStart(c) PROVE IInv'
  BY <1>9, StartIInv, Zenon DEF ServerStart
<1>10. CASE UNCHANGED lvars
  BY <1>10, NextIInv, Zenon DEF lvars
<1> QED
  BY <1>2, <1>3, <1>4, <1>5, <1>6, <1>7, <1>8, <1>9, <1>10, Zenon DEF LNext

\* A handler keeps the bound: it runs between two rounds of the sweeper, and the entries
\* it makes are of now.
LEMMA HandlerStaysYoung ==
  ASSUME IInv, LTypeOK, Swept, IInv', UNCHANGED <<now, up, next_sweep>>,
         clients' \in [Inner -> Optional(ClientEntry)],
         routes' \in [Net -> Optional(Subnets!SubnetRoute)],
         names' \in Names!Names,
         \A i \in Inner : clients'[i] \in {clients[i], None} \/ clients'[i].last_seen = now,
         \A n \in Net : routes'[n] \in {routes[n], None} \/ routes'[n].last_seen = now,
         \A q \in Peer : \/ names'.by_peer[q] \in {names.by_peer[q], None}
                         \/ names'.by_peer[q].last_seen = now
  PROVE  LTypeOK' /\ Swept'
<1> USE LearnAssumption
<1>1. LTypeOK'
  BY Zenon DEF LTypeOK, IInv
<1>2. now \in Int /\ next_sweep \in Int
  BY Zenon DEF LTypeOK, TypeOK
<1>3. Swept'
  <2> SUFFICES ASSUME up
               PROVE  /\ now <= next_sweep /\ next_sweep <= now + SweepEvery
                      /\ \A i \in Inner : Young(clients[i])'
                      /\ \A n \in Net : Young(routes[n])'
                      /\ \A p \in Peer : Young(names.by_peer[p])'
    BY Zenon DEF Swept
  <2>1. /\ now <= next_sweep /\ next_sweep <= now + SweepEvery
        /\ \A i \in Inner : Young(clients[i])
        /\ \A n \in Net : Young(routes[n])
        /\ \A p \in Peer : Young(names.by_peer[p])
    BY Zenon DEF Swept
  <2>2. next_sweep - now <= LeaseTTL + SweepEvery
    BY <1>2, <2>1
  <2>3. \A i \in Inner : Young(clients[i])'
    BY <2>1, <2>2, Zenon DEF Young
  <2>4. \A n \in Net : Young(routes[n])'
    BY <2>1, <2>2, Zenon DEF Young
  <2>5. \A p \in Peer : Young(names.by_peer[p])'
    BY <2>1, <2>2, Zenon DEF Young
  <2> QED
    BY <2>1, <2>3, <2>4, <2>5, Zenon
<1> QED
  BY <1>1, <1>3, Zenon

\* The sweeper's round: what it leaves has been heard of within the TTL.
LEMMA SweepStaysYoung ==
  ASSUME IInv, LTypeOK, IInv', Sweep
  PROVE  LTypeOK' /\ Swept'
<1> USE LearnAssumption
<1>1. now \in Int /\ UNCHANGED <<now, up>> /\ next_sweep' = now + SweepEvery
  BY Zenon DEF LTypeOK, TypeOK, Sweep, Reap
<1>2. /\ clients \in [Inner -> Optional(ClientEntry)]
      /\ routes \in [Net -> Optional(Subnets!SubnetRoute)]
      /\ names \in Names!Names
  BY Zenon DEF LTypeOK
<1> DEFINE D == out'.dropped
           E == ExpireClients(clients, now)
           idle == Names!IdleNames(names, now) \cup LastPeers(D)
<1>3. /\ clients' = Unlearn(E, D, now) /\ routes' = Subnets!ExpireRoutes(routes, now)
      /\ names' = Names!WithdrawAll(names, idle)
  BY Zenon DEF Sweep
<1>4. /\ E \in [Inner -> Optional(ClientEntry)]
      /\ \A i \in Inner : /\ E[i] \in {clients[i], None}
                          /\ E[i] # None => now - clients[i].last_seen <= LeaseTTL
  BY <1>1, <1>2, Zenon DEF ExpireClients, IsLive, Optional
<1> HIDE DEF D, E
<1>5. /\ clients' \in [Inner -> Optional(ClientEntry)]
      /\ \A i \in Inner : clients'[i] \in {E[i], None}
  BY <1>3, <1>4, Zenon DEF Unlearn, Optional
<1>6. \A i \in Inner : clients'[i] # None => now - clients'[i].last_seen <= LeaseTTL
  BY <1>4, <1>5, Zenon
<1>7. /\ routes' \in [Net -> Optional(Subnets!SubnetRoute)]
      /\ \A n \in Net : routes'[n] # None => now - routes'[n].last_seen <= LeaseTTL
  BY <1>1, <1>2, <1>3, ExpireRoutesTypes, Zenon
<1>8. /\ names' \in Names!Names
      /\ \A q \in Peer : names'.by_peer[q] # None =>
           names'.by_peer[q] = names.by_peer[q] /\ q \notin idle
  BY <1>2, <1>3, WithdrawTypes, Zenon
<1>9. \A q \in Peer : names'.by_peer[q] # None =>
        now - names'.by_peer[q].last_seen <= LeaseTTL
  <2>1. \A q \in Peer : names.by_peer[q] # None => names.by_peer[q].last_seen \in Int
    BY <1>2, Zenon DEF Names!Names, Names!Row
  <2> QED
    BY <1>1, <1>8, <2>1 DEF Names!IdleNames
<1>10. LTypeOK'
  BY <1>1, <1>5, <1>7, <1>8 DEF LTypeOK, IInv
<1>11. /\ \A i \in Inner : clients'[i] # None => clients'[i].last_seen \in Int
       /\ \A n \in Net : routes'[n] # None => routes'[n].last_seen \in Int
       /\ \A q \in Peer : names'.by_peer[q] # None => names'.by_peer[q].last_seen \in Int
  BY <1>5, <1>7, <1>8, Zenon DEF Optional, ClientEntry, Subnets!SubnetRoute, Names!Names, Names!Row
<1>12. /\ \A i \in Inner : Young(clients[i])'
       /\ \A n \in Net : Young(routes[n])'
       /\ \A q \in Peer : Young(names.by_peer[q])'
  BY <1>1, <1>6, <1>7, <1>9, <1>11 DEF Young
<1>13. Swept'
  BY <1>1, <1>12 DEF Swept
<1> QED
  BY <1>10, <1>13, Zenon

\* Learning from a packet or an announcement makes entries of now only.
LEMMA LearningIsNow ==
  ASSUME LTypeOK, NEW p \in Peer, NEW S, MaybeLearn(S, p)
  PROVE  /\ clients' \in [Inner -> Optional(ClientEntry)]
         /\ \A i \in Inner : clients'[i] \in {clients[i], None} \/ clients'[i].last_seen = now
<1> DEFINE G == {i \in S : MayLearn(table, i, p)}
<1>1. clients' = LearnAll(clients, G, p, now)
  BY Zenon DEF MaybeLearn
<1>2. clients \in [Inner -> Optional(ClientEntry)] /\ now \in Int
  BY Zenon DEF LTypeOK, TypeOK
<1> HIDE DEF G
<1>3. /\ clients' \in [Inner -> Optional(ClientEntry)]
      /\ \A i \in Inner : clients'[i] \in {clients[i], [peer |-> p, last_seen |-> now]}
  BY <1>1, <1>2, ClientTypes, Zenon
<1> QED
  BY <1>3

\* An AssignRequest unlearns what was dropped and learns what was granted, as of now.
LEMMA AssignStaysYoung ==
  ASSUME IInv, LTypeOK, Swept, IInv', NEW n \in Node, NEW p \in Peer, NEW hint \in Ip4,
         NEW want6 \in BOOLEAN, AssignReq(n, p, hint, want6)
  PROVE  LTypeOK' /\ Swept'
<1> DEFINE D == out'.dropped
           C == Unlearn(clients, D, now)
           G == {<<4, out'.ip4>>} \cup (IF out'.ip6 = None THEN {} ELSE {<<6, out'.ip6>>})
<1>1. /\ clients' = IF out'.status = "Ok" THEN LearnAll(C, G, p, now) ELSE C
      /\ names' = Names!WithdrawAll(names, LastPeers(D))
      /\ UNCHANGED <<routes, next_sweep>>
  BY Zenon DEF AssignReq
<1>2. UNCHANGED <<now, up>>
  BY Zenon DEF AssignReq, Allocate, AllocateRefresh, AllocateFree, AllocateReclaim,
     AllocateExhausted, Bind
<1>3. /\ clients \in [Inner -> Optional(ClientEntry)]
      /\ routes \in [Net -> Optional(Subnets!SubnetRoute)]
      /\ names \in Names!Names /\ now \in Int
  BY Zenon DEF LTypeOK, TypeOK
<1> HIDE DEF D, G
<1>4. C \in [Inner -> Optional(ClientEntry)] /\ \A i \in Inner : C[i] \in {clients[i], None}
  BY <1>3, ClientTypes, Zenon
<1> HIDE DEF C
<1>5. /\ LearnAll(C, G, p, now) \in [Inner -> Optional(ClientEntry)]
      /\ \A i \in Inner : LearnAll(C, G, p, now)[i] \in {C[i], [peer |-> p, last_seen |-> now]}
  BY <1>3, <1>4, ClientTypes, Zenon
<1>6. clients' \in [Inner -> Optional(ClientEntry)]
  BY <1>1, <1>4, <1>5, Zenon
<1>7. \A i \in Inner : clients'[i] \in {clients[i], None} \/ clients'[i].last_seen = now
  BY <1>1, <1>4, <1>5
<1>8. names' \in Names!Names
      /\ \A q \in Peer : names'.by_peer[q] \in {names.by_peer[q], None}
  BY <1>1, <1>3, WithdrawTypes, Zenon
<1> QED
  BY <1>1, <1>2, <1>3, <1>6, <1>7, <1>8, HandlerStaysYoung, Zenon

\* The types and the bound hold from the start and through every step: the handlers stamp
\* what they learn with the time, the sweeper is never late, and a start forgets everything.
LEMMA SweptInductive == IInv /\ LTypeOK /\ Swept /\ [LNext]_lvars => LTypeOK' /\ Swept'
<1> SUFFICES ASSUME IInv, LTypeOK, Swept, [LNext]_lvars PROVE LTypeOK' /\ Swept'
  BY Zenon
<1> USE LearnAssumption
<1>1. IInv'
  BY ServerIInv, Zenon
<1>2. /\ clients \in [Inner -> Optional(ClientEntry)]
      /\ routes \in [Net -> Optional(Subnets!SubnetRoute)]
      /\ names \in Names!Names /\ now \in Int /\ next_sweep \in Int
      /\ table \in Table /\ up \in BOOLEAN
  BY Zenon DEF LTypeOK, TypeOK
<1>3. ASSUME NEW p \in Peer, NEW S, MaybeLearn(S, p),
             UNCHANGED <<now, up, routes, names, next_sweep>>
      PROVE  LTypeOK' /\ Swept'
  <2>1. /\ clients' \in [Inner -> Optional(ClientEntry)]
        /\ \A i \in Inner : clients'[i] \in {clients[i], None} \/ clients'[i].last_seen = now
    BY <1>3, LearningIsNow, Zenon
  <2> QED
    BY <1>1, <1>2, <1>3, <2>1, HandlerStaysYoung, Zenon
<1>4. ASSUME NEW p \in Peer, NEW src, Data(p, src) PROVE LTypeOK' /\ Swept'
  BY <1>3, <1>4, Zenon DEF Data
<1>5. ASSUME NEW p \in Peer, NEW S, Keepalive(p, S) PROVE LTypeOK' /\ Swept'
  BY <1>3, <1>5, Zenon DEF Keepalive
<1>6. ASSUME NEW p \in Peer, NEW S, NEW A, RouteAdvert(p, S, A) PROVE LTypeOK' /\ Swept'
  <2>1. /\ MaybeLearn(S, p) /\ UNCHANGED <<now, up, names, next_sweep>>
        /\ routes' = Subnets!AdvertiseRoutes(routes, p, A, now)
    BY <1>6, Zenon DEF RouteAdvert
  <2>2. /\ clients' \in [Inner -> Optional(ClientEntry)]
        /\ \A i \in Inner : clients'[i] \in {clients[i], None} \/ clients'[i].last_seen = now
    BY <2>1, LearningIsNow, Zenon
  <2>3. /\ routes' \in [Net -> Optional(Subnets!SubnetRoute)]
        /\ \A n \in Net : routes'[n] \in {routes[n], None} \/ routes'[n].last_seen = now
    BY <1>2, <2>1, AdvertiseRoutesTypes
  <2> QED
    BY <1>1, <1>2, <2>1, <2>2, <2>3, HandlerStaysYoung, Zenon
<1>7. ASSUME NEW p \in Peer, NEW S, NEW a \in Ip4, NEW w \in Optional(Wanted),
             NameAdvert(p, S, a, w)
      PROVE  LTypeOK' /\ Swept'
  <2> DEFINE tag == IF table.by_peer[p] = None THEN a ELSE table.by_peer[p]
  <2>1. /\ MaybeLearn(S, p) /\ UNCHANGED <<now, up, routes, next_sweep>>
        /\ names' = IF w = None THEN Names!WithdrawAll(names, {p})
                    ELSE Names!AdvertiseName(names, p, w, a, tag, now)
    BY <1>7, Zenon DEF NameAdvert
  <2>2. /\ clients' \in [Inner -> Optional(ClientEntry)]
        /\ \A i \in Inner : clients'[i] \in {clients[i], None} \/ clients'[i].last_seen = now
    BY <2>1, LearningIsNow, Zenon
  <2>3. tag \in Node \cup Ip4
    BY <1>2, Zenon DEF Table, Optional
  <2> HIDE DEF tag
  <2>4. w = None \/ w \in Label
    BY Zenon DEF Optional
  <2>5. /\ names' \in Names!Names
        /\ \A q \in Peer : \/ names'.by_peer[q] \in {names.by_peer[q], None}
                           \/ names'.by_peer[q].last_seen = now
    <3>1. CASE w = None
      BY <1>2, <2>1, <3>1, WithdrawTypes, Zenon
    <3>2. CASE w # None
      BY <1>2, <2>1, <2>3, <2>4, <3>2, AdvertiseNameTypes
    <3> QED
      BY <3>1, <3>2, Zenon
  <2> QED
    BY <1>1, <1>2, <2>1, <2>2, <2>5, HandlerStaysYoung, Zenon
<1>8. ASSUME NEW n \in Node, NEW p \in Peer, NEW hint \in Ip4, NEW want6 \in BOOLEAN,
             AssignReq(n, p, hint, want6)
      PROVE  LTypeOK' /\ Swept'
  BY <1>1, <1>8, AssignStaysYoung, Zenon
<1>9. CASE Sweep
  BY <1>1, <1>9, SweepStaysYoung, Zenon
<1>10. CASE ServerCrash
  <2>1. ~up' /\ UNCHANGED <<clients, routes, names, next_sweep>>
    BY <1>10, Zenon DEF ServerCrash, Crash
  <2>2. LTypeOK'
    BY <1>1, <2>1, Zenon DEF LTypeOK, IInv
  <2>3. Swept'
    BY <2>1, Zenon DEF Swept
  <2> QED
    BY <2>2, <2>3, Zenon
<1>11. ASSUME NEW c \in Configs, ServerStart(c) PROVE LTypeOK' /\ Swept'
  <2>1. /\ now' = now /\ next_sweep' = now
        /\ clients' = [i \in Inner |-> None] /\ routes' = Subnets!NoRoutes
        /\ names' = Names!NoNames
    BY <1>11, Zenon DEF ServerStart, RestartLoad, RestartEmpty, Start
  <2>2. LTypeOK'
    BY <1>1, <1>2, <2>1, Zenon DEF LTypeOK, IInv, Optional, Subnets!NoRoutes, Names!NoNames,
       Names!Names
  <2>3. Swept'
    BY <1>2, <2>1 DEF Swept, Young, Subnets!NoRoutes, Names!NoNames
  <2> QED
    BY <2>2, <2>3, Zenon
<1>12. CASE ServerTick
  <2>1. /\ up => now < next_sweep
        /\ now' = now + 1 /\ UNCHANGED <<up, clients, routes, names, next_sweep>>
    BY <1>12, Zenon DEF ServerTick, Tick
  <2>2. LTypeOK'
    BY <1>1, <1>2, <2>1, Zenon DEF LTypeOK, IInv
  <2>3. Swept'
    BY <1>2, <2>1 DEF Swept, Young
  <2> QED
    BY <2>2, <2>3, Zenon
<1>13. CASE UNCHANGED lvars
  BY <1>1, <1>2, <1>13, Zenon DEF lvars, vars, LTypeOK, IInv, Swept, Young
<1> QED
  BY <1>4, <1>5, <1>6, <1>7, <1>8, <1>9, <1>10, <1>11, <1>12, <1>13, Zenon DEF LNext

\* Everything the server learns is forgotten within the TTL and one interval of the
\* sweeper, whether an address, a route or a name, and every variable keeps its type.
THEOREM StaleStateIsBounded == LSpec => []StaleIsBounded
<1> USE LearnAssumption
<1>1. LInit => IInv /\ LTypeOK /\ Swept
  <2> SUFFICES ASSUME LInit PROVE IInv /\ LTypeOK /\ Swept
    BY Zenon
  <2>1. IInv
    BY InitIInv, Zenon DEF LInit
  <2>2. LTypeOK
    BY <2>1 DEF LInit, LTypeOK, IInv, Optional, Subnets!NoRoutes, Names!NoNames, Names!Names
  <2>3. now = 0 /\ next_sweep = 0
    BY Zenon DEF LInit, Init
  <2>4. Swept
    BY <2>3 DEF LInit, Swept, Young, Subnets!NoRoutes, Names!NoNames
  <2> QED
    BY <2>1, <2>2, <2>4, Zenon
<1>2. LTypeOK /\ Swept => StaleIsBounded
  <2> SUFFICES ASSUME LTypeOK, Swept, up
               PROVE  /\ \A i \in Inner : clients[i] # None =>
                           now - clients[i].last_seen <= LeaseTTL + SweepEvery
                      /\ \A n \in Net : routes[n] # None =>
                           now - routes[n].last_seen <= LeaseTTL + SweepEvery
                      /\ \A p \in Peer : names.by_peer[p] # None =>
                           now - names.by_peer[p].last_seen <= LeaseTTL + SweepEvery
    BY Zenon DEF StaleIsBounded
  <2>1. now \in Int /\ next_sweep \in Int /\ now <= next_sweep
    BY Zenon DEF LTypeOK, TypeOK, Swept
  <2>2. /\ \A i \in Inner : clients[i] # None => clients[i].last_seen \in Int
        /\ \A n \in Net : routes[n] # None => routes[n].last_seen \in Int
        /\ \A q \in Peer : names.by_peer[q] # None => names.by_peer[q].last_seen \in Int
    BY Zenon DEF LTypeOK, Optional, ClientEntry, Subnets!SubnetRoute, Names!Names, Names!Row
  <2> QED
    BY <2>1, <2>2 DEF Swept, Young
<1> QED
  BY <1>1, <1>2, ServerIInv, SweptInductive, PTL DEF LSpec
=============================================================================
