--------------------------- MODULE Tables_proofs ----------------------------
(***************************************************************************)
(* Proofs about the server's tables (SubnetTable, Nat, NameTable) and what *)
(* Nat does to a packet (NatRewrite), its AddressPlan, the client's        *)
(* TunDevice and the desktop's Profiles, for any values of their constants *)
(* and any sequence of steps.                                              *)
(*                                                                         *)
(* SubnetTable: LastWordDecides is inductive together with the types, and  *)
(* the two properties of lookup and routes_for follow from it state by     *)
(* state: two networks that share an address are nested, so the longest    *)
(* match is the innermost one.                                             *)
(*                                                                         *)
(* Nat: MapsAgree needs the types.  That an answer goes to the client that *)
(* sent needs one thing more: while an address leads to an endpoint,       *)
(* nobody else's packets have left under it since.                         *)
(*                                                                         *)
(* NameTable: that the two maps are inverse is inductive as long as        *)
(* unique_name finds a free label.  With no more endpoints than labels to  *)
(* try it does: by_name would otherwise map them one to one into the other *)
(* endpoints.                                                              *)
(*                                                                         *)
(* TunDevice: between assignments the guard names what is in the kernel.   *)
(* While one is applied it does not (the kernel may have dropped the IPv4  *)
(* routes), so the invariant says what holds throughout: every route is    *)
(* the guard's or one whose removal failed, no prefix has two, and the     *)
(* guard's IPv6 prefix is there, because sync_prefix will not add it       *)
(* again.                                                                  *)
(*                                                                         *)
(* Profiles: a state file belongs to the profile that has the name now,    *)
(* unless it is just being unlinked or a deletion of that name went wrong. *)
(*                                                                         *)
(* NatRewrite: folding a sum comes to its residue modulo Ones, zero for    *)
(* zero only.  Adjusting a checksum changes the sum it verifies by a       *)
(* multiple of Ones, and no sum is zero, so that the verdict is the same.  *)
(*                                                                         *)
(* AddressPlan: masking an address with a prefix clears its low bits, so   *)
(* that networks are blocks of addresses, nested if the prefix is longer   *)
(* and the first address is inside.                                        *)
(***************************************************************************)
EXTENDS SubnetTable, Nat, NatRewrite, NameTable, TunDevice, Profiles, AddressPlan,
        FiniteSetTheorems, WellFoundedInduction, TLAPS

-----------------------------------------------------------------------------
(* SubnetTable.                                                            *)

SInv == STypeOK /\ LastWordDecides

\* Every clause of LastWordDecides survives an advert, a sweep and a tick.
LEMMA SInvInductive == SInv /\ [SNext]_svars => SInv'
<1> SUFFICES ASSUME SInv, [SNext]_svars PROVE SInv'
  BY Zenon
<1> USE NetAssumption, NoRouteAssumption DEF SInv
<1>1. ASSUME NEW p \in Peer, NEW advertised \in SUBSET Net,
             AdvertisesRoutes(p, advertised)
      PROVE  SInv'
  <2> USE <1>1 DEF AdvertisesRoutes, AdvertiseRoutes
  <2>1. STypeOK'
    BY Zenon DEF STypeOK, Advert, SubnetRoute, Approves
  <2>2. LastWordDecides'
    <3> SUFFICES ASSUME NEW n \in Net
                 PROVE  LET w == latest'[n]
                            stands == w # None /\ n \in said'[w.peer] IN
                        /\ routes'[n] # None =>
                             stands /\ routes'[n] = [peer |-> w.peer,
                                          approved |-> Approves(n), last_seen |-> w.at]
                        /\ stands /\ clock' - w.at <= RouteTTL => routes'[n] # None
      BY Zenon DEF LastWordDecides
    <3>1. CASE n \in advertised
      <4> DEFINE w == [peer |-> p, at |-> clock]
      <4>1. w \in Advert /\ latest'[n] = w /\ said'[p] = advertised
        BY <3>1, Zenon DEF STypeOK, Advert
      <4>2. routes'[n] = [peer |-> p, approved |-> Approves(n), last_seen |-> clock]
        BY <3>1, Zenon
      <4>3. Approves(n) \in BOOLEAN /\ clock \in Int
        BY Zenon DEF STypeOK, Approves
      <4>4. routes'[n] \in SubnetRoute
        BY <4>2, <4>3 DEF SubnetRoute
      <4> QED
        BY <3>1, <4>1, <4>2, <4>4, Zenon
    <3>2. CASE n \notin advertised
      BY <3>2 DEF STypeOK, Advert, SubnetRoute, LastWordDecides
    <3> QED
      BY <3>1, <3>2, Zenon
  <2> QED
    BY <2>1, <2>2, Zenon
<1>2. CASE ExpiresRoutes
  <2>1. STypeOK'
    BY <1>2, Zenon DEF ExpiresRoutes, ExpireRoutes, STypeOK
  <2>2. LastWordDecides'
    BY <1>2 DEF ExpiresRoutes, ExpireRoutes, STypeOK, LastWordDecides, SubnetRoute, Advert
  <2> QED
    BY <2>1, <2>2, Zenon
<1>3. CASE RouteClock
  <2>1. STypeOK'
    BY <1>3, HorizonAssumption DEF RouteClock, Tick, STypeOK
  <2>2. LastWordDecides'
    BY <1>3, HorizonAssumption DEF RouteClock, Tick, STypeOK, LastWordDecides, Advert
  <2> QED
    BY <2>1, <2>2, Zenon
<1>4. CASE UNCHANGED svars
  BY <1>4, Zenon DEF svars, STypeOK, LastWordDecides
<1> QED
  BY <1>1, <1>2, <1>3, <1>4, Zenon DEF SNext

\* Types, and: a route is held for the endpoint that advertised its network last,
\* unless that endpoint's newest advert left it out or it fell silent.
THEOREM SubnetSafety == SSpec => [](STypeOK /\ LastWordDecides)
<1>1. SInit => SInv
  BY NetAssumption, NoRouteAssumption DEF SInit, SInv, STypeOK, LastWordDecides, NoRoutes
<1> QED
  BY <1>1, SInvInductive, PTL DEF SSpec, SInv

-----------------------------------------------------------------------------
\* Among the networks that match a destination there is a longest prefix.
LEMMA LongestExists ==
  ASSUME NEW M, M \subseteq Net, M # {}
  PROVE  \E n \in M : \A o \in M : Cardinality(n) <= Cardinality(o)
<1> DEFINE C == {Cardinality(n) : n \in M}
           R == {e \in Nat \X Nat : e[1] < e[2]}
<1>1. \A n \in M : Cardinality(n) \in Nat
  <2> SUFFICES ASSUME NEW n \in M PROVE Cardinality(n) \in Nat
    BY Zenon
  <2>1. n \subseteq Addr
    BY NetAssumption, Zenon
  <2>2. IsFiniteSet(n)
    BY <2>1, NetAssumption, FS_Subset, Zenon
  <2> QED
    BY <2>2, FS_CardinalityType, Zenon
<1>2. C \subseteq Nat /\ C # {}
  BY <1>1, Zenon
<1>3. IsWellFoundedOn(R, Nat)
  BY NatLessThanWellFounded, Zenon DEF OpToRel
<1> HIDE DEF R
<1>4. PICK c \in C : \A d \in C : ~(<<d, c>> \in R)
  BY <1>2, <1>3, WFMin, Zenon
<1>5. ASSUME NEW d \in C PROVE c <= d
  <2>1. c \in Nat /\ d \in Nat
    BY <1>2, Zenon
  <2>2. ~(d < c)
    BY <1>4, <2>1, Zenon DEF R
  <2> QED
    BY <2>1, <2>2
<1> QED
  BY <1>5, Zenon

\* lookup answers with the endpoint of a matching route than which none is longer.
LEMMA LookupIsLongest ==
  ASSUME NEW dst, MatchingRoutes(routes, dst) # {}
  PROVE  \E n \in MatchingRoutes(routes, dst) :
           /\ LookupRoute(routes, dst) = routes[n].peer
           /\ \A o \in MatchingRoutes(routes, dst) : Cardinality(n) <= Cardinality(o)
<1> DEFINE m == MatchingRoutes(routes, dst)
<1>1. m \subseteq Net
  BY Zenon DEF MatchingRoutes
<1>2. \E n \in m : \A o \in m : Cardinality(n) <= Cardinality(o)
  BY <1>1, LongestExists, Zenon
<1>3. LookupRoute(routes, dst)
        = routes[CHOOSE n \in m : \A o \in m : Cardinality(n) <= Cardinality(o)].peer
  BY Zenon DEF LookupRoute
<1> HIDE DEF m
<1> QED
  BY <1>2, <1>3, Zenon DEF m

\* Of two networks that share an address the one with no more addresses is inside
\* the other.
LEMMA LongerIsInside ==
  ASSUME NEW m \in Net, NEW n \in Net, NEW dst \in m, dst \in n,
         Cardinality(m) <= Cardinality(n)
  PROVE  m \subseteq n
<1>1. CASE n \subseteq m
  <2>1. IsFiniteSet(m)
    BY NetAssumption, FS_Subset, Zenon
  <2>2. Cardinality(n) <= Cardinality(m) /\ (Cardinality(n) = Cardinality(m) => n = m)
    BY <1>1, <2>1, FS_Subset, Zenon
  <2>3. IsFiniteSet(n) /\ Cardinality(m) \in Nat /\ Cardinality(n) \in Nat
    BY <1>1, <2>1, FS_Subset, FS_CardinalityType, Zenon
  <2> QED
    BY <2>2, <2>3
<1> QED
  BY <1>1, NetAssumption, Zenon

\* Networks outside the approval policy are never routed or pushed, and a pushed
\* network leads elsewhere than to the client it is pushed to: both follow in
\* every state from who holds each route.
LEMMA LookupAgrees ==
  ASSUME SInv
  PROVE  UnapprovedNeverUsed /\ PushedRoutesLeadElsewhere
<1>1. \A n \in Net : routes[n] # None => routes[n] \in SubnetRoute
                                       /\ routes[n].approved = Approves(n)
  BY DEF SInv, STypeOK, LastWordDecides
<1>2. \A p \in Peer : \A n \in RoutesFor(routes, p) : Approves(n)
  BY <1>1, Zenon DEF RoutesFor
<1>3. ASSUME NEW dst \in Addr, LookupRoute(routes, dst) # None
      PROVE  \E n \in Net : /\ Approves(n) /\ dst \in n /\ routes[n] # None
                            /\ routes[n].peer = LookupRoute(routes, dst)
  <2>1. MatchingRoutes(routes, dst) # {}
    BY <1>3, Zenon DEF LookupRoute
  <2>2. PICK n \in MatchingRoutes(routes, dst) : LookupRoute(routes, dst) = routes[n].peer
    BY <2>1, LookupIsLongest, Zenon
  <2> QED
    BY <1>1, <2>2, Zenon DEF MatchingRoutes
<1>4. ASSUME NEW p \in Peer, NEW n \in RoutesFor(routes, p), NEW dst \in n
      PROVE  /\ LookupRoute(routes, dst) # None
             /\ LookupRoute(routes, dst) = p =>
                  \E o \in Net : /\ o \subseteq n /\ o # n /\ dst \in o
                                 /\ routes[o] # None /\ routes[o].peer = p
  <2>1. n \in Net /\ n \in MatchingRoutes(routes, dst) /\ routes[n].peer # p
    BY Zenon DEF RoutesFor, MatchingRoutes
  <2>2. PICK o \in MatchingRoutes(routes, dst) :
               /\ LookupRoute(routes, dst) = routes[o].peer
               /\ Cardinality(o) <= Cardinality(n)
    BY <2>1, LookupIsLongest, Zenon
  <2>3. o \in Net /\ dst \in o /\ routes[o] # None
    BY Zenon DEF MatchingRoutes
  <2>4. o \subseteq n
    BY <2>1, <2>2, <2>3, LongerIsInside, Zenon
  <2>5. routes[o].peer \in Peer
    BY <1>1, <2>3, Zenon DEF SubnetRoute
  <2> QED
    BY <2>1, <2>2, <2>3, <2>4, <2>5, NoRouteAssumption, Zenon
<1> QED
  BY <1>2, <1>3, <1>4, Zenon DEF UnapprovedNeverUsed, PushedRoutesLeadElsewhere

\* Whatever is advertised, moved, nested or expired: what lookup answers comes from
\* an approved network that contains the destination.
THEOREM UnapprovedSafety == SSpec => []UnapprovedNeverUsed
<1>1. SInit => SInv
  BY NetAssumption, NoRouteAssumption DEF SInit, SInv, STypeOK, LastWordDecides, NoRoutes
<1>2. SInv => UnapprovedNeverUsed
  BY LookupAgrees, Zenon
<1> QED
  BY <1>1, <1>2, SInvInductive, PTL DEF SSpec

\* Whatever is advertised, moved, nested or expired: a pushed network resolves, and
\* not back to the client it was pushed to unless that holds a longer prefix.
THEOREM PushSafety == SSpec => []PushedRoutesLeadElsewhere
<1>1. SInit => SInv
  BY NetAssumption, NoRouteAssumption DEF SInit, SInv, STypeOK, LastWordDecides, NoRoutes
<1>2. SInv => PushedRoutesLeadElsewhere
  BY LookupAgrees, Zenon
<1> QED
  BY <1>1, <1>2, SInvInductive, PTL DEF SSpec

-----------------------------------------------------------------------------
(* Nat.                                                                    *)

SenderIsHolder == \A a \in Pool : by_internal[a] # None => sender[a] = by_internal[a]

NatInv ==
  NatTypeOK /\ MapsAgree /\ SenderIsHolder /\ ExhaustedMeansFull /\ ReplyGoesToSender

-----------------------------------------------------------------------------
\* The remainder of a number below the modulus, or one round above that.
LEMMA ModOfARound ==
  ASSUME NEW s \in Nat \ {0}, NEW x \in 0 .. s - 1
  PROVE  x % s = x /\ (x + s) % s = x
OBVIOUS

\* A remainder is below the modulus.
LEMMA ModBelow ==
  ASSUME NEW s \in Nat \ {0}, NEW x \in Nat
  PROVE  x % s \in 0 .. s - 1
OBVIOUS

\* One round of the probe of LeasePool::allocate stays inside the pool and meets
\* every address of it, wherever the cursor stands.
LEMMA ProbeCoversPool ==
  ASSUME NEW c \in Pool
  PROVE  /\ \A k \in Probes : Cand(c, k) \in Pool
         /\ \A a \in Pool : \E k \in Probes : Cand(c, k) = a
<1> USE PoolAssumption DEF Pool
<1>1. Span \in Nat \ {0}
  BY DEF Span
<1>2. ASSUME NEW k \in Probes PROVE Cand(c, k) \in Pool
  <2>1. c - PoolStart + k \in Nat
    BY DEF Probes, Span
  <2>2. (c - PoolStart + k) % Span \in 0 .. Span - 1
    BY <1>1, <2>1, ModBelow, Zenon
  <2> QED
    BY <2>2 DEF Cand, Span
<1>3. ASSUME NEW a \in Pool PROVE \E k \in Probes : Cand(c, k) = a
  <2> DEFINE k == IF c <= a THEN a - c ELSE a - c + Span
  <2>1. k \in Probes
    BY DEF Probes, Span
  <2>2. a - PoolStart \in 0 .. Span - 1
    BY DEF Span
  <2>3. c - PoolStart + k \in {a - PoolStart, a - PoolStart + Span}
    BY <1>1
  <2>4. (c - PoolStart + k) % Span = a - PoolStart
    BY <1>1, <2>2, <2>3, ModOfARound, Zenon
  <2> QED
    BY <2>1, <2>4 DEF Cand
<1> QED
  BY <1>2, <1>3, Zenon

\* allocate finds a free address of the pool if a round of the probe meets one.
LEMMA SkippedIsFree ==
  ASSUME NatTypeOK, \E k \in Probes : IsFree(leases, Cand(cursor, k))
  PROVE  LET k == Skipped(leases, cursor) IN
         /\ k \in Probes /\ cursor \in Pool
         /\ Cand(cursor, k) \in Pool /\ IsFree(leases, Cand(cursor, k))
<1> DEFINE F == {k \in Probes : IsFree(leases, Cand(cursor, k))}
           R == {e \in Nat \X Nat : e[1] < e[2]}
           First(k) == /\ IsFree(leases, Cand(cursor, k))
                       /\ \A j \in 0 .. k - 1 : ~IsFree(leases, Cand(cursor, j))
<1>1. cursor \in Pool /\ Probes \subseteq Nat
  BY PoolAssumption DEF NatTypeOK, Probes, Span
<1>2. IsWellFoundedOn(R, Nat)
  BY NatLessThanWellFounded, Zenon DEF OpToRel
<1> HIDE DEF R
<1>3. PICK k \in F : \A j \in F : ~(<<j, k>> \in R)
  BY <1>1, <1>2, WFMin, Zenon
<1>4. ASSUME NEW j \in 0 .. k - 1 PROVE ~IsFree(leases, Cand(cursor, j))
  <2>1. k \in Nat /\ j \in Nat /\ j < k
    BY <1>1
  <2>2. <<j, k>> \in R
    BY <2>1, Zenon DEF R
  <2>3. j \in Probes
    BY <2>1, PoolAssumption DEF Probes, Span
  <2> QED
    BY <1>3, <2>2, <2>3, Zenon
<1>5. \E i \in Probes : First(i)
  BY <1>4, Zenon
<1>6. Skipped(leases, cursor) \in Probes /\ First(Skipped(leases, cursor))
  BY <1>5, Zenon DEF Skipped
<1> QED
  BY <1>1, <1>6, ProbeCoversPool, Zenon

-----------------------------------------------------------------------------
\* Refreshing a lease frees and leases nothing.
LEMMA RefreshedKeeps ==
  ASSUME NatTypeOK, NEW b \in Pool
  PROVE  LET L == Refreshed(leases, b, clock) IN
         /\ L \in [Pool -> Optional(Int)]
         /\ \A a \in Pool : L[a] = None <=> leases[a] = None
BY NoneAssumption, Zenon DEF Refreshed, NatTypeOK, Optional

\* The invariant survives a packet from an endpoint that has a session,
LEMMA KnownKeeps ==
  ASSUME NatInv, NEW p \in Peer, NEW src \in ClientIp, IngressKnown(p, src)
  PROVE  NatInv'
<1> USE NoneAssumption DEF NatInv, IngressKnown
<1> DEFINE b == by_peer[p].internal
<1>1. b \in Pool /\ by_internal[b] = p
  BY DEF NatTypeOK, Optional, Session, MapsAgree
<1>2. /\ leases' \in [Pool -> Optional(Int)]
      /\ \A a \in Pool : leases'[a] = None <=> leases[a] = None
  BY <1>1, RefreshedKeeps, Zenon
<1>3. NatTypeOK'
  BY <1>1, <1>2, Zenon DEF NatTypeOK, Optional, Reply
<1>4. MapsAgree'
  BY <1>2 DEF MapsAgree
<1>5. SenderIsHolder'
  BY <1>1, Zenon DEF SenderIsHolder, NatTypeOK
<1>6. ExhaustedMeansFull' /\ ReplyGoesToSender'
  BY Zenon DEF ExhaustedMeansFull, ReplyGoesToSender
<1> QED
  BY <1>3, <1>4, <1>5, <1>6, Zenon

\* ... from one that is given a free address,
LEMMA NewKeeps ==
  ASSUME NatInv, NEW p \in Peer, NEW src \in ClientIp, IngressNew(p, src)
  PROVE  NatInv'
<1> USE NoneAssumption, PoolAssumption DEF NatInv
<1> DEFINE k == Skipped(leases, cursor)
           b == Cand(cursor, k)
<1>1. /\ k \in Probes /\ cursor \in Pool /\ b \in Pool
      /\ b # ServerIp /\ leases[b] = None
  BY SkippedIsFree, Zenon DEF IngressNew, IsFree
<1>2. /\ by_peer[p] = None
      /\ leases' = [leases EXCEPT ![b] = clock]
      /\ cursor' = NextCursor(cursor, k)
      /\ by_peer' = [by_peer EXCEPT ![p] = [internal |-> b, client_ip |-> src]]
      /\ by_internal' = [by_internal EXCEPT ![b] = p]
      /\ reply' = [call |-> "Rewritten", peer |-> p, internal |-> b]
      /\ sender' = [sender EXCEPT ![b] = p]
      /\ clock' = clock
  BY Zenon DEF IngressNew
<1>3. cursor' \in Int /\ cursor' \in Pool
  BY <1>1, <1>2 DEF NextCursor, Pool
<1> HIDE DEF k, b
<1>4. [internal |-> b, client_ip |-> src] \in Session
  BY <1>1, Zenon DEF Session
<1>5. NatTypeOK'
  BY <1>1, <1>2, <1>3, <1>4, Zenon DEF NatTypeOK, Optional, Reply
<1>6. MapsAgree'
  <2>1. by_internal[b] = None
    BY <1>1, Zenon DEF MapsAgree
  <2>2. \A q \in Peer : by_peer[q] # None => by_peer[q].internal # b
    BY <1>1, <2>1 DEF MapsAgree
  <2>3. ASSUME NEW a \in Pool, NEW q \in Peer
        PROVE  by_internal'[a] = q <=> by_peer'[q] # None /\ by_peer'[q].internal = a
    BY <1>1, <1>2, <1>4, <2>1, <2>2 DEF MapsAgree, NatTypeOK
  <2>4. ASSUME NEW a \in Pool
        PROVE  /\ leases'[a] = None <=> by_internal'[a] = None
               /\ leases'[a] # None => a # ServerIp
    BY <1>1, <1>2 DEF MapsAgree, NatTypeOK
  <2> QED
    BY <2>3, <2>4, Zenon DEF MapsAgree
<1>7. SenderIsHolder'
  BY <1>1, <1>2, Zenon DEF SenderIsHolder, NatTypeOK
<1>8. ExhaustedMeansFull' /\ ReplyGoesToSender'
  BY <1>2, Zenon DEF ExhaustedMeansFull, ReplyGoesToSender
<1> QED
  BY <1>5, <1>6, <1>7, <1>8, Zenon

\* ... from one that is refused, although the probe met every address,
LEMMA ExhaustedKeeps ==
  ASSUME NatInv, NEW p \in Peer, NEW src \in ClientIp, IngressExhausted(p, src)
  PROVE  NatInv'
<1> USE DEF NatInv, IngressExhausted
<1>1. NatTypeOK' /\ MapsAgree' /\ SenderIsHolder'
  BY DEF NatTypeOK, Optional, Reply, MapsAgree, SenderIsHolder
<1>2. ExhaustedMeansFull'
  <2>1. CASE PoolStart <= PoolEnd
    BY <2>1, ProbeCoversPool, Zenon DEF NatTypeOK, ExhaustedMeansFull, Free
  <2>2. CASE ~(PoolStart <= PoolEnd)
    <3>1. Pool = {}
      BY <2>2, PoolAssumption DEF Pool
    <3> QED
      BY <3>1, Zenon DEF ExhaustedMeansFull, Free
  <2> QED
    BY <2>1, <2>2, Zenon
<1>3. ReplyGoesToSender'
  BY Zenon DEF ReplyGoesToSender
<1> QED
  BY <1>1, <1>2, <1>3, Zenon

\* ... a control message,
LEMMA TouchKeeps ==
  ASSUME NatInv, NEW p \in Peer, Touch(p)
  PROVE  NatInv'
<1> USE NoneAssumption DEF NatInv, Touch
<1>1. /\ leases' \in [Pool -> Optional(Int)]
      /\ \A a \in Pool : leases'[a] = None <=> leases[a] = None
  <2>1. CASE by_peer[p] = None
    BY <2>1, Zenon DEF NatTypeOK
  <2>2. CASE by_peer[p] # None
    <3>1. by_peer[p].internal \in Pool
      BY <2>2, Zenon DEF NatTypeOK, Optional, Session
    <3> QED
      BY <2>2, <3>1, RefreshedKeeps, Zenon
  <2> QED
    BY <2>1, <2>2, Zenon
<1>2. NatTypeOK' /\ MapsAgree' /\ SenderIsHolder'
  BY <1>1 DEF NatTypeOK, Reply, MapsAgree, SenderIsHolder
<1>3. ExhaustedMeansFull' /\ ReplyGoesToSender'
  BY Zenon DEF ExhaustedMeansFull, ReplyGoesToSender
<1> QED
  BY <1>2, <1>3, Zenon

\* ... a packet from the TUN device,
LEMMA EgressKeeps ==
  ASSUME NatInv, NEW dst \in Pool, Egress(dst)
  PROVE  NatInv'
<1> USE NoneAssumption DEF NatInv
<1> DEFINE p == by_internal[dst]
           known == p # None /\ by_peer[p] # None
<1>1. /\ leases' = IF known THEN Refreshed(leases, dst, clock) ELSE leases
      /\ reply' = [call |-> "egress", dst |-> dst,
                   peer |-> IF known THEN p ELSE None,
                   client_ip |-> IF known THEN by_peer[p].client_ip ELSE None]
      /\ UNCHANGED <<cursor, by_peer, by_internal, clock, sender>>
  BY Zenon DEF Egress
<1>2. /\ leases' \in [Pool -> Optional(Int)]
      /\ \A a \in Pool : leases'[a] = None <=> leases[a] = None
  BY <1>1, RefreshedKeeps, Zenon DEF NatTypeOK
<1>3. reply' \in Reply
  <2>1. p \in Optional(Peer) /\ (known => by_peer[p].client_ip \in ClientIp)
    BY Zenon DEF NatTypeOK, Optional, Session
  <2> QED
    BY <1>1, <2>1, Zenon DEF Reply, Optional
<1>4. NatTypeOK' /\ MapsAgree' /\ SenderIsHolder'
  BY <1>1, <1>2, <1>3 DEF NatTypeOK, MapsAgree, SenderIsHolder
<1>5. ExhaustedMeansFull'
  BY <1>1, Zenon DEF ExhaustedMeansFull
<1>6. ReplyGoesToSender'
  BY <1>1, Zenon DEF ReplyGoesToSender, SenderIsHolder
<1> QED
  BY <1>4, <1>5, <1>6, Zenon

\* ... and the sweeper.
LEMMA ReapKeeps ==
  ASSUME NatInv, Reap
  PROVE  NatInv'
<1> USE NoneAssumption DEF NatInv
<1> DEFINE freed == Idle(leases, clock)
<1>1. /\ leases' = [a \in Pool |-> IF a \in freed THEN None ELSE leases[a]]
      /\ by_internal' = [a \in Pool |-> IF a \in freed THEN None ELSE by_internal[a]]
      /\ by_peer' = [p \in Peer |-> IF \E a \in freed : by_internal[a] = p
                                    THEN None ELSE by_peer[p]]
      /\ reply' = [call |-> "none"]
      /\ UNCHANGED <<cursor, clock, sender>>
  BY Zenon DEF Reap
<1>2. freed \subseteq Pool
  BY Zenon DEF Idle
<1> HIDE DEF freed
<1>3. NatTypeOK'
  BY <1>1, Zenon DEF NatTypeOK, Optional, Reply
<1>4. MapsAgree'
  <2>1. ASSUME NEW a \in Pool, NEW p \in Peer
        PROVE  by_internal'[a] = p <=> by_peer'[p] # None /\ by_peer'[p].internal = a
    BY <1>1, <1>2 DEF MapsAgree
  <2>2. ASSUME NEW a \in Pool
        PROVE  /\ leases'[a] = None <=> by_internal'[a] = None
               /\ leases'[a] # None => a # ServerIp
    BY <1>1, Zenon DEF MapsAgree
  <2> QED
    BY <2>1, <2>2, Zenon DEF MapsAgree
<1>5. SenderIsHolder'
  BY <1>1, Zenon DEF SenderIsHolder
<1>6. ExhaustedMeansFull' /\ ReplyGoesToSender'
  BY <1>1, Zenon DEF ExhaustedMeansFull, ReplyGoesToSender
<1> QED
  BY <1>3, <1>4, <1>5, <1>6, Zenon

\* Every step of the NAT keeps the invariant.
LEMMA NatInvInductive == NatInv /\ [NatNext]_natvars => NatInv'
<1> SUFFICES ASSUME NatInv, [NatNext]_natvars PROVE NatInv'
  BY Zenon
<1>1. CASE IngressInvalid
  BY <1>1 DEF NatInv, IngressInvalid, NatTypeOK, Reply, MapsAgree, SenderIsHolder,
              ExhaustedMeansFull, ReplyGoesToSender
<1>2. CASE NatClock
  BY <1>2, HorizonAssumption
     DEF NatInv, NatClock, Tick, NatTypeOK, Reply, MapsAgree, SenderIsHolder,
         ExhaustedMeansFull, ReplyGoesToSender
<1>3. CASE UNCHANGED natvars
  BY <1>3 DEF natvars, NatInv, NatTypeOK, MapsAgree, SenderIsHolder,
              ExhaustedMeansFull, ReplyGoesToSender, Free, IsFree
<1> QED
  BY <1>1, <1>2, <1>3, KnownKeeps, NewKeeps, ExhaustedKeeps, TouchKeeps, EgressKeeps, ReapKeeps,
     Zenon DEF NatNext

\* The three maps of the NAT agree, the pool is refused only when it is full, and
\* an answer goes to the client whose packets left under its address.
THEOREM NatSafety ==
  NatSpec => [](NatTypeOK /\ MapsAgree /\ ExhaustedMeansFull /\ ReplyGoesToSender)
<1>1. NatInit => NatInv
  BY PoolAssumption, NoneAssumption
     DEF NatInit, NatInv, NatTypeOK, Pool, Optional, Reply, MapsAgree, SenderIsHolder,
         ExhaustedMeansFull, ReplyGoesToSender
<1>2. NatInv => NatTypeOK /\ MapsAgree /\ ExhaustedMeansFull /\ ReplyGoesToSender
  BY Zenon DEF NatInv
<1> QED
  BY <1>1, <1>2, NatInvInductive, PTL DEF NatSpec

\* No step of another client or of the sweeper takes a client's internal address
\* before it has been idle for longer than the TTL.
THEOREM NatStability == NatSpec => InternalIsStable
<1>1. NatInit => NatInv
  BY PoolAssumption, NoneAssumption
     DEF NatInit, NatInv, NatTypeOK, Pool, Optional, Reply, MapsAgree, SenderIsHolder,
         ExhaustedMeansFull, ReplyGoesToSender
<1> DEFINE Keeps ==
      \A p \in Peer :
        by_peer[p] # None =>
          \/ by_peer'[p] = by_peer[p]
          \/ clock - leases[by_peer[p].internal] > NatTTL
<1>2. NatInv /\ [NatNext]_natvars => [Keeps]_natvars
  <2> SUFFICES ASSUME NatInv, NatNext, NEW p \in Peer, by_peer[p] # None
               PROVE  \/ by_peer'[p] = by_peer[p]
                      \/ clock - leases[by_peer[p].internal] > NatTTL
    BY Zenon
  <2>1. CASE \E q \in Peer, src \in ClientIp : IngressNew(q, src)
    BY <2>1, Zenon DEF IngressNew, NatInv, NatTypeOK
  <2>2. CASE Reap
    <3> SUFFICES ASSUME by_peer'[p] # by_peer[p]
                 PROVE  clock - leases[by_peer[p].internal] > NatTTL
      BY Zenon
    <3>1. PICK a \in Idle(leases, clock) : by_internal[a] = p
      BY <2>2, Zenon DEF Reap
    <3>2. a \in Pool /\ clock - leases[a] > NatTTL
      BY Zenon DEF Idle
    <3>3. by_peer[p].internal = a
      BY <3>1, <3>2, Zenon DEF NatInv, MapsAgree
    <3> QED
      BY <3>2, <3>3, Zenon
  <2>3. CASE \E q \in Peer, src \in ClientIp :
               IngressKnown(q, src) \/ IngressExhausted(q, src)
    BY <2>3, Zenon DEF IngressKnown, IngressExhausted
  <2>4. CASE IngressInvalid \/ (\E q \in Peer : Touch(q)) \/ (\E d \in Pool : Egress(d))
    BY <2>4, Zenon DEF IngressInvalid, Touch, Egress
  <2>5. CASE NatClock
    BY <2>5, Zenon DEF NatClock
  <2> QED
    BY <2>1, <2>2, <2>3, <2>4, <2>5, Zenon DEF NatNext
<1> QED
  BY <1>1, <1>2, NatInvInductive, PTL DEF NatSpec, InternalIsStable

-----------------------------------------------------------------------------
(* NameTable.                                                              *)

\* What unique_name may answer.
Offered(wanted, tag) ==
  LET cand == Candidates[wanted, tag] IN
  ({wanted} \cup {cand[i] : i \in 1 .. Len(cand)}) \ {ServerName}

\* A request has more answers than others can hold labels: unique_name tries the
\* wanted one and 255 candidates, which is enough for 256 endpoints.
EnoughCandidates ==
  /\ IsFiniteSet(Peer)
  /\ \A wanted \in Label, tag \in Tag :
       Cardinality(Offered(wanted, tag)) >= Cardinality(Peer)

\* by_name is the inverse of by_peer, and nobody has the server's name.
NamesOK(T) ==
  /\ T \in Names
  /\ \A p \in Peer, l \in Label :
       T.by_name[l] = p <=> /\ T.by_peer[p] # None
                            /\ T.by_peer[p].granted = l
  /\ \A p \in Peer : T.by_peer[p] # None => T.by_peer[p].granted # ServerName

NInv == NamesOK(names) /\ clock \in Int

\* withdraw and expire free the labels of the endpoints they remove, and theirs
\* only.
LEMMA WithdrawKeepsNames ==
  ASSUME NEW T, NamesOK(T), NEW D, D \subseteq Peer
  PROVE  /\ NamesOK(WithdrawAll(T, D))
         /\ \A p \in Peer : WithdrawAll(T, D).by_peer[p] =
                              IF p \in D THEN None ELSE T.by_peer[p]
<1> DEFINE U == WithdrawAll(T, D)
<1> USE NameAssumption
<1>1. \A p \in Peer : U.by_peer[p] = IF p \in D THEN None ELSE T.by_peer[p]
  BY Zenon DEF WithdrawAll
<1>2. \A l \in Label : U.by_name[l] = IF \E p \in D : /\ T.by_name[l] = p
                                                     /\ T.by_peer[p] # None
                                                     /\ T.by_peer[p].granted = l
                                     THEN None ELSE T.by_name[l]
  BY Zenon DEF WithdrawAll
<1>3. U \in Names
  BY Zenon DEF WithdrawAll, Names, NamesOK
<1> HIDE DEF U
<1>4. \A p \in Peer, l \in Label :
        U.by_name[l] = p <=> U.by_peer[p] # None /\ U.by_peer[p].granted = l
  BY <1>1, <1>2 DEF NamesOK
<1>5. \A p \in Peer : U.by_peer[p] # None => U.by_peer[p].granted # ServerName
  BY <1>1, Zenon DEF NamesOK
<1> QED
  BY <1>1, <1>3, <1>4, <1>5, Zenon DEF NamesOK, U

\* unique_name grants an endpoint without a row a label that nobody has.
LEMMA UniqueIsFree ==
  ASSUME EnoughCandidates, NEW T, NamesOK(T), NEW p \in Peer, T.by_peer[p] = None,
         NEW wanted \in Label, NEW tag \in Tag
  PROVE  /\ UniqueName(T, wanted, tag) \in Label
         /\ ~NameTaken(T, UniqueName(T, wanted, tag))
<1> DEFINE cand == Candidates[wanted, tag]
           free == {i \in 1 .. Len(cand) : ~NameTaken(T, cand[i])}
           least == CHOOSE i \in free : \A j \in free : i <= j
           C == ({wanted} \cup {cand[i] : i \in 1 .. Len(cand)}) \ {ServerName}
<1> USE NameAssumption
<1>1. cand \in Seq(Label)
  BY Zenon
<1>5. IsFiniteSet(Peer) /\ Cardinality(C) >= Cardinality(Peer)
  BY Zenon DEF EnoughCandidates, Offered
<1>3. UniqueName(T, wanted, tag) =
        IF ~NameTaken(T, wanted) THEN wanted
        ELSE IF free = {} THEN cand[1] ELSE cand[least]
  BY Zenon DEF UniqueName
<1> HIDE DEF cand
<1>2. \A i \in 1 .. Len(cand) : cand[i] \in Label
  BY <1>1
<1>4. Len(cand) \in Nat /\ C \subseteq Label
  BY <1>1, <1>2
<1>6. \A l \in Label : T.by_name[l] \in Peer \cup {None}
  BY Zenon DEF NamesOK, Names
<1>7. NameTaken(T, wanted) => free # {}
  <2> SUFFICES ASSUME NameTaken(T, wanted), free = {} PROVE FALSE
    BY Zenon
  <2> DEFINE f == [c \in C |-> T.by_name[c]]
  <2>1. \A c \in C : T.by_name[c] # None
    BY Zenon DEF NameTaken
  <2>2. \A c \in C : T.by_name[c] \in Peer \ {p}
    BY <1>4, <1>6, <2>1, Zenon DEF NamesOK
  <2>3. \A b, c \in C : T.by_name[b] = T.by_name[c] => b = c
    <3> SUFFICES ASSUME NEW b \in C, NEW c \in C, T.by_name[b] = T.by_name[c]
                 PROVE  b = c
      BY Zenon
    <3>1. b \in Label /\ c \in Label /\ T.by_name[b] \in Peer
      BY <1>4, <2>2, Zenon
    <3>2. T.by_peer[T.by_name[b]].granted = b /\ T.by_peer[T.by_name[b]].granted = c
      BY <3>1 DEF NamesOK
    <3> QED
      BY <3>2, Zenon
  <2> HIDE DEF C
  <2>4. f \in Injection(C, Peer \ {p})
    BY <2>2, <2>3, Zenon DEF Injection, IsInjective
  <2>5. IsFiniteSet(Peer \ {p}) /\ Cardinality(Peer \ {p}) = Cardinality(Peer) - 1
    BY <1>5, FS_RemoveElement, Zenon
  <2>6. IsFiniteSet(C) /\ Cardinality(C) <= Cardinality(Peer \ {p})
    BY <2>4, <2>5, FS_Injection, Zenon
  <2>7. Cardinality(C) \in Nat /\ Cardinality(Peer) \in Nat
    BY <1>5, <2>6, FS_CardinalityType, Zenon
  <2> QED
    BY <1>5, <2>5, <2>6, <2>7
<1> SUFFICES ASSUME NameTaken(T, wanted)
             PROVE  /\ UniqueName(T, wanted, tag) \in Label
                    /\ ~NameTaken(T, UniqueName(T, wanted, tag))
  BY <1>3, Zenon
<1>8. free \subseteq Nat
  BY <1>4
<1>9. \E i \in free : \A j \in free : i <= j
  <2> HIDE DEF free
  <2> DEFINE R == {e \in Nat \X Nat : e[1] < e[2]}
  <2>1. IsWellFoundedOn(R, Nat)
    BY NatLessThanWellFounded, Zenon DEF OpToRel
  <2> HIDE DEF R
  <2>2. PICK i \in free : \A j \in free : ~(<<j, i>> \in R)
    BY <1>7, <1>8, <2>1, WFMin, Zenon
  <2>3. \A j \in free : ~(j < i)
    BY <1>8, <2>2, Zenon DEF R
  <2> QED
    BY <1>8, <2>3
<1>10. least \in free
  BY <1>9, Zenon
<1>11. cand[least] \in Label /\ ~NameTaken(T, cand[least])
  BY <1>2, <1>10, Zenon
<1> QED
  BY <1>3, <1>7, <1>11, Zenon

\* A new name: the old label goes, and the new one is nobody else's.
LEMMA GrantKeepsNames ==
  ASSUME EnoughCandidates, NEW T, NamesOK(T), NEW p \in Peer, NEW wanted \in Label,
         NEW ip4 \in TunIp, NEW tag \in Tag, NEW t \in Int
  PROVE  LET U == Grant(T, p, wanted, ip4, tag, t) IN
         /\ NamesOK(U)
         /\ \A q \in Peer \ {p} : U.by_peer[q] = T.by_peer[q]
         /\ U.by_peer[p] # None /\ U.by_peer[p].requested = wanted
<1> DEFINE S == WithdrawAll(T, {p})
           g == UniqueName(S, wanted, tag)
           r == [requested |-> wanted, granted |-> g, ip4 |-> ip4, last_seen |-> t]
           U == Grant(T, p, wanted, ip4, tag, t)
<1> USE NameAssumption
<1>1. NamesOK(S) /\ \A q \in Peer : S.by_peer[q] = IF q = p THEN None ELSE T.by_peer[q]
  BY WithdrawKeepsNames
<1> HIDE DEF S
<1>2. g \in Label /\ ~NameTaken(S, g)
  BY <1>1, UniqueIsFree, Zenon
<1> HIDE DEF g
<1>3. r \in Row /\ r.granted = g /\ r.requested = wanted
  BY <1>2, Zenon DEF Row
<1>4. U = [by_peer |-> [S.by_peer EXCEPT ![p] = r], by_name |-> [S.by_name EXCEPT ![g] = p]]
  BY Zenon DEF Grant, S, g
<1> HIDE DEF r, U
<1>5. S.by_peer \in [Peer -> Row \cup {None}] /\ S.by_name \in [Label -> Peer \cup {None}]
  BY <1>1, Zenon DEF NamesOK, Names
<1>6. U \in Names
  BY <1>2, <1>3, <1>4, <1>5, Zenon DEF Names
<1>7. /\ \A q \in Peer : U.by_peer[q] = IF q = p THEN r ELSE S.by_peer[q]
      /\ \A l \in Label : U.by_name[l] = IF l = g THEN p ELSE S.by_name[l]
  BY <1>2, <1>4, <1>5, Zenon
<1>8. r # None /\ S.by_name[g] = None /\ g # ServerName
  BY <1>2, <1>3, Zenon DEF NameTaken
<1>9. \A q \in Peer, l \in Label :
        U.by_name[l] = q <=> U.by_peer[q] # None /\ U.by_peer[q].granted = l
  BY <1>1, <1>2, <1>3, <1>7, <1>8 DEF NamesOK
<1>10. \A q \in Peer : U.by_peer[q] # None => U.by_peer[q].granted # ServerName
  BY <1>1, <1>3, <1>7, <1>8, Zenon DEF NamesOK
<1>11. NamesOK(U)
  BY <1>6, <1>9, <1>10, Zenon DEF NamesOK
<1>12. /\ \A q \in Peer \ {p} : U.by_peer[q] = T.by_peer[q]
       /\ U.by_peer[p] # None /\ U.by_peer[p].requested = wanted
  BY <1>1, <1>3, <1>7, <1>8
<1> QED
  BY <1>11, <1>12, Zenon DEF U

\* What a step does to the table.
LEMMA NameStep ==
  ASSUME EnoughCandidates, NInv, [NNext]_nvars
  PROVE  /\ NInv'
         /\ \A p \in Peer :
              \/ names.by_peer[p] = None \/ names'.by_peer[p] = None
              \/ names'.by_peer[p].requested # names.by_peer[p].requested
              \/ names'.by_peer[p].granted = names.by_peer[p].granted
<1> DEFINE Kept(U) == \A p \in Peer :
              \/ names.by_peer[p] = None \/ U.by_peer[p] = None
              \/ U.by_peer[p].requested # names.by_peer[p].requested
              \/ U.by_peer[p].granted = names.by_peer[p].granted
<1> USE NameAssumption
<1>1. NamesOK(names) /\ clock \in Int
  BY Zenon DEF NInv
<1>2. CASE UNCHANGED nvars
  BY <1>1, <1>2, Zenon DEF nvars, NInv
<1>3. ASSUME NEW D, D \subseteq Peer, names' = WithdrawAll(names, D), clock' = clock
      PROVE  NInv' /\ Kept(names')
  BY <1>1, <1>3, WithdrawKeepsNames DEF NInv
<1>4. ASSUME NEW p \in Peer, NEW wanted \in Label, NEW ip4 \in TunIp, NEW tag \in Tag,
             AdvertisesName(p, wanted, ip4, tag)
      PROVE  NInv' /\ Kept(names')
  <2>1. names' = AdvertiseName(names, p, wanted, ip4, tag, clock) /\ clock' = clock
    BY <1>4, Zenon DEF AdvertisesName
  <2>2. CASE names.by_peer[p] # None /\ names.by_peer[p].requested = wanted
    <3> DEFINE o == names.by_peer[p]
               r == [o EXCEPT !.ip4 = ip4, !.last_seen = clock]
    <3>1. /\ names \in Names /\ o \in Row
          /\ names.by_peer \in [Peer -> Row \cup {None}]
      BY <1>1, <2>2 DEF NamesOK, Names
    <3>2. names' = [names EXCEPT !.by_peer[p].ip4 = ip4, !.by_peer[p].last_seen = clock]
      BY <2>1, <2>2, Zenon DEF AdvertiseName
    <3>3. names' = [names EXCEPT !.by_peer = [names.by_peer EXCEPT ![p] = r]]
      BY <3>1, <3>2, Zenon DEF Names
    <3>4. r \in Row /\ r.granted = o.granted /\ r.requested = o.requested
      BY <1>1, <3>1, Zenon DEF Row
    <3> HIDE DEF r
    <3>5. /\ names' \in Names /\ names'.by_name = names.by_name
          /\ \A q \in Peer : names'.by_peer[q] = IF q = p THEN r ELSE names.by_peer[q]
      BY <3>1, <3>3, <3>4, Zenon DEF Names
    <3>6. NamesOK(names')
      BY <1>1, <2>2, <3>4, <3>5 DEF NamesOK
    <3> QED
      BY <1>1, <2>1, <3>4, <3>5, <3>6, Zenon DEF NInv
  <2>3. CASE ~(names.by_peer[p] # None /\ names.by_peer[p].requested = wanted)
    <3>1. names' = Grant(names, p, wanted, ip4, tag, clock)
      BY <2>1, <2>3, Zenon DEF AdvertiseName
    <3>2. /\ NamesOK(names')
          /\ \A q \in Peer \ {p} : names'.by_peer[q] = names.by_peer[q]
          /\ names'.by_peer[p] # None /\ names'.by_peer[p].requested = wanted
      BY <1>1, <3>1, GrantKeepsNames
    <3> QED
      BY <1>1, <2>1, <2>3, <3>2, Zenon DEF NInv
  <2> QED
    BY <2>2, <2>3, Zenon
<1>5. ASSUME NEW p \in Peer, WithdrawsName(p) PROVE NInv' /\ Kept(names')
  <2>1. {p} \subseteq Peer /\ names' = WithdrawAll(names, {p}) /\ clock' = clock
    BY <1>5, Zenon DEF WithdrawsName
  <2> HIDE DEF Kept
  <2> QED
    BY <1>3, <2>1, Zenon
<1>6. CASE ExpiresNames
  <2>1. IdleNames(names, clock) \subseteq Peer
    BY Zenon DEF IdleNames
  <2> QED
    BY <1>3, <1>6, <2>1, Zenon DEF ExpiresNames
<1>7. CASE NameClock
  <2>1. names' = names /\ clock' \in Int
    BY <1>1, <1>7 DEF NameClock, Tick
  <2> QED
    BY <1>1, <2>1, Zenon DEF NInv
<1> QED
  BY <1>2, <1>4, <1>5, <1>6, <1>7, Zenon DEF NNext

\* The name table is consistent at all times, as long as there are labels to offer.
LEMMA NInvInvariant ==
  ASSUME EnoughCandidates
  PROVE  NSpec => []NInv
<1>1. NInit => NInv
  BY NameAssumption DEF NInit, NInv, NoNames, NamesOK, Names
<1>2. NInv /\ [NNext]_nvars => NInv'
  BY NameStep, Zenon
<1> QED
  BY <1>1, <1>2, PTL DEF NSpec

\* Granting, withdrawing and expiring names keep by_name the inverse of by_peer,
\* and no push lists a name twice or one that hides the server's: unique_name
\* always finds a free candidate while there are no more endpoints than
\* candidates.
THEOREM NameSafety ==
  ASSUME EnoughCandidates
  PROVE  NSpec => []NamesConsistent
<1>1. NInv => NamesConsistent
  <2> SUFFICES ASSUME NInv PROVE NamesConsistent
    BY Zenon
  <2>1. /\ NTypeOK
        /\ \A p \in Peer, l \in Label :
             names.by_name[l] = p <=> /\ names.by_peer[p] # None
                                      /\ names.by_peer[p].granted = l
        /\ \A p \in Peer : names.by_peer[p] # None =>
             names.by_peer[p].granted # ServerName /\ names.by_peer[p].granted \in Label
    BY NameAssumption, Zenon DEF NInv, NamesOK, NTypeOK, Names, Row
  <2> DEFINE rows == {p \in Peer : names.by_peer[p] # None}
  <2>2. \A S \in Snapshots(names) : S \subseteq rows /\ Cardinality(S) < MaxPeers
    <3>1. MaxPeers \in Nat
      BY NameAssumption, Zenon
    <3>2. CASE Cardinality(rows) < MaxPeers
      BY <3>2, Zenon DEF Snapshots
    <3>3. CASE ~(Cardinality(rows) < MaxPeers)
      <4>1. \A S \in Snapshots(names) : S \subseteq rows /\ Cardinality(S) = MaxPeers - 1
        BY <3>3, Zenon DEF Snapshots
      <4> QED
        BY <3>1, <4>1
    <3> QED
      BY <3>2, <3>3, Zenon
  <2>3. \A S \in Snapshots(names) :
          /\ \A p \in S : names.by_peer[p].granted # ServerName
          /\ \A p, q \in S : p # q => names.by_peer[p].granted # names.by_peer[q].granted
    BY <2>1, <2>2
  <2> QED
    BY <2>1, <2>2, <2>3, Zenon DEF NamesConsistent
<1> QED
  BY <1>1, NInvInvariant, PTL

\* An endpoint that keeps asking for the same name keeps the label it was granted,
\* in both maps, whatever others advertise: nobody is granted a label that is taken.
THEOREM NameStability ==
  ASSUME EnoughCandidates
  PROVE  NSpec => FirstComeKeeps
<1>1. NInv /\ NInv' /\ [NNext]_nvars =>
        \A p \in Peer :
          names.by_peer[p] # None /\ names'.by_peer[p] # None
            /\ names'.by_peer[p].requested = names.by_peer[p].requested
          => /\ names'.by_peer[p].granted = names.by_peer[p].granted
             /\ names'.by_name[names.by_peer[p].granted] = p
  <2> SUFFICES ASSUME NInv, NInv', [NNext]_nvars, NEW p \in Peer,
                      names.by_peer[p] # None, names'.by_peer[p] # None,
                      names'.by_peer[p].requested = names.by_peer[p].requested
               PROVE  /\ names'.by_peer[p].granted = names.by_peer[p].granted
                      /\ names'.by_name[names.by_peer[p].granted] = p
    BY Zenon
  <2>1. names'.by_peer[p].granted = names.by_peer[p].granted
    BY NameStep, Zenon
  <2>2. names'.by_peer[p].granted \in Label
    BY DEF NInv, NamesOK, Names, Row
  <2> QED
    BY <2>1, <2>2, Zenon DEF NInv, NamesOK
<1> QED
  BY <1>1, NInvInvariant, PTL DEF NSpec, FirstComeKeeps

-----------------------------------------------------------------------------
(* TunDevice.                                                              *)

Ip4Plan == {a.ip : a \in Plan4}
Route == [net : Net4 \cup Net6, src : Ip4Plan \cup {None}]
NetOf(a) == IF a = None THEN None ELSE a.net
OnePerPrefix(rs) == \A r1, r2 \in rs : r1.net = r2.net => r1 = r2

TunTypes ==
  /\ tunstep \in {"off", "static", "idle", "routes"}
  /\ want \in Wanted \cup {None}
  /\ rguard \in [v4 : Net4 \cup {None}, v6 : Net6 \cup {None}]
  /\ krt \subseteq Route /\ stuck \subseteq Net4 \cup Net6

Addressed ==
  /\ tunstep = "off" => want = None
  /\ tunstep \in {"static", "routes"} => want # None
  /\ IF want = None
     THEN dev4 = None /\ dev6 = {} /\ programmed = None
     ELSE /\ dev4 = want.v4.ip /\ programmed = IpOf(want.v6)
          /\ dev6 \subseteq SomeOf(programmed)

Routed ==
  /\ want = None \/ tunstep = "static" => rguard = NoPrefixes /\ krt = {} /\ stuck = {}
  /\ OnePerPrefix(krt)
  /\ \A r \in krt : r.net \in stuck \cup {rguard.v4, rguard.v6}
  /\ rguard.v4 \notin stuck /\ rguard.v6 \notin stuck
  /\ rguard.v6 # None => [net |-> rguard.v6, src |-> None] \in krt

Settled ==
  tunstep = "idle" /\ want # None =>
    /\ rguard = [v4 |-> want.v4.net, v6 |-> NetOf(want.v6)]
    /\ [net |-> want.v4.net, src |-> want.v4.ip] \in krt

TunInv == TunTypes /\ Addressed /\ Routed /\ Settled

-----------------------------------------------------------------------------
\* sync_prefix leaves one route to the new prefix, takes the old prefix away unless
\* that fails, and touches no other prefix.
LEMMA SyncKeeps ==
  ASSUME NEW rs, rs \subseteq Route, OnePerPrefix(rs),
         NEW old, NEW next \in Net4 \cup Net6,
         NEW src \in Ip4Plan \cup {None},
         NEW fails \in BOOLEAN,
         old = next /\ src = None => [net |-> next, src |-> None] \in rs
  PROVE  LET U == SyncPrefix(rs, old, next, src, fails) IN
         /\ U \subseteq Route /\ OnePerPrefix(U)
         /\ [net |-> next, src |-> src] \in U
         /\ \A r \in U : \/ r.net = next
                         \/ r \in rs /\ (r.net = old => old = None \/ fails)
         /\ \A r \in rs : r.net \notin {old, next} => r \in U
<1> DEFINE new == [net |-> next, src |-> src]
           kept == IF old \in {None, next} \/ fails THEN rs ELSE Without(rs, old)
<1>1. CASE old = next /\ src = None
  BY <1>1, Zenon DEF SyncPrefix, OnePerPrefix
<1>2. CASE ~(old = next /\ src = None)
  <2>1. SyncPrefix(rs, old, next, src, fails) = Without(kept, next) \cup {new}
    BY <1>2, Zenon DEF SyncPrefix
  <2>2. new \in Route /\ new.net = next
    BY Zenon DEF Route
  <2>3. \A r \in Without(kept, next) :
          r \in rs /\ r.net # next /\ (r.net = old => old = None \/ fails)
    BY Zenon DEF Without
  <2>4. \A r \in rs : r.net \notin {old, next} => r \in Without(kept, next)
    BY Zenon DEF Without
  <2> HIDE DEF new, kept
  <2>5. OnePerPrefix(Without(kept, next) \cup {new})
    BY <2>2, <2>3, Zenon DEF OnePerPrefix
  <2> QED
    BY <2>1, <2>2, <2>3, <2>4, <2>5, Zenon DEF new
<1> QED
  BY <1>1, <1>2, Zenon

\* Creating and addressing the device keep the invariant.
LEMMA CreateKeeps ==
  ASSUME TunInv, NEW static \in Wanted \cup {None}, TunCreate(static)
  PROVE  TunInv'
<1> USE DEF TunInv, TunCreate
<1>1. want = None
  BY Zenon DEF Addressed
<1>2. TunTypes'
  BY Zenon DEF TunTypes
<1>3. Addressed'
  BY NoneIsNotWanted, Zenon DEF Addressed
<1>4. Routed'
  BY <1>1, Zenon DEF Routed
<1>5. Settled'
  BY Zenon DEF Settled
<1> QED
  BY <1>2, <1>3, <1>4, <1>5, Zenon

\* apply_assignment keeps the IPv6 route of the guard: only routes that prefer the
\* old IPv4 address may go with it.
LEMMA AssignmentKeeps ==
  ASSUME TunInv, NEW a \in Wanted, ApplyAssignment(a)
  PROVE  TunInv'
<1> USE DEF TunInv, ApplyAssignment
<1>1. krt' \subseteq krt /\ \A r \in krt : r.src # dev4 => r \in krt'
  BY Zenon DEF Readdress
<1>2. a # None /\ want' = a /\ tunstep' = "routes"
  BY NoneIsNotWanted, Zenon
<1>3. TunTypes'
  BY <1>1, <1>2, Zenon DEF TunTypes
<1>4. Addressed'
  <2>1. dev6 \ {programmed} = {}
    BY Zenon DEF Addressed, SomeOf
  <2> QED
    BY <1>2, <2>1, Zenon DEF Addressed, Readdress
<1>5. Routed'
  <2>1. OnePerPrefix(krt') /\ \A r \in krt' : r.net \in stuck' \cup {rguard'.v4, rguard'.v6}
    BY <1>1, Zenon DEF Routed, OnePerPrefix
  <2>2. ASSUME rguard'.v6 # None PROVE [net |-> rguard'.v6, src |-> None] \in krt'
    <3>1. want # None
      BY <2>2, Zenon DEF Routed, NoPrefixes
    <3>2. want.v4 \in Plan4 /\ dev4 = want.v4.ip
      BY <3>1, Zenon DEF TunTypes, Wanted, Addressed
    <3>3. dev4 # None
      BY <3>2, PlanAssumption, Zenon
    <3> QED
      BY <1>1, <2>2, <3>3, Zenon DEF Routed
  <2> QED
    BY <1>2, <2>1, <2>2, Zenon DEF Routed
<1>6. Settled'
  BY <1>2, Zenon DEF Settled
<1> QED
  BY <1>3, <1>4, <1>5, <1>6, Zenon

\* SubnetRouteGuard::apply settles the routes: the IPv4 sync leaves every IPv6 route
\* alone, and what either cannot remove is counted as stuck.
LEMMA GuardKeeps ==
  ASSUME TunInv, NEW f4 \in BOOLEAN, NEW f6 \in BOOLEAN, GuardApply(f4, f6)
  PROVE  TunInv'
<1> DEFINE n4 == want.v4.net
           n6 == IF want.v6 = None THEN None ELSE want.v6.net
           src == want.v4.ip
           rs == SyncPrefix(krt, rguard.v4, n4, src, f4)
           left(old, new, f) == IF f /\ old \notin {None, new} THEN {old} ELSE {}
<1>1. /\ tunstep = "routes"
      /\ krt' = IF n6 # None THEN SyncPrefix(rs, rguard.v6, n6, None, f6)
                ELSE IF rguard.v6 = None \/ f6 THEN rs ELSE Without(rs, rguard.v6)
      /\ rguard' = [v4 |-> n4, v6 |-> n6]
      /\ stuck' = (stuck \cup left(rguard.v4, n4, f4) \cup left(rguard.v6, n6, f6)) \ {n4, n6}
      /\ tunstep' = "idle"
      /\ UNCHANGED <<want, dev4, dev6, programmed>>
  BY Zenon DEF GuardApply
<1>2. want \in Wanted /\ want # None
  BY <1>1, Zenon DEF TunInv, TunTypes, Addressed
<1>3. want.v4 \in Plan4 /\ n4 \in Net4 /\ src \in Ip4Plan /\ src # None
  BY <1>2, PlanAssumption, Zenon DEF Wanted, Net4, Ip4Plan
<1>4. n6 \in Net6 \cup {None}
  BY <1>2, Zenon DEF Wanted, Net6
<1>5. /\ n4 \notin Net6 /\ n4 # None /\ n4 # n6
      /\ rguard.v4 \in Net4 \cup {None} /\ rguard.v6 \in Net6 \cup {None}
      /\ rguard.v4 \notin Net6
  BY <1>3, <1>4, PlanAssumption, Zenon DEF TunInv, TunTypes
<1>0. rs = SyncPrefix(krt, rguard.v4, n4, src, f4)
  BY Zenon
<1> HIDE DEF n4, n6, src, rs
<1>6. /\ rs \subseteq Route /\ OnePerPrefix(rs)
      /\ [net |-> n4, src |-> src] \in rs
      /\ \A r \in rs : \/ r.net = n4
                       \/ r \in krt /\ (r.net = rguard.v4 => rguard.v4 = None \/ f4)
      /\ \A r \in krt : r.net \notin {rguard.v4, n4} => r \in rs
  <2>1. krt \subseteq Route /\ OnePerPrefix(krt)
    BY Zenon DEF TunInv, TunTypes, Routed
  <2>2. n4 \in Net4 \cup Net6 /\ src \in Ip4Plan \cup {None} /\ src # None
    BY <1>3, Zenon
  <2>3. (rguard.v4 = n4 /\ src = None) => [net |-> n4, src |-> None] \in krt
    BY <2>2, Zenon
  <2> QED
    BY <1>0, <2>1, <2>2, <2>3, SyncKeeps
<1>7. rguard.v6 # None => [net |-> rguard.v6, src |-> None] \in rs
  BY <1>5, <1>6, Zenon DEF TunInv, Routed
<1>8. /\ krt' \subseteq Route /\ OnePerPrefix(krt')
      /\ [net |-> n4, src |-> src] \in krt'
      /\ n6 # None => [net |-> n6, src |-> None] \in krt'
      /\ \A r \in krt' : \/ r.net = n6 /\ n6 # None
                         \/ r \in rs /\ (r.net = rguard.v6 => rguard.v6 = None \/ f6)
  <2>1. CASE n6 # None
    <3>1. krt' = SyncPrefix(rs, rguard.v6, n6, None, f6)
      BY <1>1, <2>1, Zenon
    <3>2. /\ krt' \subseteq Route /\ OnePerPrefix(krt')
          /\ [net |-> n6, src |-> None] \in krt'
          /\ \A r \in krt' : \/ r.net = n6
                             \/ r \in rs /\ (r.net = rguard.v6 => rguard.v6 = None \/ f6)
          /\ \A r \in rs : r.net \notin {rguard.v6, n6} => r \in krt'
      BY <1>4, <1>6, <1>7, <2>1, <3>1, SyncKeeps
    <3> QED
      BY <1>5, <1>6, <2>1, <3>2, Zenon
  <2>2. CASE n6 = None
    BY <1>1, <1>5, <1>6, <2>2, Zenon DEF Without, OnePerPrefix
  <2> QED
    BY <2>1, <2>2, Zenon
<1>9. TunTypes'
  BY <1>1, <1>2, <1>3, <1>4, <1>5, <1>8, Zenon DEF TunInv, TunTypes
<1>10. Addressed'
  BY <1>1, <1>2, Zenon DEF TunInv, Addressed
<1>11. Routed'
  <2>1. ASSUME NEW r \in krt' PROVE r.net \in stuck' \cup {n4, n6}
    <3>1. CASE r \in krt /\ r.net \notin {n4, n6}
      <4>1. r.net \in stuck \cup {rguard.v4, rguard.v6} /\ r.net # None
        BY <3>1, PlanAssumption, Zenon DEF TunInv, TunTypes, Routed, Route
      <4> QED
        BY <1>1, <1>5, <1>6, <1>8, <3>1, <4>1, Zenon
    <3> QED
      BY <1>6, <1>8, <3>1, Zenon
  <2>2. n4 \notin stuck' /\ n6 \notin stuck'
    BY <1>1, Zenon
  <2> QED
    BY <1>1, <1>2, <1>8, <2>1, <2>2, Zenon DEF Routed
<1>12. Settled'
  BY <1>1, <1>8, Zenon DEF Settled, NetOf, n4, n6, src
<1> QED
  BY <1>9, <1>10, <1>11, <1>12, Zenon DEF TunInv

\* Every step keeps the invariant.
LEMMA TunInvInductive == TunInv /\ [TunNext]_tvars => TunInv'
<1> SUFFICES ASSUME TunInv, [TunNext]_tvars PROVE TunInv'
  BY Zenon
<1>1. CASE Ip6TakenAway
  BY <1>1, Zenon DEF Ip6TakenAway, TunInv, TunTypes, Addressed, Routed, Settled
<1>2. CASE TunEnds
  BY <1>2, Zenon DEF TunEnds, TunInv, TunTypes, Addressed, Routed, Settled, NoPrefixes, OnePerPrefix
<1>3. CASE UNCHANGED tvars
  BY <1>3, Zenon DEF tvars, TunInv, TunTypes, Addressed, Routed, Settled, OnePerPrefix
<1> QED
  BY <1>1, <1>2, <1>3, CreateKeeps, AssignmentKeeps, GuardKeeps, Zenon DEF TunNext

\* An assignment replaces the addresses the device had, and between assignments the
\* kernel routes exactly its prefixes and those whose removal failed.
THEOREM TunSafety == TunSpec => []DeviceFollowsAssignment
<1>1. TunInit => TunInv
  BY DEF TunInit, TunInv, TunTypes, Addressed, Routed, Settled, NoPrefixes, OnePerPrefix
<1>2. TunInv => DeviceHoldsAssignment
  BY Zenon DEF TunInv, Addressed, DeviceHoldsAssignment
<1>3. TunInv => RoutesFollowAssignment
  <2> SUFFICES ASSUME TunInv, tunstep = "idle", want # None
               PROVE  /\ [net |-> want.v4.net, src |-> want.v4.ip] \in krt
                      /\ {Prefix(r) : r \in krt} \ stuck
                           = {want.v4.net} \cup
                               (IF want.v6 = None THEN {} ELSE {want.v6.net})
                      /\ \A r1, r2 \in krt : r1.net = r2.net => r1 = r2
    BY Zenon DEF RoutesFollowAssignment
  <2>1. /\ rguard.v4 = want.v4.net /\ rguard.v6 = NetOf(want.v6)
        /\ [net |-> want.v4.net, src |-> want.v4.ip] \in krt
    BY DEF TunInv, Settled
  <2>2. want.v6 # None => NetOf(want.v6) = want.v6.net /\ NetOf(want.v6) # None
    BY PlanAssumption, Zenon DEF TunInv, TunTypes, Wanted, NetOf, Net6
  <2>3. \A r \in krt : r.net # None
    BY PlanAssumption, Zenon DEF TunInv, TunTypes, Route
  <2>4. \A r \in krt : Prefix(r) \notin stuck =>
          Prefix(r) = want.v4.net \/ (want.v6 # None /\ Prefix(r) = want.v6.net)
    <3> SUFFICES ASSUME NEW r \in krt, r.net \notin stuck
                 PROVE  r.net = want.v4.net \/ (want.v6 # None /\ r.net = want.v6.net)
      BY Zenon DEF Prefix
    <3>1. r.net \in {rguard.v4, rguard.v6}
      BY Zenon DEF TunInv, Routed
    <3> QED
      BY <2>1, <2>2, <2>3, <3>1, Zenon DEF NetOf
  <2>5. \E r \in krt : Prefix(r) = want.v4.net
    BY <2>1, Zenon DEF Prefix
  <2>6. want.v6 # None => \E r \in krt : Prefix(r) = want.v6.net
    BY <2>1, <2>2, Zenon DEF Prefix, TunInv, Routed
  <2>7. want.v4.net \notin stuck /\ (want.v6 # None => want.v6.net \notin stuck)
    BY <2>1, <2>2, Zenon DEF TunInv, Routed
  <2> QED
    BY <2>1, <2>4, <2>5, <2>6, <2>7 DEF TunInv, Routed, OnePerPrefix
<1> QED
  BY <1>1, <1>2, <1>3, TunInvInductive, PTL DEF TunSpec, DeviceFollowsAssignment

-----------------------------------------------------------------------------
(* Profiles.                                                               *)

ProfileTypes ==
  /\ stored \in [Profile -> Stored \cup {None}] /\ DOMAIN sibling = Profile
  /\ bundle \in Bundles /\ births \in Nat
  /\ connecting \in Profile \cup {None} /\ status \in Profile \cup {None}
  /\ deletion \in Deletion \cup {None}
  /\ vpn # None => /\ vpn.name \in Profile
                   /\ vpn = [name |-> vpn.name, born |-> vpn.born,
                             auto |-> vpn.auto, id |-> vpn.id]

Unlinking(n) == deletion # None /\ deletion.name = n /\ deletion.at = "unlink"

\* Of a name whose deletions went through: an identity is that of the profile
\* that has the name now, unless it is just being unlinked, and a client has
\* loaded that profile.
IdentityIsOwn ==
  \A n \in Profile \ cut :
    /\ sibling[n] # None =>
         \/ stored[n] # None /\ sibling[n] = stored[n].born
         \/ Unlinking(n)
    /\ Unlinking(n) => stored[n] = None
    /\ vpn # None /\ vpn.name = n =>
         stored[n] # None /\ vpn.born = stored[n].born /\ vpn.id \in {None, vpn.born}

PInv == ProfileTypes /\ IdentityIsOwn

\* Saving keeps what a profile is, and a new one finds no identity.
LEMMA SaveKeeps ==
  ASSUME PInv, NEW n \in Profile, NEW c \in Drafts, SaveProfile(n, c)
  PROVE  PInv'
<1> USE ProfileAssumption
<1> DEFINE r == [cfg |-> c,
                 born |-> IF stored[n] = None THEN births + 1 ELSE stored[n].born]
<1>1. ProfileTypes /\ IdentityIsOwn
  BY Zenon DEF PInv
<1>2. /\ deletion = None /\ births' \in Nat
      /\ stored' = [stored EXCEPT ![n] = r]
      /\ UNCHANGED <<sibling, bundle, connecting, status, deletion, vpn, cut>>
  BY <1>1 DEF SaveProfile, NotDeleting, ProfileTypes, gui
<1>3. r \in Stored /\ r # None
  BY <1>1, <1>2 DEF ProfileTypes, Stored
<1>4. stored[n] # None => r.born = stored[n].born
  BY Zenon
<1> HIDE DEF r
<1>5. \A m \in Profile : stored'[m] = IF m = n THEN r ELSE stored[m]
  BY <1>1, <1>2, Zenon DEF ProfileTypes
<1>6. ProfileTypes'
  BY <1>1, <1>2, <1>3, Zenon DEF ProfileTypes
<1>7. IdentityIsOwn'
  <2> SUFFICES ASSUME NEW m \in Profile \ cut
               PROVE  /\ sibling[m] # None => stored'[m] # None /\ sibling[m] = stored'[m].born
                      /\ vpn # None /\ vpn.name = m =>
                           /\ stored'[m] # None /\ vpn.born = stored'[m].born
                           /\ vpn.id \in {None, vpn.born}
    BY <1>2, Zenon DEF IdentityIsOwn, Unlinking
  <2>1. /\ sibling[m] # None => stored[m] # None /\ sibling[m] = stored[m].born
        /\ vpn # None /\ vpn.name = m =>
             stored[m] # None /\ vpn.born = stored[m].born /\ vpn.id \in {None, vpn.born}
    BY <1>1, <1>2, Zenon DEF IdentityIsOwn, Unlinking
  <2> QED
    BY <1>3, <1>4, <1>5, <2>1, Zenon
<1> QED
  BY <1>6, <1>7, Zenon DEF PInv

\* delete_profile, whole, cut short or overtaken by a client.
LEMMA DeleteKeeps ==
  ASSUME PInv,
         \/ \E n \in Profile : DeleteChecks(n)
         \/ DeleteRemoves
         \/ \E ok \in BOOLEAN : UnlinkProfileState(ok)
         \/ GuiEnds
  PROVE  PInv'
<1> USE ProfileAssumption
<1>1. ProfileTypes /\ IdentityIsOwn
  BY Zenon DEF PInv
<1>2. ASSUME NEW n \in Profile, DeleteChecks(n) PROVE PInv'
  <2>1. /\ deletion = None /\ deletion' = [name |-> n, at |-> "remove"]
        /\ UNCHANGED <<stored, sibling, bundle, connecting, status, vpn, births, cut>>
    BY <1>2, Zenon DEF DeleteChecks, NotDeleting
  <2>2. ProfileTypes'
    BY <1>1, <2>1, Zenon DEF ProfileTypes, Deletion
  <2>3. IdentityIsOwn'
    BY <1>1, <2>1, Zenon DEF IdentityIsOwn, Unlinking
  <2> QED
    BY <1>1, <2>1, <2>2, <2>3, Zenon DEF PInv
<1>3. CASE DeleteRemoves
  <2> DEFINE n == deletion.name
  <2>1. /\ deletion # None /\ deletion.at = "remove"
        /\ stored' = [stored EXCEPT ![n] = None]
        /\ cut' = IF vpn = None THEN cut
                  ELSE IF vpn.name = n THEN cut \cup {n} ELSE cut
        /\ deletion' = [deletion EXCEPT !.at = "unlink"]
        /\ UNCHANGED <<sibling, bundle, connecting, status, vpn, births>>
    BY <1>3, Zenon DEF DeleteRemoves, NotDeleting
  <2>2. /\ deletion \in Deletion /\ n \in Profile
        /\ deletion' \in Deletion /\ deletion'.name = n /\ deletion'.at = "unlink"
    BY <1>1, <2>1, Zenon DEF ProfileTypes, Deletion
  <2> HIDE DEF n
  <2>3. \A m \in Profile : stored'[m] = IF m = n THEN None ELSE stored[m]
    BY <1>1, <2>1, Zenon DEF ProfileTypes
  <2>4. ProfileTypes'
    BY <1>1, <2>1, <2>2, Zenon DEF ProfileTypes
  <2>5. IdentityIsOwn'
    <3> SUFFICES ASSUME NEW m \in Profile \ cut'
                 PROVE  /\ sibling[m] # None =>
                             \/ stored'[m] # None /\ sibling[m] = stored'[m].born
                             \/ Unlinking(m)'
                        /\ Unlinking(m)' => stored'[m] = None
                        /\ vpn # None /\ vpn.name = m =>
                             /\ stored'[m] # None /\ vpn.born = stored'[m].born
                             /\ vpn.id \in {None, vpn.born}
      BY <2>1, Zenon DEF IdentityIsOwn
    <3>1. Unlinking(m)' <=> m = n
      BY <2>2, Zenon DEF Unlinking
    <3>2. m \notin cut /\ (vpn # None /\ vpn.name = m => m # n)
      BY <2>1, Zenon
    <3>3. /\ sibling[m] # None =>
               (stored[m] # None /\ sibling[m] = stored[m].born) \/ Unlinking(m)
          /\ vpn # None /\ vpn.name = m =>
               stored[m] # None /\ vpn.born = stored[m].born /\ vpn.id \in {None, vpn.born}
      BY <1>1, <3>2, Zenon DEF IdentityIsOwn
    <3>4. ~Unlinking(m)
      BY <2>1, Zenon DEF Unlinking
    <3> QED
      BY <2>3, <3>1, <3>2, <3>3, <3>4, Zenon
  <2> QED
    BY <2>4, <2>5, Zenon DEF PInv
<1>4. ASSUME NEW ok \in BOOLEAN, UnlinkProfileState(ok) PROVE PInv'
  <2> DEFINE n == deletion.name
  <2>1. /\ deletion # None /\ deletion.at = "unlink" /\ deletion' = None
        /\ \/ sibling' = [sibling EXCEPT ![n] = None] /\ cut' = cut
           \/ sibling' = sibling /\ cut' = cut \cup {n}
        /\ UNCHANGED <<stored, bundle, connecting, status, vpn, births>>
    BY <1>4, Zenon DEF UnlinkProfileState, NotDeleting
  <2>2. n \in Profile
    BY <1>1, <2>1, Zenon DEF ProfileTypes, Deletion
  <2> HIDE DEF n
  <2>3. ProfileTypes'
    BY <1>1, <2>1, Zenon DEF ProfileTypes
  <2>4. \A m \in Profile \ cut' :
          m \notin cut /\ (sibling'[m] # None => m # n /\ sibling'[m] = sibling[m])
    BY <1>1, <2>1, <2>2, Zenon DEF ProfileTypes
  <2>5. \A m : Unlinking(m) => m = n
    BY Zenon DEF Unlinking, n
  <2>6. \A m : ~Unlinking(m)'
    BY <2>1, Zenon DEF Unlinking
  <2>7. IdentityIsOwn'
    BY <1>1, <2>1, <2>4, <2>5, <2>6, Zenon DEF IdentityIsOwn
  <2> QED
    BY <1>1, <2>1, <2>3, <2>7, Zenon DEF PInv
<1>5. CASE GuiEnds
  <2>1. /\ deletion' = None /\ connecting' = None
        /\ cut' = IF deletion = None THEN cut ELSE cut \cup {deletion.name}
        /\ UNCHANGED <<stored, sibling, bundle, status, vpn, births>>
    BY <1>5, Zenon DEF GuiEnds, NotDeleting
  <2>2. ProfileTypes'
    BY <1>1, <2>1, Zenon DEF ProfileTypes
  <2>3. IdentityIsOwn'
    BY <1>1, <2>1, Zenon DEF IdentityIsOwn, Unlinking
  <2> QED
    BY <1>1, <2>1, <2>2, <2>3, Zenon DEF PInv
<1> QED
  BY <1>2, <1>3, <1>4, <1>5, Zenon

\* do_connect, the client and the data files.
LEMMA ClientKeeps ==
  ASSUME PInv,
         \/ BundleChanges \/ (\E n \in Profile : ConnectChecks(n)) \/ ConnectRecords
         \/ ClientLoads \/ ClientIdentifies \/ ClientEnds
  PROVE  PInv'
<1> USE ProfileAssumption
<1>1. ProfileTypes /\ IdentityIsOwn
  BY Zenon DEF PInv
<1>2. CASE BundleChanges
  <2>1. bundle' \in Bundles
        /\ UNCHANGED <<stored, sibling, connecting, status, deletion, vpn, births, cut>>
    BY <1>2, Zenon DEF BundleChanges, gui
  <2> QED
    BY <1>1, <2>1, Zenon DEF PInv, ProfileTypes, IdentityIsOwn, Unlinking
<1>3. ASSUME NEW n \in Profile, ConnectChecks(n) PROVE PInv'
  BY <1>1, <1>3, Zenon DEF ConnectChecks, PInv, ProfileTypes, IdentityIsOwn, Unlinking
<1>4. CASE ConnectRecords
  BY <1>1, <1>4, Zenon DEF ConnectRecords, PInv, ProfileTypes, IdentityIsOwn, Unlinking
<1>5. CASE ClientEnds
  BY <1>1, <1>5, Zenon DEF ClientEnds, PInv, ProfileTypes, IdentityIsOwn, Unlinking
<1>6. CASE ClientLoads
  <2> DEFINE p == stored[status]
             v == [name |-> status, born |-> p.born,
                   auto |-> p.cfg.tun_ip = "absent", id |-> None]
  <2>1. /\ status # None /\ vpn = None /\ status \in Profile
        /\ UNCHANGED <<stored, sibling, bundle, connecting, deletion, births, cut>>
    BY <1>1, <1>6, Zenon DEF ClientLoads, ProfileTypes
  <2>2. \/ p # None /\ vpn' = v /\ status' = status
        \/ status' = None /\ vpn' = vpn
    BY <1>6, Zenon DEF ClientLoads
  <2>3. v.name = status /\ v.born = p.born /\ v.id = None
        /\ v = [name |-> v.name, born |-> v.born, auto |-> v.auto, id |-> v.id]
    BY Zenon
  <2> HIDE DEF v
  <2>4. ProfileTypes'
    BY <1>1, <2>1, <2>2, <2>3, Zenon DEF ProfileTypes
  <2>5. IdentityIsOwn'
    BY <1>1, <2>1, <2>2, <2>3, Zenon DEF IdentityIsOwn, Unlinking
  <2> QED
    BY <2>4, <2>5, Zenon DEF PInv
<1>7. CASE ClientIdentifies
  <2> DEFINE n == vpn.name
             id == IF sibling[n] = None THEN vpn.born ELSE sibling[n]
  <2>1. /\ vpn # None /\ vpn' = [vpn EXCEPT !.id = id]
        /\ sibling' = [sibling EXCEPT ![n] = id]
        /\ UNCHANGED <<stored, bundle, connecting, status, deletion, births, cut>>
    BY <1>7, Zenon DEF ClientIdentifies, gui
  <2>2. /\ n \in Profile /\ vpn'.name = n /\ vpn'.born = vpn.born /\ vpn'.id = id
        /\ vpn' = [name |-> vpn'.name, born |-> vpn'.born,
                   auto |-> vpn'.auto, id |-> vpn'.id]
    BY <1>1, <2>1, Zenon DEF ProfileTypes
  <2>3. n \notin cut => stored[n] # None /\ vpn.born = stored[n].born /\ id = vpn.born
    BY <1>1, <2>1, <2>2, Zenon DEF IdentityIsOwn
  <2> HIDE DEF n, id
  <2>4. /\ DOMAIN sibling' = Profile
        /\ \A m \in Profile : sibling'[m] = IF m = n THEN id ELSE sibling[m]
    BY <1>1, <2>1, <2>2, Zenon DEF ProfileTypes
  <2>5. ProfileTypes'
    BY <1>1, <2>1, <2>2, <2>4, Zenon DEF ProfileTypes
  <2>6. IdentityIsOwn'
    BY <1>1, <2>1, <2>2, <2>3, <2>4, Zenon DEF IdentityIsOwn, Unlinking
  <2> QED
    BY <1>1, <2>1, <2>5, <2>6, Zenon DEF PInv
<1> QED
  BY <1>2, <1>3, <1>4, <1>5, <1>6, <1>7, Zenon

\* Whatever the editor, a deletion, the connect thread and the client interleave, a
\* client runs under the identity generated for its own profile: a delete_profile that
\* went through leaves no state file to the next profile of the name.
THEOREM ProfileSafety == PSpec => []IdentityIsNotInherited
<1>1. PInit => PInv
  BY ProfileAssumption DEF PInit, PInv, ProfileTypes, IdentityIsOwn, Unlinking
<1>2. PInv /\ [PNext]_pvars => PInv'
  <2> SUFFICES ASSUME PInv, [PNext]_pvars PROVE PInv'
    BY Zenon
  <2>1. CASE UNCHANGED pvars
    BY <2>1, Zenon DEF pvars, PInv, ProfileTypes, IdentityIsOwn, Unlinking
  <2>2. CASE PNext
    BY <2>2, SaveKeeps, DeleteKeeps, ClientKeeps, Zenon DEF PNext
  <2> QED
    BY <2>1, <2>2, Zenon
<1>3. PInv => IdentityIsNotInherited
  BY Zenon DEF PInv, ProfileTypes, IdentityIsOwn, IdentityIsNotInherited
<1> QED
  BY <1>1, <1>2, <1>3, PTL DEF PSpec

-----------------------------------------------------------------------------
(* NatRewrite.                                                             *)

\* A set of natural numbers has a least element.
LEMMA LeastNat ==
  ASSUME NEW S, S \subseteq Nat, S # {}
  PROVE  \E k \in S : \A j \in S : k <= j
<1> DEFINE R == {e \in Nat \X Nat : e[1] < e[2]}
<1>1. IsWellFoundedOn(R, Nat)
  BY NatLessThanWellFounded, Zenon DEF OpToRel
<1> HIDE DEF R
<1>2. PICK k \in S : \A j \in S : ~(<<j, k>> \in R)
  BY <1>1, WFMin, Zenon
<1>3. \A j \in S : ~(j < k)
  BY <1>2, Zenon DEF R
<1> QED
  BY <1>3

\* Quotient and remainder.
LEMMA DivMod ==
  ASSUME NEW s \in Nat, NEW b \in Nat \ {0}
  PROVE  /\ s \div b \in Nat /\ s % b \in Nat
         /\ s = b * (s \div b) + (s % b)
         /\ s % b < b
  BY SMTT(20)

\* Two words that differ by a multiple of Ones are the same, zero apart.
LEMMA ResidueUnique ==
  ASSUME NEW m \in Nat \ {0}, NEW c \in 1 .. m, NEW d \in 1 .. m, NEW j \in Int,
         c = d + j * m
  PROVE  c = d
<1>1. j < 1
  <2>1. SUFFICES ASSUME j >= 1 PROVE FALSE
    OBVIOUS
  <2>2. j * m >= m
    BY <2>1, SMTT(20)
  <2> QED
    BY <2>2
<1>2. j > -1
  <2>1. SUFFICES ASSUME j <= -1 PROVE FALSE
    OBVIOUS
  <2>2. j * m <= -m
    BY <2>1, SMTT(20)
  <2> QED
    BY <2>2
<1>3. j = 0
  BY <1>1, <1>2
<1> QED
  BY <1>3

\* What the end-around carry comes to, in one step.
Residue(s) == IF s = 0 THEN 0 ELSE ((s - 1) % Ones) + 1

\* There is a word that is not zero.
LEMMA OnesPositive == Ones \in Nat \ {0} /\ Base = Ones + 1
  BY BaseAssumption DEF Ones

\* The residue of a sum is a word that differs from it by a multiple of Ones, and is zero
\* for zero only.
LEMMA ResidueIs ==
  ASSUME NEW s \in Nat
  PROVE  /\ Residue(s) \in Word
         /\ \E k \in Nat : s = Residue(s) + k * Ones
         /\ Residue(s) = 0 <=> s = 0
<1> USE OnesPositive
<1>1. CASE s = 0
  BY <1>1 DEF Residue, Word
<1>2. CASE s # 0
  <2>1. s - 1 \in Nat
    BY <1>2
  <2> DEFINE q == (s - 1) \div Ones
             r == (s - 1) % Ones
  <2>2. q \in Nat /\ r \in Nat /\ s - 1 = Ones * q + r /\ r < Ones
    BY <2>1, DivMod, Zenon
  <2>3. Residue(s) = r + 1
    BY <1>2, Zenon DEF Residue
  <2> HIDE DEF q, r
  <2>4. Residue(s) \in Word /\ Residue(s) # 0
    BY <2>2, <2>3 DEF Word
  <2>5. s = Residue(s) + q * Ones
    BY <2>2, <2>3
  <2> QED
    BY <1>2, <2>2, <2>4, <2>5, Zenon
<1> QED
  BY <1>1, <1>2, Zenon

\* Sums that differ by a multiple of Ones have one residue.
LEMMA ResidueOf ==
  ASSUME NEW s \in Nat \ {0}, NEW t \in Nat \ {0}, NEW j \in Int, s = t + j * Ones
  PROVE  Residue(s) = Residue(t)
<1> USE OnesPositive
<1>1. PICK k \in Nat : s = Residue(s) + k * Ones
  BY ResidueIs, Zenon
<1>2. PICK l \in Nat : t = Residue(t) + l * Ones
  BY ResidueIs, Zenon
<1>3. Residue(s) \in 1 .. Ones /\ Residue(t) \in 1 .. Ones
  <2>1. Residue(s) \in Word /\ Residue(t) \in Word /\ Residue(s) # 0 /\ Residue(t) # 0
    BY ResidueIs, Zenon
  <2> QED
    BY <2>1 DEF Word
<1>4. Residue(s) = Residue(t) + (l + j - k) * Ones
  <2>1. (l + j - k) * Ones = l * Ones + j * Ones - k * Ones
    BY SMTT(20)
  <2>2. l * Ones \in Int /\ j * Ones \in Int /\ k * Ones \in Int
    OBVIOUS
  <2> QED
    BY <1>1, <1>2, <1>3, <2>1, <2>2
<1>5. l + j - k \in Int
  OBVIOUS
<1>6. \E i \in Int : Residue(s) = Residue(t) + i * Ones
  BY <1>4, <1>5, Zenon
<1>7. PICK i \in Int : Residue(s) = Residue(t) + i * Ones
  BY <1>6, Zenon
<1>8. Ones \in Nat \ {0}
  BY Zenon
<1> HIDE OnesPositive
<1> DEFINE c == Residue(s)
           d == Residue(t)
<1>9. c \in 1 .. Ones /\ d \in 1 .. Ones /\ c = d + i * Ones
  BY <1>3, <1>7, Zenon
<1> HIDE DEF c, d
<1>10. c = d
  BY <1>8, <1>9, ResidueUnique, Zenon
<1> QED
  BY <1>10, Zenon DEF c, d

\* fold_sum ends, and comes to the residue.
LEMMA FoldIsResidue == \A s \in 0 .. 6 * Ones : Fold[s] = Residue(s)
<1> DEFINE D == 0 .. 6 * Ones
           Carry(s) == (s % Base) + (s \div Base)
           G == [s \in D |-> Residue(s)]
<1>1. D \subseteq Nat
  BY OnesPositive
<1>2. ASSUME NEW s \in D, s > Ones
      PROVE  /\ Carry(s) \in D /\ Carry(s) \in Nat /\ Carry(s) # 0 /\ Carry(s) < s
             /\ Residue(Carry(s)) = Residue(s)
  <2> DEFINE q == s \div Base
             r == s % Base
  <2>1. q \in Nat /\ r \in Nat /\ s = Base * q + r /\ r < Base /\ s \in Nat
    BY <1>1, DivMod, BaseAssumption, Zenon
  <2> HIDE DEF q, r
  <2>2. q # 0
    BY <1>2, <2>1, OnesPositive
  <2>3. s = (r + q) + q * Ones
    BY <2>1, OnesPositive
  <2>4. q * Ones >= 1 /\ q * Ones \in Int
    BY <2>1, <2>2, OnesPositive, SMTT(20)
  <2>5. r + q \in Nat /\ r + q # 0 /\ r + q < s
    BY <2>1, <2>2, <2>3, <2>4
  <2>6. r + q \in D
    BY <2>5, OnesPositive
  <2>7. Residue(s) = Residue(r + q)
    <3>1. s \in Nat \ {0} /\ r + q \in Nat \ {0} /\ q \in Int
      BY <2>1, <2>5
    <3> QED
      BY <3>1, <2>3, ResidueOf
  <2> QED
    BY <2>5, <2>6, <2>7, Zenon DEF q, r
<1>3. ASSUME NEW s \in D, s <= Ones
      PROVE  Residue(s) = s
  <2>1. PICK k \in Nat : s = Residue(s) + k * Ones
    BY <1>1, ResidueIs, Zenon
  <2>2. Residue(s) \in 0 .. Ones /\ (Residue(s) = 0 <=> s = 0)
    BY <1>1, ResidueIs, Zenon DEF Word
  <2>3. CASE s = 0
    BY <2>2, <2>3, Zenon
  <2>4. CASE s # 0
    <3>1. s \in 1 .. Ones /\ Residue(s) \in 1 .. Ones
      BY <1>3, <2>2, <2>4, OnesPositive
    <3>2. Ones \in Nat \ {0} /\ k \in Int
      BY OnesPositive
    <3> QED
      BY <2>1, <3>1, <3>2, ResidueUnique
  <2> QED
    BY <2>3, <2>4, Zenon
<1> HIDE DEF Carry
<1>4. G = [s \in D |-> IF s <= Ones THEN s ELSE G[Carry(s)]]
  <2>1. ASSUME NEW s \in D
        PROVE  Residue(s) = IF s <= Ones THEN s ELSE G[Carry(s)]
    <3>1. s <= Ones \/ s > Ones
      BY <1>1, OnesPositive
    <3>2. CASE s <= Ones
      BY <1>3, <3>2, Zenon
    <3>3. CASE s > Ones
      <4>1. Carry(s) \in D /\ Residue(Carry(s)) = Residue(s)
        BY <1>2, <3>3, Zenon
      <4>2. ~(s <= Ones)
        BY <1>1, <3>3, OnesPositive
      <4> QED
        BY <4>1, <4>2, Zenon
    <3> QED
      BY <3>1, <3>2, <3>3, Zenon
  <2> QED
    BY <2>1, Zenon
<1>5. Fold = [s \in D |-> IF s <= Ones THEN s ELSE Fold[Carry(s)]]
  <2>1. \E g : g = [s \in D |-> IF s <= Ones THEN s ELSE g[Carry(s)]]
    BY <1>4, Zenon
  <2> QED
    BY <2>1, Zenon DEF Fold, Carry
<1> DEFINE bad == {s \in D : Fold[s] # Residue(s)}
<1>6. SUFFICES ASSUME bad # {} PROVE FALSE
  BY Zenon
<1>7. PICK s \in bad : \A t \in bad : s <= t
  BY <1>1, <1>6, LeastNat
<1>8. s > Ones
  <2>1. s <= Ones => Fold[s] = Residue(s)
    BY <1>3, <1>5, Zenon
  <2>2. s \in Nat
    BY <1>1, Zenon
  <2> QED
    BY <2>1, <2>2, OnesPositive
<1>9. Fold[s] = Fold[Carry(s)]
  <2>1. ~(s <= Ones)
    BY <1>1, <1>8, OnesPositive
  <2> QED
    BY <1>5, <2>1, Zenon
<1>10. Carry(s) \in D /\ Carry(s) \in Nat /\ Carry(s) < s /\ Residue(Carry(s)) = Residue(s)
  BY <1>2, <1>8, Zenon
<1>11. Carry(s) \in bad
  BY <1>9, <1>10, Zenon
<1> QED
  <2>1. s <= Carry(s) /\ s \in Nat
    BY <1>1, <1>7, <1>11, Zenon
  <2> QED
    BY <2>1, <1>10

\* Sums that differ by a multiple of Ones fold alike.
LEMMA FoldAlike ==
  ASSUME NEW s \in 1 .. 6 * Ones, NEW t \in 1 .. 6 * Ones, NEW j \in Int,
         s = t + j * Ones
  PROVE  Fold[s] = Fold[t]
<1>1. s \in Nat \ {0} /\ t \in Nat \ {0} /\ s \in 0 .. 6 * Ones /\ t \in 0 .. 6 * Ones
  BY OnesPositive
<1>2. Residue(s) = Residue(t)
  BY <1>1, ResidueOf, Zenon
<1> QED
  BY <1>1, <1>2, FoldIsResidue, Zenon

\* adjust_checksum takes the old words out and puts the new ones in, up to a
\* multiple of Ones.
LEMMA AdjustIs ==
  ASSUME NEW ck \in Word, NEW old \in Word \X Word, NEW new \in Word \X Word
  PROVE  /\ AdjustChecksum(ck, old, new) \in Word
         /\ \E j \in Int : AdjustChecksum(ck, old, new)
                            = ck + old[1] + old[2] - new[1] - new[2] + j * Ones
<1> DEFINE x == Not(ck) + Not(old[1]) + new[1] + Not(old[2]) + new[2]
           a == AdjustChecksum(ck, old, new)
<1>1. old[1] \in Word /\ old[2] \in Word /\ new[1] \in Word /\ new[2] \in Word
  BY Zenon
<1>2. /\ x \in 0 .. 6 * Ones /\ x \in Nat
      /\ x = 3 * Ones - (ck + old[1] + old[2] - new[1] - new[2])
  BY <1>1, OnesPositive DEF Word, Not
<1>3. a = Ones - Fold[x]
  BY Zenon DEF AdjustChecksum, Not
<1> HIDE DEF x, a
<1>4. Fold[x] \in Word /\ \E k \in Nat : x = Fold[x] + k * Ones
  BY <1>2, FoldIsResidue, ResidueIs, Zenon
<1>5. PICK k \in Nat : x = Fold[x] + k * Ones
  BY <1>4, Zenon
<1>6. a \in Word
  BY <1>3, <1>4, OnesPositive DEF Word
<1>7. a = ck + old[1] + old[2] - new[1] - new[2] + (k - 2) * Ones
  <2>1. (k - 2) * Ones = k * Ones - 2 * Ones /\ k * Ones \in Int
    BY OnesPositive, SMTT(20)
  <2>2. ck \in Int /\ old[1] \in Int /\ old[2] \in Int /\ new[1] \in Int /\ new[2] \in Int
        /\ Fold[x] \in Int /\ Ones \in Int
    BY <1>1, <1>4, OnesPositive DEF Word
  <2> DEFINE y == (k - 2) * Ones
             z == k * Ones
  <2>3. y = z - 2 * Ones /\ z \in Int /\ x = Fold[x] + z
    BY <1>5, <2>1, Zenon
  <2> HIDE DEF y, z
  <2>4. a = ck + old[1] + old[2] - new[1] - new[2] + y
    BY <1>2, <1>3, <2>2, <2>3
  <2> QED
    BY <2>4, Zenon DEF y
<1>8. k - 2 \in Int
  OBVIOUS
<1> QED
  BY <1>6, <1>7, <1>8, Zenon DEF a

\* The packet Q is P with the address old replaced by new.
Readdressed(P, Q, old, new) ==
  /\ Q \in Packet /\ old \in Word \X Word
  /\ Q.kind = P.kind /\ Q.ip_rest = P.ip_rest /\ Q.l4_rest = P.l4_rest
  /\ \/ old = P.src /\ Q.src = new /\ Q.dst = P.dst
     \/ old = P.dst /\ Q.src = P.src /\ Q.dst = new
  /\ Q.ip_ck = AdjustChecksum(P.ip_ck, old, new)
  /\ Q.l4_ck = IF /\ HasTransport(P.kind)
                  /\ P.kind.proto = "udp" => P.l4_ck # 0
               THEN AdjustChecksum(P.l4_ck, old, new) ELSE P.l4_ck

\* What rewrite_addr does, field by field.
LEMMA RewriteIs ==
  ASSUME NEW P \in Packet, NEW off \in {"src", "dst"}, NEW new \in Word \X Word
  PROVE  Readdressed(P, RewriteAddr(P, off, new), P[off], new)
<1> DEFINE Q == RewriteAddr(P, off, new)
           old == P[off]
           covered == HasTransport(P.kind) /\ (P.kind.proto = "udp" => P.l4_ck # 0)
           l4 == IF covered THEN AdjustChecksum(P.l4_ck, old, new) ELSE P.l4_ck
<1>1. /\ P.src \in Word \X Word /\ P.dst \in Word \X Word
      /\ P.ip_ck \in Word /\ P.l4_ck \in Word
      /\ P.ip_rest \in Word \ {0} /\ P.l4_rest \in Word \ {0} /\ P.kind \in Kind
  BY Zenon DEF Packet
<1>2. old \in Word \X Word
  BY <1>1, Zenon
<1>3. AdjustChecksum(P.ip_ck, old, new) \in Word /\ l4 \in Word
  BY <1>1, <1>2, AdjustIs, Zenon
<1>4. Q = [P EXCEPT ![off] = new, !.ip_ck = AdjustChecksum(P.ip_ck, old, new), !.l4_ck = l4]
  BY Zenon DEF RewriteAddr
<1> HIDE DEF Q, l4
<1>5. Q \in Packet
  <2>1. CASE off = "src"
    BY <1>1, <1>3, <1>4, <2>1, Zenon DEF Packet
  <2>2. CASE off = "dst"
    BY <1>1, <1>3, <1>4, <2>2, Zenon DEF Packet
  <2> QED
    BY <2>1, <2>2, Zenon
<1>6. /\ Q.kind = P.kind /\ Q.ip_rest = P.ip_rest /\ Q.l4_rest = P.l4_rest
      /\ Q.ip_ck = AdjustChecksum(P.ip_ck, old, new) /\ Q.l4_ck = l4
  BY <1>4, Zenon DEF Packet
<1>7. \/ old = P.src /\ Q.src = new /\ Q.dst = P.dst
      \/ old = P.dst /\ Q.src = P.src /\ Q.dst = new
  BY <1>4, Zenon DEF Packet
<1> QED
  BY <1>2, <1>5, <1>6, <1>7, Zenon DEF Q, l4, Readdressed

\* A checksum that is adjusted along with the address verifies as before.
LEMMA VerdictKept ==
  ASSUME NEW P \in Packet, NEW Q \in Packet, NEW old \in Word \X Word,
         NEW new \in Word \X Word, NEW rest \in Word \ {0}, NEW ck \in Word,
         \/ old = P.src /\ Q.src = new /\ Q.dst = P.dst
         \/ old = P.dst /\ Q.src = P.src /\ Q.dst = new
  PROVE  Verifies(Q, rest, AdjustChecksum(ck, old, new)) <=> Verifies(P, rest, ck)
<1> DEFINE ck2 == AdjustChecksum(ck, old, new)
           s == P.src[1] + P.src[2] + P.dst[1] + P.dst[2] + rest + ck
           t == Q.src[1] + Q.src[2] + Q.dst[1] + Q.dst[2] + rest + ck2
<1>1. PICK j \in Int : ck2 = ck + old[1] + old[2] - new[1] - new[2] + j * Ones
  BY AdjustIs, Zenon
<1>2. ck2 \in Word
  BY AdjustIs, Zenon
<1>3. /\ P.src[1] \in Word /\ P.src[2] \in Word /\ P.dst[1] \in Word /\ P.dst[2] \in Word
      /\ Q.src[1] \in Word /\ Q.src[2] \in Word /\ Q.dst[1] \in Word /\ Q.dst[2] \in Word
  <2>1. P.src \in Word \X Word /\ P.dst \in Word \X Word /\ Q.src \in Word \X Word /\ Q.dst \in Word \X Word
    BY Zenon DEF Packet
  <2> QED
    BY <2>1, Zenon
<1>4. old[1] \in Word /\ old[2] \in Word /\ new[1] \in Word /\ new[2] \in Word
  BY Zenon
<1> HIDE DEF ck2
<1>5. s \in 1 .. 6 * Ones /\ t \in 1 .. 6 * Ones
  BY <1>2, <1>3, OnesPositive DEF Word
<1>6. t = s + j * Ones
  <2> DEFINE z == j * Ones
  <2>1. z \in Int /\ ck2 = ck + old[1] + old[2] - new[1] - new[2] + z
    BY <1>1, OnesPositive
  <2> HIDE DEF z
  <2>2. \/ old[1] = P.src[1] /\ old[2] = P.src[2] /\ Q.src[1] = new[1] /\ Q.src[2] = new[2]
           /\ Q.dst[1] = P.dst[1] /\ Q.dst[2] = P.dst[2]
        \/ old[1] = P.dst[1] /\ old[2] = P.dst[2] /\ Q.src[1] = P.src[1] /\ Q.src[2] = P.src[2]
           /\ Q.dst[1] = new[1] /\ Q.dst[2] = new[2]
    BY Zenon
  <2>3. t = s + z
    BY <1>2, <1>3, <1>4, <2>1, <2>2, OnesPositive DEF Word
  <2> QED
    BY <2>3, Zenon DEF z
<1> HIDE DEF s, t
<1>7. Fold[t] = Fold[s]
  BY <1>5, <1>6, FoldAlike, Zenon
<1> QED
  BY <1>7, Zenon DEF Verifies, s, t, ck2

\* The type of the packet.
RTypeOK == pkt \in Packet

\* The packet is a packet throughout.
LEMMA PacketStays == RSpec => []RTypeOK
<1>1. RInit => RTypeOK
  BY Zenon DEF RInit, RTypeOK
<1>2. RTypeOK /\ [RNext]_pkt => RTypeOK'
  <2> SUFFICES ASSUME RTypeOK, NEW off \in {"src", "dst"}, NEW new \in Word \X Word,
                      Rewrite(off, new)
               PROVE  RTypeOK'
    BY Zenon DEF RNext, RTypeOK
  <2>1. Readdressed(pkt, RewriteAddr(pkt, off, new), pkt[off], new)
    BY RewriteIs, Zenon DEF RTypeOK
  <2> QED
    BY <2>1, Zenon DEF Readdressed, Rewrite, RTypeOK
<1> QED
  BY <1>1, <1>2, PTL DEF RSpec

\* For words of any width, rewrite_addr changes no verdict about the header checksum, nor
\* about a transport checksum but for a UDP one that becomes 0.
THEOREM ChecksumsSurviveRewriting == RSpec => VerdictsKept
<1> DEFINE A == /\ HeaderOk(pkt) <=> HeaderOk(pkt')
                /\ HasTransport(pkt.kind) =>
                     /\ TransportOk(pkt) => TransportOk(pkt')
                     /\ TransportOk(pkt') => \/ TransportOk(pkt)
                                             \/ pkt.kind.proto = "udp" /\ pkt'.l4_ck = 0
<1>1. RTypeOK /\ [RNext]_pkt => [A]_pkt
  <2> SUFFICES ASSUME RTypeOK, NEW off \in {"src", "dst"}, NEW new \in Word \X Word,
                      Rewrite(off, new)
               PROVE  A
    BY Zenon DEF RNext
  <2> DEFINE old == pkt[off]
  <2>1. Readdressed(pkt, pkt', old, new)
    BY RewriteIs, Zenon DEF Rewrite, RTypeOK
  <2>2. /\ pkt \in Packet /\ pkt.ip_ck \in Word /\ pkt.l4_ck \in Word
        /\ pkt.ip_rest \in Word \ {0} /\ pkt.l4_rest \in Word \ {0}
    BY Zenon DEF Packet, RTypeOK
  <2> HIDE DEF old
  <2>3. ASSUME NEW rest \in Word \ {0}, NEW ck \in Word
        PROVE  Verifies(pkt', rest, AdjustChecksum(ck, old, new)) <=> Verifies(pkt, rest, ck)
    BY <2>1, <2>2, VerdictKept, Zenon DEF Readdressed
  <2>4. HeaderOk(pkt) <=> HeaderOk(pkt')
    BY <2>1, <2>2, <2>3, Zenon DEF HeaderOk, Readdressed
  <2>5. Verifies(pkt', pkt.l4_rest, AdjustChecksum(pkt.l4_ck, old, new))
          <=> Verifies(pkt, pkt.l4_rest, pkt.l4_ck)
    BY <2>2, <2>3, Zenon
  <2>6. ASSUME HasTransport(pkt.kind)
        PROVE  /\ TransportOk(pkt) => TransportOk(pkt')
               /\ TransportOk(pkt') => \/ TransportOk(pkt)
                                       \/ pkt.kind.proto = "udp" /\ pkt'.l4_ck = 0
    BY <2>1, <2>5, <2>6, Zenon DEF TransportOk, Readdressed
  <2> QED
    BY <2>4, <2>6, Zenon
<1> QED
  BY <1>1, PacketStays, PTL DEF RSpec, VerdictsKept

-----------------------------------------------------------------------------
(* AddressPlan.                                                            *)

\* Induction up to a bound, for a set of numbers.
LEMMA CountUp ==
  ASSUME NEW N \in Nat, NEW G, 0 \in G, \A i \in 0 .. N - 1 : i \in G => i + 1 \in G
  PROVE  0 .. N \subseteq G
<1> DEFINE bad == {i \in 0 .. N : i \notin G}
<1>1. SUFFICES ASSUME bad # {} PROVE FALSE
  BY Zenon
<1>2. PICK n \in bad : \A k \in bad : n <= k
  <2>1. bad \subseteq Nat
    OBVIOUS
  <2> QED
    BY <1>1, <2>1, LeastNat, Zenon
<1>3. n \in 0 .. N /\ n \notin G /\ n # 0
  BY Zenon
<1>4. n - 1 \in 0 .. N - 1 /\ n - 1 \in 0 .. N /\ ~(n <= n - 1) /\ (n - 1) + 1 = n
  BY <1>3, SMT
<1>5. n - 1 \in G
  BY <1>2, <1>4, Zenon
<1> QED
  BY <1>3, <1>4, <1>5, Zenon

\* f is the iteration of step, from base, N times.
Iterates(f, N, S, base, step) ==
  f \in [0 .. N -> S] /\ f[0] = base /\ \A i \in 1 .. N : f[i] = step[<<f[i - 1], i>>]

\* A function can be defined by recursion over the numbers up to N.
LEMMA Iteration ==
  ASSUME NEW N \in Nat, NEW S, NEW base \in S, NEW step \in [S \X (1 .. N) -> S]
  PROVE  \E f : Iterates(f, N, S, base, step)
<1> DEFINE Upto(n, f) == f[0] = base /\ \A i \in 1 .. n : f[i] = step[<<f[i - 1], i>>]
           bad == {n \in 0 .. N : ~ \E f \in [0 .. n -> S] : Upto(n, f)}
<1>1. SUFFICES ASSUME bad # {} PROVE FALSE
  <2>1. N \in 0 .. N
    OBVIOUS
  <2> QED
    BY <2>1, Zenon DEF Iterates
<1>2. PICK n \in bad : \A k \in bad : n <= k
  <2>1. bad \subseteq Nat
    OBVIOUS
  <2> QED
    BY <1>1, <2>1, LeastNat, Zenon
<1>3. n \in 0 .. N /\ n \in Nat
  OBVIOUS
<1>4. n # 0
  <2>1. [i \in 0 .. 0 |-> base] \in [0 .. 0 -> S] /\ Upto(0, [i \in 0 .. 0 |-> base])
    BY SMT
  <2> QED
    BY <2>1, Zenon
<1>5. PICK f \in [0 .. n - 1 -> S] : Upto(n - 1, f)
  <2>1. n - 1 \in 0 .. N /\ ~(n <= n - 1)
    BY <1>3, <1>4
  <2> QED
    BY <1>2, <2>1, Zenon
<1> DEFINE v == step[<<f[n - 1], n>>]
           g == [i \in 0 .. n |-> IF i = n THEN v ELSE f[i]]
<1>6. v \in S
  <2>1. n - 1 \in 0 .. n - 1 /\ n \in 1 .. N
    BY <1>3, <1>4
  <2>2. <<f[n - 1], n>> \in S \X (1 .. N)
    BY <2>1, Zenon
  <2> QED
    BY <2>2, Zenon
<1>7. \A i \in 0 .. n : i = n \/ i \in 0 .. n - 1
  BY <1>3
<1>8. g \in [0 .. n -> S]
  BY <1>6, <1>7, Zenon
<1>9. Upto(n, g)
  <2>1. g[0] = base
    <3>1. 0 \in 0 .. n /\ 0 # n
      BY <1>3, <1>4
    <3> QED
      BY <1>5, <3>1, Zenon
  <2>2. ASSUME NEW i \in 1 .. n PROVE g[i] = step[<<g[i - 1], i>>]
    <3>1. i \in 0 .. n /\ i - 1 \in 0 .. n /\ i - 1 # n /\ (i # n => i \in 1 .. n - 1)
      BY <1>3, <1>4
    <3>2. g[i - 1] = f[i - 1]
      BY <3>1, Zenon
    <3>3. g[i] = IF i = n THEN v ELSE f[i]
      BY <3>1, Zenon
    <3> QED
      BY <1>5, <3>1, <3>2, <3>3, Zenon
  <2> QED
    BY <2>1, <2>2, Zenon
<1> QED
  BY <1>8, <1>9, Zenon

\* There is one quotient and one remainder.
LEMMA QuotientIs ==
  ASSUME NEW b \in Nat \ {0}, NEW q \in Nat, NEW r \in Nat, r < b
  PROVE  (b * q + r) \div b = q /\ (b * q + r) % b = r
<1> DEFINE s == b * q + r
           u == s \div b
           v == s % b
<1>1. s \in Nat
  BY SMTT(20)
<1>2. u \in Nat /\ v \in Nat /\ s = b * u + v /\ v < b
  BY <1>1, DivMod, Zenon
<1>3. b * u + v = b * q + r
  BY <1>2, Zenon
<1> HIDE DEF s, u, v
<1>4. ~(u < q)
  <2>1. SUFFICES ASSUME u < q PROVE FALSE
    OBVIOUS
  <2>2. b * q >= b * u + b
    <3>1. b * q = b * u + b * (q - u) /\ q - u >= 1 /\ q - u \in Nat
      BY <1>2, <2>1, SMTT(20)
    <3>2. b * (q - u) >= b
      BY <3>1, SMTT(20)
    <3> QED
      BY <1>2, <3>1, <3>2, SMTT(20)
  <2> QED
    BY <1>2, <1>3, <2>2, SMTT(20)
<1>5. ~(q < u)
  <2>1. SUFFICES ASSUME q < u PROVE FALSE
    OBVIOUS
  <2>2. b * u >= b * q + b
    <3>1. b * u = b * q + b * (u - q) /\ u - q >= 1 /\ u - q \in Nat
      BY <1>2, <2>1, SMTT(20)
    <3>2. b * (u - q) >= b
      BY <3>1, SMTT(20)
    <3> QED
      BY <1>2, <3>1, <3>2, SMTT(20)
  <2> QED
    BY <1>2, <1>3, <2>2, SMTT(20)
<1>6. u = q
  BY <1>2, <1>4, <1>5
<1>7. v = r
  BY <1>2, <1>3, <1>6, SMTT(20)
<1> QED
  BY <1>6, <1>7, Zenon DEF s, u, v

\* What Pow2 is: the recursion that defines it has a solution.
LEMMA Pow2Is ==
  /\ Pow2 \in [0 .. Bits -> Nat \ {0}]
  /\ Pow2[0] = 1
  /\ \A k \in 1 .. Bits : Pow2[k] = 2 * Pow2[k - 1]
<1> DEFINE S == Nat \ {0}
           step == [e \in S \X (1 .. Bits) |-> 2 * e[1]]
           p == CHOOSE f : f = [k \in 0 .. Bits |-> IF k = 0 THEN 1 ELSE 2 * f[k - 1]]
<1>1. Bits \in Nat /\ 1 \in S /\ \A n \in S : 2 * n \in S
  BY BitsAssumption
<1>2. Pow2 = p
  BY Zenon DEF Pow2
<1> HIDE DEF S
<1>3. step \in [S \X (1 .. Bits) -> S]
  BY <1>1, Zenon
<1>4. \A n \in S, i \in 1 .. Bits : step[<<n, i>>] = 2 * n
  BY Zenon
<1> HIDE DEF step
<1>5. PICK f : f \in [0 .. Bits -> S] /\ f[0] = 1 /\ \A i \in 1 .. Bits : f[i] = step[<<f[i - 1], i>>]
  <2>1. \E f : Iterates(f, Bits, S, 1, step)
    BY <1>1, <1>3, Iteration, Zenon
  <2> QED
    BY <2>1, Zenon DEF Iterates
<1>6. \A k \in 0 .. Bits : k = 0 \/ (k \in 1 .. Bits /\ k - 1 \in 0 .. Bits)
  BY <1>1
<1>7. ASSUME NEW k \in 0 .. Bits PROVE f[k] = IF k = 0 THEN 1 ELSE 2 * f[k - 1]
  BY <1>4, <1>5, <1>6, Zenon
<1>8. f = [k \in 0 .. Bits |-> IF k = 0 THEN 1 ELSE 2 * f[k - 1]]
  BY <1>5, <1>7, Zenon
<1>9. p = [k \in 0 .. Bits |-> IF k = 0 THEN 1 ELSE 2 * p[k - 1]]
  BY <1>8, Zenon
<1> HIDE DEF p
<1> DEFINE G == {k \in 0 .. Bits : p[k] \in S}
<1>10. 0 \in G
  BY <1>1, <1>9, 0 \in 0 .. Bits, Zenon
<1>11. ASSUME NEW i \in 0 .. Bits - 1, i \in G PROVE i + 1 \in G
  <2>1. i + 1 \in 0 .. Bits /\ i + 1 # 0 /\ (i + 1) - 1 = i
    BY <1>1
  <2> QED
    BY <1>1, <1>9, <1>11, <2>1, Zenon
<1>12. 0 .. Bits \subseteq G
  <2> HIDE DEF G
  <2> QED
    BY <1>1, <1>10, <1>11, CountUp, Zenon
<1>13. p \in [0 .. Bits -> S]
  BY <1>9, <1>12, Zenon
<1>14. p[0] = 1 /\ \A k \in 1 .. Bits : p[k] = 2 * p[k - 1]
  <2>1. 0 \in 0 .. Bits /\ \A k \in 1 .. Bits : k \in 0 .. Bits /\ k # 0
    BY <1>1
  <2> QED
    BY <1>9, <2>1, Zenon
<1> QED
  BY <1>2, <1>13, <1>14, Zenon DEF S

\* A power of two divides the larger ones.
LEMMA Pow2Divides ==
  ASSUME NEW h \in 0 .. Bits, NEW k \in h .. Bits
  PROVE  \E c \in Nat \ {0} : Pow2[k] = Pow2[h] * c
<1> DEFINE N == Bits - h
           P(j) == \E c \in Nat \ {0} : Pow2[h + j] = Pow2[h] * c
           G == {j \in 0 .. N : P(j)}
<1>1. Bits \in Nat /\ N \in Nat /\ h + 0 = h /\ 0 \in 0 .. N
  BY BitsAssumption
<1>2. Pow2[h] \in Nat \ {0}
  BY Pow2Is, Zenon
<1>3. 0 \in G
  <2>1. Pow2[h] = Pow2[h] * 1
    BY <1>2
  <2>2. 1 \in Nat \ {0}
    OBVIOUS
  <2> QED
    BY <1>1, <2>1, <2>2, Zenon
<1>4. ASSUME NEW j \in 0 .. N - 1, j \in G PROVE j + 1 \in G
  <2>1. PICK c \in Nat \ {0} : Pow2[h + j] = Pow2[h] * c
    BY <1>4, Zenon
  <2>2. h + (j + 1) \in 1 .. Bits /\ (h + (j + 1)) - 1 = h + j /\ j + 1 \in 0 .. N
    BY <1>1
  <2>3. Pow2[h + (j + 1)] = 2 * Pow2[h + j]
    BY <2>2, Pow2Is, Zenon
  <2>4. 2 * (Pow2[h] * c) = Pow2[h] * (2 * c) /\ 2 * c \in Nat \ {0}
    BY <1>2, SMTT(20)
  <2>5. Pow2[h + (j + 1)] = Pow2[h] * (2 * c)
    BY <2>1, <2>3, <2>4, Zenon
  <2> QED
    BY <2>2, <2>4, <2>5, Zenon
<1>5. 0 .. N \subseteq G
  <2> HIDE DEF G, N
  <2> QED
    BY <1>1, <1>3, <1>4, CountUp, Zenon
<1>6. k - h \in 0 .. N /\ h + (k - h) = k
  BY <1>1
<1>7. P(k - h)
  BY <1>5, <1>6, Zenon
<1> QED
  BY <1>6, <1>7, Zenon

\* A bit.
LEMMA BitIs ==
  ASSUME NEW n \in Nat, NEW k \in 0 .. Bits - 1
  PROVE  /\ Bit(n, k) \in {0, 1}
         /\ n % Pow2[k + 1] = (n % Pow2[k]) + Pow2[k] * Bit(n, k)
<1> DEFINE b == Pow2[k]
           q == n \div b
           r == n % b
           u == q \div 2
           v == q % 2
<1>1. k \in 0 .. Bits /\ k + 1 \in 1 .. Bits /\ (k + 1) - 1 = k
  BY BitsAssumption
<1>2. b \in Nat \ {0} /\ Pow2[k + 1] = 2 * b
  BY <1>1, Pow2Is, Zenon
<1> HIDE DEF b
<1>3. q \in Nat /\ r \in Nat /\ n = b * q + r /\ r < b
  BY <1>2, DivMod, Zenon
<1>4. Bit(n, k) = v
  BY Zenon DEF Bit, b
<1> HIDE DEF q, r
<1>5. u \in Nat /\ v \in {0, 1} /\ q = 2 * u + v
  BY <1>3
<1> HIDE DEF u, v
<1>6. n = (2 * b) * u + (b * v + r)
  <2>1. b * (2 * u + v) = (2 * b) * u + b * v
    BY <1>2, <1>5, SMTT(20)
  <2> QED
    BY <1>2, <1>3, <1>5, <2>1, SMTT(20)
<1>7. b * v + r \in Nat /\ b * v + r < 2 * b /\ 2 * b \in Nat \ {0}
  BY <1>2, <1>3, <1>5, SMTT(20)
<1>8. n % (2 * b) = b * v + r
  BY <1>5, <1>6, <1>7, QuotientIs, Zenon
<1>9. b * v + r = r + b * v
  BY <1>2, <1>3, <1>5, SMTT(20)
<1> QED
  BY <1>2, <1>4, <1>5, <1>8, <1>9, Zenon DEF b, r

\* The mask of a prefix that leaves h bits.
HighOnes(h) == Pow2[Bits] - Pow2[h]

\* Its bits: zeros, then ones.
LEMMA BitOfOnes ==
  ASSUME NEW h \in 0 .. Bits, NEW k \in 0 .. Bits - 1
  PROVE  /\ HighOnes(h) \in Nat
         /\ Bit(HighOnes(h), k) = IF k < h THEN 0 ELSE 1
<1> DEFINE b == Pow2[k]
           p == Pow2[h]
           t == Pow2[Bits]
<1>1. /\ Bits \in Nat /\ k \in 0 .. Bits /\ k + 1 \in 1 .. Bits /\ (k + 1) - 1 = k
      /\ k + 1 \in 0 .. Bits /\ Bits \in h .. Bits /\ Bits \in k + 1 .. Bits /\ Bits \in 0 .. Bits
      /\ h \in Nat /\ k \in Nat
  BY BitsAssumption
<1>2. b \in Nat \ {0} /\ p \in Nat \ {0} /\ t \in Nat \ {0} /\ Pow2[k + 1] = 2 * b
  BY <1>1, Pow2Is, Zenon
<1>3. PICK e \in Nat \ {0} : t = p * e
  BY <1>1, Pow2Divides, Zenon
<1>4. PICK d \in Nat \ {0} : t = (2 * b) * d
  <2>1. \E d \in Nat \ {0} : t = Pow2[k + 1] * d
    BY <1>1, Pow2Divides, Zenon
  <2> QED
    BY <1>2, <2>1, Zenon
<1>5. HighOnes(h) = t - p
  BY Zenon DEF HighOnes
<1>6. Bit(HighOnes(h), k) = ((t - p) \div b) % 2
  BY <1>5, Zenon DEF Bit
<1>7. k < h => \E c \in Nat \ {0} : p = (2 * b) * c
  <2>1. k < h => h \in k + 1 .. Bits
    BY <1>1
  <2>2. k < h => \E c \in Nat \ {0} : p = Pow2[k + 1] * c
    BY <1>1, <2>1, Pow2Divides, Zenon
  <2> QED
    BY <1>2, <2>2, Zenon
<1>8. ~(k < h) => \E c \in Nat \ {0} : b = p * c
  <2>1. ~(k < h) => k \in h .. Bits
    BY <1>1
  <2> QED
    BY <2>1, Pow2Divides, Zenon
<1> HIDE DEF b, p, t
<1>9. p <= t
  BY <1>2, <1>3, SMTT(20)
<1>10. CASE k < h
  <2>1. PICK c \in Nat \ {0} : p = (2 * b) * c
    BY <1>7, <1>10, Zenon
  <2>2. c <= d
    <3>1. SUFFICES ASSUME c > d PROVE FALSE
      OBVIOUS
    <3>2. (2 * b) * c = (2 * b) * d + (2 * b) * (c - d) /\ (2 * b) * (c - d) > 0
      BY <1>2, <3>1, SMTT(20)
    <3> QED
      BY <1>2, <1>4, <1>9, <2>1, <3>2, SMTT(20)
  <2>3. t - p = b * (2 * (d - c)) + 0 /\ 2 * (d - c) \in Nat /\ 0 \in Nat /\ 0 < b
    BY <1>2, <1>4, <2>1, <2>2, SMTT(20)
  <2>4. (t - p) \div b = 2 * (d - c)
    BY <1>2, <2>3, QuotientIs, Zenon
  <2>5. (2 * (d - c)) % 2 = 0
    BY <2>2
  <2> QED
    BY <1>2, <1>5, <1>6, <1>9, <1>10, <2>4, <2>5, SMT
<1>11. CASE ~(k < h)
  <2>1. PICK c \in Nat \ {0} : b = p * c
    BY <1>8, <1>11, Zenon
  <2>2. p <= b
    BY <1>2, <2>1, SMTT(20)
  <2>3. t - p = b * (2 * (d - 1) + 1) + (b - p)
    <3>1. (2 * b) * d = b * (2 * (d - 1) + 1) + b
      BY <1>2, SMTT(20)
    <3> QED
      BY <1>2, <1>4, <3>1, SMTT(20)
  <2>4. 2 * (d - 1) + 1 \in Nat /\ b - p \in Nat /\ b - p < b
    BY <1>2, <2>2
  <2>5. (t - p) \div b = 2 * (d - 1) + 1
    BY <1>2, <2>3, <2>4, QuotientIs, Zenon
  <2>6. (2 * (d - 1) + 1) % 2 = 1
    OBVIOUS
  <2> QED
    BY <1>2, <1>5, <1>6, <1>9, <1>11, <2>5, <2>6, SMT
<1> QED
  BY <1>10, <1>11, Zenon

\* The and of two numbers adds up their common bits.
LEMMA AndIs ==
  ASSUME NEW a \in Nat, NEW b \in Nat
  PROVE  \E f \in [0 .. Bits -> Nat] :
           /\ And(a, b) = f[Bits] /\ f[0] = 0
           /\ \A k \in 1 .. Bits : f[k] = f[k - 1] + Pow2[k - 1] * (Bit(a, k - 1) * Bit(b, k - 1))
<1> DEFINE C(k) == Pow2[k - 1] * (Bit(a, k - 1) * Bit(b, k - 1))
           step == [e \in Nat \X (1 .. Bits) |-> e[1] + C(e[2])]
           p == CHOOSE f : f = [k \in 0 .. Bits |-> IF k = 0 THEN 0 ELSE f[k - 1] + C(k)]
<1>1. Bits \in Nat /\ 0 \in Nat /\ 0 \in 0 .. Bits
  BY BitsAssumption
<1>2. And(a, b) = p[Bits]
  BY Zenon DEF And
<1>3. ASSUME NEW k \in 1 .. Bits PROVE C(k) \in Nat
  <2>1. k - 1 \in 0 .. Bits /\ k - 1 \in 0 .. Bits - 1
    BY <1>1
  <2>2. Pow2[k - 1] \in Nat \ {0} /\ Bit(a, k - 1) \in {0, 1} /\ Bit(b, k - 1) \in {0, 1}
    BY <2>1, Pow2Is, BitIs, Zenon
  <2> QED
    BY <2>2, SMTT(20)
<1> HIDE DEF C
<1>4. \A n \in Nat, k \in 1 .. Bits : n + C(k) \in Nat
  BY <1>3, SMT
<1>5. step \in [Nat \X (1 .. Bits) -> Nat]
  BY <1>4, Zenon
<1>6. \A n \in Nat, i \in 1 .. Bits : step[<<n, i>>] = n + C(i)
  BY Zenon
<1> HIDE DEF step
<1>7. PICK f : f \in [0 .. Bits -> Nat] /\ f[0] = 0 /\ \A i \in 1 .. Bits : f[i] = step[<<f[i - 1], i>>]
  <2>1. \E f : Iterates(f, Bits, Nat, 0, step)
    BY <1>1, <1>5, Iteration, Zenon
  <2> QED
    BY <2>1, Zenon DEF Iterates
<1>8. /\ \A k \in 0 .. Bits : k = 0 \/ (k \in 1 .. Bits /\ k - 1 \in 0 .. Bits)
      /\ \A k \in 1 .. Bits : k \in 0 .. Bits /\ k # 0
  BY <1>1
<1>9. ASSUME NEW k \in 0 .. Bits PROVE f[k] = IF k = 0 THEN 0 ELSE f[k - 1] + C(k)
  BY <1>6, <1>7, <1>8, Zenon
<1>10. f = [k \in 0 .. Bits |-> IF k = 0 THEN 0 ELSE f[k - 1] + C(k)]
  BY <1>7, <1>9, Zenon
<1>11. p = [k \in 0 .. Bits |-> IF k = 0 THEN 0 ELSE p[k - 1] + C(k)]
  BY <1>10, Zenon
<1> HIDE DEF p
<1>12. p[0] = 0 /\ \A k \in 1 .. Bits : p[k] = p[k - 1] + C(k)
  BY <1>1, <1>8, <1>11, Zenon
<1> DEFINE G == {k \in 0 .. Bits : p[k] \in Nat}
<1>13. 0 \in G
  BY <1>1, <1>12, Zenon
<1>14. ASSUME NEW i \in 0 .. Bits - 1, i \in G PROVE i + 1 \in G
  <2>1. i + 1 \in 0 .. Bits /\ i + 1 \in 1 .. Bits /\ (i + 1) - 1 = i
    BY <1>1
  <2> QED
    BY <1>4, <1>12, <1>14, <2>1, Zenon
<1>15. 0 .. Bits \subseteq G
  <2> HIDE DEF G
  <2> QED
    BY <1>1, <1>13, <1>14, CountUp, Zenon
<1>16. p \in [0 .. Bits -> Nat]
  BY <1>11, <1>15, Zenon
<1> QED
  BY <1>2, <1>12, <1>16, Zenon DEF C

\* Masking with a prefix clears the bits below it.
LEMMA MaskClears ==
  ASSUME NEW x \in Address32, NEW h \in 0 .. Bits
  PROVE  And(x, HighOnes(h)) = Pow2[h] * (x \div Pow2[h])
<1> DEFINE M == HighOnes(h)
           R(k) == x % Pow2[k]
<1>1. /\ Bits \in Nat /\ 0 \in 0 .. Bits - 1 /\ 0 \in 0 .. Bits /\ Bits \in 0 .. Bits
      /\ h \in Nat
  BY BitsAssumption
<1>2. \A k \in 0 .. Bits : Pow2[k] \in Nat \ {0}
  BY Pow2Is, Zenon
<1>3. x \in Nat /\ x < Pow2[Bits]
  BY <1>1, <1>2, SMT DEF Address32, Top
<1>4. M \in Nat
  BY <1>1, BitOfOnes, Zenon
<1>5. PICK f \in [0 .. Bits -> Nat] :
        /\ And(x, M) = f[Bits] /\ f[0] = 0
        /\ \A k \in 1 .. Bits : f[k] = f[k - 1] + Pow2[k - 1] * (Bit(x, k - 1) * Bit(M, k - 1))
  BY <1>3, <1>4, AndIs, Zenon
<1>6. \A k \in 0 .. Bits : R(k) \in Nat
  BY <1>2, <1>3, DivMod, Zenon
<1>7. ASSUME NEW k \in 0 .. Bits - 1
      PROVE  /\ Bit(M, k) = (IF k < h THEN 0 ELSE 1) /\ Bit(x, k) \in {0, 1}
             /\ R(k + 1) = R(k) + Pow2[k] * Bit(x, k)
  BY <1>3, BitOfOnes, BitIs, Zenon
<1> HIDE DEF M, R
<1> DEFINE G == {k \in 0 .. Bits : f[k] = IF k <= h THEN 0 ELSE R(k) - R(h)}
<1>8. 0 \in G
  BY <1>1, <1>5, 0 <= h, Zenon
<1>9. ASSUME NEW k \in 0 .. Bits - 1, k \in G PROVE k + 1 \in G
  <2>1. k + 1 \in 0 .. Bits /\ k + 1 \in 1 .. Bits /\ (k + 1) - 1 = k /\ k \in 0 .. Bits /\ k \in Nat
    BY <1>1
  <2>2. f[k + 1] = f[k] + Pow2[k] * (Bit(x, k) * Bit(M, k))
    BY <1>5, <2>1, Zenon
  <2>3. f[k] = IF k <= h THEN 0 ELSE R(k) - R(h)
    BY <1>9, Zenon
  <2>4. /\ Pow2[k] \in Nat \ {0} /\ R(k) \in Nat /\ R(k + 1) \in Nat /\ R(h) \in Nat
    BY <1>2, <1>6, <2>1, Zenon
  <2> DEFINE w == Pow2[k]
             y == Bit(x, k)
             z == Bit(M, k)
  <2>5. /\ y \in {0, 1} /\ z = (IF k < h THEN 0 ELSE 1) /\ R(k + 1) = R(k) + w * y
        /\ f[k + 1] = f[k] + w * (y * z) /\ w \in Nat
    BY <1>7, <2>2, <2>4, Zenon
  <2> HIDE DEF w, y, z
  <2>6. CASE k < h
    <3>1. f[k + 1] = 0 /\ k + 1 <= h
      BY <1>1, <2>1, <2>3, <2>5, <2>6, SMT
    <3> QED
      BY <2>1, <3>1, Zenon
  <2>7. CASE ~(k < h)
    <3>1. y * z = y /\ w * y \in Nat
      BY <2>5, <2>7, SMT
    <3>2. f[k] = R(k) - R(h)
      <4>1. k = h \/ ~(k <= h)
        BY <1>1, <2>1, <2>7
      <4>2. R(h) - R(h) = 0 /\ h <= h
        BY <1>1, <2>4
      <4> QED
        BY <2>3, <4>1, <4>2, Zenon
    <3>3. ~(k + 1 <= h)
      BY <1>1, <2>1, <2>7
    <3>4. f[k + 1] = f[k] + w * y
      BY <2>5, <3>1, Zenon
    <3>5. f[k + 1] = R(k + 1) - R(h)
      BY <2>4, <2>5, <3>1, <3>2, <3>4, SMT
    <3> QED
      BY <2>1, <3>3, <3>5, Zenon
  <2> QED
    BY <2>6, <2>7, Zenon
<1>10. Bits \in G
  <2> HIDE DEF G
  <2> QED
    BY <1>1, <1>8, <1>9, CountUp, Zenon
<1>11. f[Bits] = R(Bits) - R(h)
  <2>1. Bits = h \/ ~(Bits <= h)
    BY <1>1
  <2>2. R(h) - R(h) = 0
    BY <1>6
  <2> QED
    BY <1>10, <2>1, <2>2, Zenon
<1>12. R(Bits) = x
  <2>1. x = Pow2[Bits] * 0 + x
    BY <1>1, <1>2, <1>3, SMT
  <2>2. (Pow2[Bits] * 0 + x) % Pow2[Bits] = x
    BY <1>1, <1>2, <1>3, QuotientIs, Zenon
  <2> QED
    BY <2>1, <2>2, Zenon DEF R
<1>13. /\ Pow2[h] \in Nat /\ x \div Pow2[h] \in Nat /\ R(h) \in Nat
       /\ x = Pow2[h] * (x \div Pow2[h]) + R(h)
  BY <1>2, <1>3, DivMod, Zenon DEF R
<1> DEFINE y == Pow2[h] * (x \div Pow2[h])
<1>14. y \in Nat
  BY <1>13
<1> HIDE DEF y
<1>15. x - R(h) = y
  BY <1>3, <1>13, <1>14, SMT DEF y
<1> QED
  BY <1>5, <1>11, <1>12, <1>15, Zenon DEF M, y

\* The network of an address, h bits below it cleared.
Block(x, h) == Pow2[h] * (x \div Pow2[h])

\* A network lies between the first and the last address there is.
LEMMA NetIs ==
  ASSUME NEW x \in Address32, NEW h \in 0 .. Bits
  PROVE  /\ x \in Nat /\ x \div Pow2[h] \in Nat /\ Block(x, h) \in Nat
         /\ Block(x, h) <= x /\ x < Block(x, h) + Pow2[h]
         /\ Block(x, h) + Pow2[h] <= Pow2[Bits]
<1> DEFINE p == Pow2[h]
           t == Pow2[Bits]
           q == x \div p
           r == x % p
<1>1. Bits \in h .. Bits /\ Bits \in 0 .. Bits
  BY BitsAssumption
<1>2. p \in Nat \ {0} /\ t \in Nat \ {0}
  BY <1>1, Pow2Is, Zenon
<1>3. x \in Nat /\ x < t
  BY <1>2, SMT DEF Address32, Top
<1>4. PICK e \in Nat \ {0} : t = p * e
  BY <1>1, Pow2Divides, Zenon
<1>5. q \in Nat /\ r \in Nat /\ x = p * q + r /\ r < p
  BY <1>2, <1>3, DivMod, Zenon
<1> HIDE DEF p, t, q, r
<1>6. q < e
  <2>1. SUFFICES ASSUME q >= e PROVE FALSE
    BY <1>5
  <2>2. p * q = p * e + p * (q - e) /\ p * (q - e) >= 0
    BY <1>2, <1>5, <2>1, SMTT(20)
  <2>3. p * q \in Nat /\ p * e \in Nat
    BY <1>2, <1>5, SMTT(20)
  <2> QED
    BY <1>2, <1>3, <1>4, <1>5, <2>2, <2>3, SMTT(20)
<1>7. p * q + p <= t
  <2>1. p * e = p * q + p + p * (e - q - 1) /\ p * (e - q - 1) >= 0
    BY <1>2, <1>5, <1>6, SMTT(20)
  <2>2. p * q \in Nat /\ p * e \in Nat /\ p * (e - q - 1) \in Int
    BY <1>2, <1>5, SMTT(20)
  <2> QED
    BY <1>2, <1>4, <2>1, <2>2, SMTT(20)
<1>8. p * q \in Nat
  BY <1>2, <1>5, SMTT(20)
<1>9. Block(x, h) = p * q
  BY Zenon DEF Block, p, q
<1> DEFINE n == p * q
<1> HIDE DEF n
<1>10. n \in Nat /\ n <= x /\ x < n + p /\ n + p <= t
  BY <1>2, <1>3, <1>5, <1>7, <1>8, SMT DEF n
<1> QED
  BY <1>3, <1>5, <1>9, <1>10, Zenon DEF n, p, t, q

\* Masking gives the network.
LEMMA AndIsNet ==
  ASSUME NEW x \in Address32, NEW h \in 0 .. Bits
  PROVE  And(x, HighOnes(h)) = Block(x, h)
  BY MaskClears, Zenon DEF Block

\* The addresses of one network have that network.
LEMMA SameNet ==
  ASSUME NEW x \in Address32, NEW h \in 0 .. Bits, NEW a \in Nat,
         Block(x, h) <= a, a < Block(x, h) + Pow2[h]
  PROVE  a \in Address32 /\ Block(a, h) = Block(x, h)
<1> DEFINE p == Pow2[h]
           t == Pow2[Bits]
           q == x \div p
           n == p * q
           r == a - n
<1>1. Bits \in 0 .. Bits
  BY BitsAssumption
<1>2. p \in Nat \ {0} /\ t \in Nat \ {0}
  BY <1>1, Pow2Is, Zenon
<1>3. n = Block(x, h)
  BY Zenon DEF Block
<1>4. q \in Nat /\ n \in Nat /\ n + p <= t /\ n <= a /\ a < n + p
  BY <1>3, NetIs, Zenon
<1>5. Top = t - 1
  BY Zenon DEF Top
<1> HIDE DEF p, t, q
<1>6. a \in 0 .. t - 1
  BY <1>2, <1>4, SMT
<1>7. r \in Nat /\ r < p /\ a = n + r
  <2> HIDE DEF n
  <2> QED
    BY <1>2, <1>4, SMT
<1> HIDE DEF r
<1>8. (p * q + r) \div p = q
  BY <1>2, <1>4, <1>7, QuotientIs, Zenon
<1>9. a \div p = q
  BY <1>7, <1>8, Zenon
<1> QED
  BY <1>3, <1>5, <1>6, <1>9, Zenon DEF Block, Address32, p

\* host_range leaves out the network's first and last address.
LEMMA HostsAreInside ==
  ASSUME NEW x \in Address32, NEW h \in 0 .. Bits, NEW a \in HostRange(x, HighOnes(h))
  PROVE  a \in Nat /\ Block(x, h) < a /\ a < Block(x, h) + Pow2[h] - 1
<1> DEFINE p == Pow2[h]
           t == Pow2[Bits]
           n == Block(x, h)
<1>1. Bits \in 0 .. Bits /\ Bits \in 1 .. Bits /\ Bits - 1 \in 0 .. Bits
  BY BitsAssumption
<1>2. p \in Nat \ {0} /\ t \in Nat \ {0} /\ Pow2[Bits - 1] \in Nat \ {0} /\ t = 2 * Pow2[Bits - 1]
  BY <1>1, Pow2Is, Zenon
<1>3. n \in Nat /\ n + p <= t
  BY NetIs, Zenon
<1>4. Top = t - 1 /\ HighOnes(h) = t - p /\ And(x, HighOnes(h)) = n
  BY AndIsNet, Zenon DEF Top, HighOnes
<1>5. Complement(HighOnes(h)) = p - 1
  <2> HIDE DEF t, p
  <2> QED
    BY <1>2, <1>4, SMT DEF Complement
<1>6. HostRange(x, HighOnes(h)) = SaturatingSucc(n) .. SaturatingPred(n + (p - 1))
  BY <1>4, <1>5, Zenon DEF HostRange
<1>7. t >= 2
  BY <1>2
<1> HIDE DEF p, t, n
<1>8. a \in (IF n = t - 1 THEN t - 1 ELSE n + 1) .. (IF n + (p - 1) = 0 THEN 0 ELSE (n + (p - 1)) - 1)
  <2>1. SaturatingSucc(n) = IF n = t - 1 THEN t - 1 ELSE n + 1
    BY <1>4, Zenon DEF SaturatingSucc
  <2>2. SaturatingPred(n + (p - 1)) = IF n + (p - 1) = 0 THEN 0 ELSE (n + (p - 1)) - 1
    BY Zenon DEF SaturatingPred
  <2>3. a \in SaturatingSucc(n) .. SaturatingPred(n + (p - 1))
    BY <1>6, Zenon
  <2> QED
    BY <2>1, <2>2, <2>3, Zenon
<1>9. a \in Nat /\ n < a /\ a < n + p - 1
  BY <1>2, <1>3, <1>7, <1>8, SMT
<1> QED
  BY <1>9, Zenon DEF n, p

\* A prefix that leaves fewer bits lies within the one that leaves more.
LEMMA NetInNet ==
  ASSUME NEW x \in Address32, NEW h \in 0 .. Bits, NEW k \in h .. Bits
  PROVE  /\ Block(x, h) \in Address32 /\ Block(Block(x, h), h) = Block(x, h)
         /\ Block(Block(x, h), k) <= Block(x, h)
         /\ Block(x, h) + Pow2[h] <= Block(Block(x, h), k) + Pow2[k]
<1> DEFINE p == Pow2[h]
           n == Block(x, h)
           m == Block(n, k)
           q == x \div p
           s == n \div Pow2[k]
<1>1. k \in 0 .. Bits
  BY BitsAssumption
<1>2. p \in Nat \ {0} /\ Pow2[k] \in Nat \ {0}
  BY <1>1, Pow2Is, Zenon
<1>3. n \in Nat /\ n <= x /\ q \in Nat /\ n = p * q
  BY NetIs, Zenon DEF Block
<1>4. n <= n /\ n < n + p
  BY <1>2, <1>3
<1>5. n \in Address32 /\ Block(n, h) = n
  BY <1>3, <1>4, SameNet, Zenon
<1>6. m \in Nat /\ m <= n /\ n < m + Pow2[k] /\ s \in Nat /\ m = Pow2[k] * s
  <2>1. m = Pow2[k] * s
    BY Zenon DEF Block
  <2> HIDE DEF n
  <2>2. m \in Nat /\ m <= n /\ n < m + Pow2[k] /\ s \in Nat
    BY <1>1, <1>5, NetIs, Zenon
  <2> QED
    BY <2>1, <2>2, Zenon
<1>7. PICK c \in Nat \ {0} : Pow2[k] = p * c
  BY Pow2Divides, Zenon
<1> HIDE DEF p, n, m, q, s
<1> DEFINE w == p * c
           e == c * s + c
<1>8. m + w = p * e
  <2>1. p * (c * s + c) = (p * c) * s + p * c
    BY <1>2, <1>6, SMTT(20)
  <2> QED
    BY <1>6, <1>7, <2>1, Zenon
<1>9. n < p * e /\ e \in Nat
  <2>1. e \in Nat
    BY <1>6, SMTT(20)
  <2> QED
    BY <1>6, <1>7, <1>8, <2>1, Zenon
<1> HIDE DEF e
<1>10. q < e
  <2>1. SUFFICES ASSUME q >= e PROVE FALSE
    BY <1>3, <1>9
  <2>2. p * q = p * e + p * (q - e) /\ p * (q - e) >= 0
    BY <1>2, <1>3, <1>9, <2>1, SMTT(20)
  <2>3. p * q \in Nat /\ p * e \in Nat
    BY <1>2, <1>3, <1>9, SMTT(20)
  <2> QED
    BY <1>2, <1>3, <1>9, <2>2, <2>3, SMTT(20)
<1>11. p * q + p <= p * e
  <2>1. p * e = p * q + p + p * (e - q - 1) /\ p * (e - q - 1) >= 0
    BY <1>2, <1>3, <1>9, <1>10, SMTT(20)
  <2>2. p * q \in Nat /\ p * e \in Nat /\ p * (e - q - 1) \in Int
    BY <1>2, <1>3, <1>9, SMTT(20)
  <2> QED
    BY <1>2, <2>1, <2>2, SMTT(20)
<1>12. n + p <= m + Pow2[k]
  BY <1>3, <1>7, <1>8, <1>11, Zenon
<1> QED
  BY <1>5, <1>6, <1>12, Zenon DEF n, m, p

\* The mask of a prefix.
LEMMA MaskIsOnes ==
  ASSUME NEW plen \in 0 .. Bits
  PROVE  Bits - plen \in 0 .. Bits /\ MaskOf(plen) = HighOnes(Bits - plen)
<1>1. Bits - plen \in 0 .. Bits /\ Bits \in 0 .. Bits
  BY BitsAssumption
<1>2. Pow2[Bits] \in Nat \ {0} /\ Pow2[Bits - plen] \in Nat \ {0}
  BY <1>1, Pow2Is, Zenon
<1> QED
  BY <1>1, <1>2, SMT DEF MaskOf, HighOnes, Top

\* A host of the network of an address and a mask, as in TunHosts.
HostOf(a, ip, mask) ==
  /\ a \in Address32 /\ And(a, mask) = And(ip, mask)
  /\ a # And(ip, mask) /\ a # And(ip, mask) + Complement(mask)

\* Where host_range of a network within the TUN's hands out hosts of the TUN.
LEMMA HostsOfTun ==
  ASSUME NEW ip \in Address32, NEW k \in 0 .. Bits, NEW x \in Address32, NEW h \in 0 .. k,
         NEW a \in HostRange(Block(x, h), HighOnes(h)), Block(Block(x, h), k) = Block(ip, k)
  PROVE  HostOf(a, ip, HighOnes(k))
<1> DEFINE n == Block(x, h)
           m == Block(ip, k)
           p == Pow2[h]
           w == Pow2[k]
           t == Pow2[Bits]
<1>1. h \in 0 .. Bits /\ k \in h .. Bits /\ Bits \in 0 .. Bits
  BY BitsAssumption
<1>2. p \in Nat \ {0} /\ w \in Nat \ {0} /\ t \in Nat \ {0}
  BY <1>1, Pow2Is, Zenon
<1>3. n \in Address32 /\ Block(n, h) = n /\ m <= n /\ n + p <= m + w
  <2>1. n \in Address32 /\ Block(n, h) = n /\ Block(n, k) <= n /\ n + p <= Block(n, k) + w
    BY <1>1, NetInNet, Zenon
  <2> QED
    BY <2>1, Zenon
<1>4. n \in Nat /\ m \in Nat
  BY <1>1, NetIs, Zenon
<1>5. a \in Nat /\ n < a /\ a < n + p - 1
  <2>1. a \in HostRange(n, HighOnes(h)) /\ n \in Address32
    BY <1>3, Zenon
  <2> HIDE DEF n
  <2>2. a \in Nat /\ Block(n, h) < a /\ a < Block(n, h) + p - 1
    BY <1>1, <2>1, HostsAreInside, Zenon
  <2> QED
    BY <1>3, <2>2, Zenon
<1> HIDE DEF n, m, p, w, t
<1>6. m <= a /\ a < m + w /\ a # m /\ a # m + (w - 1)
  BY <1>2, <1>3, <1>4, <1>5, SMT
<1>7. a \in Address32 /\ Block(a, k) = m
  BY <1>5, <1>6, SameNet, Zenon DEF m, w
<1>8. And(a, HighOnes(k)) = m /\ And(ip, HighOnes(k)) = m
  BY <1>7, AndIsNet, Zenon DEF m
<1>9. Complement(HighOnes(k)) = w - 1
  <2>1. Complement(HighOnes(k)) = (t - 1) - (t - w)
    BY Zenon DEF Complement, HighOnes, Top, t, w
  <2> QED
    BY <1>2, <2>1, SMT
<1> QED
  BY <1>6, <1>7, <1>8, <1>9, Zenon DEF HostOf

\* The same, of host_range over the TUN's network itself.
LEMMA HostsOfTunItself ==
  ASSUME NEW ip \in Address32, NEW k \in 0 .. Bits, NEW a \in HostRange(ip, HighOnes(k))
  PROVE  HostOf(a, ip, HighOnes(k))
<1> DEFINE n == Block(ip, k)
<1>1. k \in k .. Bits /\ k \in 0 .. k
  BY BitsAssumption
<1>2. n \in Address32 /\ Block(n, k) = n
  BY <1>1, NetInNet, Zenon
<1>3. And(ip, HighOnes(k)) = n
  BY AndIsNet, Zenon
<1>4. And(n, HighOnes(k)) = n
  <2> HIDE DEF n
  <2> QED
    BY <1>2, AndIsNet, Zenon
<1>5. HostRange(n, HighOnes(k)) = HostRange(ip, HighOnes(k))
  BY <1>3, <1>4, Zenon DEF HostRange
<1>6. a \in HostRange(Block(ip, k), HighOnes(k)) /\ Block(Block(ip, k), k) = Block(ip, k)
  BY <1>2, <1>5, Zenon
<1> QED
  BY <1>1, <1>6, HostsOfTun, Zenon

\* What resolve made of the configuration, once it has run.
Outcome(g) ==
  IF g.mode.nat /\ g.mode.mesh THEN "nat" ELSE IF g.pool = None THEN "ok" ELSE ValidatesPool(g)

PlanInv == given \in Given /\ (plan = None \/ plan = Outcome(given))

\* With a proper netmask the assigner hands out hosts of the TUN network.
LEMMA HandoutsInside ==
  ASSUME NEW g \in Given, Contiguous(g.mask), g.pool = None \/ ValidatesPool(g) = "ok"
  PROVE  Handout(g) \subseteq TunHosts(g) \ ({g.ip, g.peer} \cup g.reserved)
<1> DEFINE pl == PrefixLen(g.mask)
           k == Bits - pl
<1>1. pl \in 0 .. Bits /\ g.mask = MaskOf(pl)
  <2>1. \E plen \in 0 .. Bits : g.mask = MaskOf(plen)
    BY Zenon DEF Contiguous
  <2> QED
    BY <2>1, Zenon DEF PrefixLen
<1>2. k \in 0 .. Bits /\ g.mask = HighOnes(k)
  <2> HIDE DEF pl
  <2> QED
    BY <1>1, MaskIsOnes, Zenon
<1>3. g.ip \in Address32 /\ g.pool \in Cidr \cup {None, Pool6}
  BY Zenon DEF Given
<1>4. ASSUME NEW a \in AssignerRange(g) PROVE HostOf(a, g.ip, g.mask)
  <2>1. CASE g.pool = None
    <3>1. a \in HostRange(g.ip, HighOnes(k))
      BY <1>2, <2>1, Zenon DEF AssignerRange
    <3> HIDE DEF k
    <3> QED
      BY <1>2, <1>3, <3>1, HostsOfTunItself, Zenon
  <2>2. CASE g.pool # None
    <3> DEFINE x == g.pool.addr
               l == g.pool.plen
               h == Bits - l
    <3>1. g.pool # Pool6 /\ SubsetOfTun(g)
      <4>1. ValidatesPool(g) = "ok" /\ "ipv4 only" # "ok" /\ "subset" # "ok"
        BY <2>2, Zenon
      <4> QED
        BY <4>1, Zenon DEF ValidatesPool
    <3>2. x \in Address32 /\ l \in 0 .. Bits
      BY <1>3, <2>2, <3>1, Zenon DEF Cidr
    <3>3. h \in 0 .. Bits /\ MaskOf(l) = HighOnes(h)
      <4> HIDE DEF l
      <4> QED
        BY <3>2, MaskIsOnes, Zenon
    <3>4. l >= pl /\ And(NetworkOf(g.pool), g.mask) = And(g.ip, g.mask)
      BY <3>1, Zenon DEF SubsetOfTun
    <3>5. h \in 0 .. k
      <4> HIDE DEF l, pl
      <4> QED
        BY <1>1, <3>2, <3>4, BitsAssumption
    <3> HIDE DEF h, k
    <3>6. NetworkOf(g.pool) = Block(x, h)
      BY <3>2, <3>3, AndIsNet, Zenon DEF NetworkOf
    <3>7. a \in HostRange(Block(x, h), HighOnes(h))
      BY <2>2, <3>3, <3>6, Zenon DEF AssignerRange
    <3>8. Block(x, h) \in Address32
      <4>1. h \in h .. Bits
        BY <3>3, BitsAssumption
      <4> HIDE DEF x
      <4> QED
        BY <3>2, <3>3, <4>1, NetInNet, Zenon
    <3>9. Block(Block(x, h), k) = Block(g.ip, k)
      <4>1. And(Block(x, h), HighOnes(k)) = And(g.ip, HighOnes(k))
        BY <1>2, <3>4, <3>6, Zenon
      <4>2. And(g.ip, HighOnes(k)) = Block(g.ip, k)
        BY <1>2, <1>3, AndIsNet, Zenon
      <4>3. And(Block(x, h), HighOnes(k)) = Block(Block(x, h), k)
        BY <1>2, <3>8, AndIsNet, Zenon
      <4> QED
        BY <4>1, <4>2, <4>3, Zenon
    <3> HIDE DEF x
    <3>10. HostOf(a, g.ip, HighOnes(k))
      BY <1>2, <1>3, <3>2, <3>5, <3>7, <3>9, HostsOfTun, Zenon
    <3> QED
      BY <1>2, <3>10, Zenon
  <2> QED
    BY <2>1, <2>2, Zenon
<1>5. ASSUME NEW a \in Handout(g) PROVE a \in TunHosts(g) \ ({g.ip, g.peer} \cup g.reserved)
  <2>1. a \in AssignerRange(g) /\ a # g.ip /\ a # g.peer /\ a \notin g.reserved
    BY Zenon DEF Handout, ReservedIps
  <2>2. a \in TunHosts(g)
    BY <1>4, <2>1, Zenon DEF TunHosts, HostOf
  <2> QED
    BY <2>1, <2>2, Zenon
<1> QED
  BY <1>5, Zenon

\* What the assigner hands out of a pool is what validate_assign_pool counted.
LEMMA HandoutIsCounted ==
  ASSUME NEW g, g.pool # None
  PROVE  Handout(g) = Assignable(g)
<1>1. AssignerRange(g) = HostRange(NetworkOf(g.pool), MaskOf(g.pool.plen))
  BY Zenon DEF AssignerRange
<1> QED
  BY <1>1, Zenon DEF Handout, Assignable

\* An accepted plan can be lived with, and one refused for want of hosts had none.
LEMMA PlanIsRight == PlanInv => HandoutsAreTunHosts
<1> SUFFICES ASSUME PlanInv PROVE HandoutsAreTunHosts
  OBVIOUS
<1>1. given \in Given
  BY Zenon DEF PlanInv
<1>2. plan = "ok" => given.pool = None \/ ValidatesPool(given) = "ok"
  <2>1. None # "ok" /\ "nat" # "ok"
    BY AddressPlanAssumption
  <2> QED
    BY <2>1, Zenon DEF PlanInv, Outcome
<1>3. plan = "no hosts" => given.pool # None /\ ValidatesPool(given) = "no hosts"
  <2>1. None # "no hosts" /\ "nat" # "no hosts" /\ "ok" # "no hosts"
    BY AddressPlanAssumption
  <2> QED
    BY <2>1, Zenon DEF PlanInv, Outcome
<1>4. given.pool # None /\ ValidatesPool(given) = "no hosts" => Assignable(given) = {}
  <2>1. "netmask" # "no hosts" /\ "ipv4 only" # "no hosts" /\ "subset" # "no hosts" /\ "ok" # "no hosts"
    OBVIOUS
  <2> QED
    BY <2>1, Zenon DEF ValidatesPool
<1>5. given.pool # None /\ ValidatesPool(given) = "ok" => Assignable(given) # {}
  <2>1. "netmask" # "ok" /\ "ipv4 only" # "ok" /\ "subset" # "ok" /\ "no hosts" # "ok"
    OBVIOUS
  <2> QED
    BY <2>1, Zenon DEF ValidatesPool
<1>6. plan = "ok" /\ Contiguous(given.mask) =>
        Handout(given) \subseteq TunHosts(given) \ ({given.ip, given.peer} \cup given.reserved)
  BY <1>1, <1>2, HandoutsInside, Zenon
<1>7. given.pool # None => Handout(given) = Assignable(given)
  BY HandoutIsCounted, Zenon
<1> QED
  BY <1>2, <1>3, <1>4, <1>5, <1>6, <1>7, Zenon DEF HandoutsAreTunHosts

\* An address plan the server starts with hands out hosts of the TUN network only, for any
\* width of an address, mask, pool and reserved addresses (validate_assign_pool,
\* host_range, build_assigner).
THEOREM AddressPlanIsSafe == PlanSpec => []HandoutsAreTunHosts
<1>1. PlanInit => PlanInv
  BY Zenon DEF PlanInit, PlanInv
<1>2. PlanInv /\ [PlanNext]_<<given, plan>> => PlanInv'
  <2> SUFFICES ASSUME PlanInv, [PlanNext]_<<given, plan>> PROVE PlanInv'
    OBVIOUS
  <2>1. CASE PlanNext
    <3>1. plan' = Outcome(given) /\ given' = given
      BY <2>1, Zenon DEF PlanNext, ResolvesServer, Outcome
    <3> QED
      BY <3>1, Zenon DEF PlanInv
  <2>2. CASE UNCHANGED <<given, plan>>
    BY <2>2, Zenon DEF PlanInv
  <2> QED
    BY <2>1, <2>2, Zenon
<1> QED
  BY <1>1, <1>2, PlanIsRight, PTL DEF PlanSpec
=============================================================================
