---------------------------- MODULE SubnetTable -----------------------------
(***************************************************************************)
(* The server's table of advertised subnet routes (src/mesh.rs,            *)
(* SubnetTable and RouteApproval).                                         *)
(*                                                                         *)
(* A network is the set of the addresses it contains, so that containment  *)
(* and "subnet of" are membership and inclusion, and the longest prefix is *)
(* the smallest set.  Two CIDR networks are disjoint or nested.            *)
(***************************************************************************)
EXTENDS Integers, FiniteSets, Endpoints

CONSTANTS
  Addr,         \* inner addresses
  Net,          \* networks that are advertised
  AutoApprove,  \* auto_approve_routes
  Allowlist,    \* approve_routes
  RouteTTL      \* lease_ttl, in clock ticks

VARIABLES
  routes,       \* the route held for each network
  latest,       \* history: who last advertised each network, and when
  said          \* history: the last advert of each endpoint

svars == <<routes, clock, latest, said>>

ASSUME NetAssumption ==
  /\ Net \subseteq SUBSET Addr /\ Allowlist \subseteq SUBSET Addr
  /\ AutoApprove \in BOOLEAN
  /\ \A m, n \in Net : m \subseteq n \/ n \subseteq m \/ m \cap n = {}
  /\ IsFiniteSet(Addr) /\ RouteTTL \in Nat

SubnetRoute == [peer : Peer, approved : BOOLEAN, last_seen : Int]
Advert == [peer : Peer, at : Int]

ASSUME NoRouteAssumption ==
  None \notin Peer /\ None \notin SubnetRoute /\ None \notin Advert

NoRoutes == [n \in Net |-> None]

Approves(net) == AutoApprove \/ \E allow \in Allowlist : net \subseteq allow

\* A wrong variant: withdraws what this advert leaves out, whoever owns it.
AdvertiseRoutes_DropsAll(R, p, advertised, t) ==
  [n \in Net |->
     IF n \in advertised
     THEN [peer |-> p, approved |-> Approves(n), last_seen |-> t]
     ELSE None]

\* advertise: what the peer stopped advertising goes, and each advertised
\* network becomes its own (the last advertiser wins) and is judged afresh.
AdvertiseRoutes(R, p, advertised, t) ==
  [n \in Net |->
     IF n \in advertised
     THEN [peer |-> p, approved |-> Approves(n), last_seen |-> t]
     ELSE IF R[n] # None /\ R[n].peer = p THEN None
     ELSE R[n]]

\* The approved routes that contain dst.
MatchingRoutes(R, dst) == {n \in Net : R[n] # None /\ R[n].approved /\ dst \in n}

\* lookup: the endpoint behind the longest of them.
LookupRoute(R, dst) ==
  LET m == MatchingRoutes(R, dst) IN
  IF m = {} THEN None
  ELSE R[CHOOSE n \in m : \A o \in m : Cardinality(n) <= Cardinality(o)].peer

\* routes_for: split horizon.
RoutesFor(R, p) == {n \in Net : R[n] # None /\ R[n].approved /\ R[n].peer # p}

ExpireRoutes(R, t) ==
  [n \in Net |->
     IF R[n] # None /\ t - R[n].last_seen > RouteTTL THEN None ELSE R[n]]

-----------------------------------------------------------------------------
AdvertisesRoutes(p, advertised) ==
  /\ routes' = AdvertiseRoutes(routes, p, advertised, clock)
  /\ latest' = [n \in Net |-> IF n \in advertised THEN [peer |-> p, at |-> clock]
                                                 ELSE latest[n]]
  /\ said' = [said EXCEPT ![p] = advertised]
  /\ UNCHANGED clock

ExpiresRoutes ==
  /\ routes' = ExpireRoutes(routes, clock)
  /\ UNCHANGED <<clock, latest, said>>

RouteClock ==
  /\ Tick
  /\ UNCHANGED <<routes, latest, said>>

SInit ==
  /\ routes = NoRoutes
  /\ clock = 0
  /\ latest = [n \in Net |-> None]
  /\ said = [p \in Peer |-> {}]

SNext ==
  \/ \E p \in Peer, advertised \in SUBSET Net : AdvertisesRoutes(p, advertised)
  \/ ExpiresRoutes
  \/ RouteClock

SSpec == SInit /\ [][SNext]_svars

-----------------------------------------------------------------------------
STypeOK ==
  /\ routes \in [Net -> SubnetRoute \cup {None}]
  /\ clock \in Int
  /\ latest \in [Net -> Advert \cup {None}]
  /\ said \in [Peer -> SUBSET Net]

\* The last word on a network decides it.  A route is held for the endpoint that
\* advertised the network last, with the time of that advert, unless its newest
\* advert left the network out; nobody else's adverts, withdrawals or expiries
\* take it away, and only silence for longer than the TTL lets it lapse.
LastWordDecides ==
  \A n \in Net :
    LET w == latest[n]
        stands == w # None /\ n \in said[w.peer] IN
    /\ routes[n] # None =>
         stands /\ routes[n] = [peer |-> w.peer, approved |-> Approves(n),
                                last_seen |-> w.at]
    /\ stands /\ clock - w.at <= RouteTTL => routes[n] # None

\* What is pushed and what is routed agree.  A destination inside a network
\* pushed to a client resolves to an endpoint, and to that client's own (where
\* the packet would bounce) only if the client holds a longer prefix for it.
PushedRoutesLeadElsewhere ==
  \A p \in Peer : \A n \in RoutesFor(routes, p) : \A dst \in n :
    /\ LookupRoute(routes, dst) # None
    /\ LookupRoute(routes, dst) = p =>
         \E o \in Net : /\ o \subseteq n /\ o # n /\ dst \in o
                        /\ routes[o] # None /\ routes[o].peer = p

\* A network outside the approval policy is never routed or pushed, however it
\* is advertised, moved between clients or nested in an approved one: what a
\* lookup answers comes from an approved network that contains the destination.
UnapprovedNeverUsed ==
  /\ \A p \in Peer : \A n \in RoutesFor(routes, p) : Approves(n)
  /\ \A dst \in Addr : LookupRoute(routes, dst) # None =>
       \E n \in Net : /\ Approves(n) /\ dst \in n /\ routes[n] # None
                      /\ routes[n].peer = LookupRoute(routes, dst)
=============================================================================
