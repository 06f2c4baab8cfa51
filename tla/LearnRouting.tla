---------------------------- MODULE LearnRouting ----------------------------
(***************************************************************************)
(* The server in learning mode (src/bin/server.rs): the map from inner     *)
(* addresses to UDP endpoints, together with the lease table, the subnet   *)
(* routes and the Magic DNS names that share its lock.                     *)
(*                                                                         *)
(* Every handler runs under the routing mutex and never awaits with it, so *)
(* a handler is one action.  The sweeper is a task of its own.  An inner   *)
(* address is <<4, a>> or <<6, a>>, where <<6, a>> embeds a.  One clock    *)
(* stands for both SystemTime and Instant.                                 *)
(***************************************************************************)
EXTENDS Assigner, Sequences

CONSTANTS
  Source,       \* inner addresses the clients use
  LeaseTTL,     \* lease_ttl, in clock ticks
  SweepEvery,   \* the sweeper's interval
  Net,          \* advertised networks, sets of inner addresses
  AutoApprove, Allowlist,
  Label, Candidates, ServerName, MaxPeers,
  Wanted        \* names the clients ask for

VARIABLES
  clients,      \* Learned.clients
  routes,       \* Learned.subnets
  names,        \* the name table
  next_sweep    \* when the sweeper's interval next fires

lvars == <<vars, clients, routes, names, next_sweep>>

Inner == {4, 6} \X Ip4

ClientEntry == [peer : Peer, last_seen : Int]

ASSUME LearnAssumption ==
  /\ Source \subseteq Inner /\ Wanted \subseteq Label
  /\ LeaseTTL \in Nat /\ SweepEvery \in Nat \ {0} /\ AutoApprove \in BOOLEAN
  /\ Candidates \in [Label \X (Node \cup Ip4) -> Seq(Label)]
  /\ \A x \in Label \X (Node \cup Ip4) : Len(Candidates[x]) > 0
  /\ None \notin ClientEntry

\* The collision suffix is taken from the node bound to the endpoint, else from
\* the advertised IPv4 address.
Names == INSTANCE NameTable
           WITH TunIp <- Ip4, Tag <- Node \cup Ip4, NameTTL <- LeaseTTL,
                Horizon <- MaxTime, clock <- now

Subnets == INSTANCE SubnetTable
             WITH Addr <- Inner, RouteTTL <- LeaseTTL, Horizon <- MaxTime,
                  clock <- now, latest <- [n \in Net |-> None],
                  said <- [p \in Peer |-> {}]

-----------------------------------------------------------------------------
(* Learned.                                                                *)

IsLive(entry, t) == t - entry.last_seen <= LeaseTTL

\* learn, for each address of S.
LearnAll(C, S, p, t) ==
  [i \in Inner |-> IF i \in S THEN [peer |-> p, last_seen |-> t] ELSE C[i]]

\* node_for_ip4 or node_for_ip6.
OwnerOf(T, i) == IF i[1] = 4 THEN T.by_ip4[i[2]] ELSE T.by_ip6[i[2]]

\* A wrong variant: an endpoint that is bound to no node may claim any address.
MayLearn_Unbound(T, i, p) ==
  OwnerOf(T, i) \in {None, T.by_peer[p]} \/ T.by_peer[p] = None

\* maybe_learn: a leased address is learned only from its holder's endpoint.
MayLearn(T, i, p) == OwnerOf(T, i) \in {None, T.by_peer[p]}

MaybeLearn(S, p) ==
  clients' = LearnAll(clients, {i \in S : MayLearn(table, i, p)}, p, now)

\* lookup: a live client first, then the subnet routes.
Lookup(dst) ==
  IF clients[dst] # None /\ IsLive(clients[dst], now) THEN clients[dst].peer
  ELSE Subnets!LookupRoute(routes, dst)

\* What becomes of a packet from p to dst.  An endpoint is a relay.
Forward(p, dst) ==
  LET next == Lookup(dst) IN
  IF next = None THEN "Tun" ELSE IF next = p THEN "Bounce" ELSE next

\* A wrong variant: leaves it to lookup to ignore old entries.
ExpireClients_Never(C, t) == C

ExpireClients(C, t) ==
  [i \in Inner |-> IF C[i] # None /\ ~IsLive(C[i], t) THEN None ELSE C[i]]

LeasedInner(l) == {<<4, l.ip4>>} \cup (IF l.ip6 = None THEN {} ELSE {<<6, l.ip6>>})

\* unlearn, for the addresses of the dropped leases of D.
Unlearn(C, D, t) ==
  [i \in Inner |->
     IF \E l \in D : /\ i \in LeasedInner(l)
                     /\ C[i] # None
                     /\ l.last_peer = C[i].peer \/ ~IsLive(C[i], t)
     THEN None ELSE C[i]]

\* The names unlearn_dropped withdraws.
LastPeers(D) == {l.last_peer : l \in D} \cap Peer

-----------------------------------------------------------------------------
(* Handlers of udp_to_tun and handle_control.                              *)

\* An inner packet from src.  Where it goes is Forward, which changes nothing.
Data(p, src) ==
  /\ up
  /\ MaybeLearn({src}, p)
  /\ out' = NoOutput
  /\ UNCHANGED <<table, file, last_persist, cfg, up, now, routes, names, next_sweep>>

\* A keepalive announces an IPv4 address or none.
Keepalive(p, S) ==
  /\ up
  /\ MaybeLearn(S, p)
  /\ out' = NoOutput
  /\ UNCHANGED <<table, file, last_persist, cfg, up, now, routes, names, next_sweep>>

RouteAdvert(p, S, advertised) ==
  /\ up
  /\ MaybeLearn(S, p)
  /\ routes' = Subnets!AdvertiseRoutes(routes, p, advertised, now)
  /\ out' = NoOutput
  /\ UNCHANGED <<table, file, last_persist, cfg, up, now, names, next_sweep>>

\* An advert of no name withdraws it.
NameAdvert(p, S, ip4, wanted) ==
  /\ up
  /\ MaybeLearn(S, p)
  /\ names' = IF wanted = None THEN Names!WithdrawAll(names, {p})
              ELSE Names!AdvertiseName(names, p, wanted, ip4,
                     IF table.by_peer[p] = None THEN ip4 ELSE table.by_peer[p],
                     now)
  /\ out' = NoOutput
  /\ UNCHANGED <<table, file, last_persist, cfg, up, now, routes, next_sweep>>

\* allocate, unlearn what it dropped, learn what it granted.
AssignReq(n, p, hint, want6) ==
  /\ Allocate(n, p, hint, want6)
  /\ LET C == Unlearn(clients, out'.dropped, now)
         granted == {<<4, out'.ip4>>} \cup
                    (IF out'.ip6 = None THEN {} ELSE {<<6, out'.ip6>>})
     IN  clients' = IF out'.status = "Ok" THEN LearnAll(C, granted, p, now) ELSE C
  /\ names' = Names!WithdrawAll(names, LastPeers(out'.dropped))
  /\ UNCHANGED <<routes, next_sweep>>

\* One round of the sweeper.
Sweep ==
  /\ now >= next_sweep
  /\ Reap
  /\ routes' = Subnets!ExpireRoutes(routes, now)
  /\ clients' = Unlearn(ExpireClients(clients, now), out'.dropped, now)
  /\ names' = Names!WithdrawAll(names,
                Names!IdleNames(names, now) \cup LastPeers(out'.dropped))
  /\ next_sweep' = now + SweepEvery

\* All but the leases is lost with the process.
ServerCrash ==
  /\ Crash
  /\ UNCHANGED <<clients, routes, names, next_sweep>>

ServerStart(c) ==
  /\ RestartLoad(c) \/ RestartEmpty(c)
  /\ clients' = [i \in Inner |-> None]
  /\ routes' = Subnets!NoRoutes
  /\ names' = Names!NoNames
  /\ next_sweep' = now

\* The sweeper is scheduled within a tick of its interval.
ServerTick ==
  /\ up => now < next_sweep
  /\ Tick
  /\ UNCHANGED <<clients, routes, names, next_sweep>>

LInit ==
  /\ Init
  /\ clients = [i \in Inner |-> None]
  /\ routes = Subnets!NoRoutes
  /\ names = Names!NoNames
  /\ next_sweep = 0

\* What a client announces as its own: an IPv4 address, perhaps an IPv6 one.
Announced ==
  {S \in SUBSET Source : \E a \in Ip4 : <<4, a>> \in S /\ S \subseteq {<<4, a>>, <<6, a>>}}

LNext ==
  \/ \E p \in Peer, src \in Source : Data(p, src)
  \/ \E p \in Peer : Keepalive(p, {})
  \/ \E p \in Peer, a \in Ip4 : <<4, a>> \in Source /\ Keepalive(p, {<<4, a>>})
  \/ \E p \in Peer, S \in Announced, advertised \in SUBSET Net :
       RouteAdvert(p, S, advertised)
  \/ \E p \in Peer, S \in Announced, wanted \in Optional(Wanted) :
       \E ip4 \in Ip4 : <<4, ip4>> \in S /\ NameAdvert(p, S, ip4, wanted)
  \/ \E n \in Node, p \in Peer, hint \in Ip4, want6 \in BOOLEAN :
       AssignReq(n, p, hint, want6)
  \/ Sweep
  \/ ServerCrash
  \/ \E c \in Configs : ServerStart(c)
  \/ ServerTick

LSpec == LInit /\ [][LNext]_lvars

-----------------------------------------------------------------------------
(* Properties.                                                             *)

LTypeOK ==
  /\ TypeOK
  /\ clients \in [Inner -> Optional(ClientEntry)]
  /\ routes \in [Net -> Optional(Subnets!SubnetRoute)]
  /\ names \in Names!Names
  /\ next_sweep \in Int

\* A leased address is never mapped to an endpoint other than the one its
\* holder last asked from, whoever else sends from that address, before or
\* after the lease was made, and wherever the holder roams.  A packet to it is
\* relayed there or, when its holder is quiet, by an approved subnet route.
RouteToHolder ==
  up => \A i \in Inner :
          OwnerOf(table, i) # None =>
            LET holder == table.by_node[OwnerOf(table, i)].last_peer IN
            /\ clients[i] # None => clients[i].peer = holder
            /\ \A p \in Peer :
                 Forward(p, i) \in {"Tun", "Bounce", holder, Subnets!LookupRoute(routes, i)}

\* The step that drops a lease also forgets the route to its holder: nobody
\* else who is then given the address inherits the old mapping.
DroppedIsUnlearned ==
  [][up /\ up' =>
       \A n \in Held(table) :
         \A i \in LeasedInner(table.by_node[n]) :
           OwnerOf(table', i) # n =>
             \/ clients'[i] = None
             \/ /\ OwnerOf(table', i) # None
                /\ clients'[i].peer = table'.by_node[OwnerOf(table', i)].last_peer]_lvars

\* Nothing learned outlives its owner's silence by more than the TTL and one
\* interval of the sweeper, although only the client map checks the age of an
\* entry when it is used.  (With the types of the state.)
StaleIsBounded ==
  /\ LTypeOK
  /\ up =>
       /\ \A i \in Inner : clients[i] # None =>
            now - clients[i].last_seen <= LeaseTTL + SweepEvery
       /\ \A n \in Net : routes[n] # None =>
            now - routes[n].last_seen <= LeaseTTL + SweepEvery
       /\ \A p \in Peer : names.by_peer[p] # None =>
            now - names.by_peer[p].last_seen <= LeaseTTL + SweepEvery

\* docs/guide/magic-dns.md:108: "Names expire with `lease_ttl_secs` (default 120 s)
\* when the advertiser goes quiet".  That is, the sweeper and allocate take a
\* name from an endpoint that is not quiet, and bound to a node, only with the
\* lease of that node.
NamesLeaveWithTheirOwner ==
  [][up /\ up' =>
       \A p \in Peer :
         /\ names.by_peer[p] # None /\ names'.by_peer[p] = None
         /\ now - names.by_peer[p].last_seen <= LeaseTTL
         /\ table.by_peer[p] # None /\ out'.dropped # {}
         => \E l \in out'.dropped : l.node_id = table.by_peer[p]]_lvars
=============================================================================
