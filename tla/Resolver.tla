------------------------------ MODULE Resolver ------------------------------
(***************************************************************************)
(* The client's split-DNS resolver: src/policy/proxy.rs (Resolver),        *)
(* src/policy/route.rs (TunRouter and its guard), src/policy/mod.rs        *)
(* (spawn and the handle it returns), and the part of                      *)
(* src/bin/client.rs that feeds it: the TUN intercept of tun_to_net and    *)
(* shutdown_policy, which replaces the resolver when the server moves the  *)
(* client to another address.                                              *)
(*                                                                         *)
(* Every query runs in a task of its own on a multi-threaded runtime, so   *)
(* the steps of a query are cut where another task can get in between:     *)
(* each await on an upstream, the lock of the cache, the lock of the       *)
(* router's `added` set, and the route request that follows it outside     *)
(* that lock.  A query answered by the clean upstream leaves through the   *)
(* TUN device, where the intercept must tell it from the host's own        *)
(* queries by its source port: a bare number, in one set per resolver for  *)
(* the local and the clean queries alike, which are sent from different    *)
(* addresses and so may have the same one.                                 *)
(*                                                                         *)
(* An answer is abstracted to one address and the upstream it came from;   *)
(* a cache entry may expire at any time (AnswerCache has the clock).  The  *)
(* cache file is whatever an earlier client left, in its mode and with its *)
(* list.  Routes the kernel drops when the address is set again under a    *)
(* resolver that stays are left out (ClientSession has that step).         *)
(***************************************************************************)
EXTENDS Naturals, FiniteSets, Absent

CONSTANTS Task,        \* slots for concurrent queries (bounds concurrency)
          Name,        \* questions asked
          GfwList,     \* the names of the gfwlist file
          Overlay,     \* names of peers, and names under the Magic DNS suffix
          Ip,          \* the IPv4 addresses upstreams answer with
          China,       \* those the chnroute file covers
          Server,      \* the VPN server's own address
          CleanDns,    \* the address of the clean upstream, dns_remote
          Port,        \* the source ports of upstream sockets
          Files,       \* the cache files an earlier client may have left
          Confs,       \* the configurations: mode, Magic DNS on, the list loaded
          MaxGens,     \* bound: how often the resolver is started
          MaxFailures  \* bound: addresses the kernel refuses to route, or to stop routing

ASSUME ResolverAssumption ==
    /\ GfwList \subseteq Name /\ Overlay \subseteq Name
    /\ Server \in Ip /\ China \subseteq Ip /\ CleanDns \notin Ip /\ MaxGens \in Nat \ {0}
    /\ \A c \in Confs : /\ c.mode = "full" => c.magic /\ c.list = {}
                        /\ c.mode = "gfwlist" => c.list = GfwList
    /\ Confs \subseteq [mode : {"full", "gfwlist", "chinadns"}, magic : BOOLEAN, list : SUBSET Name]

\* Absent values and the states of an upstream query are not names or addresses.
ASSUME NoneIsNoAnswer ==
    /\ None \notin Name \cup Port
    /\ None \notin [src : {"local", "remote"}, ip : Ip, tunnel : BOOLEAN, old : BOOLEAN]
    /\ Files \subseteq
         [Name -> [src : {"local", "remote"}, ip : Ip, tunnel : BOOLEAN, old : {TRUE}] \cup {None}]
    /\ {"none", "queued", "sent", "eaten", "failed"} \cap Ip = {}

VARIABLES conf,        \* mode, whether Magic DNS is on, and the list in force
          gen,         \* how many resolvers have been started
          phase,       \* of the PolicyHandle: up, leaving, deleting, down, gone
          doomed,      \* what delete_all drained and has still to delete
          added,       \* per resolver: TunRouter.added
          routes,      \* kernel host routes on the TUN
          cache,       \* the DNS cache; between two resolvers, its file
          tasks,       \* the queries being resolved
          inflight,    \* per resolver: Resolver.inflight
          strays,      \* own clean queries still queued after their socket closed
          failed,      \* history: addresses whose route request failed
          astray,      \* history: routed for a resolver already dropped, or not deleted
          clashed      \* history: clean queries whose port a local query unregistered

world == <<conf, cache>>
kernel == <<routes, added, failed, astray>>
ports == <<inflight, clashed>>
handle == <<gen, phase, doomed>>
rvars == <<world, kernel, handle, tasks, ports, strays>>

Modes == {"full", "gfwlist", "chinadns"}
Gens == 1..MaxGens
Host == Ip \cup {CleanDns}

\* What resolve returns: an address, where it came from, whether it is tunnelled, and,
\* as history, whether an earlier client decided it.
Answer == [src : {"local", "remote"}, ip : Ip, tunnel : BOOLEAN, old : BOOLEAN]
FromUpstream(src, ip, tunnel) == [src |-> src, ip |-> ip, tunnel |-> tunnel, old |-> FALSE]

\* An upstream query: not made, queued on the TUN, sent on, intercepted, failed or answered.
Upstream == {"none", "queued", "sent", "eaten", "failed"} \cup Ip
Outstanding == {"queued", "sent", "eaten"}

\* Where a query's task is, for whom it resolves what, and what it has so far.
TaskState == [at : {"free", "local", "remote", "race", "tunnel", "install", "reply"},
              name : Name \cup {None}, gen : 0..MaxGens, local : Upstream,
              remote : Upstream, lport : Port \cup {None}, rport : Port \cup {None},
              hit : BOOLEAN, resp : Answer \cup {None}]

Free == [at |-> "free", name |-> None, gen |-> 0, local |-> "none", remote |-> "none",
         lport |-> None, rport |-> None, hit |-> FALSE, resp |-> None]

RsTypeOK ==
    /\ conf \in [mode : Modes, magic : BOOLEAN, list : SUBSET Name]
    /\ gen \in 0..MaxGens /\ phase \in {"up", "leaving", "deleting", "down", "gone"}
    /\ doomed \subseteq Host /\ added \in [Gens -> SUBSET Host]
    /\ routes \subseteq Host
    /\ cache \in [Name -> Answer \cup {None}]
    /\ tasks \in [Task -> TaskState]
    /\ inflight \in [Gens -> SUBSET Port] /\ clashed \subseteq Task
    /\ strays \subseteq Name \X Port /\ failed \subseteq Host /\ astray \subseteq Host

Put(t, r) == tasks' = [tasks EXCEPT ![t] = r]

-----------------------------------------------------------------------------
(* Starting a query: Resolver::resolve up to its first await.              *)

\* A plausible slip: the chinadns race runs for listed names too.
Asks_NoOverride(n) ==
    CASE conf.mode = "full" \/ (conf.mode = "gfwlist" /\ n \notin conf.list) ->
            [at |-> "local", local |-> "sent", remote |-> "none"]
      [] conf.mode = "gfwlist" /\ n \in conf.list ->
            [at |-> "remote", local |-> "none", remote |-> "queued"]
      [] OTHER -> [at |-> "race", local |-> "sent", remote |-> "queued"]

\* The upstreams the mode asks first, and where the task waits.
Asks(n) ==
    CASE conf.mode = "full" -> [at |-> "local", local |-> "sent", remote |-> "none"]
      [] conf.mode = "gfwlist" /\ n \notin conf.list ->
            [at |-> "local", local |-> "sent", remote |-> "none"]
      [] conf.mode # "full" /\ n \in conf.list ->
            [at |-> "remote", local |-> "none", remote |-> "queued"]
      [] OTHER -> [at |-> "race", local |-> "sent", remote |-> "queued"]

\* resolve has its answer; tunnel() is next if there are addresses to route.
Decided(r, a) == [r EXCEPT !.at = IF a.tunnel THEN "tunnel" ELSE "reply", !.resp = a,
                           !.local = "none", !.remote = "none", !.lport = None, !.rport = None]

\* The ephemeral ports the kernel may give a socket: none that is taken on its address.
\* Local queries leave from the physical address, clean ones from the TUN's, which is
\* another one for every resolver.
LocalPorts == Port \ {tasks[u].lport : u \in Task}
CleanPorts == Port \ {tasks[u].rport : u \in {v \in Task : tasks[v].gen = gen}}

\* answer_magic: an overlay name is answered on the spot and leaves nothing behind.
Resolving(n) ==
    LET base == [Free EXCEPT !.name = n, !.gen = gen]
        asked == [base EXCEPT !.at = Asks(n).at, !.local = Asks(n).local,
                              !.remote = Asks(n).remote]
        socks == (IF asked.local = "none" THEN {None} ELSE LocalPorts)
                    \X (IF asked.remote = "none" THEN {None} ELSE CleanPorts)
    IN IF conf.magic /\ n \in Overlay THEN {Free}
       ELSE IF conf.mode # "full" /\ cache[n] # None
       THEN {[Decided(base, cache[n]) EXCEPT !.hit = TRUE]}
       ELSE {[asked EXCEPT !.lport = s[1], !.rport = s[2]] : s \in socks}

\* A plausible slip: the port is not recorded.
Register_Never(r) == inflight

\* query_upstream records the source port before it sends.
Register(r) == [inflight EXCEPT ![gen] = @ \cup ({r.lport, r.rport} \ {None})]

Begin(t, n) ==
    /\ phase = "up" /\ tasks[t].at = "free"
    /\ \E r \in Resolving(n) : Put(t, r) /\ inflight' = Register(r)
    /\ UNCHANGED <<world, kernel, handle, clashed>>

\* A query of the host: over the UDP stub, or taken off the TUN by the intercept.
Query(t, n) == Begin(t, n) /\ UNCHANGED strays

-----------------------------------------------------------------------------
(* The TUN intercept.                                                      *)

\* owns_source_port of the resolver in the slot.
Owns(p) == p \in inflight[gen]

\* A clean query whose socket is open is passed on to the server, unless the slot
\* holds a resolver that does not know its port and takes it for a host's query.
TunPasses(t) ==
    /\ tasks[t].remote = "queued"
    /\ phase = "up" => Owns(tasks[t].rport)
    /\ Put(t, [tasks[t] EXCEPT !.remote = "sent"])
    /\ UNCHANGED <<world, kernel, handle, ports, strays>>

TunIntercepts(t, u) ==
    /\ tasks[t].remote = "queued" /\ phase = "up" /\ ~Owns(tasks[t].rport)
    /\ tasks[u].at = "free"
    /\ \E r \in Resolving(tasks[t].name) :
         /\ tasks' = [tasks EXCEPT ![t].remote = "eaten", ![u] = r]
         /\ inflight' = Register(r)
    /\ UNCHANGED <<world, kernel, handle, strays, clashed>>

\* The same for a packet whose socket has closed: its port is registered only if
\* another query has it now.
StrayPasses(n, p) ==
    /\ <<n, p>> \in strays
    /\ phase = "up" => Owns(p)
    /\ strays' = strays \ {<<n, p>>}
    /\ UNCHANGED <<world, kernel, handle, tasks, ports>>

StrayIntercepted(t, n, p) ==
    /\ <<n, p>> \in strays /\ ~Owns(p)
    /\ Begin(t, n)
    /\ strays' = strays \ {<<n, p>>}

-----------------------------------------------------------------------------
(* The upstreams answer or time out.                                       *)

\* Drop of PortGuard: the number goes, whoever else has it.
Unregister(r, closing) == [inflight EXCEPT ![r.gen] = @ \ closing]

\* The clean queries that share their port with the local one of r.
Sharing(r) == {u \in Task : tasks[u].gen = r.gen /\ tasks[u].rport = r.lport}

\* A packet still queued outlives its socket.
LeftQueued(r) == IF r.remote = "queued" THEN {<<r.name, r.rport>>} ELSE {}

\* chinadns_decision.
Domestic(ip) == ip \in China

\* Both queries are over: the clean answer, or the local one if there is none;
\* either is tunnelled.
CleanDecides(r) ==
    IF r.remote # "failed" THEN Decided(r, FromUpstream("remote", r.remote, TRUE))
    ELSE IF r.local \notin {"none", "failed"}
    THEN Decided(r, FromUpstream("local", r.local, TRUE))
    ELSE Free

\* The local upstream settles: forward_local, decide_gfwlist on the direct path,
\* and the first half of the race, which aborts the clean query on a domestic answer
\* and otherwise waits for it.
LocalSettles(t, a) ==
    LET r == tasks[t]
        waiting == [r EXCEPT !.at = "remote", !.local = a, !.lport = None]
    IN
    /\ r.at \in {"local", "race"}
    /\ \/ /\ r.at = "local"
          /\ Put(t, IF a = "failed" \/ conf.mode = "full" THEN Free
                    ELSE Decided(r, FromUpstream("local", a, FALSE)))
          /\ inflight' = Unregister(r, {r.lport})
          /\ clashed' = clashed \cup Sharing(r)
          /\ UNCHANGED strays
       \/ /\ r.at = "race" /\ Domestic(a)
          /\ Put(t, Decided(r, FromUpstream("local", a, FALSE)))
          /\ inflight' = Unregister(r, {r.lport, r.rport})
          /\ clashed' = (clashed \cup Sharing(r)) \ {t}
          /\ strays' = strays \cup LeftQueued(r)
       \/ /\ r.at = "race" /\ ~Domestic(a)
          /\ Put(t, IF r.remote \in Outstanding THEN waiting ELSE CleanDecides(waiting))
          /\ inflight' = Unregister(r, {r.lport})
          /\ clashed' = clashed \cup Sharing(r)
          /\ UNCHANGED strays
    /\ UNCHANGED <<world, kernel, handle>>

\* What an answer or a timeout of the clean query does: drop of its socket and guard.
CleanEnds(t, a) ==
    LET r == [tasks[t] EXCEPT !.remote = a, !.rport = None] IN
    /\ Put(t, IF r.at = "race" THEN r ELSE CleanDecides(r))
    /\ inflight' = Unregister(r, {tasks[t].rport})
    /\ clashed' = clashed \ {t}
    /\ strays' = strays \cup LeftQueued(tasks[t])
    /\ UNCHANGED <<world, kernel, handle>>

\* A plausible slip: the clean query has no timeout.
CleanSettles_NoTimeout(t, a) == tasks[t].remote = "sent" /\ a # "failed" /\ CleanEnds(t, a)

\* The clean upstream answers what reached it; otherwise the query times out.
CleanSettles(t, a) ==
    /\ tasks[t].remote \in Outstanding
    /\ a # "failed" => tasks[t].remote = "sent"
    /\ CleanEnds(t, a)

-----------------------------------------------------------------------------
(* Routing and caching the answer.                                         *)

Excluded == {Server}

\* A plausible slip: a cache hit is returned without routing its addresses again.
Tunnel_MissOnly(t) ==
    LET r == tasks[t]
        new == ~r.hit /\ r.resp.tunnel /\ r.resp.ip \notin Excluded \cup added[r.gen]
    IN /\ r.at = "tunnel"
       /\ Put(t, [r EXCEPT !.at = IF new THEN "install" ELSE "reply"])
       /\ added' = IF new THEN [added EXCEPT ![r.gen] = @ \cup {r.resp.ip}] ELSE added
       /\ UNCHANGED <<world, routes, failed, astray, handle, ports, strays>>

\* add_route up to the unlock of `added`.
Tunnel(t) ==
    LET r == tasks[t]
        new == r.resp.tunnel /\ r.resp.ip \notin Excluded \cup added[r.gen]
    IN /\ r.at = "tunnel"
       /\ Put(t, [r EXCEPT !.at = IF new THEN "install" ELSE "reply"])
       /\ added' = IF new THEN [added EXCEPT ![r.gen] = @ \cup {r.resp.ip}] ELSE added
       /\ UNCHANGED <<world, routes, failed, astray, handle, ports, strays>>

\* The guard of resolver g has drained its books for good.
Dropped(g) == g < gen \/ phase \in {"deleting", "down"}

\* The route request, made after the unlock: it replaces a route that is there.
\* A failure is only logged; the address stays recorded.
Install(t, ok) ==
    LET r == tasks[t] IN
    /\ r.at = "install" /\ (~ok => Cardinality(failed \cup {r.resp.ip}) <= MaxFailures)
    /\ Put(t, [r EXCEPT !.at = "reply"])
    /\ routes' = IF ok THEN routes \cup {r.resp.ip} ELSE routes
    /\ failed' = IF ok THEN failed ELSE failed \cup {r.resp.ip}
    /\ astray' = IF ok /\ Dropped(r.gen) THEN astray \cup {r.resp.ip} ELSE astray
    /\ UNCHANGED <<world, added, handle, ports, strays>>

\* cache.put, skipped after a hit, and the reply to the stub's client or the TUN.
\* A dropped resolver's cache is nobody's.
StoreAndReply(t) ==
    LET r == tasks[t] IN
    /\ r.at = "reply"
    /\ Put(t, Free)
    /\ cache' = IF ~r.hit /\ r.gen = gen /\ phase # "down"
                THEN [cache EXCEPT ![r.name] = r.resp] ELSE cache
    /\ UNCHANGED <<conf, kernel, handle, ports, strays>>

Expire(n) ==
    /\ cache[n] # None
    /\ cache' = [cache EXCEPT ![n] = None]
    /\ UNCHANGED <<conf, kernel, handle, tasks, ports, strays>>

-----------------------------------------------------------------------------
(* The resolver's life: spawn, shutdown_policy and the handle's Drop.      *)

\* The routes spawn starts with: the clean upstream, in every mode, because
\* attract_destinations draws host queries to the upstreams onto the TUN; the other
\* well-known resolvers come and go like it.
Seed == {CleanDns}

\* spawn: the clean upstream is routed, the cache file loaded, the slot filled.
Spawn ==
    /\ phase = "down" /\ gen < MaxGens
    /\ gen' = gen + 1 /\ phase' = "up"
    /\ added' = [added EXCEPT ![gen + 1] = Seed]
    /\ routes' = routes \cup Seed
    /\ UNCHANGED <<world, failed, astray, doomed, tasks, ports, strays>>

\* spawn fails (the clean upstream's route, or the listener's port): the client
\* exits, and the kernel drops the routes with the TUN device.
SpawnFails ==
    /\ phase = "down" /\ gen < MaxGens
    /\ phase' = "gone"
    /\ routes' = {}
    /\ tasks' = [t \in Task |-> Free] /\ inflight' = [g \in Gens |-> {}]
    /\ strays' = {} /\ clashed' = {}
    /\ UNCHANGED <<world, added, failed, astray, gen, doomed>>

\* shutdown_policy empties the slot and aborts serve; the query tasks run on.
Shutdown ==
    /\ phase = "up" /\ gen < MaxGens
    /\ phase' = "leaving"
    /\ UNCHANGED <<world, kernel, gen, doomed, tasks, ports, strays>>

\* A plausible slip: the guard forgets the set instead of draining it.
Drain_Forgets ==
    /\ phase = "leaving"
    /\ phase' = "deleting" /\ doomed' = {}
    /\ added' = [added EXCEPT ![gen] = {}]
    /\ UNCHANGED <<world, routes, failed, astray, gen, tasks, ports, strays>>

\* RouteGuard::drop: delete_all drains the set under its lock...
Drain ==
    /\ phase = "leaving"
    /\ phase' = "deleting" /\ doomed' = added[gen]
    /\ added' = [added EXCEPT ![gen] = {}]
    /\ UNCHANGED <<world, routes, failed, astray, gen, tasks, ports, strays>>

\* ... and deletes the routes one by one; a failure is only logged.
DeleteRoute(ip, ok) ==
    /\ phase = "deleting" /\ ip \in doomed
    /\ ~ok => Cardinality(failed \cup {ip}) <= MaxFailures
    /\ doomed' = doomed \ {ip}
    /\ routes' = IF ok THEN routes \ {ip} ELSE routes
    /\ failed' = IF ok THEN failed ELSE failed \cup {ip}
    /\ astray' = IF ok THEN astray ELSE astray \cup {ip}
    /\ UNCHANGED <<world, added, gen, phase, tasks, ports, strays>>

\* CacheGuard::drop saves the cache.
SaveCache ==
    /\ phase = "deleting" /\ doomed = {}
    /\ phase' = "down"
    /\ UNCHANGED <<world, kernel, gen, doomed, tasks, ports, strays>>

-----------------------------------------------------------------------------

\* A client starts in its mode, with the file it finds.
RInit0 ==
    /\ conf \in Confs /\ cache \in Files
    /\ gen = 0 /\ phase = "down" /\ doomed = {} /\ added = [g \in Gens |-> {}]
    /\ routes = {} /\ failed = {} /\ astray = {}
    /\ tasks = [t \in Task |-> Free] /\ strays = {}
    /\ inflight = [g \in Gens |-> {}] /\ clashed = {}

Progress(t) ==
    \/ TunPasses(t)
    \/ \E a \in Ip \cup {"failed"} : LocalSettles(t, a) \/ CleanSettles(t, a)
    \/ Tunnel(t) \/ StoreAndReply(t)
    \/ \E ok \in BOOLEAN : Install(t, ok)

RNext0 ==
    \/ \E t \in Task, n \in Name : Query(t, n) \/ \E p \in Port : StrayIntercepted(t, n, p)
    \/ \E n \in Name : Expire(n) \/ \E p \in Port : StrayPasses(n, p)
    \/ \E t, u \in Task : TunIntercepts(t, u)
    \/ \E t \in Task : Progress(t)
    \/ Spawn \/ SpawnFails \/ Shutdown \/ Drain \/ SaveCache
    \/ \E ip \in Host, ok \in BOOLEAN : DeleteRoute(ip, ok)

\* A task the runtime can run is run, and every upstream query has a timeout.
RFairness == \A t \in Task : WF_rvars(Progress(t))

ResolverSpec == RInit0 /\ [][RNext0]_rvars /\ RFairness

-----------------------------------------------------------------------------
(* Properties.                                                             *)

Live(r) == phase = "up" /\ r.gen = gen

\* When a query is answered with a tunnelled address, that address is routed into
\* the TUN: also on a cache hit, on a hit loaded from the last run's file, and when
\* another query recorded the address first, whose request is then still to come.
\* The exceptions are the server's own address, a request the kernel refused, and
\* a resolver that has been replaced meanwhile (proxy.rs resolve, route.rs add_route).
AnswerIsRouted ==
    \A t \in Task : LET r == tasks[t] IN
        (r.at = "reply" /\ Live(r) /\ r.resp.tunnel /\ r.resp.ip \notin Excluded \cup failed)
        => \/ r.resp.ip \in routes
           \/ \E u \in Task : tasks[u].at = "install" /\ tasks[u].gen = r.gen
                                /\ tasks[u].resp.ip = r.resp.ip

\* Every host route on the TUN is on the books of the resolver that will delete it,
\* or about to be deleted.  A route outlives its resolver in two ways only: a query
\* makes its request after the guard has drained the books, or the deletion fails.
\* And the server's own address is never routed (route.rs TunRouter.excluded,
\* delete_all, RouteGuard).  (With the types of the state.)
RoutesAreOnTheBooks ==
    /\ RsTypeOK
    /\ Server \notin routes
    /\ routes \subseteq doomed \cup astray
                      \cup (IF phase \in {"up", "leaving"} THEN added[gen] ELSE {})

\* What this client decides obeys its mode and its list, also when it comes back from
\* the cache: a listed name is never answered by the local upstream or left off the
\* tunnel; in chinadns mode an answer is left direct only if it is a local, domestic
\* one.  (An answer an earlier client left on file is served as that one decided it.)
\* And an overlay name never reaches an upstream (proxy.rs decide_gfwlist,
\* decide_chinadns, answer_magic).
SplitIsRespected ==
    /\ \A a \in {<<n, cache[n]>> : n \in Name}
                \cup {<<tasks[t].name, tasks[t].resp>> : t \in Task} :
         a[2] # None /\ ~a[2].old =>
            /\ a[1] \in conf.list => a[2].src = "remote" /\ a[2].tunnel
            /\ conf.mode = "chinadns" /\ ~a[2].tunnel =>
                    a[2].src = "local" /\ a[2].ip \in China
    /\ conf.magic => \A t \in Task : tasks[t].name \notin Overlay

\* The intercept takes a clean query whose socket is open for a host's only if a later
\* resolver is in the slot, or a local query of the same resolver that happened to have
\* the same port number has ended and taken the number out of the set (client.rs
\* tun_to_net, proxy.rs owns_source_port, PortGuard).
OwnQueriesPass ==
    \A t \in Task : tasks[t].remote = "eaten" => tasks[t].gen < gen \/ t \in clashed

\* Every query comes to an end, also when its packet was intercepted, its resolver
\* was replaced under it, or neither upstream answers (proxy.rs query_upstream): from
\* wherever a task is, it is free later.
QueriesEnd == \A t \in Task : []<>(tasks[t].at = "free")
=============================================================================
