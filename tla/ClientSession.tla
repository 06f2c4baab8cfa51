---------------------------- MODULE ClientSession ---------------------------
(***************************************************************************)
(* The client (src/bin/client.rs): start-up from the state file, the       *)
(* assignment exchange over a lossy link, the reply handler that re-builds *)
(* everything bound to the tunnel address, the relay task that installs    *)
(* pushed subnet routes (mesh.rs, RouteInstaller), the TUN device and its  *)
(* connected routes (tun_device.rs), and crashes at any point.             *)
(*                                                                         *)
(* The run loop and the net->tun processor are two tasks.  The handler's   *)
(* awaits are the places between its steps "change", "start", "persist".   *)
(***************************************************************************)
EXTENDS Integers, Sequences, FiniteSets

CONSTANTS
  Lease,       \* assignments a server hands out: [ip, v6]
  Nets,        \* subnets a server pushes
  ServerNets,  \* those that contain the server's address
  Configs,     \* [auto, accept, dns, static]
  MaxTries,    \* assignment requests before the deadline
  ChanCap,     \* capacity of the assignment channel
  MaxFlight,   \* bound: replies in flight
  MaxMoves,    \* bound: times the server changes the lease
  MaxDups,     \* bound: datagrams duplicated
  MaxIds,      \* bound: identities generated
  None

VARIABLES
  conf,        \* the resolved configuration
  phase,       \* "down" or "run"
  at,          \* where handle_assign_reply is: "idle", "change", "start", "persist"
  cfg,         \* cfg.tun: [ip, v6]
  tun,         \* what the device is programmed with
  guard,       \* SubnetRouteGuard: [ip, v6], or None
  policy,      \* the address the DNS proxy was started with, or None
  installer,   \* RouteInstaller objects: [ip, installed]
  slot,        \* installer_slot: an object, or None
  push,        \* the push net->tun is applying, holding the slot's lock
  kernel,      \* routing table: source address of each pushed subnet, or None
  flushed,     \* history: recorded subnets the kernel dropped with an address
  got_ok,      \* got_ok, and assigned_ok with it
  tries,       \* assign_retry ticks so far
  chan,        \* assign channel
  node,        \* node_id
  file,        \* client state file: None, or [id, last]; id None is corrupt
  asked,       \* an AssignRequest is on the wire
  net,         \* replies on the wire
  dups,        \* datagrams duplicated so far
  lease,       \* external: what the server leases to node; None: exhausted
  moves,
  ids,         \* identities generated so far
  fresh        \* history: leases granted since this run started

cvars == <<conf, phase, at, cfg, tun, guard, policy, installer, slot, push, kernel,
           flushed, got_ok, tries, chan, node, file, asked, net, dups, lease, moves, ids, fresh>>

addressing == <<cfg, tun, guard>>
mesh == <<installer, slot, push, kernel, flushed>>
session == <<phase, at, got_ok, tries, node>>
wire == <<asked, net, dups>>
server == <<lease, moves, fresh>>

Obj == {1, 2}
Unset == [ip |-> None, v6 |-> None]
Ip == {l.ip : l \in Lease \cup {c.static : c \in Configs}}
V6 == {l.v6 : l \in Lease \cup {c.static : c \in Configs}}
Address == [ip : Ip \cup {None}, v6 : V6 \cup {None}]
Refused == Unset       \* AssignStatus::Exhausted or NatMode carries no address
Reply == Lease \cup {Refused}

ASSUME ClientAssumption ==
  /\ ServerNets \subseteq Nets
  /\ {MaxTries, ChanCap, MaxFlight, MaxMoves, MaxDups, MaxIds} \subseteq Nat
  /\ \A c \in Configs : c.auto <=> c.static.ip = None

\* A lease and a static address are pairs of addresses, and a lease has an IPv4 one;
\* None is not a value of its own.
ASSUME AddressAssumption ==
  /\ \A l \in Lease : l = [ip |-> l.ip, v6 |-> l.v6] /\ l.ip # None
  /\ \A c \in Configs : /\ c.static = [ip |-> c.static.ip, v6 |-> c.static.v6]
                         /\ {c.auto, c.accept, c.dns} \subseteq BOOLEAN
  /\ None \notin Obj \cup (1 .. MaxIds) \cup Address
  /\ None \notin [routes : SUBSET Nets, obj : Obj]
  /\ None \notin [id : (1 .. MaxIds) \cup {None}, last : Address \cup {None}]

\* want_ip6: an auto client asks for an IPv6 address unless it has one of its own.
WantIp6 == conf.auto /\ conf.static.v6 = None

-----------------------------------------------------------------------------
(* Routes.                                                                 *)

\* remove_all of object o: its routes leave the table, except where deletion fails.
Removed(o, failing) ==
  [n \in Nets |-> IF n \in installer[o].installed \ failing THEN None ELSE kernel[n]]

\* RouteInstaller::apply refuses a route that would swallow the server's address.
Installable(routes) == routes \ ServerNets

\* A wrong variant: an install that failed is recorded as done.
Applied_RecordsFailures(o, routes, failing) ==
  LET old  == installer[o].installed
      add  == Installable(routes \ old)
      gone == old \ routes IN
  [installed |-> (old \cup add) \ gone,
   kernel |-> [n \in Nets |-> IF n \in add \ failing THEN installer[o].ip
                              ELSE IF n \in gone \ failing THEN None ELSE kernel[n]]]

\* RouteInstaller::apply: diff_routes, then install and remove one by one.  A failed
\* install is not recorded; a failed removal is forgotten.
Applied(o, routes, failing) ==
  LET old  == installer[o].installed
      add  == Installable(routes \ old) \ failing
      gone == old \ routes IN
  [installed |-> (old \cup add) \ gone,
   kernel |-> [n \in Nets |-> IF n \in add THEN installer[o].ip
                              ELSE IF n \in gone \ failing THEN None ELSE kernel[n]]]

\* net->tun takes a RoutePush; without an installer it is ignored.
PushBegins(routes) ==
  /\ phase = "run" /\ push = None /\ slot # None
  /\ push' = [routes |-> routes, obj |-> slot]
  /\ UNCHANGED <<conf, addressing, policy, installer, slot, kernel, flushed, session, chan,
                 file, wire, server, ids>>

\* A subnet that is pushed again is recorded already: one the kernel has dropped stays so.
PushApplied ==
  /\ push # None
  /\ \E failing \in SUBSET Nets :
       LET r == Applied(push.obj, push.routes, failing) IN
       /\ installer' = [installer EXCEPT ![push.obj].installed = r.installed]
       /\ kernel' = r.kernel
  /\ flushed' = flushed \cap push.routes
  /\ push' = None
  /\ UNCHANGED <<conf, addressing, policy, slot, session, chan, file, wire, server, ids>>

\* The slot's lock is held from the clone to the end of apply: the guard is a
\* temporary of the match.  So no push meets an installer that has been replaced.
SlotFree == push = None

-----------------------------------------------------------------------------
(* Leaving: guards drop, then the runtime drops the tasks and the device.  *)

Leave ==
  /\ phase' = "down" /\ at' = "idle" /\ got_ok' = FALSE /\ tries' = 0
  /\ cfg' = Unset /\ tun' = Unset /\ guard' = None /\ policy' = None
  /\ slot' = None /\ push' = None /\ chan' = <<>>
  /\ installer' = [o \in Obj |-> [ip |-> None, installed |-> {}]]
  /\ kernel' = [n \in Nets |-> None] /\ flushed' = {}
  /\ asked' = FALSE /\ net' = <<>> /\ dups' = 0

\* write_private does not replace the file in one step: what it leaves when it stops
\* half way does not parse.
Torn == IF ids < MaxIds THEN {[id |-> None, last |-> None]} ELSE {}

\* A shutdown signal, a fatal socket or TUN error, the end of the DNS proxy.
Exit ==
  /\ phase = "run" /\ at = "idle"
  /\ Leave
  /\ UNCHANGED <<conf, node, file, server, ids>>

\* Killed at any time; in the middle of a write the state file is torn.
Crash ==
  /\ phase = "run"
  /\ Leave
  /\ file' \in {file} \cup IF at = "persist" THEN Torn ELSE {}
  /\ UNCHANGED <<conf, node, server, ids>>

\* The file is damaged by hand: the identity no longer parses.
FileDamaged ==
  /\ phase = "down" /\ file # None /\ file.id # None /\ ids < MaxIds
  /\ file' = [file EXCEPT !.id = None]
  /\ UNCHANGED <<conf, addressing, policy, mesh, session, chan, wire, server, ids>>

-----------------------------------------------------------------------------
(* Start-up.                                                               *)

\* load_or_create_state.
Loaded ==
  IF file # None /\ file.id # None THEN file ELSE [id |-> ids + 1, last |-> None]

NewId == file = None \/ file.id = None

\* start_policy_and_installer, for address a and with installer object o free.
PolicyFor(a) == IF conf.dns THEN IF policy = None THEN a.ip ELSE policy ELSE None
FreeObj == CHOOSE o \in Obj : o # slot /\ (push # None => o # push.obj)

\* A wrong variant: a cached address counts as confirmed.
Confirmed_Cached(a) == ~conf.auto \/ a.ip # None

\* assigned_ok and got_ok at the start: an auto client has nothing yet.
Confirmed(a) == ~conf.auto

\* The addresses of the configuration, and of the state file over them: an IPv6 address
\* of one's own stays (overlay_cached_assignment).
Overlaid(last) ==
  IF ~conf.auto \/ last = None THEN conf.static
  ELSE [ip |-> last.ip, v6 |-> IF WantIp6 THEN last.v6 ELSE conf.static.v6]

\* Nothing is programmed before there is an IPv4 address, an IPv6 one of one's own included.
Programmed(a) == IF a.ip = None THEN Unset ELSE a

\* run, up to its loop.  A static client is up at once.  Every fallible step before
\* the loop returns the error: then only a new identity remains.
Start ==
  /\ phase = "down"
  /\ NewId /\ conf.auto => ids < MaxIds
  /\ LET st == Loaded
         a  == Overlaid(st.last) IN
     /\ IF conf.auto
        THEN /\ node' = st.id
             /\ file' \in {st} \cup IF ids + 1 < MaxIds THEN {file} ELSE {}
             /\ ids' = IF NewId THEN ids + 1 ELSE ids
             /\ lease' \in IF NewId THEN Lease ELSE {lease}
        ELSE UNCHANGED <<node, file, ids, lease>>
     /\ \/ /\ phase' = "run"
           /\ cfg' = a /\ tun' = Programmed(a)
           /\ guard' = IF conf.auto /\ a.ip # None THEN a ELSE None
           /\ policy' = IF a.ip = None THEN None ELSE PolicyFor(a)
           /\ IF conf.accept /\ a.ip # None
              THEN /\ slot' = FreeObj
                   /\ installer' = [installer EXCEPT ![FreeObj] = [ip |-> a.ip, installed |-> {}]]
              ELSE UNCHANGED <<slot, installer>>
           /\ got_ok' = Confirmed(a)
        \/ UNCHANGED <<phase, cfg, tun, guard, policy, slot, installer, got_ok>>
  /\ fresh' = {}
  /\ UNCHANGED <<conf, at, push, kernel, flushed, tries, chan, wire, moves>>

-----------------------------------------------------------------------------
(* The assignment exchange.                                                *)

\* A wrong variant: the deadline moves with every attempt.
RetryTick_NoDeadline ==
  /\ phase = "run" /\ at = "idle" /\ ~got_ok
  /\ tries' = tries /\ asked' = TRUE
  /\ UNCHANGED <<phase, at, got_ok, addressing, policy, mesh, chan, net, dups,
                 conf, node, file, server, ids>>

\* assign_retry: a request a second until the deadline, then give up.
RetryTick ==
  /\ phase = "run" /\ at = "idle" /\ ~got_ok
  /\ IF tries >= MaxTries
     THEN Leave
     ELSE /\ tries' = tries + 1 /\ asked' = TRUE
          /\ UNCHANGED <<phase, at, got_ok, addressing, policy, mesh, chan, net, dups>>
  /\ UNCHANGED <<conf, node, file, server, ids>>

\* keep_tick: after Ok the request is the keepalive.
KeepTick ==
  /\ phase = "run" /\ at = "idle" /\ got_ok /\ conf.auto
  /\ asked' = TRUE
  /\ UNCHANGED <<conf, addressing, policy, mesh, session, chan, file, net, dups, server, ids>>

\* external: the server answers, or the request is lost.
ServerAnswers ==
  /\ asked /\ asked' = FALSE
  /\ \/ /\ Len(net) < MaxFlight
        /\ net' = Append(net, IF lease = None THEN Refused ELSE lease)
        /\ fresh' = IF lease = None THEN fresh ELSE fresh \cup {lease}
     \/ UNCHANGED <<net, fresh>>
  /\ UNCHANGED <<conf, addressing, policy, mesh, session, chan, file, dups, lease, moves, ids>>

ServerMoves ==
  /\ moves < MaxMoves /\ conf.auto
  /\ lease' \in (Lease \cup {None}) \ {lease}
  /\ moves' = moves + 1
  /\ UNCHANGED <<conf, addressing, policy, mesh, session, chan, file, wire, fresh, ids>>

Drop(i) == [j \in 1..(Len(net) - 1) |-> IF j < i THEN net[j] ELSE net[j + 1]]

\* try_send on the bounded assignment channel.
Room == Len(chan) < ChanCap

\* net->tun hands a reply to the run loop, whatever their order; a full channel
\* drops it.
Deliver(i) ==
  /\ phase = "run" /\ push = None
  /\ net' = Drop(i)
  /\ chan' = IF Room THEN Append(chan, net[i]) ELSE chan
  /\ UNCHANGED <<conf, addressing, policy, mesh, session, file, asked, dups, server, ids>>

\* While the processor is busy, what has arrived waits in the reader's channel.
Lose(i) ==
  /\ push = None
  /\ net' = Drop(i)
  /\ UNCHANGED <<conf, addressing, policy, mesh, session, chan, file, asked, dups, server, ids>>

Duplicate(i) ==
  /\ dups < MaxDups /\ Len(net) < MaxFlight
  /\ net' = Append(net, net[i]) /\ dups' = dups + 1
  /\ UNCHANGED <<conf, addressing, policy, mesh, session, chan, file, asked, server, ids>>

-----------------------------------------------------------------------------
(* handle_assign_reply.                                                    *)

\* reply_ip6: the reply's address if one was asked for, else the static one.
Assigned(r) == [ip |-> r.ip, v6 |-> IF WantIp6 THEN r.v6 ELSE cfg.v6]

\* A refusal ends a client that has nothing, and is ignored by one that has.
ReplyRefused ==
  /\ phase = "run" /\ at = "idle" /\ chan # <<>> /\ Head(chan) = Refused
  /\ IF got_ok
     THEN /\ chan' = Tail(chan)
          /\ UNCHANGED <<addressing, policy, mesh, phase, at, got_ok, tries, wire>>
     ELSE Leave
  /\ UNCHANGED <<conf, node, file, server, ids>>

\* A periodic refresh that changes nothing.
ReplyUnchanged ==
  /\ phase = "run" /\ at = "idle" /\ chan # <<>> /\ Head(chan) # Refused
  /\ got_ok /\ Assigned(Head(chan)) = cfg
  /\ chan' = Tail(chan)
  /\ UNCHANGED <<conf, addressing, policy, mesh, session, file, wire, server, ids>>

\* set_network_address takes the address off the device and puts it back: the kernel may
\* drop routes that went over it, also when the address is the one it had.
Readdressed ==
  \E lost \in SUBSET Nets :
     /\ kernel' = [n \in Nets |-> IF n \in lost THEN None ELSE kernel[n]]
     /\ flushed' = IF slot = None THEN {}
                   ELSE flushed \cup (lost \cap installer[slot].installed)

\* A wrong variant: only the first reply is ever applied.
ReplyApplied_Once ==
  /\ phase = "run" /\ at = "idle" /\ chan # <<>> /\ Head(chan) # Refused
  /\ ~got_ok
  /\ LET a == Assigned(Head(chan)) IN
     /\ cfg' = a /\ tun' = a /\ guard' = a
     /\ at' = IF cfg.ip \notin {None, a.ip} THEN "change" ELSE "start"
  /\ Readdressed
  /\ chan' = Tail(chan)
  /\ UNCHANGED <<conf, policy, installer, slot, push, phase, got_ok, tries, node, file,
                 wire, server, ids>>

\* apply_assignment on the device, cfg.tun, SubnetRouteGuard::apply.
ReplyApplied ==
  /\ phase = "run" /\ at = "idle" /\ chan # <<>> /\ Head(chan) # Refused
  /\ ~(got_ok /\ Assigned(Head(chan)) = cfg)
  /\ LET a == Assigned(Head(chan)) IN
     /\ cfg' = a /\ tun' = a /\ guard' = a
     /\ at' = IF cfg.ip \notin {None, a.ip} THEN "change" ELSE "start"
  /\ Readdressed
  /\ chan' = Tail(chan)
  /\ UNCHANGED <<conf, policy, installer, slot, push, phase, got_ok, tries, node, file,
                 wire, server, ids>>

\* A wrong variant: what was built for the old address stays.
HandlerChanges_KeepsPolicy ==
  /\ at = "change" /\ SlotFree
  /\ at' = "start"
  /\ UNCHANGED <<conf, addressing, policy, mesh, phase, got_ok, tries, node, chan, file,
                 wire, server, ids>>

\* The address moved: shutdown_policy, and the installer and its guard are dropped.
HandlerChanges ==
  /\ at = "change" /\ SlotFree
  /\ policy' = None
  /\ IF slot # None
     THEN /\ slot' = None
          /\ \E failing \in SUBSET installer[slot].installed : kernel' = Removed(slot, failing)
          /\ installer' = [installer EXCEPT ![slot].installed = {}]
     ELSE UNCHANGED <<slot, kernel, installer>>
  /\ flushed' = {}
  /\ at' = "start"
  /\ UNCHANGED <<conf, addressing, push, phase, got_ok, tries, node, chan, file, wire,
                 server, ids>>

\* start_policy_and_installer: only what is missing is built.
HandlerStarts ==
  /\ at = "start" /\ SlotFree
  /\ policy' = PolicyFor(cfg)
  /\ IF conf.accept /\ slot = None
     THEN /\ slot' = FreeObj
          /\ installer' = [installer EXCEPT ![FreeObj] = [ip |-> cfg.ip, installed |-> {}]]
     ELSE UNCHANGED <<slot, installer>>
  /\ at' = "persist"
  /\ UNCHANGED <<conf, addressing, push, kernel, flushed, phase, got_ok, tries, node, chan,
                 file, wire, server, ids>>

\* The device, the connected route or the proxy could not be set up.
HandlerFails ==
  /\ at \in {"change", "start"}
  /\ Leave
  /\ UNCHANGED <<conf, node, file, server, ids>>

\* persist_assignment, best effort; the first Ok opens the tunnel.
HandlerPersists ==
  /\ at = "persist"
  /\ file' \in {file, [id |-> node, last |-> cfg]} \cup Torn
  /\ got_ok' = TRUE /\ tries' = 0
  /\ at' = "idle"
  /\ UNCHANGED <<conf, addressing, policy, mesh, phase, node, chan, wire, server, ids>>

-----------------------------------------------------------------------------
CInit ==
  /\ conf \in Configs
  /\ phase = "down" /\ at = "idle" /\ got_ok = FALSE /\ tries = 0 /\ node = 0
  /\ cfg = Unset /\ tun = Unset /\ guard = None /\ policy = None
  /\ slot = None /\ push = None /\ chan = <<>>
  /\ installer = [o \in Obj |-> [ip |-> None, installed |-> {}]]
  /\ kernel = [n \in Nets |-> None] /\ flushed = {}
  /\ file = None /\ asked = FALSE /\ net = <<>> /\ dups = 0
  /\ lease \in Lease /\ moves = 0 /\ ids = 0 /\ fresh = {}

\* The run loop's own steps; a reply is taken before anything else is fair to it.
Handler == ReplyRefused \/ ReplyUnchanged \/ ReplyApplied
Continue == HandlerChanges \/ HandlerStarts \/ HandlerFails \/ HandlerPersists

CNext ==
  \/ Start \/ Exit \/ Crash \/ FileDamaged
  \/ RetryTick \/ KeepTick \/ ServerAnswers \/ ServerMoves
  \/ \E i \in DOMAIN net : Deliver(i) \/ Lose(i) \/ Duplicate(i)
  \/ Handler \/ Continue
  \/ \E routes \in SUBSET Nets : PushBegins(routes)
  \/ PushApplied

\* Timers fire and both tasks are scheduled.
CFairness ==
  /\ WF_cvars(RetryTick) /\ WF_cvars(KeepTick)
  /\ WF_cvars(Handler) /\ WF_cvars(Continue) /\ WF_cvars(PushApplied)

\* external: a link on which a datagram sent over and over gets through.
FairLink ==
  SF_cvars(ServerAnswers /\ net' # net) /\ SF_cvars(\E i \in DOMAIN net : Deliver(i))

CSpec == CInit /\ [][CNext]_cvars /\ CFairness

-----------------------------------------------------------------------------
(* Properties.                                                             *)

\* Types of the client's state.
CTypeOK ==
  /\ conf \in Configs /\ phase \in {"down", "run"}
  /\ at \in {"idle", "change", "start", "persist"}
  /\ cfg \in Address /\ tun \in Address /\ guard \in Address \cup {None}
  /\ policy \in Ip \cup {None}
  /\ installer \in [Obj -> [ip : Ip \cup {None}, installed : SUBSET Nets]]
  /\ slot \in Obj \cup {None} /\ push \in [routes : SUBSET Nets, obj : Obj] \cup {None}
  /\ kernel \in [Nets -> Ip \cup {None}] /\ flushed \subseteq Nets
  /\ got_ok \in BOOLEAN /\ tries \in 0..MaxTries /\ chan \in Seq(Reply) /\ Len(chan) <= ChanCap
  /\ node \in 0..MaxIds /\ file \in [id : (1..MaxIds) \cup {None}, last : Address \cup {None}] \cup {None}
  /\ asked \in BOOLEAN /\ net \in Seq(Reply) /\ Len(net) <= MaxFlight /\ dups \in 0..MaxDups
  /\ lease \in Lease \cup {None} /\ moves \in 0..MaxMoves /\ ids \in 0..MaxIds
  /\ fresh \subseteq Lease

\* handle_assign_reply: between replies the device, its connected routes, the DNS
\* proxy and the installer all carry the addresses of the configuration; as long as
\* there is no IPv4 address they carry none, although the configuration may hold an
\* IPv6 one.  (With the types of the state, the bound of the reply channel among them.)
OneAddressEverywhere ==
  /\ CTypeOK
  /\ phase = "run" /\ at = "idle" =>
       /\ tun = Programmed(cfg)
       /\ conf.auto => guard = IF cfg.ip = None THEN None ELSE cfg
       /\ policy = IF conf.dns THEN cfg.ip ELSE None
       /\ slot # None => installer[slot].ip = cfg.ip

\* RouteInstaller: a subnet the current installer holds as installed is in the
\* kernel's table with its address, or a steady push would never put it back; the only
\* ones lost so are those the kernel drops when a reply sets the address again and the
\* IPv4 address, and so the installer, stays.  Once the address has moved none is, and
\* none ever contains the server.
RecordedRoutesAreInKernel ==
  /\ slot # None =>
       \A n \in installer[slot].installed : kernel[n] = installer[slot].ip \/ n \in flushed
  /\ \A n \in ServerNets : kernel[n] = None

\* tun_to_net: traffic flows only from an address the server has granted in this
\* run; a cached one is not enough.
OnlyConfirmedAddressSends ==
  got_ok /\ conf.auto => \E l \in fresh : tun.ip = l.ip

\* run: an auto client does not wait for an address forever, whatever the link loses.
AssignmentDecides == (phase = "run" /\ ~got_ok) ~> (phase = "down" \/ got_ok)

\* AssignRequest as keepalive: once the server's lease is stable, the device ends up
\* with it, whatever the link lost, repeated or reordered before.
AddressConverges ==
  FairLink /\ conf.auto =>
    <>[](phase = "run" /\ at = "idle" /\ got_ok /\ lease # None =>
           tun.ip = lease.ip /\ (WantIp6 => tun.v6 = lease.v6))
=============================================================================
