------------------------ MODULE ClientSession_proofs ------------------------
(***************************************************************************)
(* Proofs about ClientSession, for any leases, configurations and bounds.  *)
(*                                                                         *)
(* The reply handler rebuilds the device, the guard, the policy and the    *)
(* route installer one await at a time.  `Rebuilt' says which of them      *)
(* follow the new address at each of its awaits, so that all of them do    *)
(* when it is done; `PushHoldsSlot' that a push cannot work on an installer*)
(* the handler has replaced; and `Granted' that whatever is on its way to  *)
(* the handler is a lease of this run, which is what a cached address on   *)
(* file is not.  The books of an installer are right but for the subnets   *)
(* in `flushed', which only a reply that sets the address again adds to.   *)
(***************************************************************************)
EXTENDS ClientSession, SequenceTheorems, TLAPS

\* A process that is not running holds nothing, and nothing of its last run is on the
\* wire; a client with a static address never asks for another.
Quiet ==
  /\ phase = "down" => /\ at = "idle" /\ ~got_ok /\ cfg = Unset /\ tun = Unset
                       /\ guard = None /\ policy = None /\ slot = None /\ push = None
                       /\ ~asked /\ net = <<>> /\ chan = <<>>
  /\ ~conf.auto => /\ at = "idle" /\ ~asked /\ net = <<>> /\ chan = <<>>
                   /\ phase = "run" => got_ok

\* An auto client runs under an identity, and an address it has on file is an IPv4
\* address at least.
Whole ==
  conf.auto => /\ phase = "run" => node # 0
               /\ file # None => file.last = None \/ file.last.ip # None

\* What the reply handler has and has not rebuilt yet at each of its awaits.
Rebuilt ==
  /\ phase = "run" => tun = Programmed(cfg)
  /\ ~conf.dns => policy = None
  /\ phase = "run" /\ at = "idle" =>
       /\ conf.auto => guard = IF cfg.ip = None THEN None ELSE cfg
       /\ policy = IF conf.dns THEN cfg.ip ELSE None
       /\ slot # None => cfg.ip # None /\ installer[slot].ip = cfg.ip
  /\ at # "idle" => guard = cfg /\ cfg.ip # None
  /\ at = "start" => /\ policy \in {None, cfg.ip}
                     /\ slot # None => installer[slot].ip = cfg.ip
  /\ at = "persist" => /\ policy = IF conf.dns THEN cfg.ip ELSE None
                       /\ slot # None => installer[slot].ip = cfg.ip

\* The slot's lock: a push works on the installer in the slot.
PushHoldsSlot == push # None => push.obj = slot

\* Whatever is on its way to the handler, or was applied by it, was granted in this run.
Granted ==
  /\ \A i \in DOMAIN net : net[i] \in fresh \cup {Refused}
  /\ \A i \in DOMAIN chan : chan[i] \in fresh \cup {Refused}
  /\ at # "idle" \/ (got_ok /\ conf.auto) => \E l \in fresh : tun.ip = l.ip

CInv == CTypeOK /\ Quiet /\ Whole /\ Rebuilt /\ PushHoldsSlot /\ Granted
        /\ RecordedRoutesAreInKernel

-----------------------------------------------------------------------------
(* Types of the constants.                                                 *)

\* Leases, replies and static addresses are pairs of addresses.
LEMMA AddressTypes ==
  /\ Unset \in Address /\ Lease \subseteq Address /\ Reply \subseteq Address
  /\ \A c \in Configs : c.static \in Address
  /\ \A a \in Address : /\ a.ip \in Ip \cup {None} /\ a.v6 \in V6 \cup {None}
                         /\ a = [ip |-> a.ip, v6 |-> a.v6] /\ a # None
  /\ Unset.ip = None
<1>1. Unset \in Address /\ Unset.ip = None
  BY Zenon DEF Unset, Address
<1>2. ASSUME NEW l \in Lease PROVE l \in Address
  <2>1. l.ip \in Ip /\ l.v6 \in V6
    BY Zenon DEF Ip, V6
  <2> QED
    BY <2>1, AddressAssumption DEF Address
<1>3. ASSUME NEW c \in Configs PROVE c.static \in Address
  <2> DEFINE s == c.static
  <2>1. s \in Lease \cup {d.static : d \in Configs}
    BY Zenon
  <2> HIDE DEF s
  <2>2. s.ip \in Ip /\ s.v6 \in V6
    BY <2>1, Zenon DEF Ip, V6
  <2>3. s = [ip |-> s.ip, v6 |-> s.v6]
    BY AddressAssumption, Zenon DEF s
  <2> QED
    BY <2>2, <2>3, Zenon DEF Address, s
<1>4. \A a \in Address : /\ a.ip \in Ip \cup {None} /\ a.v6 \in V6 \cup {None}
                         /\ a = [ip |-> a.ip, v6 |-> a.v6] /\ a # None
  BY AddressAssumption DEF Address
<1> QED
  BY <1>1, <1>2, <1>3, <1>4, Zenon DEF Reply, Refused

\* A reply that is not a refusal is a lease, and a lease has an IPv4 address.
LEMMA LeasesAreWhole ==
  /\ Refused \notin Lease
  /\ \A l \in Lease : l.ip \in Ip /\ l.ip # None
BY AddressAssumption, Zenon DEF Refused, Unset, Ip

\* A client that has not run yet holds nothing.
LEMMA CInitInv == CInit => CInv
<1> SUFFICES ASSUME CInit PROVE CInv
  BY Zenon
<1>1. CTypeOK
  <2>1. installer \in [Obj -> [ip : Ip \cup {None}, installed : SUBSET Nets]]
    BY Zenon DEF CInit
  <2>2. kernel \in [Nets -> Ip \cup {None}]
    BY Zenon DEF CInit
  <2>3. /\ chan \in Seq(Reply) /\ Len(chan) <= ChanCap
        /\ net \in Seq(Reply) /\ Len(net) <= MaxFlight
        /\ tries \in 0..MaxTries /\ node \in 0..MaxIds /\ dups \in 0..MaxDups
        /\ moves \in 0..MaxMoves /\ ids \in 0..MaxIds
    BY ClientAssumption DEF CInit
  <2> QED
    BY <2>1, <2>2, <2>3, AddressTypes, ClientAssumption, Zenon DEF CInit, CTypeOK
<1>2. Quiet /\ Whole /\ Rebuilt /\ PushHoldsSlot /\ RecordedRoutesAreInKernel
  BY ClientAssumption, Zenon DEF CInit, Quiet, Whole, Rebuilt, PushHoldsSlot,
     RecordedRoutesAreInKernel
<1>3. Granted
  BY DEF CInit, Granted
<1> QED
  BY <1>1, <1>2, <1>3, Zenon DEF CInv

\* The end of a run: whatever the process held is gone, its replies with it.
LEMMA LeaveKeeps ==
  ASSUME CInv, Leave, UNCHANGED <<conf, node, server, ids>>,
         file' \in {file, [id |-> None, last |-> None]}
  PROVE  CInv'
<1> USE DEF CInv, Leave, server
<1>1. CTypeOK'
  <2>1. installer' \in [Obj -> [ip : Ip \cup {None}, installed : SUBSET Nets]]
    BY Zenon
  <2>2. kernel' \in [Nets -> Ip \cup {None}]
    BY Zenon
  <2>3. /\ chan' \in Seq(Reply) /\ Len(chan') <= ChanCap
        /\ net' \in Seq(Reply) /\ Len(net') <= MaxFlight
        /\ tries' \in 0..MaxTries /\ dups' \in 0..MaxDups
    BY ClientAssumption
  <2>4. file' \in [id : (1..MaxIds) \cup {None}, last : Address \cup {None}] \cup {None}
    BY DEF CTypeOK
  <2> QED
    BY <2>1, <2>2, <2>3, <2>4, AddressTypes, Zenon DEF CTypeOK
<1>2. Quiet' /\ Whole' /\ Rebuilt' /\ PushHoldsSlot' /\ RecordedRoutesAreInKernel'
  BY ClientAssumption DEF Quiet, Whole, Rebuilt, PushHoldsSlot, RecordedRoutesAreInKernel
<1>3. Granted'
  BY DEF Granted
<1> QED
  BY <1>1, <1>2, <1>3, Zenon

-----------------------------------------------------------------------------
(* The link: requests, replies and the two channels they wait in.          *)

\* A reply joins a queue with room for it.
LEMMA AppendKeeps ==
  ASSUME NEW s \in Seq(Reply), NEW r \in Reply, NEW max \in Nat, Len(s) < max,
         NEW G, \A i \in DOMAIN s : s[i] \in G, r \in G
  PROVE  /\ Append(s, r) \in Seq(Reply) /\ Len(Append(s, r)) <= max
         /\ \A i \in DOMAIN Append(s, r) : Append(s, r)[i] \in G
OBVIOUS

\* A datagram leaves the wire: the others are still there, in their order.
LEMMA DropKeeps ==
  ASSUME net \in Seq(Reply), NEW i \in DOMAIN net
  PROVE  /\ Drop(i) \in Seq(Reply) /\ Len(Drop(i)) = Len(net) - 1
         /\ \A j \in DOMAIN Drop(i) : \E k \in DOMAIN net : Drop(i)[j] = net[k]
<1>1. Len(net) \in Nat /\ Len(net) - 1 \in Nat /\ i \in 1..Len(net)
  OBVIOUS
<1>2. Drop(i) \in [1..(Len(net) - 1) -> Reply]
  BY <1>1 DEF Drop
<1>3. Drop(i) \in Seq(Reply) /\ Len(Drop(i)) = Len(net) - 1
  BY <1>1, <1>2, SeqDef
<1> QED
  BY <1>1, <1>3 DEF Drop

\* Steps of the wire and the server, and the handler's early returns, touch nothing
\* the client has built; what they must not do is invent a reply.
LEMMA WireKeeps ==
  ASSUME CInv,
         UNCHANGED <<conf, addressing, policy, mesh, phase, at, got_ok, node, file, ids>>,
         tries' \in 0..MaxTries, dups' \in 0..MaxDups, moves' \in 0..MaxMoves,
         asked' \in BOOLEAN, lease' \in Lease \cup {None},
         chan' \in Seq(Reply), Len(chan') <= ChanCap,
         net' \in Seq(Reply), Len(net') <= MaxFlight,
         fresh \subseteq fresh', fresh' \subseteq Lease,
         \A i \in DOMAIN net' : net'[i] \in fresh' \cup {Refused},
         \A i \in DOMAIN chan' : chan'[i] \in fresh' \cup {Refused},
         phase = "down" \/ ~conf.auto => ~asked' /\ net' = <<>> /\ chan' = <<>>
  PROVE  CInv'
<1> USE DEF CInv, addressing, mesh
<1>1. CTypeOK'
  BY DEF CTypeOK
<1>2. Quiet' /\ Whole' /\ Rebuilt' /\ PushHoldsSlot' /\ RecordedRoutesAreInKernel'
  BY DEF Quiet, Whole, Rebuilt, PushHoldsSlot, RecordedRoutesAreInKernel
<1>3. Granted'
  BY Zenon DEF Granted
<1> QED
  BY <1>1, <1>2, <1>3, Zenon

\* The keepalive, the server and the link only add or remove replies of this run.
LEMMA LinkSteps ==
  ASSUME CInv,
         \/ KeepTick \/ ServerAnswers \/ ServerMoves
         \/ \E i \in DOMAIN net : Deliver(i) \/ Lose(i) \/ Duplicate(i)
  PROVE  CInv'
<1> USE DEF addressing, mesh, session, wire, server
<1>0. CTypeOK /\ Quiet /\ Granted
  BY Zenon DEF CInv
<1>1. /\ chan \in Seq(Reply) /\ net \in Seq(Reply) /\ Len(net) <= MaxFlight
      /\ Len(chan) <= ChanCap /\ fresh \subseteq Lease
      /\ dups \in 0..MaxDups /\ moves \in 0..MaxMoves /\ tries \in 0..MaxTries
      /\ asked \in BOOLEAN /\ lease \in Lease \cup {None}
      /\ conf \in Configs /\ conf.auto \in BOOLEAN
      /\ MaxFlight \in Nat /\ ChanCap \in Nat
  BY <1>0, AddressAssumption, ClientAssumption, Zenon DEF CTypeOK
<1>2. /\ \A i \in DOMAIN net : net[i] \in fresh \cup {Refused}
      /\ \A i \in DOMAIN chan : chan[i] \in fresh \cup {Refused}
  BY <1>0, Zenon DEF Granted
<1>3. phase = "down" \/ ~conf.auto => ~asked /\ net = <<>> /\ chan = <<>>
  BY <1>0, Zenon DEF Quiet
<1>4. CASE KeepTick
  <2>1. phase = "run" /\ conf.auto /\ asked' = TRUE
    BY <1>4, Zenon DEF KeepTick
  <2> QED
    BY <1>1, <1>2, <1>3, <1>4, <2>1, WireKeeps, Zenon DEF KeepTick
<1>5. CASE ServerAnswers
  <2>1. PICK r \in Reply : /\ net' \in {net, Append(net, r)}
                           /\ net' = net \/ Len(net) < MaxFlight
                           /\ fresh \subseteq fresh' /\ fresh' \subseteq Lease
                           /\ net' = net \/ r \in fresh' \cup {Refused}
    BY <1>1, <1>5, Zenon DEF ServerAnswers, Reply
  <2>2. /\ net' \in Seq(Reply) /\ Len(net') <= MaxFlight
        /\ \A i \in DOMAIN net' : net'[i] \in fresh' \cup {Refused}
    <3>1. CASE net' = net
      BY <1>1, <1>2, <2>1, <3>1, Zenon
    <3>2. CASE net' = Append(net, r) /\ net' # net
      <4> DEFINE G == fresh' \cup {Refused}
      <4>1. r \in G /\ Len(net) < MaxFlight /\ \A i \in DOMAIN net : net[i] \in G
        BY <1>2, <2>1, <3>2, Zenon
      <4> HIDE DEF G
      <4>2. /\ Append(net, r) \in Seq(Reply) /\ Len(Append(net, r)) <= MaxFlight
            /\ \A i \in DOMAIN Append(net, r) : Append(net, r)[i] \in G
        BY <1>1, <4>1, AppendKeeps, Zenon
      <4> QED
        BY <3>2, <4>2, Zenon DEF G
    <3> QED
      BY <2>1, <3>1, <3>2, Zenon
  <2> QED
    BY <1>1, <1>2, <1>3, <1>5, <2>1, <2>2, WireKeeps, Zenon DEF ServerAnswers
<1>6. CASE ServerMoves
  BY <1>1, <1>2, <1>3, <1>6, WireKeeps, ClientAssumption DEF ServerMoves
<1>7. ASSUME NEW i \in DOMAIN net, Deliver(i) \/ Lose(i) PROVE CInv'
  <2>1. /\ net' \in Seq(Reply) /\ Len(net') <= MaxFlight
        /\ \A j \in DOMAIN net' : net'[j] \in fresh \cup {Refused}
    <3>1. net' = Drop(i)
      BY <1>7, Zenon DEF Deliver, Lose
    <3>2. /\ net' \in Seq(Reply) /\ Len(net') = Len(net) - 1
          /\ \A j \in DOMAIN net' : \E k \in DOMAIN net : net'[j] = net[k]
      BY <1>1, <3>1, DropKeeps, Zenon
    <3> QED
      BY <1>1, <1>2, <3>2
  <2>2. /\ chan' \in Seq(Reply) /\ Len(chan') <= ChanCap
        /\ \A j \in DOMAIN chan' : chan'[j] \in fresh \cup {Refused}
    <3>1. chan' \in {chan, Append(chan, net[i])} /\ (chan' = chan \/ Len(chan) < ChanCap)
      BY <1>7, Zenon DEF Deliver, Lose, Room
    <3>2. net[i] \in Reply
      BY <1>1
    <3>3. net[i] \in fresh \cup {Refused}
      BY <1>2, Zenon
    <3>4. CASE chan' = chan
      BY <1>1, <1>2, <3>4, Zenon
    <3>5. CASE chan' = Append(chan, net[i]) /\ Len(chan) < ChanCap
      BY <1>1, <1>2, <3>2, <3>3, <3>5, AppendKeeps, Zenon
    <3> QED
      BY <3>1, <3>4, <3>5, Zenon
  <2>3. phase = "run" /\ conf.auto
    BY <1>0, <1>1, <1>7 DEF Quiet, CTypeOK
  <2> QED
    BY <1>1, <1>7, <2>1, <2>2, <2>3, WireKeeps, Zenon DEF Deliver, Lose
<1>8. ASSUME NEW i \in DOMAIN net, Duplicate(i) PROVE CInv'
  <2>1. net[i] \in Reply /\ net' = Append(net, net[i]) /\ Len(net) < MaxFlight
    BY <1>1, <1>8 DEF Duplicate
  <2>2. net[i] \in fresh \cup {Refused}
    BY <1>2, Zenon
  <2>3. /\ net' \in Seq(Reply) /\ Len(net') <= MaxFlight
        /\ \A j \in DOMAIN net' : net'[j] \in fresh \cup {Refused}
    BY <1>1, <1>2, <2>1, <2>2, AppendKeeps, Zenon
  <2>4. phase = "run" /\ conf.auto
    BY <1>0, <1>1, <1>8 DEF Quiet, CTypeOK
  <2>5. dups' \in 0..MaxDups
    BY <1>1, <1>8, ClientAssumption DEF Duplicate
  <2> QED
    BY <1>1, <1>2, <1>8, <2>3, <2>4, <2>5, WireKeeps, Zenon DEF Duplicate
<1> QED
  BY <1>4, <1>5, <1>6, <1>7, <1>8, Zenon

-----------------------------------------------------------------------------
(* The run loop: giving up, and the replies it takes off its channel.      *)

\* The reply at the head of the channel was granted in this run, or is a refusal; the
\* rest of the channel stays as it was.
LEMMA TakesReply ==
  ASSUME CInv, chan # <<>>
  PROVE  /\ Head(chan) \in Reply /\ Head(chan) \in fresh \cup {Refused}
         /\ Tail(chan) \in Seq(Reply) /\ Len(Tail(chan)) <= ChanCap
         /\ \A i \in DOMAIN Tail(chan) : Tail(chan)[i] \in fresh \cup {Refused}
<1>1. chan \in Seq(Reply) /\ Len(chan) <= ChanCap /\ ChanCap \in Nat
  BY ClientAssumption, Zenon DEF CInv, CTypeOK
<1>2. \A i \in DOMAIN chan : chan[i] \in fresh \cup {Refused}
  BY Zenon DEF CInv, Granted
<1>3. /\ Tail(chan) \in Seq(Reply) /\ Len(Tail(chan)) = Len(chan) - 1
      /\ \A i \in DOMAIN Tail(chan) : Tail(chan)[i] = chan[i + 1] /\ i + 1 \in DOMAIN chan
  BY <1>1
<1>4. Head(chan) = chan[1] /\ 1 \in DOMAIN chan
  BY <1>1
<1> QED
  BY <1>1, <1>2, <1>3, <1>4

\* A run ends by a signal, a kill, the deadline, a refusal or a failed handler.
LEMMA EndSteps ==
  ASSUME CInv, Exit \/ Crash \/ HandlerFails \/ RetryTick \/ ReplyRefused
  PROVE  CInv'
<1> USE DEF addressing, mesh, wire, server
<1>1. CASE Exit \/ Crash \/ HandlerFails
  BY <1>1, LeaveKeeps, Zenon DEF Exit, Crash, HandlerFails, Torn
<1>2. CASE Leave /\ UNCHANGED <<conf, node, file, server, ids>>
  BY <1>2, LeaveKeeps, Zenon
<1>3. CASE RetryTick /\ ~Leave
  <2>1. /\ phase = "run" /\ ~got_ok /\ tries' = tries + 1 /\ tries < MaxTries /\ asked' = TRUE
        /\ UNCHANGED <<conf, addressing, policy, mesh, phase, at, got_ok, node, file, ids>>
        /\ UNCHANGED <<chan, net, dups, server>>
    BY <1>3, ClientAssumption DEF RetryTick, CInv, CTypeOK
  <2>2. tries' \in 0..MaxTries /\ conf.auto
    BY <2>1, ClientAssumption DEF CInv, CTypeOK, Quiet
  <2> QED
    BY <2>1, <2>2, WireKeeps, Zenon DEF CInv, CTypeOK, Granted
<1>4. CASE ReplyRefused /\ ~Leave
  <2>1. /\ chan # <<>> /\ chan' = Tail(chan)
        /\ UNCHANGED <<conf, addressing, policy, mesh, phase, at, got_ok, node, file, ids>>
        /\ UNCHANGED <<tries, wire, server>>
    BY <1>4, Zenon DEF ReplyRefused
  <2>2. phase = "run" /\ conf.auto
    BY <1>4, <2>1, Zenon DEF ReplyRefused, CInv, Quiet
  <2> QED
    BY <2>1, <2>2, TakesReply, WireKeeps, Zenon DEF CInv, CTypeOK, Granted
<1> QED
  BY <1>1, <1>2, <1>3, <1>4, Zenon DEF RetryTick, ReplyRefused

\* A reply that confirms the address in force rebuilds nothing.
LEMMA UnchangedSteps ==
  ASSUME CInv, ReplyUnchanged
  PROVE  CInv'
<1> USE DEF addressing, mesh, wire, server, session
<1>1. /\ chan # <<>> /\ chan' = Tail(chan)
      /\ UNCHANGED <<conf, addressing, policy, mesh, phase, at, got_ok, node, file, ids>>
      /\ UNCHANGED <<tries, wire, server>>
  BY Zenon DEF ReplyUnchanged
<1>2. phase = "run" /\ conf.auto
  BY <1>1, Zenon DEF ReplyUnchanged, CInv, Quiet
<1> QED
  BY <1>1, <1>2, TakesReply, WireKeeps, Zenon DEF CInv, CTypeOK, Granted

\* The state file may be damaged: it is read by a start only.
LEMMA DamageSteps ==
  ASSUME CInv, FileDamaged
  PROVE  CInv'
<1> USE DEF addressing, mesh, wire, server, session, CInv
<1>1. CTypeOK'
  BY DEF FileDamaged, CTypeOK
<1>2. Quiet' /\ Rebuilt' /\ PushHoldsSlot' /\ RecordedRoutesAreInKernel' /\ Granted'
  BY Zenon DEF FileDamaged, Quiet, Rebuilt, PushHoldsSlot, RecordedRoutesAreInKernel, Granted
<1>3. Whole'
  BY Zenon DEF FileDamaged, Whole, CTypeOK
<1> QED
  BY <1>1, <1>2, <1>3, Zenon

-----------------------------------------------------------------------------
(* handle_assign_reply, step by step.                                      *)

\* A new address: the device and its connected routes are programmed first.
LEMMA AppliedKeeps ==
  ASSUME CInv, ReplyApplied
  PROVE  CInv'
<1> DEFINE r == Head(chan)
           a == Assigned(r)
<1> USE DEF CInv, server, wire, mesh
<1>1. /\ phase = "run" /\ at = "idle" /\ chan # <<>> /\ r # Refused
      /\ cfg' = a /\ tun' = a /\ guard' = a
      /\ at' = IF cfg.ip \notin {None, a.ip} THEN "change" ELSE "start"
      /\ chan' = Tail(chan)
      /\ UNCHANGED <<conf, policy, installer, slot, push, phase, got_ok, tries, node, file,
                     wire, server, ids>>
  BY Zenon DEF ReplyApplied
<1>2. /\ r \in fresh /\ r \in Lease /\ r.ip \in Ip /\ r.ip # None
      /\ r.v6 \in V6 \cup {None}
  BY <1>1, TakesReply, LeasesAreWhole, AddressTypes, Zenon DEF CTypeOK
<1>3. conf.auto
  BY <1>1, Zenon DEF Quiet
<1> HIDE DEF r
<1>4. a \in Address /\ a.ip = r.ip
  BY <1>2, AddressTypes, Zenon DEF Assigned, Address, CTypeOK
<1> HIDE DEF a
<1>11. /\ kernel' \in [Nets -> Ip \cup {None}] /\ flushed' \subseteq Nets
       /\ RecordedRoutesAreInKernel'
  <2>1. PICK lost \in SUBSET Nets :
          /\ kernel' = [n \in Nets |-> IF n \in lost THEN None ELSE kernel[n]]
          /\ flushed' = IF slot = None THEN {}
                        ELSE flushed \cup (lost \cap installer[slot].installed)
    BY Zenon DEF ReplyApplied, Readdressed
  <2>2. kernel' \in [Nets -> Ip \cup {None}] /\ flushed' \subseteq Nets
    BY <2>1, Zenon DEF CTypeOK
  <2>3. \A n \in Nets : kernel'[n] = IF n \in lost THEN None ELSE kernel[n]
    BY <2>1, Zenon
  <2>4. slot # None => slot \in Obj /\ installer[slot].installed \subseteq Nets
    BY Zenon DEF CTypeOK
  <2>5. ASSUME slot # None, NEW n \in installer[slot].installed
        PROVE  kernel'[n] = installer[slot].ip \/ n \in flushed'
    BY <2>1, <2>3, <2>4, <2>5, Zenon DEF RecordedRoutesAreInKernel
  <2>6. \A n \in ServerNets : kernel'[n] = None
    BY <2>3, ClientAssumption, Zenon DEF RecordedRoutesAreInKernel
  <2> QED
    BY <1>1, <2>2, <2>5, <2>6, Zenon DEF RecordedRoutesAreInKernel
<1>5. CTypeOK'
  BY <1>1, <1>4, <1>11, TakesReply DEF CTypeOK
<1>6. Quiet'
  BY <1>1, <1>3, Zenon DEF Quiet, CTypeOK
<1>7. Whole'
  BY <1>1, <1>2, <1>4, Zenon DEF Whole
<1>8. Rebuilt'
  BY <1>1, <1>2, <1>3, <1>4, Zenon DEF Rebuilt, Programmed
<1>9. PushHoldsSlot'
  BY <1>1, Zenon DEF PushHoldsSlot
<1>10. Granted'
  BY <1>1, <1>2, <1>4, TakesReply, Zenon DEF Granted
<1> QED
  BY <1>5, <1>6, <1>7, <1>8, <1>9, <1>10, <1>11, Zenon

\* Dropping the installer of the old address, whatever it fails to remove.
LEMMA ChangesKeeps ==
  ASSUME CInv, HandlerChanges
  PROVE  CInv'
<1> USE DEF CInv, server, wire, addressing
<1>1. /\ at = "change" /\ push = None /\ policy' = None /\ at' = "start" /\ slot' = None
      /\ flushed' = {}
      /\ UNCHANGED <<conf, addressing, push, phase, got_ok, tries, node, chan, file, wire,
                     server, ids>>
  BY Zenon DEF HandlerChanges, SlotFree
<1>2. phase = "run" /\ conf.auto
  BY <1>1, Zenon DEF Quiet, CTypeOK
<1>3. /\ installer' \in [Obj -> [ip : Ip \cup {None}, installed : SUBSET Nets]]
      /\ kernel' \in [Nets -> Ip \cup {None}]
      /\ \A n \in ServerNets : kernel'[n] = None
  <2>1. CASE slot = None
    BY <2>1, Zenon DEF HandlerChanges, CTypeOK, RecordedRoutesAreInKernel
  <2>2. CASE slot # None
    <3>1. PICK failing \in SUBSET installer[slot].installed : kernel' = Removed(slot, failing)
      BY <2>2, Zenon DEF HandlerChanges
    <3>2. installer' = [installer EXCEPT ![slot].installed = {}]
      BY <2>2, Zenon DEF HandlerChanges
    <3> QED
      BY <2>2, <3>1, <3>2, ClientAssumption, Zenon DEF Removed, CTypeOK, RecordedRoutesAreInKernel
  <2> QED
    BY <2>1, <2>2, Zenon
<1>4. CTypeOK'
  BY <1>1, <1>3, Zenon DEF CTypeOK
<1>5. Quiet' /\ Whole' /\ Rebuilt'
  BY <1>1, <1>2, Zenon DEF Quiet, Whole, Rebuilt, CTypeOK
<1>6. PushHoldsSlot' /\ RecordedRoutesAreInKernel' /\ Granted'
  BY <1>1, <1>3, Zenon DEF PushHoldsSlot, RecordedRoutesAreInKernel, Granted
<1> QED
  BY <1>4, <1>5, <1>6, Zenon

\* An object is free for the next installer while no push is under way.
LEMMA FreeObjFree ==
  ASSUME CTypeOK, push = None, slot = None
  PROVE  FreeObj \in Obj
<1>1. \E o \in Obj : o # slot /\ (push # None => o # push.obj)
  BY AddressAssumption, Zenon DEF Obj
<1> QED
  BY <1>1, Zenon DEF FreeObj

\* The proxy and the installer are started again, with the new address.
LEMMA StartsKeeps ==
  ASSUME CInv, HandlerStarts
  PROVE  CInv'
<1> USE DEF CInv, server, wire, addressing
<1>1. /\ at = "start" /\ push = None /\ policy' = PolicyFor(cfg) /\ at' = "persist"
      /\ UNCHANGED <<conf, addressing, push, kernel, flushed, phase, got_ok, tries, node, chan,
                     file, wire, server, ids>>
  BY Zenon DEF HandlerStarts, SlotFree
<1>2. phase = "run" /\ conf.auto
  BY <1>1, Zenon DEF Quiet, CTypeOK
<1>3. cfg.ip \in Ip \cup {None}
  BY AddressTypes, Zenon DEF CTypeOK
<1>4. policy' = IF conf.dns THEN cfg.ip ELSE None
  BY <1>1, Zenon DEF PolicyFor, Rebuilt
<1>5. CASE conf.accept /\ slot = None
  <2>1. /\ slot' = FreeObj /\ FreeObj \in Obj
        /\ installer' = [installer EXCEPT ![FreeObj] = [ip |-> cfg.ip, installed |-> {}]]
    BY <1>1, <1>5, FreeObjFree, Zenon DEF HandlerStarts
  <2>2. /\ installer' \in [Obj -> [ip : Ip \cup {None}, installed : SUBSET Nets]]
        /\ installer'[slot'] = [ip |-> cfg.ip, installed |-> {}]
    BY <1>3, <2>1, Zenon DEF CTypeOK
  <2>3. CTypeOK'
    BY <1>1, <1>3, <1>4, <2>1, <2>2, Zenon DEF CTypeOK
  <2>4. Quiet' /\ Whole' /\ Rebuilt'
    BY <1>1, <1>2, <1>4, <2>2 DEF Quiet, Whole, Rebuilt, CTypeOK
  <2>5. PushHoldsSlot' /\ RecordedRoutesAreInKernel' /\ Granted'
    BY <1>1, <2>2 DEF PushHoldsSlot, RecordedRoutesAreInKernel, Granted
  <2> QED
    BY <2>3, <2>4, <2>5, Zenon
<1>6. CASE ~(conf.accept /\ slot = None)
  <2>1. UNCHANGED <<slot, installer>>
    BY <1>6, Zenon DEF HandlerStarts
  <2>2. CTypeOK'
    BY <1>1, <1>3, <1>4, <2>1, Zenon DEF CTypeOK
  <2>3. Quiet' /\ Whole' /\ Rebuilt'
    BY <1>1, <1>2, <1>4, <2>1, Zenon DEF Quiet, Whole, Rebuilt, CTypeOK
  <2>4. PushHoldsSlot' /\ RecordedRoutesAreInKernel' /\ Granted'
    BY <1>1, <2>1, Zenon DEF PushHoldsSlot, RecordedRoutesAreInKernel, Granted
  <2> QED
    BY <2>2, <2>3, <2>4, Zenon
<1> QED
  BY <1>5, <1>6, Zenon

\* The assignment is saved, or not, and now counts as confirmed.
LEMMA PersistsKeeps ==
  ASSUME CInv, HandlerPersists
  PROVE  CInv'
<1> USE DEF CInv, server, wire, addressing, mesh
<1>1. /\ at = "persist" /\ at' = "idle" /\ got_ok' = TRUE /\ tries' = 0
      /\ file' \in {file, [id |-> node, last |-> cfg], [id |-> None, last |-> None]}
      /\ UNCHANGED <<conf, addressing, policy, mesh, phase, node, chan, wire, server, ids>>
  BY Zenon DEF HandlerPersists, Torn
<1>2. phase = "run" /\ conf.auto
  BY <1>1, Zenon DEF Quiet, CTypeOK
<1>3. node \in 1..MaxIds /\ 0 \in 0..MaxTries
  BY <1>2, ClientAssumption DEF Whole, CTypeOK
<1>4. file' \in [id : (1..MaxIds) \cup {None}, last : Address \cup {None}] \cup {None}
  BY <1>1, <1>3 DEF CTypeOK
<1>5. CTypeOK'
  BY <1>1, <1>3, <1>4, Zenon DEF CTypeOK
<1>6. Quiet' /\ Rebuilt'
  BY <1>1, <1>2, Zenon DEF Quiet, Rebuilt
<1>7. Whole'
  <2>1. cfg.ip # None
    BY <1>1, <1>2, Zenon DEF Whole, Rebuilt
  <2> QED
    BY <1>1, <1>2, <2>1 DEF Whole
<1>8. PushHoldsSlot' /\ RecordedRoutesAreInKernel' /\ Granted'
  BY <1>1, Zenon DEF PushHoldsSlot, RecordedRoutesAreInKernel, Granted
<1> QED
  BY <1>5, <1>6, <1>7, <1>8, Zenon

-----------------------------------------------------------------------------
(* Pushed routes.                                                          *)

\* A push takes the installer that is in the slot.
LEMMA PushBeginsKeeps ==
  ASSUME CInv, NEW routes \in SUBSET Nets, PushBegins(routes)
  PROVE  CInv'
<1> USE DEF CInv, server, wire, addressing, session
<1>1. /\ phase = "run" /\ slot # None /\ push' = [routes |-> routes, obj |-> slot]
      /\ UNCHANGED <<conf, addressing, policy, installer, slot, kernel, flushed, session, chan,
                     file, wire, server, ids>>
  BY Zenon DEF PushBegins
<1>2. CTypeOK'
  BY <1>1, Zenon DEF CTypeOK
<1>3. Quiet' /\ Whole' /\ Rebuilt'
  BY <1>1, Zenon DEF Quiet, Whole, Rebuilt
<1>4. PushHoldsSlot' /\ RecordedRoutesAreInKernel' /\ Granted'
  BY <1>1, Zenon DEF PushHoldsSlot, RecordedRoutesAreInKernel, Granted
<1> QED
  BY <1>2, <1>3, <1>4, Zenon

\* apply keeps the books of an installer: what it records is in the kernel with its
\* address, whatever fails, or was flushed and is pushed again; and a subnet of the
\* server's is never among it.
LEMMA AppliedIsRecorded ==
  ASSUME CTypeOK, RecordedRoutesAreInKernel, slot # None,
         NEW routes \in SUBSET Nets, NEW failing \in SUBSET Nets
  PROVE  LET r == Applied(slot, routes, failing) IN
         /\ r.installed \subseteq Nets /\ r.kernel \in [Nets -> Ip \cup {None}]
         /\ \A n \in r.installed : \/ r.kernel[n] = installer[slot].ip
                                   \/ n \in flushed \cap routes
         /\ \A n \in ServerNets : r.kernel[n] = None
<1> DEFINE old  == installer[slot].installed
           add  == Installable(routes \ old) \ failing
           gone == old \ routes
           k == [n \in Nets |-> IF n \in add THEN installer[slot].ip
                                ELSE IF n \in gone \ failing THEN None ELSE kernel[n]]
<1>1. /\ slot \in Obj /\ old \subseteq Nets /\ installer[slot].ip \in Ip \cup {None}
      /\ add \subseteq Nets \ ServerNets /\ add \cap old = {} /\ gone \subseteq old
  BY Zenon DEF CTypeOK, Installable
<1>2. /\ Applied(slot, routes, failing).installed = (old \cup add) \ gone
      /\ Applied(slot, routes, failing).kernel = k
  BY Zenon DEF Applied
<1>3. \A n \in old : kernel[n] = installer[slot].ip \/ n \in flushed
  BY Zenon DEF RecordedRoutesAreInKernel
<1>7. \A n \in old \ gone : n \in routes
  BY Zenon
<1> HIDE DEF old, add, gone
<1>4. k \in [Nets -> Ip \cup {None}]
  BY <1>1, Zenon DEF CTypeOK
<1>5. \A n \in (old \cup add) \ gone : \/ k[n] = installer[slot].ip
                                      \/ n \in flushed \cap routes
  BY <1>1, <1>3, <1>7, Zenon
<1>6. \A n \in ServerNets : k[n] = None
  BY <1>1, ClientAssumption, Zenon DEF RecordedRoutesAreInKernel
<1> QED
  BY <1>1, <1>2, <1>4, <1>5, <1>6, Zenon

\* A push records as installed what the kernel has accepted.
LEMMA PushAppliedKeeps ==
  ASSUME CInv, PushApplied
  PROVE  CInv'
<1> USE DEF CInv, server, wire, addressing, session
<1>1. /\ push # None /\ push.obj = slot /\ push' = None
      /\ flushed' = flushed \cap push.routes
      /\ UNCHANGED <<conf, addressing, policy, slot, session, chan, file, wire, server, ids>>
  BY Zenon DEF PushApplied, PushHoldsSlot
<1>2. slot \in Obj /\ slot # None /\ push.routes \in SUBSET Nets
  BY <1>1, AddressAssumption, Zenon DEF CTypeOK
<1>3. PICK failing \in SUBSET Nets :
        LET r == Applied(slot, push.routes, failing) IN
        /\ installer' = [installer EXCEPT ![slot].installed = r.installed]
        /\ kernel' = r.kernel
  BY <1>1, Zenon DEF PushApplied
<1> DEFINE r == Applied(slot, push.routes, failing)
<1>4. /\ r.installed \subseteq Nets /\ r.kernel \in [Nets -> Ip \cup {None}]
      /\ \A n \in r.installed : r.kernel[n] = installer[slot].ip \/ n \in flushed'
      /\ \A n \in ServerNets : r.kernel[n] = None
  BY <1>1, <1>2, AppliedIsRecorded, Zenon
<1> HIDE DEF r
<1>5. /\ installer' \in [Obj -> [ip : Ip \cup {None}, installed : SUBSET Nets]]
      /\ installer'[slot].installed = r.installed /\ installer'[slot].ip = installer[slot].ip
      /\ kernel' = r.kernel
  <2>1. installer \in [Obj -> [ip : Ip \cup {None}, installed : SUBSET Nets]]
    BY Zenon DEF CTypeOK
  <2>2. installer' = [installer EXCEPT ![slot].installed = r.installed] /\ kernel' = r.kernel
    BY <1>3, Zenon DEF r
  <2> QED
    BY <1>2, <1>4, <2>1, <2>2, Zenon
<1>6. CTypeOK'
  <2>1. flushed' \subseteq Nets
    BY <1>1, Zenon DEF CTypeOK
  <2>2. /\ installer' \in [Obj -> [ip : Ip \cup {None}, installed : SUBSET Nets]]
        /\ kernel' \in [Nets -> Ip \cup {None}]
    BY <1>4, <1>5, Zenon
  <2>3. push' \in [routes : SUBSET Nets, obj : Obj] \cup {None}
    BY <1>1, Zenon
  <2>4. UNCHANGED <<conf, addressing, policy, slot, session, chan, file, wire, server, ids>>
    BY <1>1, Zenon
  <2>5. /\ conf' \in Configs /\ phase' \in {"down", "run"}
        /\ at' \in {"idle", "change", "start", "persist"}
        /\ cfg' \in Address /\ tun' \in Address /\ guard' \in Address \cup {None}
        /\ policy' \in Ip \cup {None} /\ slot' \in Obj \cup {None}
    BY <2>4, Zenon DEF CTypeOK
  <2>6. /\ got_ok' \in BOOLEAN /\ tries' \in 0..MaxTries
        /\ chan' \in Seq(Reply) /\ Len(chan') <= ChanCap /\ node' \in 0..MaxIds
        /\ file' \in [id : (1..MaxIds) \cup {None}, last : Address \cup {None}] \cup {None}
    BY <2>4, Zenon DEF CTypeOK
  <2>7. /\ asked' \in BOOLEAN /\ net' \in Seq(Reply) /\ Len(net') <= MaxFlight
        /\ dups' \in 0..MaxDups /\ lease' \in Lease \cup {None} /\ moves' \in 0..MaxMoves
        /\ ids' \in 0..MaxIds /\ fresh' \subseteq Lease
    BY <2>4, Zenon DEF CTypeOK
  <2> QED
    BY ONLY <2>1, <2>2, <2>3, <2>5, <2>6, <2>7, Zenon DEF CTypeOK
<1>7. Quiet' /\ Whole' /\ Rebuilt'
  BY <1>1, <1>5, Zenon DEF Quiet, Whole, Rebuilt
<1>8. PushHoldsSlot' /\ RecordedRoutesAreInKernel' /\ Granted'
  BY <1>1, <1>4, <1>5, Zenon DEF PushHoldsSlot, RecordedRoutesAreInKernel, Granted
<1> QED
  BY <1>6, <1>7, <1>8, Zenon

-----------------------------------------------------------------------------
(* Start-up.                                                               *)

\* What load_or_create_state returns, and the address the run starts with.
LEMMA LoadedState ==
  ASSUME CInv, conf.auto, NewId => ids < MaxIds
  PROVE  /\ Loaded.id \in 1..MaxIds /\ Loaded.last \in Address \cup {None}
         /\ Loaded \in [id : (1..MaxIds) \cup {None}, last : Address \cup {None}]
         /\ Loaded.last = None \/ Loaded.last.ip # None
<1>1. CASE NewId
  <2>1. Loaded = [id |-> ids + 1, last |-> None]
    BY <1>1, Zenon DEF Loaded, NewId
  <2>2. ids \in 0..MaxIds /\ MaxIds \in Nat /\ ids < MaxIds
    BY <1>1, ClientAssumption, Zenon DEF CInv, CTypeOK
  <2>3. ids + 1 \in 1..MaxIds
    BY <2>2
  <2> QED
    BY <2>1, <2>3, Zenon
<1>2. CASE ~NewId
  BY <1>2, AddressAssumption, Zenon DEF Loaded, NewId, CInv, CTypeOK, Whole
<1> QED
  BY <1>1, <1>2, Zenon

\* A start loads the identity and the cached address, and grants nothing.
LEMMA StartKeeps ==
  ASSUME CInv, Start
  PROVE  CInv'
<1> DEFINE st == Loaded
           a == Overlaid(st.last)
<1> USE DEF CInv, wire
<1>1. /\ phase = "down" /\ fresh' = {} /\ (NewId /\ conf.auto => ids < MaxIds)
      /\ UNCHANGED <<conf, at, push, kernel, flushed, tries, chan, wire, moves>>
  BY Zenon DEF Start
<1>2. /\ at = "idle" /\ slot = None /\ push = None /\ policy = None /\ ~asked
      /\ net = <<>> /\ chan = <<>> /\ cfg = Unset /\ tun = Unset /\ guard = None /\ ~got_ok
  BY <1>1, Zenon DEF Quiet
<1>3. conf \in Configs /\ {conf.auto, conf.accept, conf.dns} \subseteq BOOLEAN
  BY AddressAssumption, Zenon DEF CTypeOK
<1>4. /\ node' \in 0..MaxIds /\ ids' \in 0..MaxIds /\ lease' \in Lease \cup {None}
      /\ file' \in [id : (1..MaxIds) \cup {None}, last : Address \cup {None}] \cup {None}
      /\ conf.auto => node' # 0
      /\ conf.auto /\ file' # None => file'.last = None \/ file'.last.ip # None
  <2>1. CASE conf.auto
    <3>1. /\ node' = st.id /\ file' \in {st, file} /\ lease' \in Lease \cup {lease}
          /\ ids' = IF NewId THEN ids + 1 ELSE ids
      BY <2>1, Zenon DEF Start
    <3>2. /\ st.id \in 1..MaxIds /\ st.last \in Address \cup {None}
          /\ st \in [id : (1..MaxIds) \cup {None}, last : Address \cup {None}]
          /\ st.last = None \/ st.last.ip # None
      BY <1>1, <2>1, LoadedState, Zenon
    <3> HIDE DEF st
    <3>3. ids \in 0..MaxIds /\ MaxIds \in Nat /\ (NewId => ids < MaxIds)
      BY <1>1, <2>1, ClientAssumption, Zenon DEF CTypeOK
    <3> HIDE DEF CInv
    <3>4. ids' \in 0..MaxIds /\ node' \in 0..MaxIds /\ node' # 0
      BY <3>1, <3>2, <3>3
    <3> QED
      BY <2>1, <3>1, <3>2, <3>4, Zenon DEF CInv, CTypeOK, Whole
  <2>2. CASE ~conf.auto
    BY <2>2, Zenon DEF Start, CTypeOK
  <2> QED
    BY <2>1, <2>2, Zenon
<1>5. a \in Address /\ a.ip \in Ip \cup {None} /\ Programmed(a) \in Address
  <2>1. conf.static \in Address
    BY <1>3, AddressTypes, Zenon
  <2>2. ASSUME conf.auto, st.last # None PROVE a \in Address
    <3>1. st.last \in Address
      BY <1>1, <2>2, LoadedState, Zenon
    <3> HIDE DEF st
    <3>2. /\ st.last.ip \in Ip \cup {None} /\ st.last.v6 \in V6 \cup {None}
          /\ conf.static.v6 \in V6 \cup {None}
      BY <2>1, <3>1, AddressTypes, Zenon
    <3> QED
      BY <2>2, <3>2, Zenon DEF Overlaid, Address
  <2>3. a \in Address
    <3> HIDE DEF st
    <3> QED
      BY <2>1, <2>2, Zenon DEF Overlaid
  <2> QED
    BY <2>3, AddressTypes, Zenon DEF Programmed
<1>6. CASE UNCHANGED <<phase, cfg, tun, guard, policy, slot, installer, got_ok>>
  <2>1. CTypeOK'
    BY <1>1, <1>4, <1>6, Zenon DEF CTypeOK
  <2>2. Quiet' /\ Whole' /\ Rebuilt'
    BY <1>1, <1>2, <1>4, <1>6, Zenon DEF Quiet, Whole, Rebuilt
  <2>3. PushHoldsSlot' /\ RecordedRoutesAreInKernel' /\ Granted'
    BY <1>1, <1>2, <1>6 DEF PushHoldsSlot, RecordedRoutesAreInKernel, Granted
  <2> QED
    BY <2>1, <2>2, <2>3, Zenon
<1>7. CASE ~UNCHANGED <<phase, cfg, tun, guard, policy, slot, installer, got_ok>>
  <2>1. /\ phase' = "run" /\ cfg' = a /\ tun' = Programmed(a)
        /\ guard' = IF conf.auto /\ a.ip # None THEN a ELSE None
        /\ policy' = IF a.ip = None THEN None ELSE PolicyFor(a)
        /\ got_ok' = ~conf.auto
        /\ IF conf.accept /\ a.ip # None
           THEN /\ slot' = FreeObj
                /\ installer' = [installer EXCEPT ![FreeObj] = [ip |-> a.ip, installed |-> {}]]
           ELSE UNCHANGED <<slot, installer>>
    BY <1>7, Zenon DEF Start, Confirmed
  <2>2. policy' = IF conf.dns THEN a.ip ELSE None
    BY <1>2, <2>1, Zenon DEF PolicyFor
  <2> HIDE DEF a
  <2>3. /\ installer' \in [Obj -> [ip : Ip \cup {None}, installed : SUBSET Nets]]
        /\ slot' \in Obj \cup {None}
        /\ slot' # None => a.ip # None /\ installer'[slot'] = [ip |-> a.ip, installed |-> {}]
    <3>1. CASE conf.accept /\ a.ip # None
      <4>1. FreeObj \in Obj /\ slot' = FreeObj
        BY <1>2, <2>1, <3>1, FreeObjFree, Zenon
      <4>2. installer' = [installer EXCEPT ![FreeObj] = [ip |-> a.ip, installed |-> {}]]
        BY <2>1, <3>1, Zenon
      <4> QED
        BY <1>5, <3>1, <4>1, <4>2, Zenon DEF CTypeOK
    <3>2. CASE ~(conf.accept /\ a.ip # None)
      BY <1>2, <2>1, <3>2, Zenon DEF CTypeOK
    <3> QED
      BY <3>1, <3>2, Zenon
  <2>4. CTypeOK'
    BY <1>1, <1>3, <1>4, <1>5, <2>1, <2>2, <2>3, Zenon DEF CTypeOK
  <2>5. Quiet' /\ Whole'
    BY <1>1, <1>2, <1>4, <1>5, <2>1, Zenon DEF Quiet, Whole
  <2>6. Rebuilt'
    BY <1>1, <1>2, <2>1, <2>2, <2>3 DEF Rebuilt, Programmed
  <2>7. PushHoldsSlot' /\ RecordedRoutesAreInKernel'
    BY <1>1, <1>2, <2>3 DEF PushHoldsSlot, RecordedRoutesAreInKernel
  <2>8. Granted'
    <3>1. at' = "idle" /\ net' = <<>> /\ chan' = <<>> /\ ~(got_ok' /\ conf'.auto)
      BY <1>1, <1>2, <2>1, Zenon
    <3> QED
      BY <3>1 DEF Granted
  <2> QED
    BY <2>4, <2>5, <2>6, <2>7, <2>8, Zenon
<1> QED
  BY <1>6, <1>7, Zenon

\* Every step of the client, the link and the server keeps the invariant.
LEMMA CInvInductive == CInv /\ [CNext]_cvars => CInv'
<1> SUFFICES ASSUME CInv, [CNext]_cvars PROVE CInv'
  BY Zenon
<1>1. CASE UNCHANGED cvars
  <2>1. CTypeOK'
    BY <1>1 DEF CInv, CTypeOK, cvars
  <2>2. Quiet' /\ Whole' /\ Rebuilt'
    BY <1>1, Zenon DEF CInv, Quiet, Whole, Rebuilt, cvars
  <2>3. PushHoldsSlot' /\ RecordedRoutesAreInKernel' /\ Granted'
    BY <1>1, Zenon DEF CInv, PushHoldsSlot, RecordedRoutesAreInKernel, Granted, cvars
  <2> QED
    BY <2>1, <2>2, <2>3, Zenon DEF CInv
<1> QED
  BY <1>1, StartKeeps, EndSteps, DamageSteps, LinkSteps, UnchangedSteps, AppliedKeeps,
     ChangesKeeps, StartsKeeps, PersistsKeeps, PushBeginsKeeps, PushAppliedKeeps, Zenon DEF CNext,
     Handler, Continue

-----------------------------------------------------------------------------
\* Between replies the device, its connected routes, the DNS proxy and the route
\* installer carry the addresses of the configuration, or none before there is an IPv4
\* one, however replies, pushes, crashes and failed steps of handle_assign_reply
\* interleave; and every variable keeps its type, the channel of replies its bound.
THEOREM OneAddress == CSpec => []OneAddressEverywhere
<1>1. CInv => OneAddressEverywhere
  BY Zenon DEF CInv, OneAddressEverywhere, Rebuilt
<1> QED
  BY <1>1, CInitInv, CInvInductive, PTL DEF CSpec

\* What the installer in force records as installed is in the kernel with its address,
\* unless the kernel dropped it when a reply set the address again under the installer;
\* and no pushed route ever swallows the server's (RouteInstaller::apply, remove_all).
THEOREM RecordedRoutes == CSpec => []RecordedRoutesAreInKernel
<1>1. CInv => RecordedRoutesAreInKernel
  BY Zenon DEF CInv
<1> QED
  BY <1>1, CInitInv, CInvInductive, PTL DEF CSpec

\* Traffic leaves only from an address the server granted in this run, however many
\* replies were lost, repeated, reordered or left over (tun_to_net, assigned_ok).
THEOREM ConfirmedAddresses == CSpec => []OnlyConfirmedAddressSends
<1>1. CInv => OnlyConfirmedAddressSends
  BY Zenon DEF CInv, Granted, OnlyConfirmedAddressSends
<1> QED
  BY <1>1, CInitInv, CInvInductive, PTL DEF CSpec
=============================================================================
