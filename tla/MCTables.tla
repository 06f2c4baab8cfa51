------------------------------ MODULE MCTables -------------------------------
(***************************************************************************)
(* The server's tables and the codecs, plans and files around them, side by *)
(* side.  They share no state but the clock, so a behaviour is a behaviour  *)
(* of one of them, `part', with the others at rest.                         *)
(***************************************************************************)
EXTENDS SubnetTable, NameTable, Nat, NatRewrite, Codec, AddressPlan, Obfs, Matching,
        TunDevice, Profiles

CONSTANTS tag1, tag2,
          RoutePeers, NamePeers,  \* bounds: the endpoints of the two tables; Nat has all
          RouteHorizon            \* bound: the clock of the route table

VARIABLE part

-----------------------------------------------------------------------------
(* SubnetTable: a network, its two halves, and one address of the first     *)
(* half.  The policy approves the second half and everything in the first   *)
(* but not the whole.                                                       *)

MCNet == {{1, 2, 3}, {1, 2}, {3}, {1}}
MCAllowlist == {{1, 2}, {3}}

(* NameTable: requests for a may end in a1, a2 or a3; a1 can also be asked  *)
(* for outright.                                                            *)

MCLabel == {"a", "a1", "a2", "a3", "srv"}
MCCandidates ==
  [x \in MCLabel \X Tag |->
     CASE x[1] = "a"   -> IF x[2] = tag1 THEN <<"a1", "a2", "a3">>
                                         ELSE <<"a2", "a1", "a3">>
       [] x[1] = "srv" -> <<"a3", "a1", "a2", "a">>
       [] OTHER        -> <<"a3", "a2", "a1", "a">>]

(* Codec.                                                                   *)

A4 == {Wide(4, 7), Wide(4, 0)}
A6 == {None, Wide(16, 0), Wide(16, 9)}
Sub(fam, plen, v) == [fam |-> fam, plen |-> plen, addr |-> Wide(Width(fam), v)]
Nets == {<<>>, <<Sub(4, 8, 7)>>, <<Sub(6, 16, 9), Sub(4, 0, 7)>>,
         <<Sub(4, 32, 7), Sub(4, 24, 9), Sub(6, 0, 9)>>}
Texts == {<<>>, <<97>>, <<97, 98>>, <<97, 98, 99>>}
PeerRow(name, ip6) == [name |-> name, ip4 |-> Wide(4, 7), ip6 |-> ip6]
MCMessages ==
    [kind : {"keepalive"}, ip : A4 \cup {None}]
    \cup [kind : {"route_advert"}, accept : BOOLEAN, ip : A4, ip6 : A6, routes : Nets]
    \cup [kind : {"route_push"}, routes : Nets]
    \cup [kind : {"assign_req"}, flags : {0, 1}, node : {Wide(16, 5)}, ip : A4, ip6 : A6]
    \cup [kind : {"assign"}, status : 0..2, ip : A4, mask : {Wide(4, 255)}, peer : A4,
          ip6 : A6, plen6 : {0, 64}, flags : {0}, ttl : {Wide(4, 1)}]
    \cup [kind : {"name_advert"}, want : BOOLEAN, ip : A4, ip6 : A6, name : Texts]
    \cup [kind : {"peer_push"},
          peers : {<<>>} \cup {<<PeerRow(n, i)>> : n \in Texts, i \in A6}
                  \cup {<<PeerRow(n, None), PeerRow(<<97>>, i), PeerRow(n, i)>> :
                            n \in Texts, i \in A6}]

(* AddressPlan, Obfs, Matching, TunDevice.                                  *)

MCMesh == {[nat |-> n, mesh |-> n] : n \in BOOLEAN}
MCDatagrams == SeqOf({0, 1, 170, 255}, 4)
MCExtras == {<<"-", "t">>, <<"-", "t", "-", "2">>}
MCNode == <<"a", "b">>
MCPlan4 == {[ip |-> "a1", net |-> "A"], [ip |-> "a2", net |-> "A"],
            [ip |-> "b1", net |-> "B"], [ip |-> "c1", net |-> "C"]}
MCPlan6 == {[ip |-> "x1", net |-> "X"], [ip |-> "x2", net |-> "X"], [ip |-> "y1", net |-> "Y"]}

(* Profiles.                                                                *)

Plain == [server |-> "ok", password |-> "ok", tun_ip |-> "absent", peer_ip |-> "absent",
          tun_netmask |-> "absent", cipher |-> "absent", obfs |-> "absent",
          mode |-> "absent", gfwlist |-> "absent", chnroute |-> "absent",
          geoip |-> "absent", dns |-> "absent", suffix |-> "absent", keepalive |-> 15,
          nets |-> "ok"]
MCDrafts ==
    {Plain, [Plain EXCEPT !.server = "blank"], [Plain EXCEPT !.password = "absent"],
     [Plain EXCEPT !.keepalive = 0], [Plain EXCEPT !.dns = "garbled"],
     [Plain EXCEPT !.suffix = "blank"], [Plain EXCEPT !.obfs = "unknown"]}
    \cup {[Plain EXCEPT !.tun_ip = i, !.peer_ip = "ok"] : i \in {"absent", "ok", "garbled"}}
    \cup {[Plain EXCEPT !.tun_ip = "blank"], [Plain EXCEPT !.tun_netmask = "blank"]}
    \cup {[Plain EXCEPT !.cipher = c] : c \in {"alias", "unknown"}}
    \cup {[Plain EXCEPT !.mode = m, !.gfwlist = g] :
             m \in {"full", "gfwlist", "chinadns", "unknown"}, g \in {"absent", "blank", "ok"}}
    \cup {[Plain EXCEPT !.mode = "chinadns", !.chnroute = r] : r \in {"absent", "ok"}}
    \cup {[Plain EXCEPT !.nets = t] : t \in {"too many", "default route", "garbled"}}
MCBundles == [gfwlist : BOOLEAN, geoip : BOOLEAN]

-----------------------------------------------------------------------------
(* Composition.                                                             *)

rows == <<routes, latest, said>>
mapping == <<leases, cursor, by_peer, by_internal, sender, reply>>
plvars == <<given, plan>>
mvars == <<input, answer>>
everything == <<rows, names, mapping, pkt, cvars, plvars, ovars, mvars, tvars, pvars, clock, part>>

Parts == {"routes", "names", "nat", "rewrite", "codec", "plan", "obfs", "match", "tun", "profiles"}

SomePacket == [src |-> <<0, 0>>, dst |-> <<0, 0>>, ip_rest |-> 1, ip_ck |-> 0,
               kind |-> [proto |-> "other", frag |-> FALSE, room |-> FALSE],
               l4_rest |-> 1, l4_ck |-> 0]
SomeGiven == [ip |-> 1, mask |-> 0, peer |-> 2, reserved |-> {}, pool |-> None,
              mode |-> [nat |-> FALSE, mesh |-> FALSE]]

\* Bound: what else the two checksums of a packet cover adds up to the same word.
\* The parts that have several initial states start in one of them when they are at rest.
MCInit ==
    /\ part \in Parts
    /\ SInit /\ NInit /\ NatInit /\ CodecInit /\ TunInit
    /\ IF part = "rewrite" THEN RInit /\ pkt.l4_rest = pkt.ip_rest ELSE pkt = SomePacket
    /\ IF part = "plan" THEN PlanInit ELSE given = SomeGiven /\ plan = None
    /\ IF part = "obfs" THEN ObfsInit
       ELSE datagram = <<>> /\ carrier = "quic" /\ packet = None /\ unwrapped = <<>>
    /\ IF part = "match" THEN MInit
       ELSE input = [kind |-> "label", name |-> <<>>] /\ answer = <<>>
    /\ IF part = "profiles" THEN PInit
       ELSE PInit /\ bundle = [gfwlist |-> FALSE, geoip |-> FALSE]

InRoutes ==
    /\ part = "routes"
    /\ \/ \E p \in RoutePeers, advertised \in SUBSET Net : AdvertisesRoutes(p, advertised)
       \/ ExpiresRoutes
       \/ clock < RouteHorizon /\ RouteClock
    /\ UNCHANGED <<names, mapping, pkt, cvars, plvars, ovars, mvars, tvars, pvars, part>>

InNames ==
    /\ part = "names"
    /\ \/ \E p \in NamePeers, wanted \in Label, ip4 \in TunIp, tag \in Tag :
            AdvertisesName(p, wanted, ip4, tag)
       \/ \E p \in NamePeers : WithdrawsName(p)
       \/ ExpiresNames
       \/ NameClock
    /\ UNCHANGED <<rows, mapping, pkt, cvars, plvars, ovars, mvars, tvars, pvars, part>>

InNat ==
    /\ part = "nat" /\ NatNext
    /\ UNCHANGED <<rows, names, pkt, cvars, plvars, ovars, mvars, tvars, pvars, part>>

InRewrite ==
    /\ part = "rewrite" /\ RNext
    /\ UNCHANGED <<rows, names, mapping, cvars, plvars, ovars, mvars, tvars, pvars, clock, part>>

InCodec ==
    /\ part = "codec" /\ CodecNext
    /\ UNCHANGED <<rows, names, mapping, pkt, plvars, ovars, mvars, tvars, pvars, clock, part>>

InPlan ==
    /\ part = "plan" /\ PlanNext
    /\ UNCHANGED <<rows, names, mapping, pkt, cvars, ovars, mvars, tvars, pvars, clock, part>>

InObfs ==
    /\ part = "obfs" /\ ObfsNext
    /\ UNCHANGED <<rows, names, mapping, pkt, cvars, plvars, mvars, tvars, pvars, clock, part>>

InMatching ==
    /\ part = "match" /\ Lookup
    /\ UNCHANGED <<rows, names, mapping, pkt, cvars, plvars, ovars, tvars, pvars, clock, part>>

InTun ==
    /\ part = "tun" /\ TunNext
    /\ UNCHANGED <<rows, names, mapping, pkt, cvars, plvars, ovars, mvars, pvars, clock, part>>

InProfiles ==
    /\ part = "profiles" /\ PNext
    /\ UNCHANGED <<rows, names, mapping, pkt, cvars, plvars, ovars, mvars, tvars, clock, part>>

MCNext ==
    \/ InRoutes \/ InNames \/ InNat \/ InRewrite \/ InCodec
    \/ InPlan \/ InObfs \/ InMatching \/ InTun \/ InProfiles

MCSpec == MCInit /\ [][MCNext]_everything
=============================================================================
