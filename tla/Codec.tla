-------------------------------- MODULE Codec --------------------------------
(***************************************************************************)
(* The control messages client and server exchange inside the tunnel,      *)
(* src/mesh.rs: the encode functions and parse_control.  A payload is a    *)
(* sequence of bytes with the source's layout and widths, and so are an    *)
(* address and a name; the limits on routes, peers and names are           *)
(* constants.                                                              *)
(*                                                                         *)
(* A payload may differ from what this version encodes: the peer may be an *)
(* older or a newer one.  `Differs` changes a byte, cuts or adds one.      *)
(***************************************************************************)
EXTENDS Naturals, Sequences, Absent

CONSTANTS MAX_ROUTES, MAX_PEERS, MAX_NAME_LEN,
          Bytes,       \* values a byte may be changed to
          Messages     \* what is sent

VARIABLES sent,    \* the message given to encode
          wire,    \* the payload under way
          got,     \* what parse_control made of it
          stage    \* "idle", "sent", "changed", then "parsed" or "guessed"

cvars == <<sent, wire, got, stage>>

-----------------------------------------------------------------------------
(* Fields.                                                                 *)

Byte == 0..255
Octets(n) == {s \in Seq(Byte) : Len(s) = n}

Wide(n, v) == [i \in 1..n |-> v]
Unspecified == Wide(16, 0)
Ip6(ip) == IF ip = None THEN Unspecified ELSE ip
Flag(b) == IF b THEN 1 ELSE 0
Low(byte) == byte % 2 = 1

\* The unspecified IPv6 address stands for none.
Specified(ip) == IF ip = Unspecified THEN None ELSE ip

Upto(s, n) == IF Len(s) > n THEN SubSeq(s, 1, n) ELSE s

\* canonical: the host bits of a network are cleared, `keep` leading bits of a byte left.
Cleared(byte, keep) ==
    IF keep >= 8 THEN byte ELSE IF keep <= 0 THEN 0
    ELSE LET unit == <<128, 64, 32, 16, 8, 4, 2>>[keep] IN unit * (byte \div unit)
Canonical(net) ==
    [net EXCEPT !.addr = [i \in DOMAIN net.addr |-> Cleared(net.addr[i], net.plen - 8 * (i - 1))]]

Width(fam) == IF fam = 4 THEN 4 ELSE 16

\* push_route.
RouteBytes(net) == <<net.fam, net.plen>> \o Canonical(net).addr

\* A sequence of sequences, one after the other.
Joined(parts) ==
    LET cat[i \in 0..Len(parts)] == IF i = 0 THEN <<>> ELSE cat[i - 1] \o parts[i]
    IN cat[Len(parts)]

\* name_bytes: cut to MAX_NAME_LEN, then drop continuation bytes from the end.
Continuation(byte) == byte >= 128 /\ byte < 192
NameBytes(name) ==
    LET cut == Upto(name, MAX_NAME_LEN)
        end == CHOOSE n \in 0..Len(cut) :
                  /\ n = 0 \/ ~Continuation(cut[n])
                  /\ \A k \in n + 1..Len(cut) : Continuation(cut[k])
    IN SubSeq(cut, 1, end)

PeerBytes(p) ==
    <<Flag(p.ip6 # None)>> \o p.ip4 \o Ip6(p.ip6)
        \o <<Len(NameBytes(p.name))>> \o NameBytes(p.name)

RouteParts(routes) == [i \in 1..Len(routes) |-> RouteBytes(routes[i])]
PeerParts(peers) == [i \in 1..Len(peers) |-> PeerBytes(peers[i])]

\* A plausible slip: the count is of the routes given, not of the routes kept.
RouteList_Counted(routes) ==
    <<Len(routes)>> \o Joined(RouteParts(Upto(routes, MAX_ROUTES)))

\* The count and the entries, truncated together.
RouteList(routes) ==
    LET kept == Upto(routes, MAX_ROUTES) IN <<Len(kept)>> \o Joined(RouteParts(kept))

PeerList(peers) ==
    LET kept == Upto(peers, MAX_PEERS) IN <<Len(kept)>> \o Joined(PeerParts(kept))

\* The encode functions, and the client's keepalive payload.
Encode(m) ==
    CASE m.kind = "keepalive" -> <<0>> \o (IF m.ip = None THEN <<>> ELSE m.ip)
      [] m.kind = "route_advert" ->
            <<0, 1, Flag(m.accept)>> \o m.ip \o Ip6(m.ip6) \o RouteList(m.routes)
      [] m.kind = "route_push" -> <<0, 2, 0>> \o RouteList(m.routes)
      [] m.kind = "assign_req" ->
            <<0, 3, m.flags>> \o m.node \o m.ip \o Ip6(m.ip6)
      [] m.kind = "assign" ->
            <<0, 4, m.status>> \o m.ip \o m.mask \o m.peer \o Ip6(m.ip6)
                \o <<m.plen6, m.flags>> \o m.ttl
      [] m.kind = "name_advert" ->
            <<0, 5, Flag(m.want)>> \o m.ip \o Ip6(m.ip6)
                \o <<Len(NameBytes(m.name))>> \o NameBytes(m.name)
      [] m.kind = "peer_push" -> <<0, 6, 0>> \o PeerList(m.peers)

-----------------------------------------------------------------------------
(* parse_control.                                                          *)

ASSIGN_REQ_LEN == 39
ASSIGN_LEN == 37
HEADER == 24        \* ADVERT_HEADER_LEN and NAME_ADVERT_HEADER_LEN

Field(b, first, n) == SubSeq(b, first, first + n - 1)
From(b, first) == SubSeq(b, first, Len(b))

\* An entry of parse_routes: what is left after it, and the routes so far.
RouteStep(prev) ==
    LET r == prev.rest
        entry == [fam |-> r[1], plen |-> r[2], addr |-> Field(r, 3, Width(r[1]))]
    IN IF prev = None THEN None
       ELSE IF Len(r) < 2 THEN None
       ELSE IF r[1] \notin {4, 6} THEN None
       ELSE IF Len(r) < 2 + Width(r[1]) \/ r[2] > 8 * Width(r[1]) THEN None
       ELSE [rest |-> From(r, 3 + Width(r[1])), routes |-> Append(prev.routes, Canonical(entry))]

\* parse_routes: exactly `count` entries, and nothing after them.
ParseRoutes(b, count) ==
    LET step[k \in 0..count] ==
            IF k = 0 THEN [rest |-> b, routes |-> <<>>] ELSE RouteStep(step[k - 1])
        end == step[count]
    IN IF end = None THEN None ELSE IF end.rest # <<>> THEN None ELSE end.routes

\* from_utf8: a leading byte has its continuation bytes, a continuation byte its leading
\* one, and no character is longer than it need be, a surrogate or past the last one.
Size(byte) ==
    IF byte < 128 THEN 1 ELSE IF byte \in 194..223 THEN 2
    ELSE IF byte \in 224..239 THEN 3 ELSE IF byte \in 240..244 THEN 4 ELSE 0
Second(lead, byte) ==
    /\ lead = 224 => byte >= 160
    /\ lead = 237 => byte < 160
    /\ lead = 240 => byte >= 144
    /\ lead = 244 => byte < 144
Utf8(name) ==
    \A i \in 1..Len(name) :
        IF Continuation(name[i]) THEN \E j \in 1..i - 1 : Size(name[j]) > i - j
        ELSE /\ Size(name[i]) > 0 /\ i + Size(name[i]) - 1 <= Len(name)
             /\ \A j \in i + 1..i + Size(name[i]) - 1 : Continuation(name[j])
             /\ Size(name[i]) > 1 => Second(name[i], name[i + 1])

\* An entry of the PeerPush loop.
PeerStep(prev) ==
    LET r == prev.rest IN
    IF prev = None THEN None
    ELSE IF Len(r) < 22 THEN None
    ELSE IF r[22] > MAX_NAME_LEN \/ Len(r) < 22 + r[22] THEN None
    ELSE IF ~Utf8(Field(r, 23, r[22])) THEN None
    ELSE [rest |-> From(r, 23 + r[22]),
          peers |-> Append(prev.peers,
              [name |-> Field(r, 23, r[22]), ip4 |-> Field(r, 2, 4),
               ip6 |-> IF Low(r[1]) THEN Specified(Field(r, 6, 16)) ELSE None])]

ParsePeers(b, count) ==
    LET step[k \in 0..count] ==
            IF k = 0 THEN [rest |-> b, peers |-> <<>>] ELSE PeerStep(step[k - 1])
        end == step[count]
    IN IF end = None THEN None ELSE IF end.rest # <<>> THEN None ELSE end.peers

ParseAdvert(b) ==
    IF Len(b) < HEADER \/ b[HEADER] > MAX_ROUTES THEN None
    ELSE LET routes == ParseRoutes(From(b, HEADER + 1), b[HEADER]) IN
        IF routes = None THEN None
        ELSE [kind |-> "route_advert", accept |-> Low(b[3]), ip |-> Field(b, 4, 4),
              ip6 |-> Specified(Field(b, 8, 16)), routes |-> routes]

ParsePush(b) ==
    IF Len(b) < 4 \/ b[4] > MAX_ROUTES THEN None
    ELSE LET routes == ParseRoutes(From(b, 5), b[4]) IN
        IF routes = None THEN None ELSE [kind |-> "route_push", routes |-> routes]

ParseAssignReq(b) ==
    IF Len(b) # ASSIGN_REQ_LEN THEN None
    ELSE [kind |-> "assign_req", flags |-> b[3], node |-> Field(b, 4, 16),
          ip |-> Field(b, 20, 4), ip6 |-> Specified(Field(b, 24, 16))]

ParseAssign(b) ==
    IF Len(b) # ASSIGN_LEN \/ b[3] > 2 THEN None
    ELSE [kind |-> "assign", status |-> b[3], ip |-> Field(b, 4, 4),
          mask |-> Field(b, 8, 4), peer |-> Field(b, 12, 4),
          ip6 |-> IF b[32] = 0 THEN None ELSE Field(b, 16, 16),
          plen6 |-> b[32], flags |-> b[33], ttl |-> Field(b, 34, 4)]

ParseName(b) ==
    IF Len(b) < HEADER \/ b[HEADER] > MAX_NAME_LEN \/ Len(b) # HEADER + b[HEADER] THEN None
    ELSE IF ~Utf8(From(b, HEADER + 1)) THEN None
    ELSE [kind |-> "name_advert", want |-> Low(b[3]), ip |-> Field(b, 4, 4),
          ip6 |-> Specified(Field(b, 8, 16)), name |-> From(b, HEADER + 1)]

ParsePeerPush(b) ==
    IF Len(b) < 4 \/ b[4] > MAX_PEERS THEN None
    ELSE LET peers == ParsePeers(From(b, 5), b[4]) IN
        IF peers = None THEN None ELSE [kind |-> "peer_push", peers |-> peers]

\* The two keepalives are told by their length alone, before the type byte is read.
ParseControl(b) ==
    IF b = <<>> THEN None
    ELSE IF b[1] # 0 THEN None
    ELSE IF Len(b) = 1 THEN [kind |-> "keepalive", ip |-> None]
    ELSE IF Len(b) = 5 THEN [kind |-> "keepalive", ip |-> Field(b, 2, 4)]
    ELSE CASE b[2] = 1 -> ParseAdvert(b)
           [] b[2] = 2 -> ParsePush(b)
           [] b[2] = 3 -> ParseAssignReq(b)
           [] b[2] = 4 -> ParseAssign(b)
           [] b[2] = 5 -> ParseName(b)
           [] b[2] = 6 -> ParsePeerPush(b)
           [] OTHER -> None

-----------------------------------------------------------------------------

(* What is sent and received.                                              *)

Network == {n \in [fam : {4, 6}, plen : Byte, addr : Seq(Byte)] :
              Len(n.addr) = Width(n.fam) /\ n.plen <= 8 * Width(n.fam)}
OptIp6 == Octets(16) \cup {None}
PeerEntry == [name : Seq(Byte), ip4 : Octets(4), ip6 : OptIp6]
Message ==
    [kind : {"keepalive"}, ip : Octets(4) \cup {None}]
    \cup [kind : {"route_advert"}, accept : BOOLEAN, ip : Octets(4), ip6 : OptIp6,
          routes : Seq(Network)]
    \cup [kind : {"route_push"}, routes : Seq(Network)]
    \cup [kind : {"assign_req"}, flags : Byte, node : Octets(16), ip : Octets(4), ip6 : OptIp6]
    \cup [kind : {"assign"}, status : 0..2, ip : Octets(4), mask : Octets(4), peer : Octets(4),
          ip6 : OptIp6, plen6 : Byte, flags : Byte, ttl : Octets(4)]
    \cup [kind : {"name_advert"}, want : BOOLEAN, ip : Octets(4), ip6 : OptIp6, name : Seq(Byte)]
    \cup [kind : {"peer_push"}, peers : Seq(PeerEntry)]

\* The names of a message.
NamesIn(m) ==
    CASE m.kind = "name_advert" -> {m.name}
      [] m.kind = "peer_push" -> {m.peers[i].name : i \in DOMAIN m.peers}
      [] OTHER -> {}

\* Counts and lengths fit a byte, names sent are ASCII, and None is none of the things
\* it stands for the absence of.
ASSUME CodecAssumption ==
    /\ MAX_ROUTES \in Byte /\ MAX_PEERS \in Byte /\ MAX_NAME_LEN \in Byte /\ Bytes \subseteq Byte
    /\ \A m \in Messages : m \in Message /\ \A n \in NamesIn(m) : n \in Seq(0..127)
    /\ None \notin Seq(Byte) /\ None \notin Seq(Network) /\ None \notin Seq(PeerEntry)
    /\ None \notin [rest : Seq(Byte), routes : Seq(Network)]
    /\ None \notin [rest : Seq(Byte), peers : Seq(PeerEntry)]

Send(m) ==
    /\ stage = "idle"
    /\ sent' = m /\ wire' = Encode(m) /\ stage' = "sent" /\ UNCHANGED got

\* The peer is another version: one byte is another, the last is missing, or one more follows.
Differs(b) ==
    /\ stage = "sent" /\ stage' = "changed"
    /\ \/ \E i \in 2..Len(wire) : wire' = [wire EXCEPT ![i] = b]
       \/ wire' = Upto(wire, Len(wire) - 1)
       \/ wire' = Append(wire, b)
    /\ UNCHANGED <<sent, got>>

Receive ==
    /\ stage \in {"sent", "changed"}
    /\ got' = ParseControl(wire)
    /\ stage' = IF stage = "sent" THEN "parsed" ELSE "guessed"
    /\ UNCHANGED <<sent, wire>>

CodecInit == sent = None /\ wire = <<>> /\ got = None /\ stage = "idle"
CodecNext == (\E m \in Messages : Send(m)) \/ (\E b \in Bytes : Differs(b)) \/ Receive
CodecSpec == CodecInit /\ [][CodecNext]_cvars

-----------------------------------------------------------------------------

\* What the receiver may hold instead of what was sent: lists cut to their limits,
\* networks without host bits, and an absent IPv6 address where it is unspecified.
Normal(m) ==
    LET nets(s) == [i \in DOMAIN Upto(s, MAX_ROUTES) |-> Canonical(s[i])] IN
    CASE m.kind = "keepalive" -> m
      [] m.kind = "route_push" -> [m EXCEPT !.routes = nets(m.routes)]
      [] m.kind = "route_advert" ->
            [m EXCEPT !.routes = nets(m.routes), !.ip6 = Specified(Ip6(m.ip6))]
      [] m.kind = "assign_req" -> [m EXCEPT !.ip6 = Specified(Ip6(m.ip6))]
      [] m.kind = "assign" -> [m EXCEPT !.ip6 = IF m.plen6 = 0 THEN None ELSE Ip6(m.ip6)]
      [] m.kind = "name_advert" ->
            [m EXCEPT !.name = Upto(m.name, MAX_NAME_LEN), !.ip6 = Specified(Ip6(m.ip6))]
      [] m.kind = "peer_push" ->
            [m EXCEPT !.peers = [i \in DOMAIN Upto(m.peers, MAX_PEERS) |->
                [m.peers[i] EXCEPT !.name = Upto(m.peers[i].name, MAX_NAME_LEN),
                                   !.ip6 = Specified(Ip6(m.peers[i].ip6))]]]

\* name_bytes takes the continuation bytes at the end of a name for a character cut short,
\* even where it is whole.
EndsWhole(name) == name = <<>> \/ ~Continuation(name[Len(name)])

\* Whatever is sent arrives as what was sent, up to the limits the encoder applies:
\* a list that is cut stays readable, and no message is taken for another or for a
\* keepalive (mesh.rs encode, parse_control).  Names are ASCII, as sanitize_hostname
\* makes them.  A payload of another version is either refused or understood to the
\* last byte: what was read from it encodes to a payload of the same length that
\* reads the same (parse_control and parse_routes refuse trailing bytes), unless it has
\* a name that ends in a character of several bytes, which name_bytes cannot write.
ControlIsUnderstood ==
    /\ stage = "parsed" => got = Normal(sent)
    /\ (stage = "guessed" /\ got # None /\ \A n \in NamesIn(got) : EndsWhole(n)) =>
         Len(Encode(got)) = Len(wire) /\ ParseControl(Encode(got)) = got
=============================================================================
