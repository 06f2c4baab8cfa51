-------------------------------- MODULE Obfs --------------------------------
(***************************************************************************)
(* The carrier obfuscation of src/obfs.rs: a datagram is wrapped before it *)
(* is sent and unwrapped by the peer, as a QUIC short header or as base64. *)
(* A datagram is a sequence of bytes.                                      *)
(***************************************************************************)
EXTENDS Naturals, Sequences, Absent

CONSTANTS Datagrams,  \* datagrams tried
          DcidLen,    \* length of the connection id, shared by both ends
          PnLens      \* packet-number lengths a peer may emit; this version emits 2

ASSUME ObfsAssumption ==
    Datagrams \subseteq Seq(0 .. 255) /\ DcidLen \in Nat /\ PnLens \subseteq 1 .. 4

VARIABLES datagram, carrier, packet, unwrapped

ovars == <<datagram, carrier, packet, unwrapped>>

Equals == 256        \* "=", outside the alphabet
Sextet == 0 .. 63    \* a character of the alphabet is its index in B64

-----------------------------------------------------------------------------

\* A plausible slip: the header is taken to have the length this end would emit.
QuicUnwrap_OwnLength(pkt) ==
    LET hdr == 1 + DcidLen + 2
    IN IF pkt = <<>> \/ pkt[1] \div 128 # 0 \/ (pkt[1] \div 64) % 2 = 0 \/ Len(pkt) < hdr
       THEN None ELSE SubSeq(pkt, hdr + 1, Len(pkt))

\* QuicObfs::unwrap.
QuicUnwrap(pkt) ==
    IF pkt = <<>> THEN None
    ELSE LET hdr == 1 + DcidLen + (pkt[1] % 4) + 1
         IN IF pkt[1] \div 128 # 0 \/ (pkt[1] \div 64) % 2 = 0 \/ Len(pkt) < hdr
            THEN None ELSE SubSeq(pkt, hdr + 1, Len(pkt))

\* QuicObfs::wrap: 0x40, four random bits, the packet number's length; then the
\* connection id and the packet number, any bytes at all.
QuicWrap(d, pnlen, random, filler) ==
    <<64 + 4 * random + (pnlen - 1)>> \o [i \in 1 .. DcidLen + pnlen |-> filler] \o d

\* The characters of one chunk of base64_encode.
Chunk(c) ==
    LET b(i) == IF i <= Len(c) THEN c[i] ELSE 0
        n == b(1) * 65536 + b(2) * 256 + b(3)
    IN <<n \div 262144, (n \div 4096) % 64,
         IF Len(c) > 1 THEN (n \div 64) % 64 ELSE Equals,
         IF Len(c) > 2 THEN n % 64 ELSE Equals>>

Base64Encode(data) ==
    LET enc[i \in 0 .. (Len(data) + 2) \div 3] ==
          IF i = 0 THEN <<>>
          ELSE enc[i - 1] \o Chunk(SubSeq(data, 3*i - 2, IF 3*i > Len(data) THEN Len(data) ELSE 3*i))
    IN enc[(Len(data) + 2) \div 3]

\* One character in base64_decode.  Of the 32-bit buf only the low 14 bits are read.
Base64Step(st, v) ==
    LET buf == (st.buf * 64 + v) % 65536  bits == st.bits + 6
    IN IF bits >= 8
       THEN [buf |-> buf, bits |-> bits - 8, out |-> Append(st.out, (buf \div 2^(bits - 8)) % 256)]
       ELSE [buf |-> buf, bits |-> bits, out |-> st.out]

\* base64_decode: up to the padding, None for a byte outside the alphabet.
Base64Decode(input64) ==
    LET end == IF \E i \in DOMAIN input64 : input64[i] = Equals
               THEN (CHOOSE i \in DOMAIN input64 :
                        input64[i] = Equals /\ \A j \in 1 .. i - 1 : input64[j] # Equals) - 1
               ELSE Len(input64)
        st[i \in 0 .. end] == IF i = 0 THEN [buf |-> 0, bits |-> 0, out |-> <<>>]
                              ELSE Base64Step(st[i - 1], input64[i])
    IN IF \A i \in 1 .. end : input64[i] \in Sextet THEN st[end].out ELSE None

\* Obfuscator::wrap.
ObfsWrap ==
    /\ packet = None
    /\ \/ carrier = "quic" /\ \E pnlen \in PnLens, random \in 0 .. 15, filler \in {0, 255} :
            packet' = QuicWrap(datagram, pnlen, random, filler)
       \/ carrier = "base64" /\ packet' = Base64Encode(datagram)
    /\ UNCHANGED <<datagram, carrier, unwrapped>>

\* Obfuscator::unwrap.
ObfsUnwrap ==
    /\ packet # None /\ unwrapped = <<>>
    /\ unwrapped' = <<IF carrier = "quic" THEN QuicUnwrap(packet) ELSE Base64Decode(packet)>>
    /\ UNCHANGED <<datagram, carrier, packet>>

ObfsInit == datagram \in Datagrams /\ carrier \in {"quic", "base64"} /\ packet = None /\ unwrapped = <<>>
ObfsNext == ObfsWrap \/ ObfsUnwrap
ObfsSpec == ObfsInit /\ [][ObfsNext]_ovars

\* The peer gets the datagram that was sent, whatever its length, whichever header bits
\* were drawn at random and whatever length of packet number the sender uses
\* (QuicObfs, base64_encode, base64_decode).
WrapIsUndone == unwrapped # <<>> => unwrapped = <<datagram>>
=============================================================================
