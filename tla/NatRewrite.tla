----------------------------- MODULE NatRewrite -----------------------------
(***************************************************************************)
(* What rewriting an address does to the checksums of a packet             *)
(* (src/nat.rs, rewrite_addr and adjust_checksum).                         *)
(*                                                                         *)
(* A word is a number below Base (2^16 in the code).  The words of the     *)
(* packet that a checksum covers and that are not addresses are abstracted *)
(* to one word per checksum; it is not zero, as the header has a version   *)
(* and the pseudo-header a protocol number.                                *)
(***************************************************************************)
EXTENDS Integers

CONSTANTS
  Base          \* one more than the largest checksum word

VARIABLES
  pkt           \* the packet that is rewritten

ASSUME BaseAssumption == Base \in Nat \ {0, 1}

Ones == Base - 1
Word == 0 .. Ones

\* The shapes rewrite_addr tells apart: the protocol, whether this is a later
\* fragment, and whether the buffer reaches the transport checksum.
Kind == [proto : {"tcp", "udp", "other"}, frag : BOOLEAN, room : BOOLEAN]

Packet == [src : Word \X Word, dst : Word \X Word,
           ip_rest : Word \ {0}, ip_ck : Word,
           kind : Kind, l4_rest : Word \ {0}, l4_ck : Word]

-----------------------------------------------------------------------------
Not(x) == Ones - x

\* End-around carry, until the sum fits a word.
Fold[s \in 0 .. 6 * Ones] ==
  IF s <= Ones THEN s ELSE Fold[(s % Base) + (s \div Base)]

\* RFC 1624: HC' = ~(~HC + ~m + m') over the two words of the address.
AdjustChecksum(ck, old, new) ==
  Not(Fold[Not(ck) + Not(old[1]) + new[1] + Not(old[2]) + new[2]])

HasTransport(k) == ~k.frag /\ k.room /\ k.proto \in {"tcp", "udp"}

\* A wrong variant: the address is overwritten before the transport checksum is
\* adjusted, so that old and new are the same.
RewriteAddr_OverwritesFirst(P, off, new) ==
  [P EXCEPT
     ![off]   = new,
     !.ip_ck  = AdjustChecksum(@, P[off], new),
     !.l4_ck  = IF /\ HasTransport(P.kind)
                   /\ P.kind.proto = "udp" => P.l4_ck # 0
                THEN AdjustChecksum(@, new, new) ELSE @]

RewriteAddr(P, off, new) ==
  [P EXCEPT
     ![off]   = new,
     !.ip_ck  = AdjustChecksum(@, P[off], new),
     !.l4_ck  = IF /\ HasTransport(P.kind)
                   /\ P.kind.proto = "udp" => P.l4_ck # 0
                THEN AdjustChecksum(@, P[off], new) ELSE @]

\* ingress rewrites the source, egress the destination.
Rewrite(off, new) == pkt' = RewriteAddr(pkt, off, new)

\* The checksums may be right or wrong.
RInit == pkt \in Packet

RNext == \E off \in {"src", "dst"}, new \in Word \X Word : Rewrite(off, new)

RSpec == RInit /\ [][RNext]_pkt

-----------------------------------------------------------------------------
(* The reference: a full sum over everything the checksum covers.          *)

Verifies(P, rest, ck) ==
  Fold[P.src[1] + P.src[2] + P.dst[1] + P.dst[2] + rest + ck] = Ones

HeaderOk(P) == Verifies(P, P.ip_rest, P.ip_ck)

\* A UDP checksum of 0 means that there is none.
TransportOk(P) ==
  \/ P.kind.proto = "udp" /\ P.l4_ck = 0
  \/ Verifies(P, P.l4_rest, P.l4_ck)

\* Rewriting an address neither breaks nor repairs the header checksum: a
\* router accepts the rewritten header exactly if it would have accepted the
\* original, for every old and new address and both representations of zero.
\* A TCP or UDP packet that would have been accepted still is; one that would not have
\* been is not either, unless its UDP checksum has become the 0 that stands for none.
VerdictsKept ==
  [][/\ HeaderOk(pkt) <=> HeaderOk(pkt')
     /\ HasTransport(pkt.kind) =>
          /\ TransportOk(pkt) => TransportOk(pkt')
          /\ TransportOk(pkt') => \/ TransportOk(pkt)
                                  \/ pkt.kind.proto = "udp" /\ pkt'.l4_ck = 0]_pkt

\* src/nat.rs:206: "UDP checksum at L4 + 6; 0 means "no checksum", leave it."
\* That is, a datagram with a (right) checksum still has one once it is rewritten.
UdpChecksumKept ==
  [][HasTransport(pkt.kind) /\ pkt.kind.proto = "udp" /\ pkt.l4_ck # 0 /\ TransportOk(pkt)
     => pkt'.l4_ck # 0]_pkt
=============================================================================
