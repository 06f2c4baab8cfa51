-------------------------------- MODULE Nat ---------------------------------
(***************************************************************************)
(* The server in NAT mode: the per-endpoint address mapping (src/nat.rs)   *)
(* over its pool of leased internal addresses (src/pool.rs).               *)
(*                                                                         *)
(* Packets are abstracted to the address that is rewritten; what rewriting *)
(* does to the checksums is the module NatRewrite.                         *)
(***************************************************************************)
EXTENDS Integers, Endpoints

CONSTANTS
  ClientIp,     \* placeholder addresses the clients send from
  PoolStart,    \* host_range: the pool is PoolStart .. PoolEnd
  PoolEnd,
  ServerIp,     \* never handed out
  NatTTL        \* lease_ttl, in clock ticks

VARIABLES
  leases,       \* LeasePool.leases: when each internal address was last used
  cursor,       \* LeasePool.cursor
  by_peer,      \* the session of each endpoint
  by_internal,  \* the endpoint behind each internal address
  sender,       \* history: whose packets last left under each internal address
  reply         \* what the last call returned

natvars == <<leases, cursor, by_peer, by_internal, clock, sender, reply>>

Pool == PoolStart .. PoolEnd
Session == [internal : Pool, client_ip : ClientIp]
Optional(S) == S \cup {None}

\* An Ingress, or the endpoint and placeholder an egress packet is sent to.
Reply ==
  [call : {"none", "Invalid"}]
    \cup [call : {"Rewritten", "Exhausted"}, peer : Peer, internal : Optional(Pool)]
    \cup [call : {"egress"}, dst : Pool, peer : Optional(Peer), client_ip : Optional(ClientIp)]

ASSUME PoolAssumption ==
  /\ PoolStart \in Nat /\ PoolEnd \in Nat /\ ServerIp \in Nat
  /\ NatTTL \in Nat

ASSUME NoneAssumption ==
  None \notin Peer /\ None \notin Pool /\ None \notin ClientIp
    /\ None \notin Session /\ None \notin Int

-----------------------------------------------------------------------------
(* The pool.                                                               *)

Span == PoolEnd - PoolStart + 1

\* The k-th candidate of the round-robin probe.
Cand(c, k) == PoolStart + ((c - PoolStart + k) % Span)

\* One round of the probe.
Probes == 0 .. Span - 1

\* The cursor after the k-th candidate.
NextCursor(c, k) == IF Cand(c, k) >= PoolEnd THEN PoolStart ELSE Cand(c, k) + 1

IsFree(L, a) == a # ServerIp /\ L[a] = None

\* Pool addresses that allocate would find free.
Free(L) == {a \in Pool : IsFree(L, a)}

\* The number of candidates allocate skips before it finds a free one.
Skipped(L, c) ==
  CHOOSE k \in Probes :
    /\ IsFree(L, Cand(c, k))
    /\ \A j \in 0 .. k - 1 : ~IsFree(L, Cand(c, j))

Refreshed(L, a, t) == IF L[a] = None THEN L ELSE [L EXCEPT ![a] = t]

Idle(L, t) == {a \in Pool : L[a] # None /\ t - L[a] > NatTTL}

-----------------------------------------------------------------------------
\* ingress, from an endpoint that has a session.
IngressKnown(p, src) ==
  /\ by_peer[p] # None
  /\ leases' = Refreshed(leases, by_peer[p].internal, clock)
  /\ reply' = [call |-> "Rewritten", peer |-> p, internal |-> by_peer[p].internal]
  /\ sender' = [sender EXCEPT ![by_peer[p].internal] = p]
  /\ UNCHANGED <<cursor, by_peer, by_internal, clock>>

\* ... from one that has none,
IngressNew(p, src) ==
  /\ by_peer[p] = None
  /\ \E k \in Probes : IsFree(leases, Cand(cursor, k))
  /\ LET k == Skipped(leases, cursor)
         internal == Cand(cursor, k) IN
     /\ leases' = [leases EXCEPT ![internal] = clock]
     /\ cursor' = NextCursor(cursor, k)
     /\ by_peer' = [by_peer EXCEPT ![p] = [internal |-> internal, client_ip |-> src]]
     /\ by_internal' = [by_internal EXCEPT ![internal] = p]
     /\ reply' = [call |-> "Rewritten", peer |-> p, internal |-> internal]
     /\ sender' = [sender EXCEPT ![internal] = p]
  /\ UNCHANGED clock

\* ... and when a whole round finds nothing, which leaves the cursor in place.
IngressExhausted(p, src) ==
  /\ by_peer[p] = None
  /\ \A k \in Probes : ~IsFree(leases, Cand(cursor, k))
  /\ reply' = [call |-> "Exhausted", peer |-> p, internal |-> None]
  /\ UNCHANGED <<sender, leases, cursor, by_peer, by_internal, clock>>

\* A packet that is not well-formed IPv4.
IngressInvalid ==
  /\ reply' = [call |-> "Invalid"]
  /\ UNCHANGED <<leases, cursor, by_peer, by_internal, clock, sender>>

\* touch: every control message.
Touch(p) ==
  /\ leases' = IF by_peer[p] = None THEN leases
               ELSE Refreshed(leases, by_peer[p].internal, clock)
  /\ reply' = [call |-> "none"]
  /\ UNCHANGED <<cursor, by_peer, by_internal, clock, sender>>

Egress(dst) ==
  LET p == by_internal[dst]
      known == p # None /\ by_peer[p] # None IN
  /\ leases' = IF known THEN Refreshed(leases, dst, clock) ELSE leases
  /\ reply' = [call |-> "egress", dst |-> dst,
               peer |-> IF known THEN p ELSE None,
               client_ip |-> IF known THEN by_peer[p].client_ip ELSE None]
  /\ UNCHANGED <<cursor, by_peer, by_internal, clock, sender>>

\* A wrong variant: the session outlives its address.
Reap_KeepsSession ==
  LET freed == Idle(leases, clock) IN
  /\ leases' = [a \in Pool |-> IF a \in freed THEN None ELSE leases[a]]
  /\ by_internal' = [a \in Pool |-> IF a \in freed THEN None ELSE by_internal[a]]
  /\ reply' = [call |-> "none"]
  /\ UNCHANGED <<cursor, by_peer, clock, sender>>

\* The sweeper's reap.
Reap ==
  LET freed == Idle(leases, clock) IN
  /\ leases' = [a \in Pool |-> IF a \in freed THEN None ELSE leases[a]]
  /\ by_internal' = [a \in Pool |-> IF a \in freed THEN None ELSE by_internal[a]]
  /\ by_peer' = [p \in Peer |-> IF \E a \in freed : by_internal[a] = p
                                THEN None ELSE by_peer[p]]
  /\ reply' = [call |-> "none"]
  /\ UNCHANGED <<cursor, clock, sender>>

NatClock ==
  /\ Tick
  /\ reply' = [call |-> "none"]
  /\ UNCHANGED <<leases, cursor, by_peer, by_internal, sender>>

NatInit ==
  /\ leases = [a \in Pool |-> None]
  /\ cursor = PoolStart
  /\ by_peer = [p \in Peer |-> None]
  /\ by_internal = [a \in Pool |-> None]
  /\ clock = 0
  /\ sender = [a \in Pool |-> None]
  /\ reply = [call |-> "none"]

NatNext ==
  \/ \E p \in Peer, src \in ClientIp :
       IngressKnown(p, src) \/ IngressNew(p, src) \/ IngressExhausted(p, src)
  \/ IngressInvalid
  \/ \E p \in Peer : Touch(p)
  \/ \E dst \in Pool : Egress(dst)
  \/ Reap
  \/ NatClock

NatSpec == NatInit /\ [][NatNext]_natvars

-----------------------------------------------------------------------------
(* Properties.                                                             *)

NatTypeOK ==
  /\ leases \in [Pool -> Optional(Int)]
  /\ cursor \in Int /\ (PoolStart <= PoolEnd => cursor \in Pool)
  /\ by_peer \in [Peer -> Optional(Session)]
  /\ by_internal \in [Pool -> Optional(Peer)]
  /\ clock \in Int
  /\ sender \in [Pool -> Optional(Peer)]
  /\ reply \in Reply

\* The three maps agree: an address is leased exactly while it leads to an
\* endpoint, and exactly that endpoint's session holds it, so that no two
\* clients share an internal address, none outlives its lease, and none is the
\* server's own.
MapsAgree ==
  /\ \A a \in Pool, p \in Peer :
       by_internal[a] = p <=> by_peer[p] # None /\ by_peer[p].internal = a
  /\ \A a \in Pool : leases[a] = None <=> by_internal[a] = None
  /\ \A a \in Pool : leases[a] # None => a # ServerIp

\* An endpoint is refused only when every address is another client's: the
\* cursor never skips a free one, wherever reaping left the holes.
ExhaustedMeansFull == reply.call = "Exhausted" => Free(leases) = {}

\* A client keeps its internal address until it has been idle for longer than
\* the TTL, whatever other clients and the sweeper do.
InternalIsStable ==
  [][\A p \in Peer :
       by_peer[p] # None =>
         \/ by_peer'[p] = by_peer[p]
         \/ clock - leases[by_peer[p].internal] > NatTTL]_natvars

\* The answer to a packet goes to the client that sent it: what comes back for
\* an internal address is sent to the endpoint whose packets left under that
\* address last, however often the address changed hands in between.
ReplyGoesToSender ==
  reply.call = "egress" /\ reply.peer # None => reply.peer = sender[reply.dst]
=============================================================================
