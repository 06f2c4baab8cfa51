---------------------------- MODULE AddressPlan -----------------------------
(***************************************************************************)
(* The server's address plan: what ServerArgs::resolve (src/config.rs)     *)
(* accepts of a TUN address, netmask, peer_ip, reserved_ips and            *)
(* assign_pool, against what the Assigner built from it hands out          *)
(* (host_range of src/pool.rs, build_assigner of src/bin/server.rs,        *)
(* usable_ip4 of src/assign.rs).                                           *)
(*                                                                         *)
(* An address is a number of Bits bits; 32 in the code.  What matters here *)
(* is the arithmetic at the edges: masks that are no prefix, prefixes that *)
(* leave no host, the first and the last address there is.                 *)
(***************************************************************************)
EXTENDS Naturals, Absent

CONSTANTS Bits,       \* width of an address
          PeerIps,    \* choices of peer_ip
          Pool6,      \* an IPv6 network given as assign_pool
          ReservedSets,   \* choices of reserved_ips
          MeshChoices     \* choices of [nat, mesh]: --nat, and any of auto_approve_routes,
                          \* approve_routes and tun_ip6

VARIABLES given,      \* the merged command line and file
          plan        \* what resolve made of it

ASSUME BitsAssumption == Bits \in Nat \ {0}

\* The powers of two up to the width.
Pow2[k \in 0 .. Bits] == IF k = 0 THEN 1 ELSE 2 * Pow2[k - 1]

Top == Pow2[Bits] - 1
Address32 == 0 .. Top
Complement(m) == Top - m

\* Bitwise and, from the lowest bit up.
Bit(n, k) == (n \div Pow2[k]) % 2
And(a, b) ==
    LET and[k \in 0 .. Bits] ==
            IF k = 0 THEN 0 ELSE and[k - 1] + Pow2[k - 1] * (Bit(a, k - 1) * Bit(b, k - 1))
    IN and[Bits]

\* A network: address and prefix length, host bits possibly set.
Cidr == [addr : Address32, plen : 0 .. Bits]

ASSUME AddressPlanAssumption == None \notin {"ok", "no hosts"} /\ Pool6 # None /\ Cidr \cap {None, Pool6} = {}

MaskOf(plen) == Top - (Pow2[Bits - plen] - 1)
NetworkOf(c) == And(c.addr, MaskOf(c.plen))

Given == [ip : Address32, mask : Address32, peer : PeerIps, reserved : ReservedSets,
          pool : Cidr \cup {None, Pool6}, mode : MeshChoices]

-----------------------------------------------------------------------------

SaturatingSucc(n) == IF n = Top THEN Top ELSE n + 1
SaturatingPred(n) == IF n = 0 THEN 0 ELSE n - 1

\* host_range: empty when start > end.
HostRange(addr, mask) ==
    LET network == And(addr, mask)
        broadcast == network + Complement(mask)
    IN SaturatingSucc(network) .. SaturatingPred(broadcast)

\* tun_v4_network accepts a mask of leading ones only.
Contiguous(mask) == \E plen \in 0 .. Bits : mask = MaskOf(plen)
PrefixLen(mask) == CHOOSE plen \in 0 .. Bits : mask = MaskOf(plen)

ReservedIps(g) == {g.peer} \cup g.reserved

\* The hosts validate_assign_pool counts.
Assignable(g) ==
    HostRange(NetworkOf(g.pool), MaskOf(g.pool.plen)) \ ({g.ip} \cup ReservedIps(g))

\* A plausible slip: only the pool's own address is looked up in the TUN network.
SubsetOfTun_AddrOnly(g) == And(NetworkOf(g.pool), g.mask) = And(g.ip, g.mask)

SubsetOfTun(g) ==
    /\ g.pool.plen >= PrefixLen(g.mask)
    /\ And(NetworkOf(g.pool), g.mask) = And(g.ip, g.mask)

ValidatesPool(g) ==
    IF ~Contiguous(g.mask) THEN "netmask"
    ELSE IF g.pool = Pool6 THEN "ipv4 only"
    ELSE IF ~SubsetOfTun(g) THEN "subset"
    ELSE IF Assignable(g) = {} THEN "no hosts"
    ELSE "ok"

\* ServerArgs::resolve.
ResolvesServer ==
    /\ plan = None
    /\ plan' = IF given.mode.nat /\ given.mode.mesh THEN "nat"
               ELSE IF given.pool = None THEN "ok" ELSE ValidatesPool(given)
    /\ UNCHANGED given

\* build_assigner: the TUN's range, narrowed by set_host_range to assign_pool.
AssignerRange(g) ==
    IF g.pool = None THEN HostRange(g.ip, g.mask)
    ELSE HostRange(NetworkOf(g.pool), MaskOf(g.pool.plen))

\* usable_ip4, of an assigner without leases.
Handout(g) == {a \in AssignerRange(g) : a # g.ip /\ a \notin ReservedIps(g)}

PlanInit == given \in Given /\ plan = None
PlanNext == ResolvesServer
PlanSpec == PlanInit /\ [][PlanNext]_<<given, plan>>

-----------------------------------------------------------------------------
(* Properties.                                                             *)

\* Hosts of the TUN network: not its network or broadcast address, when it has hosts.
TunHosts(g) ==
    {a \in Address32 : /\ And(a, g.mask) = And(g.ip, g.mask)
                       /\ a # And(g.ip, g.mask) /\ a # And(g.ip, g.mask) + Complement(g.mask)}

\* What a server with a proper netmask starts with can be lived with: every address the
\* assigner hands out is a host of the TUN network other than the server, peer_ip and
\* the reserved ones, and an assign_pool is refused for want of hosts exactly if the
\* assigner would have had none to give (validate_assign_pool, build_assigner).
HandoutsAreTunHosts ==
    /\ plan = "ok" /\ Contiguous(given.mask) =>
         /\ Handout(given)
              \subseteq TunHosts(given) \ ({given.ip, given.peer} \cup given.reserved)
         /\ given.pool # None => Handout(given) # {}
    /\ plan = "no hosts" => Handout(given) = {}
=============================================================================
