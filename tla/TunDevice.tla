----------------------------- MODULE TunDevice ------------------------------
(***************************************************************************)
(* The TUN device of a client and the routes of its own prefixes           *)
(* (src/tun_device.rs): apply_assignment re-addresses the device in place, *)
(* SubnetRouteGuard::apply then moves the connected routes.  Each is a     *)
(* series of system calls, any of which may fail; the client exits on the  *)
(* errors they return (src/bin/client.rs) and the kernel then takes the    *)
(* device with its addresses and routes away.                              *)
(*                                                                         *)
(* Whether the kernel drops a route when the address that is its preferred *)
(* source goes is left open.                                               *)
(***************************************************************************)
EXTENDS FiniteSets, Absent

CONSTANTS Plan4,      \* IPv4 assignments: [ip, net]
          Plan6       \* IPv6 assignments: [ip, net]

VARIABLES want,       \* the assignment being applied: [v4, v6]
          tunstep,    \* "off", "static", "idle", or "routes": the guard is still to follow
          dev4,       \* the device's IPv4 address
          dev6,       \* its IPv6 addresses
          programmed, \* TunDevice::programmed_ip6
          rguard,     \* SubnetRouteGuard: [v4, v6], the installed prefixes
          krt,        \* kernel routes into the device: [net, src]
          stuck       \* ghost: prefixes whose removal failed

Net4 == {a.net : a \in Plan4}
Net6 == {a.net : a \in Plan6}

ASSUME PlanAssumption ==
    /\ Net4 \cap Net6 = {} /\ None \notin Plan6 /\ None \notin Net4 \cup Net6
    /\ \A a \in Plan4 : a = [ip |-> a.ip, net |-> a.net] /\ a.ip # None
    /\ \A a \in Plan6 : a = [ip |-> a.ip, net |-> a.net] /\ a.ip # None

tvars == <<want, tunstep, dev4, dev6, programmed, rguard, krt, stuck>>

Wanted == [v4 : Plan4, v6 : Plan6 \cup {None}]

ASSUME NoneIsNotWanted == None \notin Wanted

IpOf(a) == IF a = None THEN None ELSE a.ip
SomeOf(a) == IF a = None THEN {} ELSE {a}
NoPrefixes == [v4 |-> None, v6 |-> None]

\* TunDevice::create of a static client, which is never re-addressed and has no guard;
\* create_unaddressed of one that asks for its address.
TunCreate(static) ==
    /\ tunstep = "off"
    /\ want' = static
    /\ dev4' = IF static = None THEN None ELSE static.v4.ip
    /\ dev6' = IF static = None THEN {} ELSE SomeOf(IpOf(static.v6))
    /\ programmed' = IF static = None THEN None ELSE IpOf(static.v6)
    /\ tunstep' = IF static = None THEN "idle" ELSE "static"
    /\ UNCHANGED <<rguard, krt, stuck>>

\* set_network_address, with what the kernel makes of routes that prefer the old one.
Readdress(ip) ==
    /\ dev4' = ip
    /\ krt' \in {krt, {r \in krt : r.src # dev4}}

\* apply_assignment; an address that is already gone counts as removed.
ApplyAssignment(a) ==
    /\ tunstep = "idle"
    /\ Readdress(a.v4.ip)
    /\ dev6' = (dev6 \ {programmed}) \cup SomeOf(IpOf(a.v6))
    /\ programmed' = IpOf(a.v6)
    /\ want' = a /\ tunstep' = "routes"
    /\ UNCHANGED <<rguard, stuck>>

Prefix(r) == r.net
Without(rs, n) == {r \in rs : r.net # n}

\* A plausible slip: a refreshed prefix keeps its old preferred source.
SyncPrefix_LeavesSource(rs, old, next, src, fails) ==
    IF old = next THEN rs
    ELSE Without(IF old = None \/ fails THEN rs ELSE Without(rs, old), next)
            \cup {[net |-> next, src |-> src]}

\* sync_prefix: modify_route(add) replaces a route to the same prefix.  A refreshed IPv6
\* prefix is left alone; IPv6 routes carry no preferred source.
SyncPrefix(rs, old, next, src, fails) ==
    IF old = next /\ src = None THEN rs
    ELSE Without(IF old \in {None, next} \/ fails THEN rs ELSE Without(rs, old), next)
            \cup {[net |-> next, src |-> src]}

\* SubnetRouteGuard::apply; f4 and f6 say that delete_prefix failed, which is only logged.
GuardApply(f4, f6) ==
    LET n4 == want.v4.net
        n6 == IF want.v6 = None THEN None ELSE want.v6.net
        rs == SyncPrefix(krt, rguard.v4, n4, want.v4.ip, f4)
        left(old, new, f) == IF f /\ old \notin {None, new} THEN {old} ELSE {}
    IN /\ tunstep = "routes"
       /\ krt' = IF n6 # None THEN SyncPrefix(rs, rguard.v6, n6, None, f6)
                 ELSE IF rguard.v6 = None \/ f6 THEN rs ELSE Without(rs, rguard.v6)
       /\ rguard' = [v4 |-> n4, v6 |-> n6]
       /\ stuck' = (stuck \cup left(rguard.v4, n4, f4) \cup left(rguard.v6, n6, f6)) \ {n4, n6}
       /\ tunstep' = "idle"
       /\ UNCHANGED <<want, dev4, dev6, programmed>>

\* Someone takes the IPv6 address off the device.
Ip6TakenAway ==
    /\ tunstep = "idle" /\ dev6 # {}
    /\ dev6' = {}
    /\ UNCHANGED <<want, tunstep, dev4, programmed, rguard, krt, stuck>>

\* The client ends, or one of the calls returned an error: Drop, and the device is gone.
TunEnds ==
    /\ tunstep # "off"
    /\ want' = None /\ dev4' = None /\ dev6' = {} /\ programmed' = None
    /\ rguard' = NoPrefixes /\ krt' = {} /\ stuck' = {} /\ tunstep' = "off"

TunInit ==
    /\ want = None /\ tunstep = "off" /\ dev4 = None /\ dev6 = {} /\ programmed = None
    /\ rguard = NoPrefixes /\ krt = {} /\ stuck = {}

TunNext ==
    \/ \E a \in Wanted \cup {None} : TunCreate(a)
    \/ \E a \in Wanted : ApplyAssignment(a)
    \/ \E f4, f6 \in BOOLEAN : GuardApply(f4, f6)
    \/ Ip6TakenAway
    \/ TunEnds

TunSpec == TunInit /\ [][TunNext]_tvars

-----------------------------------------------------------------------------
(* Properties.                                                             *)

\* Whatever addresses the device had before, an assignment replaces them: no earlier
\* IPv6 address stays behind, and unless someone takes it away the assigned one is there
\* (apply_assignment, programmed_ip6).
DeviceHoldsAssignment ==
    tunstep # "off" /\ want # None =>
        dev4 = want.v4.ip /\ dev6 \subseteq SomeOf(IpOf(want.v6))

\* Between assignments the kernel routes into the device exactly the prefixes of the
\* assignment, the IPv4 one with the current address as its source; what else is there
\* is a prefix whose removal failed (SubnetRouteGuard::apply).
RoutesFollowAssignment ==
    tunstep = "idle" /\ want # None =>
        /\ [net |-> want.v4.net, src |-> want.v4.ip] \in krt
        /\ {Prefix(r) : r \in krt} \ stuck
             = {want.v4.net} \cup (IF want.v6 = None THEN {} ELSE {want.v6.net})
        /\ \A r1, r2 \in krt : r1.net = r2.net => r1 = r2

\* The device and the kernel's table both follow the assignment, whichever of the
\* system calls on the way failed (apply_assignment, SubnetRouteGuard::apply).
DeviceFollowsAssignment == DeviceHoldsAssignment /\ RoutesFollowAssignment
=============================================================================
