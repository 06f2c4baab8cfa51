----------------------------- MODULE DnsPromise -----------------------------
(***************************************************************************)
(* What taking over the system resolver promises (policy/dnsconf.rs): the  *)
(* resolver is touched only while what was there is on record, and the     *)
(* record is closed only by putting that back, or by a named fault.        *)
(***************************************************************************)
EXTENDS Naturals

CONSTANTS
  Users,     \* resolver settings of the user
  Automatic,      \* automatic: DHCP, or no resolv.conf
  Proxy,     \* only the proxy's own address
  Part,      \* a setting written half way
  None

VARIABLES
  resolver,  \* the system's setting
  debt,      \* what has to be put back, or None
  broken,    \* a record was lost to a fault
  changes    \* how often the user has changed the setting

pvars == <<resolver, debt, broken, changes>>

Setting == Users \cup {Automatic, Proxy, Part}

\* The proxy's address is never a setting to put back.
Due(v) == IF v = Proxy THEN Automatic ELSE v

PInit ==
  /\ resolver \in Setting /\ debt \in Setting \cup {None}
  /\ broken = FALSE /\ changes = 0

Borrow ==
  /\ debt = None /\ debt' = Due(resolver)
  /\ UNCHANGED resolver

Touch ==
  /\ debt # None
  /\ resolver' \in {Proxy, Automatic, Part}
  /\ UNCHANGED debt

Repay ==
  /\ debt # None
  /\ resolver' = Due(debt) /\ debt' \in {debt, None}

\* Nothing on record: a leftover proxy address is reset.
Reset ==
  /\ debt = None /\ resolver = Proxy /\ resolver' = Automatic
  /\ UNCHANGED debt

UserSets ==
  /\ resolver' \in Users \cup {Automatic} /\ changes' = changes + 1
  /\ UNCHANGED <<debt, broken>>

\* The record is lost without being paid: the journal could not be written, was
\* damaged, or was given up.
Default ==
  /\ debt' = None /\ broken' = TRUE
  /\ UNCHANGED <<resolver, changes>>

\* Without a journal the record lives in the process only.
Volatile ==
  /\ Borrow /\ broken' = TRUE
  /\ UNCHANGED changes

PNext ==
  \/ (Borrow \/ Touch \/ Repay \/ Reset) /\ UNCHANGED <<broken, changes>>
  \/ UserSets \/ Default \/ Volatile

PSpec == PInit /\ [][PNext]_pvars
=============================================================================
