--------------------------- MODULE MCClientSession --------------------------
(* Instances of ClientSession for TLC.                                     *)
EXTENDS ClientSession

CONSTANTS x, y, n1, n2

Leases == {[ip |-> 1, v6 |-> x], [ip |-> 2, v6 |-> x], [ip |-> 1, v6 |-> None]}

Auto == [auto |-> TRUE, accept |-> TRUE, dns |-> TRUE, static |-> Unset]
Static == [auto |-> FALSE, accept |-> TRUE, dns |-> TRUE,
           static |-> [ip |-> 3, v6 |-> None]]
OwnV6 == [auto |-> TRUE, accept |-> FALSE, dns |-> TRUE, static |-> [ip |-> None, v6 |-> y]]

AllConfigs == {Auto, Static, OwnV6}
=============================================================================
