----------------------------- MODULE Endpoints ------------------------------
(***************************************************************************)
(* What the server's tables share: the clients are UDP endpoints, and rows *)
(* are stamped with Instant::now().                                        *)
(***************************************************************************)
EXTENDS Integers, Absent

CONSTANTS
  Peer,         \* UDP endpoints of the clients
  Horizon       \* bound on the clock

VARIABLES
  clock         \* Instant::now()

ASSUME HorizonAssumption == Horizon \in Nat

\* Time passes.
Tick ==
  /\ clock < Horizon
  /\ clock' = clock + 1
=============================================================================
