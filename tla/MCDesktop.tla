------------------------------ MODULE MCDesktop -----------------------------
(* Instances of Desktop for TLC.                                           *)
EXTENDS Desktop, TLC

CONSTANTS h1, d1, c1, c2, b1, b2, p1

Windows == [os |-> "windows", daemon |-> FALSE, bin |-> b1, pids |-> {c1, c2},
            changes |-> {}]
MacDaemon == [os |-> "unix", daemon |-> TRUE, bin |-> b1, pids |-> {c1},
              changes |-> {}]
Linux == [os |-> "unix", daemon |-> FALSE, bin |-> b1, pids |-> {c1},
          changes |-> {<<b1, b2>>, <<b2, None>>}]

AllSites == {Windows, MacDaemon, Linux}

\* One platform whose kill(pid, 0) finds an exited child until it is waited for.
UnixOnly == {[Linux EXCEPT !.changes = {}]}
=============================================================================
