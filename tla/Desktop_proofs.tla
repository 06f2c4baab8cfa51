--------------------------- MODULE Desktop_proofs ---------------------------
(***************************************************************************)
(* Proofs about Desktop, for any profiles, binaries, helpers, processes and*)
(* machines.                                                               *)
(*                                                                         *)
(* The safety of the app is a matter of which thread may be doing what     *)
(* (Threads): only a user's connect and the start of the app reach the     *)
(* steps that prompt, a watcher retries only while there is an intent, and *)
(* a disconnect clears the intent before it looks for the client to stop.  *)
(* A helper's child is the one client it has started and neither reaped    *)
(* nor disowned (Children), and a recorded run of this boot names a pid that is ours    *)
(* (PidIsOurs), which is what keeps a stop from a process of somebody      *)
(* else's.                                                                 *)
(***************************************************************************)
EXTENDS Desktop, FiniteSetTheorems, TLAPS

Stops == {"stop", "choose", "stopping", "kill", "reap"}

\* What a thread may be doing, and for whom, when the intent is act.
MainShape(o, act) ==
  /\ \/ o.kind = "none" /\ o.at = "idle"
     \/ /\ o.kind = "connect" /\ o.profile \in Profile
        /\ o.at \in {"ensure", "decide", "spawn", "record", "find", "call", "answer"}
     \/ /\ o.kind = "watch" /\ o.at \in {"ensure", "record", "find", "call", "answer"}
        /\ o.profile \in Profile
     \/ o.kind = "watch" /\ o.at = "retry" /\ act # None
     \/ o.kind = "disconnect" /\ o.at \in Stops /\ o.pid # None /\ act = None
  /\ o.pid # None => o.kind = "disconnect"

InitShape(o) ==
  \/ o.kind = "none" /\ o.at = "idle"
  \/ o.kind = "init" /\ o.at \in {"ensure", "decide", "spawn"}

PollShape(o) ==
  \/ o.kind = "none" /\ o.at = "idle"
  \/ o.kind = "status" /\ o.at = "delete"

Threads == /\ op \in [Thread -> Op]
           /\ MainShape(op["main"], active) /\ InitShape(op["init"]) /\ PollShape(op["poll"])

\* A live client with a parent is that parent's child unless it was disowned, and only
\* elevation is asked for.
Children ==
  /\ helper \in [Helper -> HelperProc] /\ proc \in [Client -> Process]
  /\ \A h \in Helper : helper[h].st # "up" => helper[h].child = None
  /\ \A h \in Helper : helper[h].st = "asked" => h \in SessionHelper
  /\ \A h \in Helper, c \in Client :
        proc[c].by = h /\ proc[c].st \in {"running", "stuck"} => helper[h].child = c

\* The pid of a run of this boot is no foreign process.
PidIsOurs ==
  state # None /\ ~state.old /\ pidfile # None => proc[pidfile].st # "foreign"

\* After a disconnect there is neither an intent nor a run nor an attempt.
Final == down => active = None /\ state = None /\ op["main"].kind = "none"

\* The types of what is neither a thread, a process nor a run's file.
Plain ==
  /\ gui \in BOOLEAN /\ active \in Profile \cup {None} /\ bin \in Bin \cup {None}
  /\ token \in BOOLEAN /\ port \in SessionHelper \cup {None}
  /\ presence \in BOOLEAN /\ site \in Sites /\ down \in BOOLEAN

DInv == /\ Plain /\ Threads /\ Children
        /\ state \in RunState \cup {None} /\ pidfile \in Client \cup {None}
        /\ PidIsOurs /\ NeverAimsAtForeign /\ Final /\ prompted = FALSE

-----------------------------------------------------------------------------
(* Processes.                                                              *)

\* No process becomes a foreign one.
Tame == \A c \in Client : proc'[c].st = "foreign" => proc[c].st = "foreign"

\* A process id that is not in use has no parent.
LEMMA NoProcessOK ==
  NoProcess \in Process /\ NoProcess.st = "free" /\ NoProcess.by = None
BY Zenon DEF NoProcess, Process

\* The absent helper is none of them.
LEMMA NoneIsNoHelper == None \notin Helper
BY DesktopAssumption, Zenon DEF Helper

\* An exited helper holds no client.
LEMMA GoneHelper ==
  ASSUME NEW b \in Bin \cup {None}
  PROVE  LET q == [NoHelper EXCEPT !.bin = b] IN
         q \in HelperProc /\ q.st = "none" /\ q.child = None
<1>1. NoHelper \in HelperProc /\ NoHelper.st = "none" /\ NoHelper.child = None
  BY DesktopAssumption DEF NoHelper, HelperProc
<1> QED
  BY <1>1, Zenon DEF HelperProc

\* Only the helper that exits changes.
LEMMA ExitedOK ==
  ASSUME Children, NEW h \in Helper
  PROVE  /\ Exited(h) \in [Helper -> HelperProc]
         /\ Exited(h)[h].st = "none" /\ Exited(h)[h].child = None
         /\ \A g \in Helper \ {h} : Exited(h)[g] = helper[g]
<1> DEFINE b == IF h = Daemon THEN DaemonBin ELSE None
           q == [NoHelper EXCEPT !.bin = b]
<1>1. q \in HelperProc /\ q.st = "none" /\ q.child = None
  <2>1. b \in Bin \cup {None}
    BY DesktopAssumption, Zenon
  <2> HIDE DEF b
  <2> QED
    BY <2>1, GoneHelper, Zenon
<1>2. Exited(h) = [helper EXCEPT ![h] = q]
  BY Zenon DEF Exited
<1> HIDE DEF q
<1> QED
  BY <1>1, <1>2, Zenon DEF Children

\* The processes after a helper has reaped: its exited child is gone.
LEMMA ReapedOK ==
  ASSUME Children, NEW h \in Helper
  PROVE  /\ ReapedChild(h) \in Client \cup {None}
         /\ ReapedChild(h) \in {helper[h].child, None}
         /\ ReapedProc(h) \in [Client -> Process]
         /\ \A c \in Client : \/ ReapedProc(h)[c] = proc[c]
                               \/ ReapedProc(h)[c] = NoProcess
         /\ ReapedChild(h) = None =>
              \A c \in Client : ReapedProc(h)[c].by = h =>
                                   ReapedProc(h)[c].st \notin {"running", "stuck"}
<1>1. helper[h] \in HelperProc /\ helper[h].child \in Client \cup {None}
  BY Zenon DEF Children, HelperProc
<1>2. CASE Reapable(h)
  <2>1. helper[h].child \in Client /\ proc[helper[h].child].st = "exited"
    BY <1>1, <1>2, Zenon DEF Reapable
  <2>2. ReapedChild(h) = None /\ ReapedProc(h) = [proc EXCEPT ![helper[h].child] = NoProcess]
    BY <1>2, Zenon DEF ReapedChild, ReapedProc
  <2> QED
    BY <2>1, <2>2, NoProcessOK, NoneIsNoHelper DEF Children
<1>3. CASE ~Reapable(h)
  <2>1. ReapedChild(h) = helper[h].child /\ ReapedProc(h) = proc
    BY <1>3, Zenon DEF ReapedChild, ReapedProc
  <2> QED
    BY <1>1, <2>1, DesktopAssumption DEF Children
<1> QED
  BY <1>2, <1>3, Zenon

\* Any request makes its helper reap first.
LEMMA ReapKeeps ==
  ASSUME Children, NEW h \in Helper,
         helper' = [helper EXCEPT ![h].child = ReapedChild(h)], proc' = ReapedProc(h)
  PROVE  Children' /\ Tame
<1>1. ReapedChild(h) \in Client \cup {None} /\ ReapedChild(h) \in {helper[h].child, None}
  BY ReapedOK, Zenon
<1>2. /\ helper' \in [Helper -> HelperProc]
      /\ \A g \in Helper : helper'[g].st = helper[g].st
      /\ \A g \in Helper \ {h} : helper'[g].child = helper[g].child
      /\ helper'[h].child = ReapedChild(h)
  BY <1>1 DEF Children, HelperProc
<1>3. /\ proc' \in [Client -> Process]
      /\ \A c \in Client : proc'[c] = proc[c] \/ proc'[c] = NoProcess
      /\ ReapedChild(h) = None =>
           \A c \in Client : proc'[c].by = h => proc'[c].st \notin {"running", "stuck"}
  BY ReapedOK, Zenon
<1>4. ASSUME NEW g \in Helper, NEW c \in Client, proc'[c].by = g,
             proc'[c].st \in {"running", "stuck"}
      PROVE  helper'[g].child = c
  <2>1. proc'[c] = proc[c] /\ helper[g].child = c
    BY <1>3, <1>4, NoProcessOK, Zenon DEF Children
  <2> QED
    BY <1>1, <1>2, <1>3, <1>4, <2>1, Zenon
<1> QED
  BY <1>1, <1>2, <1>3, <1>4, NoProcessOK DEF Children, Tame

\* A helper whose last client has been reaped leaves.
LEMMA LeaveKeeps ==
  ASSUME Children, NEW h \in Helper, ReapedChild(h) = None,
         helper' = Exited(h), proc' = ReapedProc(h)
  PROVE  Children' /\ Tame
<1>1. /\ helper' \in [Helper -> HelperProc]
      /\ helper'[h].st = "none" /\ helper'[h].child = None
      /\ \A g \in Helper \ {h} : helper'[g] = helper[g]
  BY ExitedOK, Zenon
<1>2. /\ proc' \in [Client -> Process]
      /\ \A c \in Client : proc'[c] = proc[c] \/ proc'[c] = NoProcess
      /\ \A c \in Client : proc'[c].by = h => proc'[c].st \notin {"running", "stuck"}
  BY ReapedOK, Zenon
<1> QED
  BY <1>1, <1>2, NoProcessOK DEF Children, Tame

\* A helper that keeps its client.
LEMMA SameChild ==
  ASSUME Children, NEW h \in Helper, NEW q \in HelperProc, q.child = helper[h].child,
         q.st = "up" \/ q.st = helper[h].st,
         helper' = [helper EXCEPT ![h] = q], proc' = proc
  PROVE  Children' /\ Tame
BY Zenon DEF Children, Tame

\* Processes that stay with their parent or lose it.
LEMMA SameParent ==
  ASSUME Children, helper' = helper, proc' \in [Client -> Process],
         \A c \in Client : \/ proc'[c] = proc[c]
                           \/ /\ proc'[c].st # "foreign"
                              /\ \/ proc'[c].st \notin {"running", "stuck"}
                                 \/ /\ proc[c].st \in {"running", "stuck"}
                                    /\ proc'[c].by = proc[c].by
  PROVE  Children' /\ Tame
BY DEF Children, Tame

\* Only the client that dies changes.
LEMMA DeadOK ==
  ASSUME Children, NEW c \in Client
  PROVE  /\ Dead(c) \in [Client -> Process]
         /\ Dead(c)[c].st \in {"exited", "free"}
         /\ \A d \in Client \ {c} : Dead(c)[d] = proc[d]
BY NoProcessOK, Zenon DEF Children, Dead, Process

\* Cmd::Connect: a helper without a child starts one.
LEMMA ConnectsKeeps ==
  ASSUME Children, NEW h \in Helper, helper[h].st = "up", ReapedChild(h) = None,
         NEW c \in Client, ReapedProc(h)[c].st = "free",
         helper' = [helper EXCEPT ![h].child = c],
         proc' = [ReapedProc(h) EXCEPT ![c] = [st |-> "running", by |-> h]]
  PROVE  Children' /\ Tame /\ proc'[c].st = "running"
<1>1. /\ helper' \in [Helper -> HelperProc]
      /\ \A g \in Helper : helper'[g].st = helper[g].st
      /\ \A g \in Helper \ {h} : helper'[g].child = helper[g].child
      /\ helper'[h].child = c
  BY DEF Children, HelperProc
<1>2. /\ ReapedProc(h) \in [Client -> Process]
      /\ \A d \in Client : ReapedProc(h)[d] = proc[d] \/ ReapedProc(h)[d] = NoProcess
      /\ \A d \in Client : ReapedProc(h)[d].by = h =>
                               ReapedProc(h)[d].st \notin {"running", "stuck"}
  BY ReapedOK, Zenon
<1>3. /\ proc' \in [Client -> Process]
      /\ proc'[c].st = "running" /\ proc'[c].by = h
      /\ \A d \in Client \ {c} : proc'[d] = ReapedProc(h)[d]
  BY <1>2, Zenon DEF Process
<1> QED
  BY <1>1, <1>2, <1>3, NoProcessOK DEF Children, Tame

\* The same without a pid file: the client is gone, or alive and nobody's child.
LEMMA DisownsKeeps ==
  ASSUME Children, NEW h \in Helper, ReapedChild(h) = None, NEW c \in Client,
         NEW q \in {NoProcess, [st |-> "disowned", by |-> h]},
         helper' = [helper EXCEPT ![h].child = None],
         proc' = [ReapedProc(h) EXCEPT ![c] = q]
  PROVE  Children' /\ Tame
<1>1. /\ helper' \in [Helper -> HelperProc]
      /\ \A g \in Helper : helper'[g].st = helper[g].st
      /\ \A g \in Helper \ {h} : helper'[g].child = helper[g].child
      /\ helper'[h].child = None
  BY DEF Children, HelperProc
<1>2. /\ ReapedProc(h) \in [Client -> Process]
      /\ \A d \in Client : ReapedProc(h)[d] = proc[d] \/ ReapedProc(h)[d] = NoProcess
      /\ \A d \in Client : ReapedProc(h)[d].by = h =>
                               ReapedProc(h)[d].st \notin {"running", "stuck"}
  BY ReapedOK, Zenon
<1>3. q \in Process /\ q.st \in {"free", "disowned"}
  <2>1. CASE q = NoProcess
    BY <2>1, NoProcessOK, Zenon
  <2>2. CASE q = [st |-> "disowned", by |-> h]
    BY <2>2, Zenon DEF Process
  <2> QED
    BY <2>1, <2>2, Zenon
<1>4. /\ proc' \in [Client -> Process] /\ proc'[c] = q
      /\ \A d \in Client \ {c} : proc'[d] = ReapedProc(h)[d]
  BY <1>2, <1>3, Zenon
<1>5. ASSUME NEW g \in Helper, NEW d \in Client, proc'[d].by = g,
             proc'[d].st \in {"running", "stuck"}
      PROVE  helper'[g].child = d
  <2>1. d # c /\ proc'[d] = ReapedProc(h)[d] /\ g # h
    BY <1>2, <1>3, <1>4, <1>5, Zenon
  <2>2. proc'[d] = proc[d]
    BY <1>2, <1>5, <2>1, NoProcessOK, Zenon
  <2> QED
    BY <1>1, <1>5, <2>1, <2>2, Zenon DEF Children
<1>6. Tame
  BY <1>2, <1>3, <1>4, NoProcessOK, Zenon DEF Tame
<1>7. /\ \A g \in Helper : helper'[g].st # "up" => helper'[g].child = None
      /\ \A g \in Helper : helper'[g].st = "asked" => g \in SessionHelper
  BY <1>1, Zenon DEF Children
<1> QED
  BY <1>1, <1>4, <1>5, <1>6, <1>7, Zenon DEF Children

\* spawn stops the helper the port file names, if there is one, and asks for another.
LEMMA SpawnProcs ==
  ASSUME Children, NEW h \in SessionHelper \cup {None}, NEW n \in SessionHelper,
         helper[n].st = "none" \/ n = h, NEW b \in Bin \cup {None},
         helper' = [IF h = None THEN helper ELSE Exited(h)
                      EXCEPT ![n] = [NoHelper EXCEPT !.st = "asked", !.bin = b]],
         proc' = IF h = None THEN proc ELSE ChildStopped(h)
  PROVE  Children' /\ Tame
<1> DEFINE q == [NoHelper EXCEPT !.st = "asked", !.bin = b]
           hs == IF h = None THEN helper ELSE Exited(h)
<1>1. q \in HelperProc /\ q.st = "asked" /\ q.child = None
  <2>1. NoHelper \in HelperProc /\ NoHelper.child = None
    BY DesktopAssumption DEF NoHelper, HelperProc
  <2> QED
    BY <2>1, Zenon DEF HelperProc
<1>2. n \in Helper /\ (h # None => h \in Helper)
  BY Zenon DEF Helper
<1>3. /\ hs \in [Helper -> HelperProc]
      /\ \A g \in Helper : hs[g] = helper[g] \/ (g = h /\ hs[g].st = "none" /\ hs[g].child = None)
  BY <1>2, ExitedOK DEF Children
<1> HIDE DEF q, hs
<1>4. helper' = [hs EXCEPT ![n] = q]
  BY Zenon DEF q, hs
<1>5. /\ proc' \in [Client -> Process] /\ Tame
      /\ \A c \in Client : proc'[c].st \in {"running", "stuck"} => proc'[c].by # h \/ proc'[c].by = None
      /\ \A c \in Client : \/ proc'[c] = proc[c]
                            \/ proc'[c].by = None
  <2>1. CASE h = None
    BY <2>1, Zenon DEF Children, Tame
  <2>2. CASE h # None /\ helper[h].child = None
    BY <1>2, <2>2, DesktopAssumption, Zenon DEF Children, Tame, ChildStopped
  <2>3. CASE h # None /\ helper[h].child # None
    <3> DEFINE c0 == helper[h].child
               p == IF proc[c0].st = "stuck" THEN [proc[c0] EXCEPT !.by = None] ELSE NoProcess
    <3>1. c0 \in Client
      BY <1>2, <2>3, Zenon DEF Children, HelperProc
    <3>2. proc' = [proc EXCEPT ![c0] = p]
      BY <2>3, <3>1, Zenon DEF ChildStopped, Children
    <3>3. p \in Process /\ p.st \in {"stuck", "free"} /\ p.by = None
      BY <3>1, NoProcessOK, Zenon DEF Children, Process
    <3> HIDE DEF p, c0
    <3>4. /\ proc' \in [Client -> Process] /\ proc'[c0] = p
          /\ \A c \in Client \ {c0} : proc'[c] = proc[c]
      BY <3>1, <3>2, <3>3, Zenon DEF Children
    <3>5. \A c \in Client \ {c0} : proc[c].st \in {"running", "stuck"} => proc[c].by # h
      BY <1>2, <2>3, Zenon DEF Children, c0
    <3> QED
      BY <3>1, <3>3, <3>4, <3>5, Zenon DEF Tame
  <2> QED
    BY <2>1, <2>2, <2>3, Zenon
<1>6. /\ helper' \in [Helper -> HelperProc] /\ helper'[n] = q
      /\ \A g \in Helper \ {n} : helper'[g] = hs[g]
  BY <1>1, <1>2, <1>3, <1>4, ZenonT(40)
<1>7. ASSUME NEW g \in Helper, NEW c \in Client, proc'[c].by = g,
             proc'[c].st \in {"running", "stuck"}
      PROVE  helper'[g].child = c
  <2>1. g # None /\ g # h /\ proc'[c] = proc[c]
    BY <1>5, <1>7, NoneIsNoHelper, Zenon
  <2>2. helper[g].child = c /\ helper[g].st = "up"
    BY <1>7, <2>1, DesktopAssumption, Zenon DEF Children
  <2> QED
    BY <1>3, <1>6, <2>1, <2>2, Zenon
<1>8. ASSUME NEW g \in Helper
      PROVE  /\ helper'[g].st # "up" => helper'[g].child = None
             /\ helper'[g].st = "asked" => g \in SessionHelper
  <2>1. CASE g = n
    BY <1>1, <1>6, <2>1, Zenon
  <2>2. CASE g # n
    <3>1. helper'[g] = hs[g]
      BY <1>6, <2>2, Zenon
    <3>2. CASE hs[g] = helper[g]
      BY <3>1, <3>2, Zenon DEF Children
    <3> QED
      BY <1>3, <3>1, <3>2, Zenon
  <2> QED
    BY <2>1, <2>2, Zenon
<1> QED
  BY <1>5, <1>6, <1>7, <1>8, Zenon DEF Children

\* Cmd::Disconnect: a child that survives is put back.
LEMMA StopsKeeps ==
  ASSUME Children, NEW h \in Helper, HelperStops(h)
  PROVE  Children' /\ Tame
<1> DEFINE c == helper[h].child
           dead == c = None \/ proc[c].st # "stuck"
           k == IF dead THEN None ELSE c
<1>1. /\ helper[h].st = "up"
      /\ helper' = [helper EXCEPT ![h].busy = FALSE, ![h].child = k]
      /\ proc' = IF c = None \/ ~dead THEN proc ELSE [proc EXCEPT ![c] = NoProcess]
  BY Zenon DEF HelperStops
<1>2. c \in Client \cup {None} /\ k \in Client \cup {None}
  BY Zenon DEF Children, HelperProc
<1>3. (c = None \/ ~dead => proc' = proc) /\ (c # None /\ dead => proc' = [proc EXCEPT ![c] = NoProcess])
      /\ (dead => k = None) /\ (~dead => k = c /\ c # None)
  BY <1>1, Zenon
<1> HIDE DEF k, dead, c
<1>4. /\ helper' \in [Helper -> HelperProc]
      /\ \A g \in Helper : helper'[g].st = helper[g].st
      /\ \A g \in Helper \ {h} : helper'[g].child = helper[g].child
      /\ helper'[h].child = k
  <2> DEFINE q == [helper[h] EXCEPT !.busy = FALSE, !.child = k]
  <2>0. helper[h] \in HelperProc
    BY Zenon DEF Children
  <2>1. q \in HelperProc /\ q.st = helper[h].st /\ q.child = k
    BY <1>2, <2>0, Zenon DEF HelperProc
  <2>2. helper' = [helper EXCEPT ![h] = q]
    BY <1>1, Zenon DEF Children
  <2> HIDE DEF q
  <2> QED
    BY <2>1, <2>2, Zenon DEF Children
<1>5. CASE c # None /\ dead
  BY <1>1, <1>2, <1>3, <1>4, <1>5, NoProcessOK, NoneIsNoHelper DEF Children, Tame, c
<1>6. CASE ~(c # None /\ dead)
  BY <1>1, <1>2, <1>3, <1>4, <1>6 DEF Children, Tame, c
<1> QED
  BY <1>5, <1>6, Zenon

-----------------------------------------------------------------------------
(* Threads.                                                                *)

\* A thread without a command stops nothing.
LEMMA IdleOK ==
  /\ Idle \in Op /\ Idle.at = "idle" /\ Idle.kind = "none" /\ Idle.pid = None
BY Zenon DEF Idle, Op

\* A thread goes on with what it is doing.
SameJob(q, o, a) ==
  q \in Op /\ q.at = a /\ q.kind = o.kind /\ q.profile = o.profile /\ q.pid = o.pid

\* Going on changes neither the command nor whom it is for.
LEMMA StepOK ==
  ASSUME NEW o \in Op, NEW a \in {"ensure", "decide", "spawn", "record", "find", "call",
           "answer", "stop", "choose", "stopping", "kill", "reap", "delete", "retry"}
  PROVE  /\ SameJob([o EXCEPT !.at = a], o, a)
         /\ \A x \in Reply \cup {None} : SameJob([o EXCEPT !.at = a, !.resp = x], o, a)
         /\ SameJob([o EXCEPT !.at = a, !.resp = None, !.bin = None], o, a)
         /\ \A b \in BOOLEAN : SameJob([o EXCEPT !.at = a, !.resp = None, !.ok = b], o, a)
<1> USE DEF SameJob, Op
<1>1. SameJob([o EXCEPT !.at = a], o, a)
  OBVIOUS
<1>2. ASSUME NEW x \in Reply \cup {None} PROVE SameJob([o EXCEPT !.at = a, !.resp = x], o, a)
  BY ZenonT(90)
<1>3. SameJob([o EXCEPT !.at = a, !.resp = None, !.bin = None], o, a)
  BY ZenonT(90)
<1>4. ASSUME NEW b \in BOOLEAN
      PROVE  SameJob([o EXCEPT !.at = a, !.resp = None, !.ok = b], o, a)
  BY ZenonT(90)
<1> HIDE DEF SameJob, Op
<1> QED
  BY <1>1, <1>2, <1>3, <1>4, Zenon

\* What a step has to show when it starts no run and aims at no new pid.
LEMMA Assemble ==
  ASSUME DInv, Plain', Threads', Children', Tame, state' \in {state, None},
         pidfile' \in {pidfile, None}, op'["main"].pid \in {op["main"].pid, None},
         prompted' = FALSE, Final'
  PROVE  DInv'
<1>1. state' \in RunState \cup {None} /\ pidfile' \in Client \cup {None}
  BY Zenon DEF DInv
<1>2. PidIsOurs'
  BY <1>1, Zenon DEF DInv, PidIsOurs, Tame
<1>3. NeverAimsAtForeign'
  BY Zenon DEF DInv, NeverAimsAtForeign, Tame, Threads, Thread, Op
<1> QED
  BY <1>1, <1>2, <1>3, Zenon DEF DInv

\* A thread that moves to a step of its command leaves the others alone.
LEMMA Moves ==
  ASSUME Threads, NEW t \in {"main", "init"}, NEW q \in Op, op' = [op EXCEPT ![t] = q],
         t = "main" => MainShape(q, active'), t = "init" => InitShape(q),
         t = "init" => active' = active
  PROVE  Threads' /\ op'[t] = q /\ (t = "init" => op'["main"] = op["main"])
BY Zenon DEF Threads, Thread

\* A command under way takes a step, or ends: the intent and the run's files stay.
LEMMA ThreadStep ==
  ASSUME DInv, NEW t \in {"main", "init"}, op[t].at # "idle",
         NEW q \in Op, op' = [op EXCEPT ![t] = q],
         t = "main" => MainShape(q, active), t = "init" => InitShape(q),
         q.pid \in {op[t].pid, None}, Children', Tame,
         UNCHANGED <<gui, active, bin, site, runfiles, down>>,
         token' \in BOOLEAN, port' \in SessionHelper \cup {None}, presence' \in BOOLEAN,
         prompted' = FALSE
  PROVE  DInv'
<1>1. /\ Threads' /\ op'[t] = q /\ (t = "init" => op'["main"] = op["main"])
  BY Moves, Zenon DEF DInv
<1>2. Plain'
  BY Zenon DEF DInv, Plain
<1>3. Final'
  BY <1>1, Zenon DEF DInv, Final, Threads, MainShape, runfiles
<1> QED
  BY <1>1, <1>2, <1>3, Assemble, Zenon DEF runfiles

\* The same for the thread that just ends.
LEMMA ThreadEnds ==
  ASSUME DInv, NEW t \in {"main", "init"}, op[t].at # "idle", Finish(t),
         Children', Tame, UNCHANGED <<gui, active, bin, site, runfiles, down>>,
         token' \in BOOLEAN, port' \in SessionHelper \cup {None}, presence' \in BOOLEAN,
         prompted' = FALSE
  PROVE  DInv'
<1>1. op' = [op EXCEPT ![t] = Idle]
  BY Zenon DEF Finish, Goto
<1> QED
  BY <1>1, IdleOK, ThreadStep, Zenon DEF MainShape, InitShape

-----------------------------------------------------------------------------
(* connect.                                                                *)

\* An endpoint that the application finds is that of a helper, and one that serves is up.
LEMMA EndpointsOK ==
  ASSUME DInv
  PROVE  /\ SessionEndpoint \in SessionHelper \cup {None}
         /\ LiveEndpoint \in Helper \cup {None}
         /\ \A h : Serves(h) => h \in Helper /\ helper[h].st = "up"
BY DesktopAssumption, Zenon DEF DInv, Plain, SessionEndpoint, DaemonEndpoint, LiveEndpoint,
   Serves, Helper

\* Nothing happens to the processes.
LEMMA ProcsStay ==
  ASSUME DInv, UNCHANGED procs
  PROVE  Children' /\ Tame
BY Zenon DEF DInv, procs, Children, Tame

\* A thread that pings and remembers the answer.
LEMMA PingKeeps ==
  ASSUME DInv, NEW t \in {"main", "init"}, op[t].at # "idle",
         NEW h \in Helper \cup {None}, NEW a \in {"decide", "call", "choose"}, Ping(t, h, a),
         \A q \in Op : SameJob(q, op[t], a) =>
            (t = "main" => MainShape(q, active)) /\ (t = "init" => InitShape(q)),
         UNCHANGED <<session, runfiles, link, history>>
  PROVE  DInv'
<1>1. op[t] \in Op /\ prompted = FALSE /\ Children /\ Plain
  BY Zenon DEF DInv, Threads, Thread
<1>2. /\ UNCHANGED <<gui, active, bin, site, runfiles, down>>
      /\ token' \in BOOLEAN /\ port' \in SessionHelper \cup {None} /\ presence' \in BOOLEAN
      /\ prompted' = FALSE
  BY <1>1, Zenon DEF session, link, history, Plain
<1>3. CASE h = None
  <2> DEFINE q == [op[t] EXCEPT !.at = a, !.resp = None]
  <2>1. op' = [op EXCEPT ![t] = q] /\ UNCHANGED procs
    BY <1>3, Zenon DEF Ping, Goto
  <2>2. SameJob(q, op[t], a)
    BY <1>1, StepOK, Zenon
  <2> HIDE DEF q
  <2>3. /\ q \in Op /\ q.pid = op[t].pid
        /\ t = "main" => MainShape(q, active)
        /\ t = "init" => InitShape(q)
    <3>1. q \in Op /\ q.pid = op[t].pid
      BY <2>2, Zenon DEF SameJob
    <3> QED
      BY <2>2, <3>1, Zenon
  <2>4. Children' /\ Tame
    BY <2>1, ProcsStay, Zenon
  <2> QED
    BY <1>2, <2>1, <2>3, <2>4, ThreadStep, Zenon
<1>4. CASE h # None
  <2> DEFINE x == [from |-> h, child |-> ReapedChild(h), bin |-> helper[h].bin]
             q == [op[t] EXCEPT !.at = a, !.resp = x]
  <2>1. /\ op' = [op EXCEPT ![t] = q]
        /\ helper' = [helper EXCEPT ![h].child = ReapedChild(h)] /\ proc' = ReapedProc(h)
    BY <1>4, Zenon DEF Ping, Goto
  <2>2. x \in Reply
    BY <1>1, <1>4, ReapedOK, Zenon DEF Reply, Children, HelperProc
  <2> HIDE DEF x
  <2>3. SameJob(q, op[t], a)
    BY <1>1, <2>2, StepOK, Zenon
  <2> HIDE DEF q
  <2>4. /\ q \in Op /\ q.pid = op[t].pid
        /\ t = "main" => MainShape(q, active)
        /\ t = "init" => InitShape(q)
    <3>1. q \in Op /\ q.pid = op[t].pid
      BY <2>3, Zenon DEF SameJob
    <3> QED
      BY <2>3, <3>1, Zenon
  <2>5. Children' /\ Tame
    BY <1>1, <1>4, <2>1, ReapKeeps, Zenon
  <2> QED
    BY <1>2, <2>1, <2>4, <2>5, ThreadStep, Zenon
<1> QED
  BY <1>3, <1>4, Zenon

\* A thread whose step touches neither a helper nor a process.
LEMMA ThreadGoes ==
  ASSUME DInv, NEW t \in {"main", "init"}, op[t].at # "idle",
         NEW q, SameJob(q, op[t], q.at), op' = [op EXCEPT ![t] = q],
         t = "main" => MainShape(q, active), t = "init" => InitShape(q),
         UNCHANGED <<session, runfiles, link, procs, history>>
  PROVE  DInv'
<1>1. q \in Op /\ q.pid = op[t].pid /\ prompted = FALSE /\ Plain
  BY Zenon DEF SameJob, DInv
<1>2. Children' /\ Tame
  BY ProcsStay, Zenon
<1> QED
  BY <1>1, <1>2, ThreadStep, Zenon DEF session, link, history, Plain

\* A command that ends leaves its thread idle.
LEMMA ThreadStops ==
  ASSUME DInv, NEW t \in {"main", "init"}, op[t].at # "idle", Finish(t),
         UNCHANGED <<session, runfiles, link, procs, history>>
  PROVE  DInv'
<1>1. prompted = FALSE /\ Plain
  BY Zenon DEF DInv
<1>2. Children' /\ Tame
  BY ProcsStay, Zenon
<1> QED
  BY <1>1, <1>2, ThreadEnds, Zenon DEF session, link, history, Plain

\* Under the ensure lock a helper is found: connect goes on, start-up is done.
LEMMA ReadyKeeps ==
  ASSUME DInv, NEW t \in {"main", "init"}, op[t].at \in {"decide", "spawn"}, Ready(t),
         UNCHANGED <<session, runfiles, link, procs, history>>
  PROVE  DInv'
<1>1. op[t] \in Op
  BY Zenon DEF DInv, Threads, Thread
<1>2. CASE op[t].kind = "init"
  BY <1>2, ThreadStops, Zenon DEF Ready
<1>3. CASE op[t].kind # "init"
  <2> DEFINE q == [op[t] EXCEPT !.at = "record", !.resp = None, !.bin = None]
  <2>1. op' = [op EXCEPT ![t] = q]
    BY <1>3, Zenon DEF Ready, Proceed, Goto
  <2>2. SameJob(q, op[t], "record")
    BY <1>1, StepOK, Zenon
  <2> HIDE DEF q
  <2>3. t = "main" /\ op[t].kind = "connect" /\ MainShape(q, active) /\ q.at = "record"
    BY <1>3, <2>2, Zenon DEF DInv, Threads, InitShape, MainShape, SameJob, Stops
  <2> QED
    BY <2>1, <2>2, <2>3, ThreadGoes, Zenon
<1> QED
  BY <1>2, <1>3, Zenon

\* ensure and ensure_existing: a helper is found, or one has to be spawned.
LEMMA EnsureKeeps ==
  ASSUME DInv, NEW t \in {"main", "init"}, EnsureStep(t)
  PROVE  DInv'
<1>1. op[t] \in Op /\ prompted = FALSE /\ Plain /\ Children /\ Threads
  BY Zenon DEF DInv, Threads, Thread
<1>2. CASE EnsureDaemon(t)
  <2>1. /\ op[t].at = "ensure" /\ op[t].kind = "connect"
        /\ UNCHANGED <<gui, active, bin, site, down, runfiles, link, procs>>
        /\ Proceed(t) \/ Finish(t)
        /\ presence' \in BOOLEAN /\ prompted' = FALSE
    BY <1>1, <1>2, Zenon DEF EnsureDaemon, RaiseDialog, Plain
  <2>2. Children' /\ Tame
    BY <2>1, ProcsStay, Zenon
  <2>3. CASE Finish(t)
    BY <1>1, <2>1, <2>2, <2>3, ThreadEnds, Zenon DEF link, Plain
  <2>4. CASE Proceed(t)
    <3> DEFINE q == [op[t] EXCEPT !.at = "record", !.resp = None, !.bin = None]
    <3>1. op' = [op EXCEPT ![t] = q]
      BY <2>4, Zenon DEF Proceed, Goto
    <3>2. SameJob(q, op[t], "record")
      BY <1>1, StepOK, Zenon
    <3> HIDE DEF q
    <3>3. t = "main" /\ MainShape(q, active) /\ q \in Op /\ q.pid = op[t].pid
      BY <1>1, <2>1, <3>2, Zenon DEF Threads, InitShape, MainShape, SameJob
    <3> QED
      BY <1>1, <2>1, <2>2, <3>1, <3>3, ThreadStep, Zenon DEF link, Plain
  <2> QED
    BY <2>1, <2>3, <2>4, Zenon
<1>3. CASE EnsurePing(t)
  <2>1. /\ op[t].at = "ensure" /\ op[t].kind \in {"connect", "init"}
        /\ Ping(t, SessionEndpoint, "decide") /\ UNCHANGED <<session, runfiles, link, history>>
    BY <1>3, Zenon DEF EnsurePing
  <2>2. SessionEndpoint \in Helper \cup {None}
    BY EndpointsOK, Zenon DEF Helper
  <2>3. \A q \in Op : SameJob(q, op[t], "decide") =>
          (t = "main" => MainShape(q, active)) /\ (t = "init" => InitShape(q))
    BY <1>1, <2>1, Zenon DEF Threads, SameJob, MainShape, InitShape
  <2> QED
    BY <2>1, <2>2, <2>3, PingKeeps, Zenon
<1>4. CASE EnsureReuse(t)
  BY <1>4, ReadyKeeps, Zenon DEF EnsureReuse
<1>5. CASE EnsureRefuse(t) \/ SpawnFails(t)
  BY <1>5, ThreadStops, Zenon DEF EnsureRefuse, SpawnFails
<1>6. CASE SpawnDone(t)
  BY <1>6, ReadyKeeps, ThreadStops, Zenon DEF SpawnDone
<1>7. CASE Spawn(t)
  <2> DEFINE h == SessionEndpoint
             q == [op[t] EXCEPT !.at = "spawn"]
  <2>1. /\ op[t].at = "decide" /\ token' = TRUE /\ port' = None /\ op' = [op EXCEPT ![t] = q]
        /\ UNCHANGED <<gui, active, bin, presence, site, runfiles, down>>
        /\ prompted' = (prompted \/ op[t].kind = "watch")
    BY <1>7, Zenon DEF Spawn, Step, Goto, session, RaiseDialog
  <2>2. PICK n \in SessionHelper :
          /\ helper[n].st = "none" \/ n = h
          /\ helper' = [IF h = None THEN helper ELSE Exited(h)
                          EXCEPT ![n] = [NoHelper EXCEPT !.st = "asked", !.bin = op[t].bin]]
          /\ proc' = IF h = None THEN proc ELSE ChildStopped(h)
    BY <1>7, Zenon DEF Spawn
  <2>3. h \in SessionHelper \cup {None} /\ op[t].bin \in Bin \cup {None}
    BY <1>1, EndpointsOK, Zenon DEF Op
  <2> HIDE DEF h
  <2>4. Children' /\ Tame
    BY <1>1, <2>2, <2>3, SpawnProcs, Zenon
  <2>5. SameJob(q, op[t], "spawn")
    BY <1>1, StepOK, Zenon
  <2> HIDE DEF q
  <2>6. /\ q \in Op /\ q.pid = op[t].pid /\ op[t].kind # "watch"
        /\ t = "main" => MainShape(q, active)
        /\ t = "init" => InitShape(q)
    BY <1>1, <2>1, <2>5, Zenon DEF Threads, SameJob, MainShape, InitShape, Stops
  <2>7. prompted' = FALSE
    BY <1>1, <2>1, <2>6, Zenon
  <2> QED
    BY <1>1, <2>1, <2>4, <2>6, <2>7, ThreadStep, Zenon DEF Plain
<1> QED
  BY <1>2, <1>3, <1>4, <1>5, <1>6, <1>7, Zenon DEF EnsureStep

\* The watcher only takes a helper that is there.
LEMMA ExistingKeeps ==
  ASSUME DInv, EnsureExisting
  PROVE  DInv'
<1> DEFINE o == op["main"]
           q == [o EXCEPT !.at = "record", !.resp = None, !.bin = None]
<1>1. /\ o.at = "ensure" /\ o.kind = "watch" /\ (Proceed("main") \/ Finish("main"))
      /\ UNCHANGED <<session, runfiles, link, procs, history>>
  BY Zenon DEF EnsureExisting
<1>2. o \in Op /\ MainShape(o, active)
  BY Zenon DEF DInv, Threads, Thread
<1>3. CASE Finish("main")
  BY <1>1, <1>3, ThreadStops, Zenon
<1>4. CASE Proceed("main")
  <2>1. op' = [op EXCEPT !["main"] = q]
    BY <1>4, Zenon DEF Proceed, Goto
  <2>2. SameJob(q, o, "record")
    BY <1>2, StepOK, Zenon
  <2> HIDE DEF q
  <2>3. MainShape(q, active) /\ q.at = "record"
    BY <1>1, <1>2, <2>2, Zenon DEF MainShape, SameJob, Stops
  <2> QED
    BY <1>1, <2>1, <2>2, <2>3, ThreadGoes, Zenon
<1> QED
  BY <1>1, <1>3, <1>4, Zenon

\* The run is recorded without a pid, and only for a user or a watcher who wants it.
LEMMA RecordKeeps ==
  ASSUME DInv, Record
  PROVE  DInv'
<1> DEFINE o == op["main"]
           q == [o EXCEPT !.at = "find"]
           r == [profile |-> o.profile, old |-> FALSE, aged |-> FALSE]
<1>1. /\ o.at = "record" /\ pidfile' = None /\ state' = r /\ op' = [op EXCEPT !["main"] = q]
      /\ UNCHANGED <<session, link, procs, history>>
  BY Zenon DEF Record, Step, Goto
<1>2. o \in Op /\ MainShape(o, active) /\ Threads /\ Plain /\ prompted = FALSE
  BY Zenon DEF DInv, Threads, Thread
<1>3. r \in RunState
  BY <1>1, <1>2, Zenon DEF MainShape, RunState, Stops
<1>4. SameJob(q, o, "find")
  BY <1>2, StepOK, Zenon
<1> HIDE DEF q, r
<1>5. MainShape(q, active) /\ q \in Op /\ q.pid = None /\ o.kind \in {"connect", "watch"}
  BY <1>1, <1>2, <1>4, Zenon DEF MainShape, SameJob, Stops
<1>6. Threads' /\ op'["main"] = q
  <2>1. active' = active
    BY <1>1, Zenon DEF session
  <2> QED
    BY <1>1, <1>2, <1>5, <2>1, Moves, Zenon
<1>7. Plain' /\ Final' /\ prompted' = FALSE
  BY <1>1, <1>2, <1>5, Zenon DEF DInv, Plain, Final, session, link, history
<1>8. Children'
  BY <1>1, ProcsStay, Zenon
<1>9. NeverAimsAtForeign' /\ PidIsOurs'
  BY <1>1, <1>5, <1>6, Zenon DEF NeverAimsAtForeign, PidIsOurs
<1> QED
  BY <1>1, <1>3, <1>6, <1>7, <1>8, <1>9, Zenon DEF DInv

\* do_connect looks for the helper again before it calls.
LEMMA FindKeeps ==
  ASSUME DInv, Find
  PROVE  DInv'
<1>1. /\ op["main"].at = "find" /\ Ping("main", LiveEndpoint, "call")
      /\ UNCHANGED <<session, runfiles, link, history>>
  BY Zenon DEF Find
<1>2. \A q \in Op : SameJob(q, op["main"], "call") => MainShape(q, active)
  BY <1>1, Zenon DEF DInv, Threads, SameJob, MainShape, Stops
<1> QED
  BY <1>1, <1>2, EndpointsOK, PingKeeps, Zenon

\* What the answer of the helper leaves the main thread with.
LEMMA AnswerOK ==
  ASSUME DInv, op["main"].at = "call", NEW ok \in BOOLEAN, Answer(ok)
  PROVE  \E q \in Op : /\ op' = [op EXCEPT !["main"] = q] /\ MainShape(q, active)
                       /\ q.pid = None /\ op["main"].pid = None /\ q.kind = op["main"].kind
                       /\ q.kind \in {"connect", "watch"}
<1> DEFINE o == op["main"]
           q == [o EXCEPT !.at = "answer", !.resp = None, !.ok = ok]
<1>1. o \in Op /\ MainShape(o, active)
  BY Zenon DEF DInv, Threads, Thread
<1>2. SameJob(q, o, "answer")
  BY <1>1, StepOK, Zenon
<1>3. op' = [op EXCEPT !["main"] = q]
  BY Zenon DEF Answer, Goto
<1> HIDE DEF q
<1>4. q \in Op /\ MainShape(q, active) /\ q.pid = None /\ o.pid = None /\ q.kind = o.kind
      /\ q.kind \in {"connect", "watch"}
  BY <1>1, <1>2, Zenon DEF SameJob, MainShape, Stops
<1> QED
  BY <1>3, <1>4, Zenon

\* One client at a time, started with its pid on file.
LEMMA HelperConnectsKeeps ==
  ASSUME DInv, HelperConnects
  PROVE  DInv'
<1> DEFINE h == Callee
<1>1. /\ op["main"].at = "call" /\ Serves(h) /\ ReapedChild(h) = None /\ Answer(TRUE)
      /\ UNCHANGED <<state, session, link, history>>
  BY Zenon DEF HelperConnects
<1>2. PICK c \in site.pids :
        /\ ReapedProc(h)[c].st = "free"
        /\ helper' = [helper EXCEPT ![h].child = c]
        /\ proc' = [ReapedProc(h) EXCEPT ![c] = [st |-> "running", by |-> h]]
        /\ pidfile' = c
  BY Zenon DEF HelperConnects
<1>3. c \in Client
  BY DesktopAssumption, Zenon DEF DInv, Plain
<1>4. h \in Helper /\ helper[h].st = "up"
  BY <1>1, EndpointsOK, Zenon
<1>5. PICK q \in Op : /\ op' = [op EXCEPT !["main"] = q] /\ MainShape(q, active)
                      /\ q.pid = None /\ q.kind = op["main"].kind
                      /\ q.kind \in {"connect", "watch"}
  BY <1>1, AnswerOK, Zenon
<1> HIDE DEF h
<1>6. Children' /\ Tame /\ proc'[c].st = "running"
  BY <1>1, <1>2, <1>3, <1>4, ConnectsKeeps, Zenon DEF DInv
<1>7. Threads' /\ op'["main"] = q
  <2>1. active' = active /\ Threads
    BY <1>1, Zenon DEF session, DInv
  <2> QED
    BY <1>5, <2>1, Moves, Zenon
<1>8. Plain' /\ Final' /\ prompted' = FALSE
  BY <1>1, <1>5, Zenon DEF DInv, Plain, Final, session, link, history
<1>9. NeverAimsAtForeign' /\ PidIsOurs'
  BY <1>2, <1>5, <1>6, <1>7, Zenon DEF NeverAimsAtForeign, PidIsOurs
<1> QED
  BY <1>1, <1>2, <1>3, <1>6, <1>7, <1>8, <1>9, Zenon DEF DInv

\* Without its pid file the client is disowned; nothing is on file.
LEMMA PidFileFailsKeeps ==
  ASSUME DInv, PidFileFails
  PROVE  DInv'
<1> DEFINE h == Callee
<1>1. /\ op["main"].at = "call" /\ Serves(h) /\ ReapedChild(h) = None /\ Answer(FALSE)
      /\ helper' = [helper EXCEPT ![h].child = None] /\ pidfile' = None
      /\ UNCHANGED <<state, session, link, history>>
  BY Zenon DEF PidFileFails
<1>2. PICK c \in site.pids, p \in {NoProcess, [st |-> "disowned", by |-> h]} :
        proc' = [ReapedProc(h) EXCEPT ![c] = p]
  BY Zenon DEF PidFileFails
<1>3. c \in Client /\ h \in Helper /\ Children
  BY <1>1, EndpointsOK, DesktopAssumption, Zenon DEF DInv, Plain
<1>4. PICK q \in Op : /\ op' = [op EXCEPT !["main"] = q] /\ MainShape(q, active)
                      /\ q.pid = None /\ q.kind = op["main"].kind
                      /\ q.kind \in {"connect", "watch"}
  BY <1>1, AnswerOK, Zenon
<1> HIDE DEF h
<1>5. Children' /\ Tame
  BY <1>1, <1>2, <1>3, DisownsKeeps, Zenon
<1>6. Threads' /\ op'["main"] = q
  <2>1. active' = active /\ Threads
    BY <1>1, Zenon DEF session, DInv
  <2> QED
    BY <1>4, <2>1, Moves, Zenon
<1>7. Plain' /\ Final' /\ prompted' = FALSE
  BY <1>1, <1>4, <1>6, Zenon DEF DInv, Plain, Final, session, link, history
<1> QED
  BY <1>1, <1>4, <1>5, <1>6, <1>7, Assemble, Zenon

\* A connect fails: no helper, a refusal, or no client started.
LEMMA ConnectFailsKeeps ==
  ASSUME DInv, ConnectFails
  PROVE  DInv'
<1>1. /\ op["main"].at = "call" /\ Answer(FALSE)
      /\ UNCHANGED <<session, runfiles, link, history>>
  BY Zenon DEF ConnectFails
<1>2. PICK q \in Op : /\ op' = [op EXCEPT !["main"] = q] /\ MainShape(q, active)
                      /\ q.pid = None
  BY <1>1, AnswerOK, Zenon
<1>3. Children' /\ Tame
  <2>1. CASE Serves(Callee)
    <3>1. Callee \in Helper
      BY <2>1, EndpointsOK, Zenon
    <3>2. /\ helper' = [helper EXCEPT ![Callee].child = ReapedChild(Callee)]
          /\ proc' = ReapedProc(Callee)
      BY <2>1, Zenon DEF ConnectFails
    <3> QED
      BY <3>1, <3>2, ReapKeeps, Zenon DEF DInv
  <2>2. CASE ~Serves(Callee)
    BY <2>2, ProcsStay, Zenon DEF ConnectFails
  <2> QED
    BY <2>1, <2>2, Zenon
<1>4. /\ UNCHANGED <<gui, active, bin, site, runfiles, down>>
      /\ token' \in BOOLEAN /\ port' \in SessionHelper \cup {None} /\ presence' \in BOOLEAN
      /\ prompted' = FALSE
  BY <1>1, Zenon DEF session, link, history, DInv, Plain
<1> QED
  BY <1>1, <1>2, <1>3, <1>4, ThreadStep, Zenon

\* Removing the files of a run leaves no others behind.
LEMMA RemoveOK ==
  ASSUME NEW s, Remove(s)
  PROVE  state' \in {state, None} /\ pidfile' \in {pidfile, None}
BY Zenon DEF Remove

\* The end of a connect removes its files if it failed.
LEMMA ConnectReturnsKeeps ==
  ASSUME DInv, ConnectReturns
  PROVE  DInv'
<1> DEFINE o == op["main"]
<1>1. /\ o.at = "answer" /\ op' = [op EXCEPT !["main"] = Idle]
      /\ UNCHANGED <<gui, bin, presence, site, link, procs, history>>
      /\ state' \in {state, None} /\ pidfile' \in {pidfile, None}
      /\ active' \in {active, o.profile}
  BY RemoveOK, Zenon DEF ConnectReturns, Finish, Goto
<1>2. Threads /\ MainShape(o, active)
  BY Zenon DEF DInv, Threads
<1>3. o.kind \in {"connect", "watch"} /\ o.profile \in Profile
  BY <1>1, <1>2, Zenon DEF MainShape, Stops
<1>4. Threads' /\ op'["main"] = Idle
  BY <1>1, <1>2, IdleOK, Moves, Zenon DEF MainShape
<1>5. Plain' /\ Final' /\ prompted' = FALSE
  BY <1>1, <1>3, Zenon DEF DInv, Plain, Final, link, history
<1>6. Children' /\ Tame
  BY <1>1, ProcsStay, Zenon
<1> QED
  BY <1>1, <1>4, <1>5, <1>6, IdleOK, Assemble, Zenon

\* A user's or the watcher's connect begins, or is refused at once.
LEMMA BeginOK ==
  ASSUME DInv, NEW kind \in {"connect", "watch"}, NEW p \in Profile, BeginConnect(kind, p)
  PROVE  /\ state' \in {state, None} /\ pidfile' \in {pidfile, None}
         /\ \E q \in Op : /\ op' = [op EXCEPT !["main"] = q] /\ MainShape(q, active)
                          /\ q.pid = None /\ q.kind \in {"none", kind}
<1>1. state' \in {state, None} /\ pidfile' \in {pidfile, None}
  BY RemoveOK, Zenon DEF BeginConnect
<1>2. CASE Finish("main")
  BY <1>1, <1>2, IdleOK, Zenon DEF Finish, Goto, MainShape
<1>3. CASE ~Finish("main")
  <2> DEFINE q == [Idle EXCEPT !.at = "ensure", !.kind = kind, !.profile = p, !.bin = bin]
  <2>1. op' = [op EXCEPT !["main"] = q]
    BY <1>3, Zenon DEF BeginConnect, Goto
  <2>2. bin \in Bin \cup {None}
    BY Zenon DEF DInv, Plain
  <2>3. q \in Op /\ q.at = "ensure" /\ q.kind = kind /\ q.profile = p /\ q.pid = None
    BY <2>2, IdleOK, Zenon DEF Op
  <2> HIDE DEF q
  <2> QED
    BY <1>1, <2>1, <2>3, Zenon DEF MainShape
<1> QED
  BY <1>2, <1>3, Zenon

\* The user connects: a new attempt.
LEMMA UserConnectKeeps ==
  ASSUME DInv, NEW p \in Profile, UserConnect(p)
  PROVE  DInv'
<1>1. /\ BeginConnect("connect", p) /\ down' = FALSE
      /\ UNCHANGED <<prompted, session, link, procs>>
  BY Zenon DEF UserConnect
<1>2. state' \in {state, None} /\ pidfile' \in {pidfile, None}
  BY <1>1, BeginOK, Zenon
<1>3. PICK q \in Op : op' = [op EXCEPT !["main"] = q] /\ MainShape(q, active) /\ q.pid = None
  BY <1>1, BeginOK, Zenon
<1>4. Threads' /\ op'["main"] = q
  <2>1. active' = active /\ Threads
    BY <1>1, Zenon DEF session, DInv
  <2> QED
    BY <1>3, <2>1, Moves, Zenon
<1>5. Plain' /\ Final' /\ prompted' = FALSE
  BY <1>1, Zenon DEF DInv, Plain, Final, session, link
<1>6. Children' /\ Tame
  BY <1>1, ProcsStay, Zenon
<1> QED
  BY <1>2, <1>3, <1>4, <1>5, <1>6, Assemble, Zenon

\* The watcher retries for the intent, or drops it.
LEMMA WatchDecidesKeeps ==
  ASSUME DInv, WatchDecides
  PROVE  DInv'
<1>1. op["main"].at = "retry" /\ UNCHANGED <<gui, bin, presence, site, link, procs, history>>
  BY Zenon DEF WatchDecides
<1>2. Threads /\ op["main"].kind = "watch" /\ active # None /\ active \in Profile /\ ~down
  BY <1>1, Zenon DEF DInv, Threads, MainShape, Plain, Stops, Final
<1>3. Children' /\ Tame
  BY <1>1, ProcsStay, Zenon
<1>4. CASE active' = None /\ Finish("main") /\ UNCHANGED runfiles
  <2>1. Threads' /\ op'["main"] = Idle
    BY <1>2, <1>4, IdleOK, Moves, Zenon DEF MainShape, Finish, Goto
  <2>2. Plain' /\ Final' /\ prompted' = FALSE
    BY <1>1, <1>2, <1>4, Zenon DEF DInv, Plain, Final, link, history
  <2> QED
    BY <1>3, <1>4, <2>1, <2>2, IdleOK, Assemble, Zenon DEF runfiles
<1>5. CASE BeginConnect("watch", active) /\ UNCHANGED active
  <2>1. state' \in {state, None} /\ pidfile' \in {pidfile, None}
    BY <1>2, <1>5, BeginOK, Zenon
  <2>2. PICK q \in Op : op' = [op EXCEPT !["main"] = q] /\ MainShape(q, active) /\ q.pid = None
    BY <1>2, <1>5, BeginOK, Zenon
  <2>3. Threads' /\ op'["main"] = q
    BY <1>2, <1>5, <2>2, Moves, Zenon
  <2>4. Plain' /\ Final' /\ prompted' = FALSE
    BY <1>1, <1>2, <1>5, Zenon DEF DInv, Plain, Final, link, history
  <2> QED
    BY <1>3, <2>1, <2>2, <2>3, <2>4, Assemble, Zenon
<1> QED
  BY <1>4, <1>5, Zenon DEF WatchDecides

\* A round that finds the tunnel down and the intent up.
LEMMA WatchPingKeeps ==
  ASSUME DInv, WatchPing
  PROVE  DInv'
<1> DEFINE h == LiveEndpoint
           o == [Idle EXCEPT !.at = "retry", !.kind = "watch"]
           x == [from |-> h, child |-> ReapedChild(h), bin |-> helper[h].bin]
<1>1. /\ active # None /\ op["main"].at = "idle" /\ UNCHANGED <<session, link, history>>
      /\ state' \in {state, None} /\ pidfile' \in {pidfile, None}
  BY RemoveOK, Zenon DEF WatchPing, WatchRound
<1>2. h \in Helper \cup {None} /\ Threads /\ ~down
  BY <1>1, EndpointsOK, Zenon DEF DInv, Final
<1>3. o \in Op /\ o.at = "retry" /\ o.kind = "watch" /\ o.pid = None
  BY IdleOK, Zenon DEF Op
<1>4. /\ Children' /\ Tame
      /\ \E q \in Op : /\ op' = [op EXCEPT !["main"] = q]
                       /\ q.at = "retry" /\ q.kind = "watch" /\ q.pid = None
  <2>1. CASE h = None
    <3>1. op' = [op EXCEPT !["main"] = o] /\ UNCHANGED procs
      BY <2>1, Zenon DEF WatchPing, WatchRound, Goto
    <3> HIDE DEF o
    <3> QED
      BY <1>3, <3>1, ProcsStay, Zenon
  <2>2. CASE h # None
    <3> DEFINE q == [o EXCEPT !.resp = x]
    <3>1. /\ op' = [op EXCEPT !["main"] = q]
          /\ helper' = [helper EXCEPT ![h].child = ReapedChild(h)] /\ proc' = ReapedProc(h)
      BY <2>2, Zenon DEF WatchPing, WatchRound, Goto
    <3>2. x \in Reply
      BY <1>2, <2>2, ReapedOK, Zenon DEF Reply, DInv, Children, HelperProc
    <3> HIDE DEF o, x
    <3>3. q \in Op /\ q.at = "retry" /\ q.kind = "watch" /\ q.pid = None
      BY <1>3, <3>2, Zenon DEF Op
    <3> HIDE DEF q
    <3>4. Children' /\ Tame
      BY <1>2, <2>2, <3>1, ReapKeeps, Zenon DEF DInv
    <3> QED
      BY <3>1, <3>3, <3>4, Zenon
  <2> QED
    BY <2>1, <2>2, Zenon
<1>5. PICK q \in Op : /\ op' = [op EXCEPT !["main"] = q]
                      /\ q.at = "retry" /\ q.kind = "watch" /\ q.pid = None
  BY <1>4, Zenon
<1>6. Threads' /\ op'["main"] = q
  <2>1. active' = active /\ MainShape(q, active)
    BY <1>1, <1>5, Zenon DEF session, MainShape
  <2> QED
    BY <1>2, <1>5, <2>1, Moves, Zenon
<1>7. Plain' /\ Final' /\ prompted' = FALSE
  BY <1>1, <1>2, Zenon DEF DInv, Plain, Final, session, link, history
<1> QED
  BY <1>1, <1>4, <1>5, <1>6, <1>7, Assemble, Zenon

-----------------------------------------------------------------------------
(* disconnect.                                                             *)

\* The pid aimed at is that of a run of this boot; the intent goes first.
LEMMA UserDisconnectKeeps ==
  ASSUME DInv, UserDisconnect
  PROVE  DInv'
<1>1. /\ op["main"].at = "idle" /\ active' = None /\ down' = (StatusOf # "connected")
      /\ UNCHANGED <<gui, bin, presence, site, prompted, link, procs>>
      /\ state' \in {state, None} /\ pidfile' \in {pidfile, None}
  BY RemoveOK, Zenon DEF UserDisconnect
<1>2. Threads /\ op["main"].kind = "none"
  BY <1>1, Zenon DEF DInv, Threads, MainShape, Stops
<1>3. Children' /\ Tame
  BY <1>1, ProcsStay, Zenon
<1>4. Plain' /\ prompted' = FALSE
  <2>1. down' \in BOOLEAN
    BY <1>1, Zenon
  <2> QED
    BY <1>1, <2>1, Zenon DEF DInv, Plain, link
<1>5. CASE StatusOf = "connected"
  <2> DEFINE q == [Idle EXCEPT !.at = "stop", !.kind = "disconnect", !.pid = pidfile]
  <2>1. state # None /\ ~state.old /\ pidfile # None
    BY <1>5, Zenon DEF StatusOf, BeforeBoot
  <2>2. op' = [op EXCEPT !["main"] = q] /\ down' = FALSE
    BY <1>1, <1>5, Zenon DEF UserDisconnect, Goto
  <2>3. pidfile \in Client /\ proc[pidfile].st # "foreign"
    BY <2>1, Zenon DEF DInv, PidIsOurs
  <2>4. q \in Op /\ q.at = "stop" /\ q.kind = "disconnect" /\ q.pid = pidfile
    BY <2>3, IdleOK, Zenon DEF Op
  <2> HIDE DEF q
  <2>5. Threads' /\ op'["main"] = q
    BY <1>1, <1>2, <2>1, <2>2, <2>4, Moves, Zenon DEF MainShape, Stops
  <2>6. NeverAimsAtForeign'
    BY <1>3, <2>3, <2>4, <2>5, Zenon DEF NeverAimsAtForeign, Tame
  <2>7. PidIsOurs'
    BY <1>1, <1>3, Zenon DEF DInv, PidIsOurs, Tame
  <2>8. state' \in RunState \cup {None} /\ pidfile' \in Client \cup {None}
    BY <1>1, Zenon DEF DInv
  <2> QED
    BY <1>3, <1>4, <2>2, <2>5, <2>6, <2>7, <2>8, Zenon DEF DInv, Final
<1>6. CASE StatusOf # "connected"
  <2>1. UNCHANGED op
    BY <1>6, Zenon DEF UserDisconnect
  <2>2. state' = None
    BY <1>6, Zenon DEF UserDisconnect, Remove, StatusOf
  <2>3. Threads'
    BY <1>1, <1>2, <2>1, Zenon DEF Threads, MainShape
  <2>4. Final'
    BY <1>1, <1>2, <2>1, <2>2, Zenon DEF Final
  <2> QED
    BY <1>1, <1>3, <1>4, <2>1, <2>3, <2>4, Assemble, Zenon
<1> QED
  BY <1>5, <1>6, Zenon

\* A disconnect pings the helper first.
LEMMA StopPingKeeps ==
  ASSUME DInv, StopPing
  PROVE  DInv'
<1>1. /\ op["main"].at = "stop" /\ Ping("main", LiveEndpoint, "choose")
      /\ UNCHANGED <<session, runfiles, link, history>>
  BY Zenon DEF StopPing
<1>2. \A q \in Op : SameJob(q, op["main"], "choose") => MainShape(q, active)
  BY <1>1, Zenon DEF DInv, Threads, SameJob, MainShape, Stops
<1> QED
  BY <1>1, <1>2, EndpointsOK, PingKeeps, Zenon

\* It asks the helper to stop the client.
LEMMA StopAsksKeeps ==
  ASSUME DInv, StopAsks
  PROVE  DInv'
<1> DEFINE o == op["main"]
           h == LiveEndpoint
           q == [o EXCEPT !.at = "stopping", !.resp.from = h]
           g == [helper[h] EXCEPT !.busy = TRUE]
<1>1. /\ o.at = "choose" /\ o.resp # None /\ Serves(h) /\ proc' = proc
      /\ helper' = [helper EXCEPT ![h].busy = TRUE] /\ op' = [op EXCEPT !["main"] = q]
      /\ UNCHANGED <<session, runfiles, link, history>>
  BY Zenon DEF StopAsks, Goto
<1>2. o \in Op /\ MainShape(o, active) /\ Children
  BY Zenon DEF DInv, Threads, Thread
<1>3. h \in Helper
  BY <1>1, EndpointsOK, Zenon
<1> HIDE DEF h
<1>4. SameJob(q, o, "stopping")
  <2> DEFINE x == [o.resp EXCEPT !.from = h]
  <2>1. o.resp \in Reply
    BY <1>1, <1>2, Zenon DEF Op
  <2>2. x \in Reply
    BY <1>3, <2>1, Zenon DEF Reply
  <2>3. q = [o EXCEPT !.at = "stopping", !.resp = x]
    BY <1>2, Zenon DEF Op
  <2> HIDE DEF x, q
  <2> QED
    BY <1>2, <2>2, <2>3, StepOK, Zenon
<1> HIDE DEF q
<1>5. MainShape(q, active) /\ q \in Op /\ q.pid = o.pid
  BY <1>1, <1>2, <1>4, Zenon DEF SameJob, MainShape, Stops
<1>6. Children' /\ Tame
  <2>1. helper[h] \in HelperProc
    BY <1>2, <1>3, Zenon DEF Children
  <2>2. g \in HelperProc /\ g.child = helper[h].child /\ g.st = helper[h].st
    BY <2>1, Zenon DEF HelperProc
  <2>3. helper' = [helper EXCEPT ![h] = g]
    BY <1>1, <1>2, <1>3, Zenon DEF Children
  <2> HIDE DEF g
  <2> QED
    BY <1>1, <1>2, <1>3, <2>2, <2>3, SameChild, Zenon
<1>7. /\ UNCHANGED <<gui, active, bin, site, runfiles, down>>
      /\ token' \in BOOLEAN /\ port' \in SessionHelper \cup {None} /\ presence' \in BOOLEAN
      /\ prompted' = FALSE
  BY <1>1, Zenon DEF session, link, history, DInv, Plain
<1> QED
  BY <1>1, <1>5, <1>6, <1>7, ThreadStep, Zenon

\* A stop goes on with the pid it set out with.
LEMMA StopGoesOn ==
  ASSUME DInv, op["main"].at \in Stops, NEW a \in {"kill", "reap"}, Step("main", a)
  PROVE  \E q \in Op : /\ op' = [op EXCEPT !["main"] = q] /\ MainShape(q, active)
                       /\ q.pid = op["main"].pid /\ SameJob(q, op["main"], q.at)
<1> DEFINE o == op["main"]
           q == [o EXCEPT !.at = a]
<1>1. o \in Op /\ MainShape(o, active)
  BY Zenon DEF DInv, Threads, Thread
<1>2. SameJob(q, o, a) /\ op' = [op EXCEPT !["main"] = q]
  BY <1>1, StepOK, Zenon DEF Step, Goto
<1> HIDE DEF q
<1>3. q \in Op /\ MainShape(q, active) /\ q.pid = o.pid /\ q.at = a
  BY <1>1, <1>2, Zenon DEF SameJob, MainShape, Stops
<1> QED
  BY <1>2, <1>3, Zenon

\* When no helper supervises that pid, it goes on to signal it.
LEMMA StopByPidKeeps ==
  ASSUME DInv, StopByPid \/ StopLost
  PROVE  DInv'
<1>1. /\ op["main"].at \in Stops /\ Step("main", "kill")
      /\ UNCHANGED <<session, runfiles, link, procs, history>>
  BY Zenon DEF StopByPid, StopLost, Stops
<1>2. PICK q \in Op : /\ op' = [op EXCEPT !["main"] = q] /\ MainShape(q, active)
                      /\ SameJob(q, op["main"], q.at)
  BY <1>1, StopGoesOn, Zenon
<1> QED
  BY <1>1, <1>2, ThreadGoes, Zenon DEF Stops

\* kill_elevated is only ever a disconnect's.
LEMMA KillKeeps ==
  ASSUME DInv, Kill
  PROVE  DInv'
<1> DEFINE o == op["main"]
           c == o.pid
<1>1. /\ o.at = "kill" /\ prompted' = (prompted \/ o.kind = "watch")
      /\ UNCHANGED <<helper, down, session, runfiles, link>>
      /\ \/ Finish("main") /\ UNCHANGED proc
         \/ Step("main", "reap") /\ (proc' = Dead(c) \/ proc' = proc)
  BY Zenon DEF Kill, RaiseDialog
<1>2. o \in Op /\ o.kind = "disconnect" /\ c \in Client
  BY <1>1, Zenon DEF DInv, Threads, Thread, MainShape, Op, Stops
<1>3. prompted' = FALSE
  BY <1>1, <1>2, Zenon DEF DInv
<1>4. Children' /\ Tame
  <2>1. proc' = Dead(c) \/ proc' = proc
    BY <1>1, Zenon
  <2> QED
    BY <1>1, <1>2, <2>1, DeadOK, SameParent DEF DInv, Children, Tame
<1>5. /\ UNCHANGED <<gui, active, bin, site, runfiles, down>>
      /\ token' \in BOOLEAN /\ port' \in SessionHelper \cup {None} /\ presence' \in BOOLEAN
  BY <1>1, Zenon DEF session, link, DInv, Plain
<1>6. CASE Finish("main")
  BY <1>1, <1>3, <1>4, <1>5, <1>6, ThreadEnds, Zenon
<1>7. CASE Step("main", "reap")
  <2>1. PICK q \in Op : /\ op' = [op EXCEPT !["main"] = q] /\ MainShape(q, active)
                        /\ q.pid = op["main"].pid
    BY <1>1, <1>7, StopGoesOn, Zenon DEF Stops
  <2> QED
    BY <1>1, <1>3, <1>4, <1>5, <2>1, ThreadStep, Zenon
<1> QED
  BY <1>1, <1>6, <1>7, Zenon

\* The disconnect is over: no run on file, and no intent since it began.
LEMMA ReapEndKeeps ==
  ASSUME DInv, Reap
  PROVE  DInv'
<1>1. /\ op["main"].at = "reap" /\ state' = None /\ pidfile' = None
      /\ down' = ~PidAlive(op["main"].pid) /\ op' = [op EXCEPT !["main"] = Idle]
      /\ UNCHANGED <<prompted, session, link, procs>>
  BY Zenon DEF Reap, Finish, Goto
<1>2. Threads /\ active = None
  BY <1>1, Zenon DEF DInv, Threads, MainShape, Stops
<1>3. Threads' /\ op'["main"] = Idle
  <2>1. active' = active
    BY <1>1, Zenon DEF session
  <2> QED
    BY <1>1, <1>2, <2>1, IdleOK, Moves, Zenon DEF MainShape
<1>4. down' \in BOOLEAN
  BY <1>1, Zenon
<1>5. Plain' /\ Final' /\ prompted' = FALSE
  BY <1>1, <1>2, <1>3, <1>4, IdleOK, Zenon DEF DInv, Plain, Final, session, link
<1>6. Children' /\ Tame
  BY <1>1, ProcsStay, Zenon
<1> QED
  BY <1>1, <1>3, <1>5, <1>6, IdleOK, Assemble, Zenon

-----------------------------------------------------------------------------
(* The watcher's adoption, the status poll, and the helpers' own life.     *)

\* A run that is up was not disconnected.
LEMMA WatchAdoptsKeeps ==
  ASSUME DInv, WatchAdopts
  PROVE  DInv'
<1>1. /\ op["main"].at = "idle" /\ StatusOf = "connected" /\ active = None
      /\ active' = state.profile
      /\ UNCHANGED <<gui, bin, op, presence, site, runfiles, link, procs, history>>
  BY Zenon DEF WatchAdopts
<1>2. state # None /\ state \in RunState /\ ~down
  BY <1>1, Zenon DEF StatusOf, DInv, Final
<1>3. Plain' /\ Final' /\ prompted' = FALSE
  BY <1>1, <1>2, Zenon DEF DInv, Plain, Final, RunState, link, history
<1>4. Threads'
  BY <1>1, Zenon DEF DInv, Threads, MainShape, Stops
<1>5. Children' /\ Tame
  BY <1>1, ProcsStay, Zenon
<1> QED
  BY <1>1, <1>3, <1>4, <1>5, Assemble, Zenon DEF runfiles

\* The status poll removes the files of a run that is over.
LEMMA PollKeeps ==
  ASSUME DInv, PollReads \/ PollDeletes
  PROVE  DInv'
<1>1. UNCHANGED <<session, link, procs, history>>
  BY Zenon DEF PollReads, PollDeletes
<1>2. Children' /\ Tame
  BY <1>1, ProcsStay, Zenon
<1>3. state' \in {state, None} /\ pidfile' \in {pidfile, None}
  BY RemoveOK, Zenon DEF PollReads, PollDeletes, runfiles
<1>4. \E q \in Op : op' = [op EXCEPT !["poll"] = q] /\ PollShape(q)
  <2>1. CASE PollReads
    <3> DEFINE b == (StatusOf = "dead")
               q == [Idle EXCEPT !.at = "delete", !.kind = "status", !.ok = b]
    <3>1. op' = [op EXCEPT !["poll"] = q]
      BY <2>1, Zenon DEF PollReads, Goto
    <3>2. b \in BOOLEAN
      BY Zenon
    <3> HIDE DEF b
    <3>3. q \in Op /\ q.at = "delete" /\ q.kind = "status"
      BY <3>2, IdleOK, ZenonT(60) DEF Op
    <3> HIDE DEF q
    <3> QED
      BY <3>1, <3>3, Zenon DEF PollShape
  <2>2. CASE PollDeletes
    BY <2>2, IdleOK, Zenon DEF PollDeletes, Finish, Goto, PollShape
  <2> QED
    BY <2>1, <2>2, Zenon
<1>5. PICK q \in Op : op' = [op EXCEPT !["poll"] = q] /\ PollShape(q)
  BY <1>4, Zenon
<1>6. Threads' /\ op'["main"] = op["main"]
  BY <1>1, <1>5, Zenon DEF DInv, Threads, Thread, session
<1>7. Plain' /\ Final' /\ prompted' = FALSE
  BY <1>1, <1>3, <1>6, Zenon DEF DInv, Plain, Final, session, link, history
<1> QED
  BY <1>2, <1>3, <1>6, <1>7, Assemble, Zenon

\* What happens to helpers and clients by themselves.
LEMMA OutsideStep ==
  ASSUME DInv, Children', Tame, UNCHANGED <<op, session, runfiles, history>>,
         token' \in BOOLEAN, port' \in SessionHelper \cup {None}
  PROVE  DInv'
<1>1. Plain' /\ Final' /\ prompted' = FALSE /\ Threads'
  BY Zenon DEF DInv, Plain, Final, Threads, session, runfiles, history
<1> QED
  BY <1>1, Assemble, Zenon DEF runfiles

\* A helper that was not up exits without a child.
LEMMA ExitKeeps ==
  ASSUME Children, NEW h \in Helper, helper[h].st # "up", helper' = Exited(h), proc' = proc
  PROVE  Children' /\ Tame
<1>1. /\ helper' \in [Helper -> HelperProc]
      /\ helper'[h].st = "none" /\ helper'[h].child = None
      /\ \A g \in Helper \ {h} : helper'[g] = helper[g]
  BY ExitedOK, Zenon
<1> QED
  BY <1>1, DesktopAssumption DEF Children, Tame

\* A helper that was asked for comes up, or the dialog is declined.
LEMMA HelperStartsKeeps ==
  ASSUME DInv, NEW h \in Helper, HelperStarts(h) \/ Declined(h)
  PROVE  DInv'
<1>1. helper[h].st = "asked" /\ UNCHANGED <<op, token, proc, session, runfiles, history>>
  BY Zenon DEF HelperStarts, Declined, link
<1>2. h \in SessionHelper /\ Children /\ Plain
  BY <1>1, Zenon DEF DInv, Children
<1>3. CASE helper' = Exited(h) /\ port' \in {port, None}
  BY <1>1, <1>2, <1>3, ExitKeeps, OutsideStep, Zenon DEF Plain
<1>4. CASE helper' = [helper EXCEPT ![h].st = "up"] /\ port' = h
  <2> DEFINE q == [helper[h] EXCEPT !.st = "up"]
  <2>1. helper[h] \in HelperProc /\ helper' = [helper EXCEPT ![h] = q]
    BY <1>2, <1>4, Zenon DEF Children
  <2>2. q \in HelperProc /\ q.st = "up" /\ q.child = helper[h].child
    BY <2>1, Zenon DEF HelperProc
  <2> HIDE DEF q
  <2>3. Children' /\ Tame
    BY <1>1, <1>2, <2>1, <2>2, SameChild, Zenon
  <2> QED
    BY <1>1, <1>2, <1>4, <2>3, OutsideStep, Zenon DEF Plain
<1> QED
  BY <1>3, <1>4, Zenon DEF HelperStarts, Declined, link

\* The helper stops its client and answers the disconnect.
LEMMA HelperStopsKeeps ==
  ASSUME DInv, NEW h \in Helper, HelperStops(h)
  PROVE  DInv'
<1>1. Children' /\ Tame
  BY StopsKeeps, Zenon DEF DInv
<1>2. UNCHANGED <<session, runfiles, link, history>>
  BY Zenon DEF HelperStops
<1>3. CASE UNCHANGED op
  BY <1>1, <1>2, <1>3, OutsideStep, Zenon DEF link, DInv, Plain
<1>4. ASSUME NEW a \in {"kill", "reap"}, op["main"].at = "stopping", Step("main", a)
      PROVE  DInv'
  <2>1. PICK q \in Op : /\ op' = [op EXCEPT !["main"] = q] /\ MainShape(q, active)
                        /\ q.pid = op["main"].pid
    BY <1>4, StopGoesOn, Zenon DEF Stops
  <2>2. /\ UNCHANGED <<gui, active, bin, site, runfiles, down>>
        /\ token' \in BOOLEAN /\ port' \in SessionHelper \cup {None} /\ presence' \in BOOLEAN
        /\ prompted' = FALSE
    BY <1>2, Zenon DEF session, link, history, DInv, Plain
  <2> QED
    BY <1>1, <1>4, <2>1, <2>2, ThreadStep, Zenon
<1>5. \/ UNCHANGED op
      \/ op["main"].at = "stopping" /\ (Step("main", "kill") \/ Step("main", "reap"))
  BY Zenon DEF HelperStops
<1> QED
  BY <1>3, <1>4, <1>5, Zenon

\* The janitor reaps, and leaves when the helper is idle and its token gone.
LEMMA JanitorKeeps ==
  ASSUME DInv, NEW h \in Helper, Janitor(h)
  PROVE  DInv'
<1>1. /\ helper[h].st = "up" /\ UNCHANGED <<op, token, session, runfiles, history>>
      /\ port' \in {port, None}
  BY Zenon DEF Janitor
<1>2. Children /\ Plain /\ helper[h] \in HelperProc
  BY Zenon DEF DInv, Children
<1>3. Children' /\ Tame
  <2>1. CASE token
    <3> DEFINE q == [helper[h] EXCEPT !.missing = 0]
    <3>1. helper' = [helper EXCEPT ![h] = q] /\ proc' = proc
      BY <1>2, <2>1, Zenon DEF Janitor, Children
    <3>2. q \in HelperProc /\ q.child = helper[h].child /\ q.st = helper[h].st
      BY <1>2, DesktopAssumption DEF HelperProc
    <3> HIDE DEF q
    <3> QED
      BY <1>2, <3>1, <3>2, SameChild, Zenon
  <2>2. CASE ~token /\ helper' = Exited(h) /\ ReapedChild(h) = None
    BY <1>2, <2>2, LeaveKeeps, Zenon DEF Janitor
  <2>3. CASE ~token /\ ~(helper[h].missing + 1 >= JanitorTicks /\ ReapedChild(h) = None)
    <3> DEFINE k == ReapedChild(h)
               m == IF helper[h].missing < JanitorTicks THEN helper[h].missing + 1
                    ELSE helper[h].missing
    <3>1. /\ helper' = [helper EXCEPT ![h].child = k,
                         ![h].missing = IF @ < JanitorTicks THEN @ + 1 ELSE @]
          /\ proc' = ReapedProc(h)
      BY <2>3, Zenon DEF Janitor
    <3>2. /\ k \in Client \cup {None} /\ k \in {helper[h].child, None}
          /\ proc' \in [Client -> Process]
          /\ \A c \in Client : proc'[c] = proc[c] \/ proc'[c] = NoProcess
          /\ k = None =>
              \A c \in Client : proc'[c].by = h => proc'[c].st \notin {"running", "stuck"}
      BY <1>2, <3>1, ReapedOK, Zenon
    <3> HIDE DEF k
    <3>3. m \in 0..JanitorTicks
      BY <1>2, DesktopAssumption DEF HelperProc
    <3>4. /\ helper' \in [Helper -> HelperProc]
          /\ \A g \in Helper : helper'[g].st = helper[g].st
          /\ \A g \in Helper \ {h} : helper'[g] = helper[g]
          /\ helper'[h].child = k
      <4> DEFINE q == [helper[h] EXCEPT !.child = k, !.missing = m]
      <4>1. helper' = [helper EXCEPT ![h] = q]
        BY <1>2, <3>1, Zenon DEF Children, HelperProc
      <4> HIDE DEF m
      <4>2. q \in HelperProc /\ q.st = helper[h].st /\ q.child = k
        BY <1>2, <3>2, <3>3, Zenon DEF HelperProc
      <4> HIDE DEF q
      <4> QED
        BY <1>2, <4>1, <4>2, Zenon DEF Children
    <3> QED
      BY <1>1, <1>2, <3>2, <3>4, NoProcessOK DEF Children, Tame
  <2> QED
    BY <2>1, <2>2, <2>3, Zenon DEF Janitor
<1> QED
  BY <1>1, <1>2, <1>3, OutsideStep, Zenon DEF Plain

\* A helper's death orphans its client; launchd starts the daemon; a token goes.
LEMMA HelperFateKeeps ==
  ASSUME DInv, (\E h \in Helper : HelperDies(h)) \/ DaemonStarts \/ TokenRevoked
  PROVE  DInv'
<1>1. Children /\ Plain
  BY Zenon DEF DInv
<1>2. ASSUME NEW h \in Helper, HelperDies(h) PROVE DInv'
  <2>1. /\ helper' = Exited(h) /\ UNCHANGED <<op, session, runfiles, link, history>>
        /\ proc' = [c \in Client |-> IF proc[c].by # h THEN proc[c]
                                    ELSE IF proc[c].st = "exited" THEN NoProcess
                                    ELSE [proc[c] EXCEPT !.by = None]]
    BY <1>2, Zenon DEF HelperDies
  <2>2. /\ helper' \in [Helper -> HelperProc]
        /\ helper'[h].st = "none" /\ helper'[h].child = None
        /\ \A g \in Helper \ {h} : helper'[g] = helper[g]
    BY <1>1, <2>1, ExitedOK, Zenon
  <2>3. ASSUME NEW c \in Client
        PROVE  /\ proc'[c] \in Process /\ (proc'[c].st = "foreign" => proc[c].st = "foreign")
               /\ (proc'[c] = proc[c] /\ proc[c].by # h) \/ proc'[c].by = None
    <3>1. proc[c] \in Process
      BY <1>1, Zenon DEF Children
    <3>2. CASE proc[c].by # h
      BY <2>1, <3>1, <3>2, Zenon
    <3>3. CASE proc[c].by = h /\ proc[c].st = "exited"
      BY <2>1, <3>3, NoProcessOK, Zenon
    <3>4. CASE proc[c].by = h /\ proc[c].st # "exited"
      BY <2>1, <3>1, <3>4, Zenon DEF Process
    <3> QED
      BY <3>2, <3>3, <3>4, Zenon
  <2>4. proc' \in [Client -> Process]
    BY <2>1, <2>3, Zenon
  <2>5. Children' /\ Tame
    BY <1>1, <2>2, <2>3, <2>4, NoneIsNoHelper DEF Children, Tame
  <2> QED
    BY <1>1, <2>1, <2>5, OutsideStep, Zenon DEF link, Plain
<1>3. CASE DaemonStarts
  <2> DEFINE q == [helper[Daemon] EXCEPT !.st = "up"]
  <2>1. Daemon \in Helper
    BY <1>1, <1>3, DesktopAssumption, Zenon DEF DaemonStarts, Plain, Helper
  <2>2. helper[Daemon] \in HelperProc /\ helper' = [helper EXCEPT ![Daemon] = q]
    BY <1>1, <1>3, <2>1, Zenon DEF Children, DaemonStarts
  <2>3. q \in HelperProc /\ q.st = "up" /\ q.child = helper[Daemon].child
    BY <2>2, Zenon DEF HelperProc
  <2> HIDE DEF q
  <2>4. Children' /\ Tame
    BY <1>1, <1>3, <2>1, <2>2, <2>3, SameChild, Zenon DEF DaemonStarts
  <2> QED
    BY <1>1, <1>3, <2>4, OutsideStep, Zenon DEF DaemonStarts, link, Plain
<1>4. CASE TokenRevoked
  BY <1>1, <1>4, ProcsStay, OutsideStep, Zenon DEF TokenRevoked, Plain
<1> QED
  BY <1>2, <1>3, <1>4, Zenon

\* A client exits or wedges; a foreign process goes.
LEMMA ClientKeeps ==
  ASSUME DInv, NEW c \in Client, ClientDies(c) \/ ClientWedges(c) \/ ForeignExits(c)
  PROVE  DInv'
<1>1. Children /\ Plain /\ proc[c] \in Process
  BY Zenon DEF DInv, Children
<1>2. /\ helper' = helper /\ UNCHANGED <<op, session, runfiles, link, history>>
      /\ proc' \in [Client -> Process]
      /\ \A d \in Client \ {c} : proc'[d] = proc[d]
      /\ \/ proc'[c].st \in {"exited", "free"}
         \/ proc[c].st = "running" /\ proc'[c].st = "stuck" /\ proc'[c].by = proc[c].by
  <2>1. CASE ClientDies(c)
    BY <1>1, <2>1, DeadOK, Zenon DEF ClientDies
  <2>2. CASE ClientWedges(c)
    <3> DEFINE q == [proc[c] EXCEPT !.st = "stuck"]
    <3>1. proc[c].st = "running" /\ proc' = [proc EXCEPT ![c] = q]
      BY <1>1, <2>2, Zenon DEF ClientWedges, Children
    <3>2. q \in Process /\ q.st = "stuck" /\ q.by = proc[c].by
      BY <1>1, Zenon DEF Process
    <3> HIDE DEF q
    <3> QED
      BY <1>1, <2>2, <3>1, <3>2, Zenon DEF ClientWedges, Children
  <2>3. CASE ForeignExits(c)
    BY <1>1, <2>3, NoProcessOK, Zenon DEF ForeignExits, Children
  <2> QED
    BY <2>1, <2>2, <2>3, Zenon
<1>3. Children' /\ Tame
  BY <1>1, <1>2, SameParent, Zenon
<1> QED
  BY <1>1, <1>2, <1>3, OutsideStep, Zenon DEF link, Plain

-----------------------------------------------------------------------------
(* The application and the machine.                                        *)

\* With the application its commands and its intent go.
LEMMA GoneKeeps ==
  ASSUME DInv, GuiGone, Children', Tame, token' \in BOOLEAN,
         port' \in SessionHelper \cup {None}, UNCHANGED <<bin, site, prompted, runfiles>>
  PROVE  DInv'
<1>1. /\ gui' = FALSE /\ active' = None /\ presence' = FALSE /\ down' = FALSE
      /\ op' = [t \in Thread |-> Idle]
  BY Zenon DEF GuiGone
<1>2. Threads' /\ op'["main"] = Idle
  BY <1>1, IdleOK, Zenon DEF Threads, Thread, MainShape, InitShape, PollShape
<1>3. Plain' /\ Final' /\ prompted' = FALSE
  BY <1>1, Zenon DEF DInv, Plain, Final
<1> QED
  BY <1>2, <1>3, IdleOK, Assemble, Zenon DEF runfiles

\* The application ends with its threads; the files stay.
LEMMA GuiEndsKeeps ==
  ASSUME DInv, GuiExits \/ GuiExitsUnheard \/ GuiCrashes
  PROVE  DInv'
<1> DEFINE h == SessionEndpoint
<1>1. Children /\ Plain /\ h \in SessionHelper \cup {None} /\ (h # None => h \in Helper)
  BY EndpointsOK, Zenon DEF DInv, Helper
<1>2. GuiGone /\ UNCHANGED <<bin, site, prompted, runfiles>>
  BY Zenon DEF GuiExits, GuiExitsUnheard, GuiCrashes
<1>3. token' \in BOOLEAN /\ port' \in SessionHelper \cup {None}
  BY <1>1, Zenon DEF GuiExits, GuiExitsUnheard, GuiCrashes, link, Plain
<1>4. CASE UNCHANGED procs
  BY <1>2, <1>3, <1>4, ProcsStay, GoneKeeps, Zenon
<1>5. CASE h # None /\ ReapedChild(h) = None /\ helper' = Exited(h) /\ proc' = ReapedProc(h)
  BY <1>1, <1>2, <1>3, <1>5, LeaveKeeps, GoneKeeps, Zenon
<1>6. CASE h # None /\ ReapedChild(h) # None /\ helper' = helper /\ proc' = ReapedProc(h)
  <2>1. ReapedProc(h) = proc
    BY <1>6, Zenon DEF ReapedChild, ReapedProc
  <2> QED
    BY <1>4, <1>6, <2>1, Zenon DEF procs
<1>7. CASE /\ h # None /\ ReapedChild(h) = None
           /\ helper' = [helper EXCEPT ![h].child = None] /\ proc' = ReapedProc(h)
  BY <1>1, <1>2, <1>3, <1>7, ReapKeeps, GoneKeeps, Zenon
<1> QED
  BY <1>4, <1>5, <1>6, <1>7, Zenon DEF GuiExits, GuiExitsUnheard, GuiCrashes, procs

\* The application starts, and init_privileges with it.
LEMMA GuiStartsKeeps ==
  ASSUME DInv, GuiStarts
  PROVE  DInv'
<1> DEFINE i == [Idle EXCEPT !.at = "ensure", !.kind = "init", !.bin = bin]
           q == IF bin = None \/ (site.daemon /\ DaemonBin = bin) THEN Idle ELSE i
<1>1. /\ gui' = TRUE /\ op' = [op EXCEPT !["init"] = q]
      /\ UNCHANGED <<active, bin, presence, site, runfiles, link, procs, history>>
  BY Zenon DEF GuiStarts
<1>2. i \in Op /\ i.at = "ensure" /\ i.kind = "init"
  BY IdleOK, ZenonT(60) DEF Op, DInv, Plain
<1> HIDE DEF i
<1>3. q \in Op /\ InitShape(q)
  BY <1>2, IdleOK, Zenon DEF InitShape
<1> HIDE DEF q
<1>4. Threads' /\ op'["main"] = op["main"]
  BY <1>1, <1>3, Moves, Zenon DEF DInv
<1>5. Plain' /\ Final' /\ prompted' = FALSE
  BY <1>1, <1>4, Zenon DEF DInv, Plain, Final, link, history, runfiles
<1>6. Children' /\ Tame
  BY <1>1, ProcsStay, Zenon
<1> QED
  BY <1>1, <1>4, <1>5, <1>6, Assemble, Zenon DEF runfiles

\* A reboot may give the recorded pid to another process: the run is then marked old.
LEMMA RebootKeeps ==
  ASSUME DInv, Reboot
  PROVE  DInv'
<1>1. /\ gui' = FALSE /\ active' = None /\ presence' = FALSE /\ down' = FALSE
      /\ op' = [t \in Thread |-> Idle] /\ helper' = [h \in Helper |-> Exited(h)[h]]
      /\ state' = (IF state = None THEN None ELSE [state EXCEPT !.old = TRUE])
      /\ UNCHANGED <<bin, pidfile, site, prompted, link>>
  BY Zenon DEF Reboot, GuiGone
<1>2. PICK S : proc' = [c \in Client |->
                          [NoProcess EXCEPT !.st = IF c \in S THEN "foreign" ELSE "free"]]
  BY Zenon DEF Reboot
<1>3. Threads' /\ op'["main"] = Idle
  BY <1>1, IdleOK, Zenon DEF Threads, Thread, MainShape, InitShape, PollShape
<1>4. Plain' /\ Final' /\ prompted' = FALSE
  BY <1>1, Zenon DEF DInv, Plain, Final, link
<1>5. ASSUME NEW h \in Helper
      PROVE  Exited(h)[h] \in HelperProc /\ Exited(h)[h].st = "none" /\ Exited(h)[h].child = None
  BY ExitedOK, Zenon DEF DInv
<1>6. /\ helper' \in [Helper -> HelperProc]
      /\ \A h \in Helper : helper'[h].st = "none" /\ helper'[h].child = None
  BY <1>1, <1>5, Zenon
<1>7. /\ proc' \in [Client -> Process]
      /\ \A c \in Client : proc'[c].st \in {"foreign", "free"}
  <2>1. ASSUME NEW s \in {"foreign", "free"}
        PROVE  [NoProcess EXCEPT !.st = s] \in Process /\ [NoProcess EXCEPT !.st = s].st = s
    BY NoProcessOK, Zenon DEF Process
  <2> QED
    BY <1>2, <2>1, Zenon
<1>8. Children'
  BY <1>6, <1>7, Zenon DEF Children
<1>9. state' \in RunState \cup {None} /\ (state' # None => state'.old)
  BY <1>1, Zenon DEF DInv, RunState
<1>10. PidIsOurs' /\ NeverAimsAtForeign'
  BY <1>3, <1>9, IdleOK, Zenon DEF PidIsOurs, NeverAimsAtForeign
<1> QED
  BY <1>1, <1>3, <1>4, <1>8, <1>9, <1>10, Zenon DEF DInv

\* Time passes for a run without a pid; the settings name another binary.
LEMMA AgeKeeps ==
  ASSUME DInv, RunAges \/ SettingsChange
  PROVE  DInv'
<1>1. Children' /\ Tame
  BY ProcsStay, Zenon DEF RunAges, SettingsChange
<1>2. CASE RunAges
  <2>1. /\ state # None /\ pidfile = None /\ state' = [state EXCEPT !.aged = TRUE]
        /\ UNCHANGED <<op, pidfile, session, link, procs, history>>
    BY <1>2, Zenon DEF RunAges
  <2>2. state' \in RunState
    BY <2>1, Zenon DEF DInv, RunState
  <2>3. Plain' /\ Final' /\ prompted' = FALSE /\ Threads'
    BY <2>1, Zenon DEF DInv, Plain, Final, Threads, session, link, history
  <2>4. PidIsOurs' /\ NeverAimsAtForeign' /\ pidfile' \in Client \cup {None}
    BY <2>1, Zenon DEF DInv, PidIsOurs, NeverAimsAtForeign, procs
  <2> QED
    BY <1>1, <2>2, <2>3, <2>4, Zenon DEF DInv
<1>3. CASE SettingsChange
  <2>1. /\ bin' \in Bin \cup {None}
        /\ UNCHANGED <<gui, active, op, presence, site, runfiles, link, procs, history>>
    BY <1>3, DesktopAssumption DEF SettingsChange, DInv, Plain
  <2>2. Plain' /\ Final' /\ prompted' = FALSE /\ Threads'
    BY <2>1, Zenon DEF DInv, Plain, Final, Threads, runfiles, link, history
  <2> QED
    BY <1>1, <2>1, <2>2, Assemble, Zenon DEF runfiles
<1> QED
  BY <1>2, <1>3, Zenon

-----------------------------------------------------------------------------

\* A machine on which the application has never run.
LEMMA DInitInv == DInit => DInv
<1> SUFFICES ASSUME DInit PROVE DInv
  BY Zenon
<1> USE DEF DInit
<1>1. Threads /\ op["main"] = Idle
  BY IdleOK, Zenon DEF Threads, Thread, MainShape, InitShape, PollShape
<1>2. Plain
  BY DesktopAssumption, Zenon DEF Plain
<1>3. Children
  <2>1. ASSUME NEW h \in Helper
        PROVE  LET q == [NoHelper EXCEPT !.bin = IF h = Daemon THEN DaemonBin ELSE None] IN
               q \in HelperProc /\ q.st = "none" /\ q.child = None
    <3> DEFINE b == IF h = Daemon THEN DaemonBin ELSE None
    <3>1. b \in Bin \cup {None}
      BY DesktopAssumption, Zenon
    <3> HIDE DEF b
    <3>2. LET q == [NoHelper EXCEPT !.bin = b] IN
          q \in HelperProc /\ q.st = "none" /\ q.child = None
      BY <3>1, GoneHelper, Zenon
    <3> QED
      BY <3>2, Zenon DEF b
  <2>2. /\ helper \in [Helper -> HelperProc]
        /\ \A h \in Helper : helper[h].st = "none" /\ helper[h].child = None
    BY <2>1, Zenon
  <2> QED
    BY <2>2, NoProcessOK, Zenon DEF Children
<1> QED
  BY <1>1, <1>2, <1>3, IdleOK, Zenon DEF DInv, PidIsOurs, NeverAimsAtForeign, Final

\* Every step of the application, its helpers and its clients keeps the invariant.
LEMMA DInvInductive == DInv /\ [DNext]_dvars => DInv'
<1> SUFFICES ASSUME DInv, [DNext]_dvars PROVE DInv'
  BY Zenon
<1>1. ASSUME NEW p \in Profile, UserConnect(p) PROVE DInv'
  BY <1>1, UserConnectKeeps, Zenon
<1>2. CASE UserDisconnect
  BY <1>2, UserDisconnectKeeps, Zenon
<1>3. ASSUME NEW t \in {"main", "init"}, EnsureStep(t) PROVE DInv'
  BY <1>3, EnsureKeeps, Zenon
<1>4. CASE MainStep
  BY <1>4, ExistingKeeps, RecordKeeps, FindKeeps, HelperConnectsKeeps, PidFileFailsKeeps,
     ConnectFailsKeeps, ConnectReturnsKeeps, StopPingKeeps, StopAsksKeeps, StopByPidKeeps, KillKeeps, ReapEndKeeps,
     WatchDecidesKeeps, Zenon DEF MainStep
<1>5. CASE WatchAdopts \/ WatchPing \/ PollReads \/ PollDeletes
  BY <1>5, WatchAdoptsKeeps, WatchPingKeeps, PollKeeps, Zenon
<1>6. ASSUME NEW h \in Helper,
             HelperStarts(h) \/ Declined(h) \/ HelperStops(h) \/ Janitor(h) \/ HelperDies(h)
      PROVE  DInv'
  BY <1>6, HelperStartsKeeps, HelperStopsKeeps, JanitorKeeps, HelperFateKeeps, Zenon
<1>7. CASE DaemonStarts \/ TokenRevoked
  BY <1>7, HelperFateKeeps, Zenon
<1>8. ASSUME NEW c \in Client, ClientDies(c) \/ ClientWedges(c) \/ ForeignExits(c) PROVE DInv'
  BY <1>8, ClientKeeps, Zenon
<1>9. CASE GuiExits \/ GuiExitsUnheard \/ GuiCrashes \/ GuiStarts \/ Reboot
  BY <1>9, GuiEndsKeeps, GuiStartsKeeps, RebootKeeps, Zenon
<1>10. CASE RunAges \/ SettingsChange
  BY <1>10, AgeKeeps, Zenon
<1>11. CASE UNCHANGED dvars
  <2>1. Children' /\ Tame /\ UNCHANGED <<op, session, runfiles, history, link>>
    BY <1>11, ProcsStay, Zenon DEF dvars, procs, session, runfiles, history, link
  <2> QED
    BY <2>1, OutsideStep, Zenon DEF DInv, Plain, link
<1> QED
  BY <1>1, <1>2, <1>3, <1>4, <1>5, <1>6, <1>7, <1>8, <1>9, <1>10, <1>11, Zenon DEF DNext

\* So it holds at all times.
LEMMA DesktopInvariant == DSpec => []DInv
BY DInitInv, DInvInductive, PTL DEF DSpec

\* The watcher's retry never ends in a credential dialog: it never enters the part of
\* ensure that elevates, nor the kill of a disconnect (helper.rs ensure_existing).
THEOREM NoUnaskedPrompts == DSpec => []WatcherNeverPrompts
<1>1. DInv => WatcherNeverPrompts
  BY Zenon DEF DInv, WatcherNeverPrompts
<1> QED
  BY <1>1, DesktopInvariant, PTL

\* A helper has at most one client alive that it has not disowned, whatever survives its
\* signals and whoever reaps first (helper Cmd::Connect, stop_child, spawn_client).
THEOREM OneClientEach == DSpec => []OneClientPerHelper
<1>1. DInv => OneClientPerHelper
  <2> SUFFICES ASSUME DInv PROVE OneClientPerHelper
    BY Zenon
  <2>1. DTypeOK
    BY Zenon DEF DInv, Plain, Threads, Children, DTypeOK
  <2>2. ASSUME NEW h \in Helper
        PROVE  Cardinality({c \in Client : /\ proc[c].by = h
                                           /\ proc[c].st \in Alive \ {"disowned"}}) <= 1
    <3> DEFINE S == {c \in Client : proc[c].by = h /\ proc[c].st \in Alive \ {"disowned"}}
    <3>1. \A c \in S : c = helper[h].child
      BY Zenon DEF DInv, Children, Alive
    <3>2. S = {} \/ S = {helper[h].child}
      BY <3>1, Zenon
    <3>3. Cardinality(S) = 0 \/ Cardinality(S) = 1
      BY <3>2, FS_EmptySet, FS_Singleton, Zenon
    <3> QED
      BY <3>3
  <2> QED
    BY <2>1, <2>2, Zenon DEF OneClientPerHelper
<1> QED
  BY <1>1, DesktopInvariant, PTL

\* After a disconnect that succeeded the watcher starts nothing: there is neither an
\* intent to act on nor a run on file to adopt (runner.rs disconnect, reconnect.rs).
THEOREM DisconnectsAreFinal == DSpec => []DisconnectIsFinal
<1>1. DInv => DisconnectIsFinal
  BY Zenon DEF DInv, Final, DisconnectIsFinal
<1> QED
  BY <1>1, DesktopInvariant, PTL

\* A disconnect never aims at a pid that a reboot has given to another process
\* (runner.rs current_status).
THEOREM ForeignPidsAreSafe == DSpec => []NeverAimsAtForeign
<1>1. DInv => NeverAimsAtForeign
  BY Zenon DEF DInv
<1> QED
  BY <1>1, DesktopInvariant, PTL

\* h does not leave a running client in this step, unless it is killed.
Released(h) ==
  /\ helper[h].st = "up" /\ helper'[h].st # "up"
  /\ helper[h].child # None /\ proc[helper[h].child].st = "running"
  => HelperDies(h) \/ proc'[helper[h].child].st # "running"

\* The steps in which no helper leaves.
LEMMA NoneLeaves ==
  ASSUME DInv, NEW h \in Helper,
         \/ helper' = helper
         \/ \E g \in Helper : \/ \E k : helper' = [helper EXCEPT ![g].child = k]
                               \/ helper' = [helper EXCEPT ![g].busy = TRUE]
                               \/ helper' = [helper EXCEPT ![g].st = "up"]
                               \/ \E j : helper' =
                                           [helper EXCEPT ![g].busy = FALSE, ![g].child = j]
  PROVE  Released(h)
<1>1. helper \in [Helper -> HelperProc]
  BY Zenon DEF DInv, Children
<1>2. helper'[h].st \in {helper[h].st, "up"}
  <2>1. CASE helper' = helper
    BY <2>1, Zenon
  <2>2. ASSUME NEW g \in Helper, NEW k, helper' = [helper EXCEPT ![g].child = k]
        PROVE  helper'[h].st = helper[h].st
    BY <1>1, <2>2 DEF HelperProc
  <2>3. ASSUME NEW g \in Helper, helper' = [helper EXCEPT ![g].busy = TRUE]
        PROVE  helper'[h].st = helper[h].st
    BY <1>1, <2>3 DEF HelperProc
  <2>4. ASSUME NEW g \in Helper, helper' = [helper EXCEPT ![g].st = "up"]
        PROVE  helper'[h].st \in {helper[h].st, "up"}
    BY <1>1, <2>4 DEF HelperProc
  <2>5. ASSUME NEW g \in Helper, NEW k,
               helper' = [helper EXCEPT ![g].busy = FALSE, ![g].child = k]
        PROVE  helper'[h].st = helper[h].st
    BY <1>1, <2>5 DEF HelperProc
  <2> QED
    BY <2>1, <2>2, <2>3, <2>4, <2>5, Zenon
<1> QED
  BY <1>2, Zenon DEF Released

\* A helper does not leave on a ping.
LEMMA PingLeaves ==
  ASSUME DInv, NEW h \in Helper, NEW t, NEW g \in Helper \cup {None}, NEW a, Ping(t, g, a)
  PROVE  Released(h)
<1>1. helper' = helper \/ (g \in Helper /\ helper' = [helper EXCEPT ![g].child = ReapedChild(g)])
  BY Zenon DEF Ping, procs
<1> QED
  BY <1>1, NoneLeaves, Zenon

\* An elevation shuts the old helper down together with its client.
LEMMA SpawnLeaves ==
  ASSUME DInv, NEW h \in Helper, NEW t \in {"main", "init"}, Spawn(t)
  PROVE  Released(h)
<1> DEFINE e == SessionEndpoint
<1>1. PICK n \in SessionHelper :
        /\ helper[n].st = "none" \/ n = e
        /\ helper' = [IF e = None THEN helper ELSE Exited(e)
                        EXCEPT ![n] = [NoHelper EXCEPT !.st = "asked", !.bin = op[t].bin]]
        /\ proc' = IF e = None THEN proc ELSE ChildStopped(e)
  BY Zenon DEF Spawn
<1>2. Children /\ e \in SessionHelper \cup {None} /\ (e # None => e \in Helper)
  BY EndpointsOK, Zenon DEF DInv, Helper
<1> SUFFICES ASSUME helper[h].st = "up", helper'[h].st # "up", helper[h].child # None,
                    proc[helper[h].child].st = "running"
             PROVE  proc'[helper[h].child].st # "running"
  BY Zenon DEF Released
<1>3. e # None /\ h = e
  <2> DEFINE hs == IF e = None THEN helper ELSE Exited(e)
             q == [NoHelper EXCEPT !.st = "asked", !.bin = op[t].bin]
  <2>1. hs \in [Helper -> HelperProc] /\ (e = None \/ h # e => hs[h] = helper[h])
    BY <1>2, ExitedOK DEF Children
  <2>2. helper' = [hs EXCEPT ![n] = q]
    BY <1>1, Zenon
  <2>3. h = n => h = e
    BY <1>1, Zenon
  <2> HIDE DEF hs, q, e
  <2> QED
    BY <1>2, <2>1, <2>2, <2>3, NoneIsNoHelper, Zenon
<1>4. helper[h].child \in Client
  BY <1>2, Zenon DEF Children, HelperProc
<1> DEFINE c == helper[h].child
<1>5. proc' = [proc EXCEPT ![c] = NoProcess]
  BY <1>1, <1>2, <1>3, <1>4, Zenon DEF ChildStopped, Children
<1> HIDE DEF c
<1>6. proc'[c] = NoProcess
  BY <1>2, <1>4, <1>5, Zenon DEF Children, c
<1> QED
  BY <1>6, NoProcessOK, Zenon DEF c

\* A helper that exits has no child, or has been killed.
LEMMA ExitLeaves ==
  ASSUME DInv, NEW h \in Helper, NEW g \in Helper, helper' = Exited(g),
         \/ helper[g].st # "up"
         \/ ReapedChild(g) = None
         \/ HelperDies(g)
  PROVE  Released(h)
<1>1. \A i \in Helper \ {g} : helper'[i] = helper[i]
  BY ExitedOK, Zenon DEF DInv
<1>2. CASE h # g \/ helper[g].st # "up" \/ HelperDies(g)
  BY <1>1, <1>2, Zenon DEF Released
<1>3. CASE h = g /\ ReapedChild(g) = None
  BY <1>3, Zenon DEF Released, ReapedChild, Reapable
<1> QED
  BY <1>2, <1>3, Zenon

\* A helper that leaves by itself has no running client any more: only its being killed
\* leaves one that a signal would have stopped (helper Cmd::Shutdown, janitor).
THEOREM HelpersLeaveNobody == DSpec => OnlyDeathOrphans
<1>1. DInv /\ [DNext]_dvars => [\A h \in Helper : Released(h)]_dvars
  <2> SUFFICES ASSUME DInv, DNext, NEW h \in Helper PROVE Released(h)
    BY Zenon
  <2> USE NoneLeaves DEF procs
  <2>1. ASSUME NEW p \in Profile, UserConnect(p) PROVE Released(h)
    BY <2>1, Zenon DEF UserConnect
  <2>2. CASE UserDisconnect
    BY <2>2, Zenon DEF UserDisconnect
  <2>3. ASSUME NEW t \in {"main", "init"}, EnsureStep(t) PROVE Released(h)
    <3>1. CASE EnsurePing(t)
      BY <3>1, EndpointsOK, PingLeaves, Zenon DEF EnsurePing, Helper
    <3>2. CASE Spawn(t)
      BY <3>2, SpawnLeaves, Zenon
    <3>3. CASE EnsureDaemon(t) \/ EnsureReuse(t) \/ EnsureRefuse(t) \/ SpawnFails(t) \/ SpawnDone(t)
      BY <3>3, Zenon DEF EnsureDaemon, EnsureReuse, EnsureRefuse, SpawnFails, SpawnDone
    <3> QED
      BY <2>3, <3>1, <3>2, <3>3, Zenon DEF EnsureStep
  <2>4. CASE MainStep
    <3>1. CASE Find \/ StopPing
      BY <3>1, EndpointsOK, PingLeaves, Zenon DEF Find, StopPing
    <3>2. CASE HelperConnects \/ PidFileFails \/ ConnectFails
      <4>1. \/ helper' = helper
            \/ Callee \in Helper /\ \E k : helper' = [helper EXCEPT ![Callee].child = k]
        <5>1. CASE HelperConnects
          <6>1. Callee \in Helper
            BY <5>1, EndpointsOK, Zenon DEF HelperConnects
          <6>2. \E k : helper' = [helper EXCEPT ![Callee].child = k]
            BY <5>1, Zenon DEF HelperConnects
          <6> QED
            BY <6>1, <6>2, Zenon
        <5>2. CASE ConnectFails
          <6>1. CASE Serves(Callee)
            <7>1. Callee \in Helper
              BY <6>1, EndpointsOK, Zenon
            <7>2. \E k : helper' = [helper EXCEPT ![Callee].child = k]
              BY <5>2, <6>1, Zenon DEF ConnectFails
            <7> QED
              BY <7>1, <7>2, Zenon
          <6>2. CASE ~Serves(Callee)
            <7>1. UNCHANGED procs
              BY <5>2, <6>2, Zenon DEF ConnectFails
            <7> QED
              BY <7>1, Zenon
          <6> QED
            BY <6>1, <6>2, Zenon
        <5>3. CASE PidFileFails
          <6>1. Callee \in Helper
            BY <5>3, EndpointsOK, Zenon DEF PidFileFails
          <6>2. helper' = [helper EXCEPT ![Callee].child = None]
            BY <5>3, Zenon DEF PidFileFails
          <6> QED
            BY <6>1, <6>2, Zenon
        <5> QED
          BY <3>2, <5>1, <5>2, <5>3, Zenon
      <4> QED
        BY <4>1, Zenon
    <3>3. CASE StopAsks
      BY <3>3, EndpointsOK, Zenon DEF StopAsks
    <3>4. CASE EnsureExisting \/ Record \/ ConnectReturns \/ StopByPid \/ StopLost \/ Kill
               \/ Reap \/ WatchDecides
      BY <3>4, Zenon DEF EnsureExisting, Record, ConnectReturns, StopByPid, StopLost, Kill, Reap,
         WatchDecides
    <3> QED
      BY <2>4, <3>1, <3>2, <3>3, <3>4, Zenon DEF MainStep
  <2>5. CASE WatchAdopts \/ PollReads \/ PollDeletes
    BY <2>5, Zenon DEF WatchAdopts, PollReads, PollDeletes
  <2>6. CASE WatchPing
    BY <2>6, EndpointsOK, Zenon DEF WatchPing, WatchRound
  <2>7. ASSUME NEW g \in Helper, HelperStarts(g) \/ Declined(g) \/ HelperStops(g) \/ HelperDies(g)
        PROVE  Released(h)
    BY <2>7, ExitLeaves, ZenonT(40) DEF HelperStarts, Declined, HelperStops, HelperDies
  <2>8. ASSUME NEW g \in Helper, Janitor(g) PROVE Released(h)
    <3>1. CASE helper' = Exited(g) /\ ReapedChild(g) = None
      BY <3>1, ExitLeaves, Zenon
    <3>2. helper \in [Helper -> HelperProc]
      BY Zenon DEF DInv, Children
    <3>3. CASE \E k, n : helper' = [helper EXCEPT ![g].child = k, ![g].missing = n]
      <4>1. PICK k, n : helper' = [helper EXCEPT ![g].child = k, ![g].missing = n]
        BY <3>3, Zenon
      <4>2. helper'[h].st = helper[h].st
        BY <3>2, <4>1 DEF HelperProc
      <4> QED
        BY <4>2, Zenon DEF Released
    <3>4. CASE helper' = [helper EXCEPT ![g].missing = 0]
      <4>1. helper'[h].st = helper[h].st
        BY <3>2, <3>4 DEF HelperProc
      <4> QED
        BY <4>1, Zenon DEF Released
    <3> QED
      BY <2>8, <3>1, <3>3, <3>4, Zenon DEF Janitor
  <2>9. CASE DaemonStarts \/ TokenRevoked
    <3>1. DaemonStarts => Daemon \in Helper
      BY DesktopAssumption, Zenon DEF DaemonStarts, DInv, Plain, Helper
    <3> QED
      BY <2>9, <3>1, Zenon DEF DaemonStarts, TokenRevoked
  <2>10. ASSUME NEW c \in Client, ClientDies(c) \/ ClientWedges(c) \/ ForeignExits(c)
         PROVE  Released(h)
    BY <2>10, Zenon DEF ClientDies, ClientWedges, ForeignExits
  <2>11. CASE GuiExits \/ GuiExitsUnheard \/ GuiCrashes \/ GuiStarts
    <3> DEFINE g == SessionEndpoint
    <3>1. g = None \/ g \in Helper
      BY EndpointsOK, Zenon DEF Helper
    <3>2. \/ helper' = helper
          \/ g # None /\ helper' = Exited(g) /\ ReapedChild(g) = None
          \/ g # None /\ helper' = [helper EXCEPT ![g].child = None]
      BY <2>11, Zenon DEF GuiExits, GuiExitsUnheard, GuiCrashes, GuiStarts
    <3> HIDE DEF g
    <3> QED
      BY <3>1, <3>2, ExitLeaves, Zenon
  <2>12. CASE Reboot
    <3>1. PICK S : proc' = [c \in Client |->
                          [NoProcess EXCEPT !.st = IF c \in S THEN "foreign" ELSE "free"]]
      BY <2>12, Zenon DEF Reboot
    <3>2. ASSUME NEW c \in Client PROVE proc'[c].st # "running"
      BY <3>1, Zenon DEF NoProcess
    <3>3. helper[h].child \in Client \cup {None}
      BY Zenon DEF DInv, Children, HelperProc
    <3> QED
      BY <3>2, <3>3, Zenon DEF Released
  <2>13. CASE RunAges \/ SettingsChange
    BY <2>13, Zenon DEF RunAges, SettingsChange
  <2> QED
    BY <2>1, <2>2, <2>3, <2>4, <2>5, <2>6, <2>7, <2>8, <2>9, <2>10, <2>11, <2>12, <2>13, Zenon DEF
       DNext
<1> QED
  BY <1>1, DesktopInvariant, PTL DEF DSpec, OnlyDeathOrphans, Released
=============================================================================
