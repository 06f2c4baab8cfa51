------------------------------ MODULE Desktop -------------------------------
(***************************************************************************)
(* The desktop application (desktop/src-tauri): the GUI's connect,         *)
(* disconnect, status and start-up commands, its reconnect watcher, the    *)
(* elevated helper that parents the client, and the client processes.      *)
(*                                                                         *)
(* The GUI has three threads.  "main" runs connect, disconnect and the     *)
(* watcher's round, which exclude each other by AppState.lock; "init" runs *)
(* init_privileges; "poll" is the UI's status poll, which takes no lock.   *)
(* Files, helper and client outlive the GUI.  A helper serves one request  *)
(* at a time; a request is an action, and every request reaps first.       *)
(***************************************************************************)
EXTENDS Integers, FiniteSets

CONSTANTS
  Profile,        \* profile names
  Bin,            \* client binaries the settings may resolve to
  Client,         \* process ids of clients
  SessionHelper,  \* helper processes started by elevation
  Daemon,         \* the launchd daemon (macOS), or None
  DaemonBin,      \* the only binary the daemon runs
  Sites,          \* the machines considered: platform, daemon enabled, and the
                  \* changes of the binary settings resolve to (None: no binary);
                  \* pids bounds the client processes there
  JanitorTicks,   \* missing_ticks at which an idle helper leaves
  None

VARIABLES
  gui,            \* the application runs
  active,         \* AppState.active_profile
  bin,            \* resolved_client_bin
  op,             \* what each thread of the GUI is doing
  state,          \* runs/state.json
  pidfile,        \* runs/shadowvpn.pid
  token,          \* runs/helper.token exists
  port,           \* runs/helper.port: the helper that wrote it
  helper,         \* the helper processes
  proc,           \* the client processes
  presence,       \* PRESENCE_PROVED
  site,           \* history: which of Sites this is
  prompted,       \* history: a credential dialog was raised for the watcher
  down            \* history: the user's last command was a disconnect, and it succeeded

dvars == <<gui, active, bin, op, state, pidfile, token, port, helper, proc,
           presence, site, prompted, down>>

session == <<gui, active, bin, presence, site>>
runfiles == <<state, pidfile>>
link == <<token, port>>
procs == <<helper, proc>>
history == <<prompted, down>>

Helper == SessionHelper \cup ({Daemon} \ {None})
Thread == {"main", "init", "poll"}

ASSUME DesktopAssumption ==
  /\ Daemon \notin SessionHelper /\ None \notin SessionHelper \cup Client \cup Profile \cup Bin
  /\ DaemonBin \in Bin
  /\ Sites \subseteq [os : {"unix", "windows"}, daemon : BOOLEAN, bin : Bin,
                       pids : SUBSET Client,
                       changes : SUBSET (Bin \X (Bin \cup {None}))]
  /\ \A s \in Sites : s.daemon => Daemon # None /\ s.os = "unix"
  /\ JanitorTicks \in Nat

-----------------------------------------------------------------------------
(* Data.                                                                   *)

\* state.json.  old: from before the last boot; aged: older than 30 seconds.
RunState == [profile : Profile, old : BOOLEAN, aged : BOOLEAN]

\* A client is running, or exited and not yet reaped by its parent, or deaf to
\* SIGKILL, or disowned: killed for want of a pid file, outliving the kill while its
\* helper no longer holds it.  A foreign process merely has its pid.
Process == [st : {"free", "running", "exited", "stuck", "disowned", "foreign"},
            by : Helper \cup {None}]

Alive == {"running", "stuck", "disowned"}

NoProcess == [st |-> "free", by |-> None]

\* A session helper is first asked for in a dialog.  busy: it is stopping its
\* client and answers nobody.
HelperProc == [st : {"none", "asked", "up"}, bin : Bin \cup {None},
               child : Client \cup {None}, busy : BOOLEAN, missing : 0..JanitorTicks]

NoHelper == [st |-> "none", bin |-> None, child |-> None, busy |-> FALSE, missing |-> 0]

\* What a ping tells: who answered, and its child after reaping.
Reply == [from : Helper, child : Client \cup {None}, bin : Bin \cup {None}]

Op == [at : {"idle", "ensure", "decide", "spawn", "record", "find", "call", "answer",
             "stop", "choose", "stopping", "kill", "reap", "delete", "retry"},
       kind : {"none", "connect", "watch", "disconnect", "init", "status"},
       profile : Profile \cup {None}, bin : Bin \cup {None}, pid : Client \cup {None},
       resp : Reply \cup {None}, ok : BOOLEAN]

Idle == [at |-> "idle", kind |-> "none", profile |-> None, bin |-> None,
         pid |-> None, resp |-> None, ok |-> FALSE]

Goto(t, o) == op' = [op EXCEPT ![t] = o]
Step(t, at) == Goto(t, [op[t] EXCEPT !.at = at])
Finish(t) == Goto(t, Idle)
Proceed(t) == Goto(t, [op[t] EXCEPT !.at = "record", !.resp = None, !.bin = None])

RaiseDialog(kind) == prompted' = (prompted \/ kind = "watch")

-----------------------------------------------------------------------------
(* Processes.                                                              *)

\* pid_alive: kill(pid, 0) also finds a child nobody has waited for; tasklist
\* does not.
PidAlive(c) == \/ proc[c].st \in Alive \cup {"foreign"}
               \/ proc[c].st = "exited" /\ site.os = "unix"

\* reap, at the start of every request.
Reapable(h) == helper[h].child # None /\ proc[helper[h].child].st = "exited"
ReapedChild(h) == IF Reapable(h) THEN None ELSE helper[h].child
ReapedProc(h) == IF Reapable(h) THEN [proc EXCEPT ![helper[h].child] = NoProcess] ELSE proc

\* The helper each endpoint leads to, if it answers in time.
SessionEndpoint ==
  IF token /\ port # None /\ helper[port].st = "up" /\ ~helper[port].busy
  THEN port ELSE None
DaemonEndpoint ==
  IF site.daemon /\ helper[Daemon].st = "up" /\ ~helper[Daemon].busy
  THEN Daemon ELSE None

\* live_endpoint: the daemon before the session helper.
LiveEndpoint == IF DaemonEndpoint # None THEN DaemonEndpoint ELSE SessionEndpoint

\* ping_endpoint: the answer is remembered, and may be old when it is used.
Ping(t, h, at) ==
  IF h = None
  THEN /\ Goto(t, [op[t] EXCEPT !.at = at, !.resp = None])
       /\ UNCHANGED procs
  ELSE /\ Goto(t, [op[t] EXCEPT !.at = at,
                     !.resp = [from |-> h, child |-> ReapedChild(h), bin |-> helper[h].bin]])
       /\ helper' = [helper EXCEPT ![h].child = ReapedChild(h)]
       /\ proc' = ReapedProc(h)

-----------------------------------------------------------------------------
(* Status, derived from the files.                                         *)

\* A wrong variant: trusts a pid recorded before the last boot.
StatusOf_AnyBoot ==
  IF state = None THEN "disconnected"
  ELSE IF pidfile # None THEN IF PidAlive(pidfile) THEN "connected" ELSE "dead"
  ELSE IF state.aged THEN "abandoned"
  ELSE "connecting"

\* The run started before boot_time_unix.
BeforeBoot == state.old

\* current_status.  "dead" and "abandoned" are shown as disconnected and remove
\* files.
StatusOf ==
  IF state = None THEN "disconnected"
  ELSE IF BeforeBoot THEN "dead"
  ELSE IF pidfile # None THEN IF PidAlive(pidfile) THEN "connected" ELSE "dead"
  ELSE IF state.aged THEN "abandoned"
  ELSE "connecting"

Disconnected(s) == s \in {"disconnected", "dead", "abandoned"}

\* The files current_status removes for each verdict.
Remove(s) ==
  /\ state' = IF s \in {"dead", "abandoned"} THEN None ELSE state
  /\ pidfile' = IF s = "dead" THEN None ELSE pidfile

\* The poll reads the files, and removes them a moment later.
PollReads ==
  /\ gui /\ op["poll"].at = "idle"
  /\ StatusOf \in {"dead", "abandoned"}
  /\ Goto("poll", [Idle EXCEPT !.at = "delete", !.kind = "status",
                               !.ok = (StatusOf = "dead")])
  /\ UNCHANGED <<session, runfiles, link, procs, history>>

PollDeletes ==
  /\ op["poll"].at = "delete"
  /\ Remove(IF op["poll"].ok THEN "dead" ELSE "abandoned")
  /\ Finish("poll")
  /\ UNCHANGED <<session, link, procs, history>>

-----------------------------------------------------------------------------
(* connect, and the part of it the watcher shares (do_connect).            *)

BeginConnect(kind, p) ==
  /\ Remove(StatusOf)
  /\ IF Disconnected(StatusOf) /\ bin # None
     THEN Goto("main", [Idle EXCEPT !.at = "ensure", !.kind = kind,
                                    !.profile = p, !.bin = bin])
     ELSE Finish("main")

UserConnect(p) ==
  /\ gui /\ op["main"].at = "idle"
  /\ BeginConnect("connect", p)
  /\ down' = FALSE
  /\ UNCHANGED <<prompted, session, link, procs>>

\* ensure, under ENSURE_LOCK: the daemon if it runs this very binary.
EnsureFree(t) == \A u \in Thread \ {t} : op[u].at \notin {"decide", "spawn"}

DaemonServes(b) == DaemonEndpoint # None /\ helper[Daemon].bin = b

\* daemon_ensure, with the presence gate the user may fail.
EnsureDaemon(t) ==
  /\ op[t].at = "ensure" /\ op[t].kind = "connect" /\ EnsureFree(t)
  /\ DaemonServes(op[t].bin)
  /\ \/ presence /\ Proceed(t) /\ UNCHANGED <<presence, prompted>>
     \/ /\ ~presence
        /\ RaiseDialog(op[t].kind)
        /\ presence' \in BOOLEAN
        /\ IF presence' THEN Proceed(t) ELSE Finish(t)
  /\ UNCHANGED <<gui, active, bin, site, down, runfiles, link, procs>>

\* ensure_session: first a ping.
EnsurePing(t) ==
  /\ op[t].at = "ensure" /\ op[t].kind \in {"connect", "init"} /\ EnsureFree(t)
  /\ ~DaemonServes(op[t].bin)
  /\ Ping(t, SessionEndpoint, "decide")
  /\ UNCHANGED <<session, runfiles, link, history>>

Ready(t) == IF op[t].kind = "init" THEN Finish(t) ELSE Proceed(t)

EnsureReuse(t) ==
  /\ op[t].at = "decide"
  /\ op[t].resp # None /\ op[t].resp.bin = op[t].bin
  /\ Ready(t)
  /\ UNCHANGED <<session, runfiles, link, procs, history>>

\* A helper that runs another binary is not taken from its client.
EnsureRefuse(t) ==
  /\ op[t].at = "decide"
  /\ op[t].resp # None /\ op[t].resp.bin # op[t].bin /\ op[t].resp.child # None
  /\ Finish(t)
  /\ UNCHANGED <<session, runfiles, link, procs, history>>

\* Shutdown of h: stop the child if any, remove the port file, exit.
Exited(h) ==
  [helper EXCEPT ![h] = [NoHelper EXCEPT !.bin = IF h = Daemon THEN DaemonBin ELSE None]]
ChildStopped(h) ==
  IF helper[h].child = None THEN proc
  ELSE [proc EXCEPT ![helper[h].child] =
          IF @.st = "stuck" THEN [@ EXCEPT !.by = None] ELSE NoProcess]

\* spawn: stop whom the port file names, renew the token, ask for elevation.
Spawn(t) ==
  /\ op[t].at = "decide"
  /\ op[t].resp # None => op[t].resp.bin # op[t].bin /\ op[t].resp.child = None
  /\ LET h == SessionEndpoint IN
     \E n \in SessionHelper :
       /\ helper[n].st = "none" \/ n = h
       /\ helper' = [IF h = None THEN helper ELSE Exited(h)
                       EXCEPT ![n] = [NoHelper EXCEPT !.st = "asked", !.bin = op[t].bin]]
       /\ proc' = IF h = None THEN proc ELSE ChildStopped(h)
  /\ token' = TRUE
  /\ port' = None
  /\ RaiseDialog(op[t].kind)
  /\ Step(t, "spawn")
  /\ UNCHANGED <<down, session, runfiles>>

\* No helper binary, no token file, no pkexec.
SpawnFails(t) ==
  /\ op[t].at = "decide"
  /\ op[t].resp # None => op[t].resp.bin # op[t].bin /\ op[t].resp.child = None
  /\ Finish(t)
  /\ UNCHANGED <<session, runfiles, link, procs, history>>

\* The poll for the helper ends with its answer, or after 15 seconds, or because
\* the dialog was declined.
SpawnDone(t) ==
  /\ op[t].at = "spawn"
  /\ \/ /\ SessionEndpoint # None /\ helper[SessionEndpoint].bin = op[t].bin
        /\ Ready(t)
     \/ Finish(t)
  /\ UNCHANGED <<session, runfiles, link, procs, history>>

\* A wrong variant: the watcher elevates like a user's connect.
EnsureExisting_Elevates ==
  /\ op["main"].at = "ensure" /\ op["main"].kind = "watch"
  /\ Goto("main", [op["main"] EXCEPT !.kind = "connect"])
  /\ RaiseDialog("watch")
  /\ UNCHANGED <<down, session, runfiles, link, procs>>

\* ensure_existing: only ever a helper that is already there.
EnsureExisting ==
  /\ op["main"].at = "ensure" /\ op["main"].kind = "watch"
  /\ LET h == IF presence /\ DaemonServes(op["main"].bin) THEN Daemon
              ELSE SessionEndpoint IN
     IF h # None /\ helper[h].bin = op["main"].bin
     THEN Proceed("main") ELSE Finish("main")
  /\ UNCHANGED <<session, runfiles, link, procs, history>>

\* Clear the previous pid file, then record the run.
Record ==
  /\ op["main"].at = "record"
  /\ pidfile' = None
  /\ state' = [profile |-> op["main"].profile, old |-> FALSE, aged |-> FALSE]
  /\ Step("main", "find")
  /\ UNCHANGED <<session, link, procs, history>>

\* helper::call looks for a live endpoint of its own.
Find ==
  /\ op["main"].at = "find"
  /\ Ping("main", LiveEndpoint, "call")
  /\ UNCHANGED <<session, runfiles, link, history>>

Serves(h) == h # None /\ h \in {SessionEndpoint, DaemonEndpoint}
Callee == IF op["main"].resp = None THEN None ELSE op["main"].resp.from
Answer(ok) == Goto("main", [op["main"] EXCEPT !.at = "answer", !.resp = None, !.ok = ok])

\* Cmd::Connect, on the helper: one client at a time.
HelperConnects ==
  /\ op["main"].at = "call" /\ Serves(Callee) /\ ReapedChild(Callee) = None
  /\ \E c \in site.pids :
       /\ ReapedProc(Callee)[c].st = "free"
       /\ helper' = [helper EXCEPT ![Callee].child = c]
       /\ proc' = [ReapedProc(Callee) EXCEPT ![c] =
                     [st |-> "running", by |-> Callee]]
       /\ pidfile' = c
  /\ Answer(TRUE)
  /\ UNCHANGED <<state, session, link, history>>

\* spawn_client, the pid file cannot be written: the client is killed and given two
\* seconds, and its handle is dropped whether or not it went.
PidFileFails ==
  /\ op["main"].at = "call" /\ Serves(Callee) /\ ReapedChild(Callee) = None
  /\ helper' = [helper EXCEPT ![Callee].child = None]
  /\ \E c \in site.pids :
       /\ ReapedProc(Callee)[c].st = "free"
       /\ \E q \in {NoProcess, [st |-> "disowned", by |-> Callee]} :
            proc' = [ReapedProc(Callee) EXCEPT ![c] = q]
  /\ pidfile' = None
  /\ Answer(FALSE)
  /\ UNCHANGED <<state, session, link, history>>

\* No helper, a refusal, or a client that could not be started.
ConnectFails ==
  /\ op["main"].at = "call"
  /\ IF Serves(Callee)
     THEN /\ helper' = [helper EXCEPT ![Callee].child = ReapedChild(Callee)]
          /\ proc' = ReapedProc(Callee)
     ELSE UNCHANGED procs
  /\ Answer(FALSE)
  /\ UNCHANGED <<session, runfiles, link, history>>

\* The end of do_connect, and of connect.
ConnectReturns ==
  /\ op["main"].at = "answer"
  /\ IF op["main"].ok
     THEN /\ Remove(StatusOf)
          /\ active' = IF op["main"].kind = "connect" THEN op["main"].profile ELSE active
     ELSE /\ state' = None
          /\ UNCHANGED <<pidfile, active>>
  /\ Finish("main")
  /\ UNCHANGED <<gui, bin, presence, site, link, procs, history>>

-----------------------------------------------------------------------------
(* disconnect.                                                             *)

\* A wrong variant: the intent is cleared only once the client is gone.
UserDisconnect_KeepsIntent ==
  /\ gui /\ op["main"].at = "idle"
  /\ IF StatusOf = "connecting" THEN state' = None /\ UNCHANGED pidfile ELSE Remove(StatusOf)
  /\ IF StatusOf = "connected"
     THEN Goto("main", [Idle EXCEPT !.at = "stop", !.kind = "disconnect", !.pid = pidfile])
     ELSE UNCHANGED op
  /\ down' = (StatusOf # "connected")
  /\ UNCHANGED <<prompted, session, link, procs>>

\* The intent is cleared up front.  A run without pid is merely forgotten.
UserDisconnect ==
  /\ gui /\ op["main"].at = "idle"
  /\ active' = None
  /\ IF StatusOf = "connecting" THEN state' = None /\ UNCHANGED pidfile ELSE Remove(StatusOf)
  /\ IF StatusOf = "connected"
     THEN Goto("main", [Idle EXCEPT !.at = "stop", !.kind = "disconnect", !.pid = pidfile])
     ELSE UNCHANGED op
  /\ down' = (StatusOf # "connected")
  /\ UNCHANGED <<gui, bin, presence, site, prompted, link, procs>>

StopPing ==
  /\ op["main"].at = "stop"
  /\ Ping("main", LiveEndpoint, "choose")
  /\ UNCHANGED <<session, runfiles, link, history>>

\* The helper is asked if it supervises this very pid.
StopAsks ==
  /\ op["main"].at = "choose"
  /\ op["main"].resp # None /\ op["main"].resp.child = op["main"].pid
  /\ Serves(LiveEndpoint)
  /\ helper' = [helper EXCEPT ![LiveEndpoint].busy = TRUE]
  /\ Goto("main", [op["main"] EXCEPT !.at = "stopping", !.resp.from = LiveEndpoint])
  /\ UNCHANGED <<proc, session, runfiles, link, history>>

StopByPid ==
  /\ op["main"].at = "choose"
  /\ op["main"].resp # None /\ Serves(LiveEndpoint) => op["main"].resp.child # op["main"].pid
  /\ Step("main", "kill")
  /\ UNCHANGED <<session, runfiles, link, procs, history>>

\* A wrong variant: the child that survived SIGKILL is dropped.
HelperStops_Forgets(h) ==
  /\ helper[h].st = "up" /\ helper[h].busy
  /\ LET c == helper[h].child
         dead == c = None \/ proc[c].st # "stuck" IN
     /\ helper' = [helper EXCEPT ![h].busy = FALSE, ![h].child = None]
     /\ proc' = IF c = None \/ ~dead THEN proc ELSE [proc EXCEPT ![c] = NoProcess]
     /\ IF op["main"].at = "stopping" /\ op["main"].resp.from = h
        THEN Step("main", IF dead THEN "reap" ELSE "kill")
        ELSE UNCHANGED op
  /\ UNCHANGED <<session, runfiles, link, history>>

\* Cmd::Disconnect and stop_child: SIGTERM, SIGKILL; a child that survives both
\* is put back.
HelperStops(h) ==
  /\ helper[h].st = "up" /\ helper[h].busy
  /\ LET c == helper[h].child
         dead == c = None \/ proc[c].st # "stuck" IN
     /\ helper' = [helper EXCEPT ![h].busy = FALSE, ![h].child = IF dead THEN None ELSE c]
     /\ proc' = IF c = None \/ ~dead THEN proc ELSE [proc EXCEPT ![c] = NoProcess]
     /\ IF op["main"].at = "stopping" /\ op["main"].resp.from = h
        THEN Step("main", IF dead THEN "reap" ELSE "kill")
        ELSE UNCHANGED op
  /\ UNCHANGED <<session, runfiles, link, history>>

\* The helper went away before it answered.
StopLost ==
  /\ op["main"].at = "stopping" /\ ~helper[op["main"].resp.from].busy
  /\ Step("main", "kill")
  /\ UNCHANGED <<session, runfiles, link, procs, history>>

\* A process dies: its live parent has yet to wait for it.
Dead(c) ==
  IF proc[c].by # None /\ helper[proc[c].by].child = c
  THEN [proc EXCEPT ![c].st = "exited"]
  ELSE [proc EXCEPT ![c] = NoProcess]

\* kill_elevated.  Declined, or no such process: disconnect fails at once.
Kill ==
  /\ op["main"].at = "kill"
  /\ RaiseDialog(op["main"].kind)
  /\ LET c == op["main"].pid IN
     \/ Finish("main") /\ UNCHANGED proc
     \/ /\ proc[c].st # "free" \/ site.os = "windows"
        /\ proc' = IF proc[c].st \in {"running", "foreign"} THEN Dead(c) ELSE proc
        /\ Step("main", "reap")
  /\ UNCHANGED <<helper, down, session, runfiles, link>>

\* wait_for_exit; the files go whether or not the process did.
Reap ==
  /\ op["main"].at = "reap"
  /\ state' = None /\ pidfile' = None
  /\ down' = ~PidAlive(op["main"].pid)
  /\ Finish("main")
  /\ UNCHANGED <<prompted, session, link, procs>>

-----------------------------------------------------------------------------
(* The reconnect watcher's round, under AppState.lock.                     *)

\* A run this session did not start is adopted.
WatchAdopts ==
  /\ gui /\ op["main"].at = "idle"
  /\ StatusOf = "connected" /\ active = None
  /\ active' = state.profile
  /\ UNCHANGED <<gui, bin, op, presence, site, runfiles, link, procs, history>>

\* A round that found the tunnel down: is a helper there?
WatchRound ==
  /\ Remove(StatusOf)
  /\ LET h == LiveEndpoint
         o == [Idle EXCEPT !.at = "retry", !.kind = "watch"] IN
     IF h = None
     THEN Goto("main", o) /\ UNCHANGED procs
     ELSE /\ Goto("main", [o EXCEPT !.resp = [from |-> h, child |-> ReapedChild(h),
                                             bin |-> helper[h].bin]])
          /\ helper' = [helper EXCEPT ![h].child = ReapedChild(h)]
          /\ proc' = ReapedProc(h)
  /\ UNCHANGED <<session, link, history>>

\* A wrong variant: acts only in the round that finds the dead run on file.
WatchPing_SeesDeath ==
  /\ gui /\ op["main"].at = "idle"
  /\ StatusOf = "dead" /\ active # None
  /\ WatchRound

\* The client is gone and the intent says up.
WatchPing ==
  /\ gui /\ op["main"].at = "idle"
  /\ Disconnected(StatusOf) /\ active # None
  /\ WatchRound

\* Without a helper the intent is dropped; with one, connect as the user would.
WatchDecides ==
  /\ op["main"].at = "retry"
  /\ IF op["main"].resp = None
     THEN active' = None /\ Finish("main") /\ UNCHANGED runfiles
     ELSE BeginConnect("watch", active) /\ UNCHANGED active
  /\ UNCHANGED <<gui, bin, presence, site, link, procs, history>>

-----------------------------------------------------------------------------
(* The helper's own life.                                                  *)

\* The dialog is approved.  The helper serves only if the token is there, and
\* publishes its port.
HelperStarts(h) ==
  /\ helper[h].st = "asked"
  /\ IF token
     THEN helper' = [helper EXCEPT ![h].st = "up"] /\ port' = h
     ELSE helper' = Exited(h) /\ port' = None
  /\ UNCHANGED <<op, token, proc, session, runfiles, history>>

Declined(h) ==
  /\ helper[h].st = "asked"
  /\ helper' = Exited(h)
  /\ UNCHANGED <<op, proc, session, runfiles, link, history>>

\* launchd keeps the daemon up.
DaemonStarts ==
  /\ site.daemon /\ helper[Daemon].st = "none"
  /\ helper' = [helper EXCEPT ![Daemon].st = "up"]
  /\ UNCHANGED <<op, proc, session, runfiles, link, history>>

\* A wrong variant: forgets to count.
Janitor_NeverCounts(h) ==
  /\ h # Daemon /\ helper[h].st = "up" /\ ~helper[h].busy /\ ~token
  /\ helper' = [helper EXCEPT ![h].child = ReapedChild(h)]
  /\ proc' = ReapedProc(h)
  /\ UNCHANGED <<op, session, runfiles, link, history>>

\* The janitor's tick: the token has been gone for a while and no client runs.
Janitor(h) ==
  /\ h # Daemon /\ helper[h].st = "up" /\ ~helper[h].busy
  /\ IF token
     THEN helper' = [helper EXCEPT ![h].missing = 0] /\ UNCHANGED <<port, proc>>
     ELSE /\ proc' = ReapedProc(h)
          /\ IF helper[h].missing + 1 >= JanitorTicks /\ ReapedChild(h) = None
             THEN helper' = Exited(h) /\ port' = None
             ELSE /\ helper' = [helper EXCEPT ![h].child = ReapedChild(h),
                       ![h].missing = IF @ < JanitorTicks THEN @ + 1 ELSE @]
                  /\ UNCHANGED port
  /\ UNCHANGED <<op, token, session, runfiles, history>>

\* The user removes the token; bounded to the time between two sessions.
TokenRevoked ==
  /\ ~gui /\ token /\ token' = FALSE
  /\ UNCHANGED <<op, port, session, runfiles, procs, history>>

\* The helper is killed; its client is orphaned.
HelperDies(h) ==
  /\ helper[h].st = "up"
  /\ helper' = Exited(h)
  /\ proc' = [c \in Client |-> IF proc[c].by # h THEN proc[c]
                               ELSE IF proc[c].st = "exited" THEN NoProcess
                               ELSE [proc[c] EXCEPT !.by = None]]
  /\ UNCHANGED <<op, session, runfiles, link, history>>

-----------------------------------------------------------------------------
(* Clients, the application and the machine.                               *)

ClientDies(c) ==
  /\ proc[c].st \in Alive
  /\ proc' = Dead(c)
  /\ UNCHANGED <<op, helper, session, runfiles, link, history>>

\* Uninterruptible I/O: no signal is seen until it returns.
ClientWedges(c) ==
  /\ proc[c].st = "running"
  /\ proc' = [proc EXCEPT ![c].st = "stuck"]
  /\ UNCHANGED <<op, helper, session, runfiles, link, history>>

GuiGone ==
  /\ gui' = FALSE /\ active' = None /\ presence' = FALSE
  /\ op' = [t \in Thread |-> Idle]
  /\ down' = FALSE

\* on_app_exit: an idle session helper is shut down and its files removed.
GuiExits ==
  /\ gui /\ GuiGone
  /\ LET h == SessionEndpoint IN
     IF h = None
     THEN UNCHANGED <<link, procs>>
     ELSE /\ proc' = ReapedProc(h)
          /\ IF ReapedChild(h) = None
             THEN helper' = Exited(h) /\ token' = FALSE /\ port' = None
             ELSE UNCHANGED <<helper, link>>
  /\ UNCHANGED <<bin, site, prompted, runfiles>>

\* The same while the shutdown request is lost: the files go all the same.
GuiExitsUnheard ==
  /\ gui /\ GuiGone
  /\ SessionEndpoint # None /\ ReapedChild(SessionEndpoint) = None
  /\ helper' = [helper EXCEPT ![SessionEndpoint].child = None]
  /\ proc' = ReapedProc(SessionEndpoint)
  /\ token' = FALSE /\ port' = None
  /\ UNCHANGED <<bin, site, prompted, runfiles>>

GuiCrashes ==
  /\ gui /\ GuiGone
  /\ UNCHANGED <<bin, site, prompted, runfiles, link, procs>>

\* The application starts and init_privileges runs, silent where the daemon does.
GuiStarts ==
  /\ ~gui /\ gui' = TRUE
  /\ op' = [op EXCEPT !["init"] =
       IF bin = None \/ (site.daemon /\ DaemonBin = bin) THEN Idle
       ELSE [Idle EXCEPT !.at = "ensure", !.kind = "init", !.bin = bin]]
  /\ UNCHANGED <<active, bin, presence, site, runfiles, link, procs, history>>

\* A reboot keeps the files; the recorded pid may come back as another process.
Reboot ==
  /\ GuiGone
  /\ helper' = [h \in Helper |-> Exited(h)[h]]
  /\ \E S \in SUBSET ({pidfile} \ {None}) :
       proc' = [c \in Client |-> [NoProcess EXCEPT !.st = IF c \in S THEN "foreign" ELSE "free"]]
  /\ state' = IF state = None THEN None ELSE [state EXCEPT !.old = TRUE]
  /\ UNCHANGED <<bin, pidfile, site, prompted, link>>

ForeignExits(c) ==
  /\ proc[c].st = "foreign" /\ pidfile # c
  /\ proc' = [proc EXCEPT ![c] = NoProcess]
  /\ UNCHANGED <<op, helper, session, runfiles, link, history>>

\* Thirty seconds pass; they matter only while there is no pid.
RunAges ==
  /\ state # None /\ ~state.aged /\ pidfile = None
  /\ state' = [state EXCEPT !.aged = TRUE]
  /\ UNCHANGED <<op, pidfile, session, link, procs, history>>

SettingsChange ==
  /\ gui /\ \E c \in site.changes : bin = c[1] /\ bin' = c[2]
  /\ UNCHANGED <<gui, active, op, presence, site, runfiles, link, procs, history>>

-----------------------------------------------------------------------------
DInit ==
  /\ site \in Sites /\ bin = site.bin
  /\ gui = FALSE /\ active = None
  /\ op = [t \in Thread |-> Idle]
  /\ state = None /\ pidfile = None /\ token = FALSE /\ port = None
  /\ helper = [h \in Helper |-> [NoHelper EXCEPT !.bin = IF h = Daemon THEN DaemonBin ELSE None]]
  /\ proc = [c \in Client |-> NoProcess]
  /\ presence = FALSE
  /\ prompted = FALSE /\ down = FALSE

\* The steps a thread of the GUI takes by itself once a command has begun.
EnsureStep(t) == EnsureDaemon(t) \/ EnsurePing(t) \/ EnsureReuse(t) \/ EnsureRefuse(t)
                 \/ Spawn(t) \/ SpawnFails(t) \/ SpawnDone(t)
MainStep == \/ EnsureExisting \/ Record \/ Find \/ HelperConnects \/ PidFileFails
            \/ ConnectFails \/ ConnectReturns \/ StopPing \/ StopAsks \/ StopByPid
            \/ StopLost \/ Kill \/ Reap \/ WatchDecides

DNext ==
  \/ \E p \in Profile : UserConnect(p)
  \/ UserDisconnect
  \/ \E t \in {"main", "init"} : EnsureStep(t)
  \/ MainStep
  \/ WatchAdopts \/ WatchPing
  \/ PollReads \/ PollDeletes
  \/ \E h \in Helper : HelperStarts(h) \/ Declined(h) \/ HelperStops(h) \/ Janitor(h)
                       \/ HelperDies(h)
  \/ DaemonStarts \/ TokenRevoked
  \/ \E c \in Client : ClientDies(c) \/ ClientWedges(c) \/ ForeignExits(c)
  \/ GuiExits \/ GuiExitsUnheard \/ GuiCrashes \/ GuiStarts \/ Reboot
  \/ RunAges \/ SettingsChange

\* Threads keep running, dialogs are answered one way or the other, timers fire.
DFairness ==
  /\ \A t \in {"main", "init"} : WF_dvars(EnsureStep(t))
  /\ WF_dvars(MainStep) /\ WF_dvars(WatchPing)
  /\ \A h \in Helper : WF_dvars(Janitor(h)) /\ WF_dvars(HelperStops(h))
  /\ WF_dvars(RunAges) /\ WF_dvars(PollDeletes)

DSpec == DInit /\ [][DNext]_dvars /\ DFairness

-----------------------------------------------------------------------------
(* Properties.                                                             *)

\* Types of the application's, the helper's and the client's state.
DTypeOK ==
  /\ gui \in BOOLEAN /\ active \in Profile \cup {None} /\ bin \in Bin \cup {None}
  /\ op \in [Thread -> Op]
  /\ state \in RunState \cup {None} /\ pidfile \in Client \cup {None}
  /\ token \in BOOLEAN /\ port \in SessionHelper \cup {None}
  /\ helper \in [Helper -> HelperProc] /\ proc \in [Client -> Process]
  /\ presence \in BOOLEAN /\ site \in Sites
  /\ prompted \in BOOLEAN
  /\ down \in BOOLEAN

\* helper.rs, ensure_existing: the watcher never raises a credential dialog,
\* whatever dies between its ping and its connect.
WatcherNeverPrompts == ~prompted

\* Helper, Cmd::Disconnect: a client that survived SIGKILL is put back, so that the
\* next Connect starts no second one.  Of the clients a helper has started, two are
\* alive only if all but one have been disowned by spawn_client, which neither puts
\* the client back nor looks whether it went.  (With the types of the state.)
OneClientPerHelper ==
  /\ DTypeOK
  /\ \A h \in Helper :
       Cardinality({c \in Client : /\ proc[c].by = h
                                   /\ proc[c].st \in Alive \ {"disowned"}}) <= 1

\* runner.rs, current_status: the pid a disconnect sets out to stop is never one
\* that was recorded before a reboot and now belongs to another process.
NeverAimsAtForeign == op["main"].pid # None => proc[op["main"].pid].st # "foreign"

\* runner.rs, disconnect: after a disconnect that succeeded, the watcher starts no
\* client until the user connects again.
DisconnectIsFinal ==
  op["main"].kind = "watch" /\ op["main"].at \in {"record", "find", "call"} => ~down

\* Helper, Shutdown and janitor: a helper that leaves by itself has stopped its
\* client first, or never got it to go; only one that is killed, or the machine going
\* down, leaves a client running that a signal would have stopped.
OnlyDeathOrphans ==
  [][\A h \in Helper :
        /\ helper[h].st = "up" /\ helper'[h].st # "up"
        /\ helper[h].child # None /\ proc[helper[h].child].st = "running"
        => HelperDies(h) \/ proc'[helper[h].child].st # "running"]_dvars

\* Helper, janitor: an idle helper whose token is gone leaves, unless the token
\* returns or it gets a client; and it does not leave a running client behind.
RevokedHelperLeaves ==
  /\ \A h \in SessionHelper :
       (helper[h].st = "up" /\ ~token) ~> (helper[h].st # "up" \/ token \/ helper[h].child # None)
  /\ OnlyDeathOrphans

\* reconnect.rs: when the client dies and the intent is up, the watcher sets out to
\* bring it back, unless a connect is under way or the intent is dropped.
ClientDown == gui /\ active # None /\ \A c \in Client : proc[c].st \notin {"running", "stuck"}
Retried == \/ ~gui \/ active = None
           \/ \E c \in Client : proc[c].st \in {"running", "stuck"}
           \/ op["main"].at \in {"retry", "ensure"}
DeadClientIsRetried == ClientDown ~> Retried

\* The same where an exited process is not reported as alive until reaped.
DeadClientIsRetriedOnWindows == (ClientDown /\ site.os = "windows") ~> Retried
=============================================================================
