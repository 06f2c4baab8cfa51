----------------------------- MODULE DnsJournal -----------------------------
(***************************************************************************)
(* Taking over the system resolver and giving it back (policy/dnsconf.rs): *)
(* apply, DnsGuard, the restore journal, restore_stale, and the desktop    *)
(* application's healing through its helper (reconnect.rs, helper.rs).     *)
(*                                                                         *)
(* A process is a client between apply and the drop of its guard, or a     *)
(* client run with --restore-dns.  The helper that starts both is single-  *)
(* threaded and refuses a restore while it supervises a client, so there   *)
(* is one at a time (a client that has outlived its helper is left out).   *)
(* It can be killed between any two steps.                                 *)
(***************************************************************************)
EXTENDS Integers, Absent

CONSTANTS
  Users, Automatic, Proxy, Part,
  Corrupt,      \* a journal that does not parse
  MaxFaults,    \* bound: commands and writes that fail
  MaxCrashes,   \* bound: processes killed
  MaxEdits      \* bound: changes by the user

VARIABLES
  os,        \* "link", "file" (Linux), "macos" or "windows"
  status,    \* runner::current_status, as far as it is "disconnected" or not
  helper,    \* an elevated helper answers a ping
  resolver,  \* the system's setting
  journal,   \* dns-restore.json
  who,       \* the running process: "none", "run", "heal"
  at,        \* its next step
  held,      \* DnsGuard's restore
  owed,      \* history: what was there before the takeover, until it is back
  lost,      \* history: the record was lost to a fault
  faults, crashes, edits

host == <<os, status, helper>>
record == <<journal, held>>
step == <<who, at>>
ghosts == <<owed, lost>>
bounds == <<faults, crashes, edits>>
jvars == <<host, resolver, record, step, ghosts, bounds>>

Setting == Users \cup {Automatic, Proxy, Part}
Readable == journal \notin {None, Corrupt}

ASSUME JournalAssumption ==
  /\ {Automatic, Proxy, Part} \cap Users = {}
  /\ Automatic # Proxy /\ Automatic # Part /\ Proxy # Part
  /\ {None, Corrupt} \cap Setting = {} /\ None # Corrupt
  /\ MaxFaults \in Nat /\ MaxCrashes \in Nat /\ MaxEdits \in Nat

Fault == faults < MaxFaults /\ faults' = faults + 1 /\ UNCHANGED <<crashes, edits>>
Ends == who' = "none" /\ at' = "idle" /\ held' = None
Goto(place) == at' = place /\ UNCHANGED who

\* is_stale_proxy_list in restore, sanitize_prev, sanitize and the resolv.conf marker:
\* the proxy's own address stands for automatic.
Clean(v) == IF v = Proxy THEN Automatic ELSE v

\* imp::restore of a user's setting takes two commands, except on macOS: remove and
\* symlink, truncate and write, the first server and the others.
TwoStep(v) == os # "macos" /\ v \in Users
Halfway == IF os = "link" THEN Automatic ELSE Part

-----------------------------------------------------------------------------
(* apply.                                                                  *)

\* read_journal deletes a journal that does not parse.  (A proxy on another port than
\* 53 leaves the resolver alone: no step.)
RunStarts ==
  /\ who = "none" /\ who' = "run"
  /\ at' = IF Readable THEN "selfheal" ELSE "snapshot"
  /\ journal' = IF Readable THEN journal ELSE None
  /\ UNCHANGED <<host, resolver, held, ghosts, bounds>>

SelfHealBegins ==
  /\ at = "selfheal" /\ TwoStep(Clean(journal))
  /\ resolver' = Halfway
  /\ Goto("selfheal2")
  /\ UNCHANGED <<host, record, ghosts, bounds>>

SelfHealDone ==
  /\ at = IF TwoStep(Clean(journal)) THEN "selfheal2" ELSE "selfheal"
  /\ resolver' = Clean(journal)
  /\ journal' = None /\ owed' = None
  /\ Goto("snapshot")
  /\ UNCHANGED <<host, held, lost, bounds>>

\* "could not restore from the stale journal; continuing": the journal goes all the same.
SelfHealFails ==
  /\ at \in {"selfheal", "selfheal2"} /\ Fault
  /\ journal' = None /\ lost' = TRUE
  /\ Goto("snapshot")
  /\ UNCHANGED <<host, resolver, held, owed>>

\* snapshot, then write_journal (one rename); without a journal the run goes on.
Snapshot ==
  /\ at = "snapshot"
  /\ held' = Clean(resolver)
  /\ owed' = IF resolver = Proxy THEN owed ELSE resolver
  /\ \/ journal' = Clean(resolver) /\ UNCHANGED <<lost, bounds>>
     \/ Fault /\ lost' = TRUE /\ UNCHANGED journal
  /\ Goto("engage")
  /\ UNCHANGED <<host, resolver>>

\* No primary service or interface: apply fails before it has touched anything.
SnapshotFails ==
  /\ at = "snapshot" /\ Fault
  /\ Ends
  /\ UNCHANGED <<host, resolver, journal, ghosts>>

\* engage; on Linux resolv.conf is removed first.
EngageBegins ==
  /\ at = "engage" /\ os \in {"link", "file"}
  /\ resolver' = Automatic
  /\ Goto("engage2")
  /\ UNCHANGED <<host, record, ghosts, bounds>>

Engage ==
  /\ at = IF os \in {"link", "file"} THEN "engage2" ELSE "engage"
  /\ resolver' = Proxy
  /\ Goto("engaged")
  /\ UNCHANGED <<host, record, ghosts, bounds>>

EngageFails ==
  /\ at \in {"engage", "engage2"} /\ Fault
  /\ Ends
  /\ UNCHANGED <<host, resolver, journal, ghosts>>

-----------------------------------------------------------------------------
(* Giving back: DnsGuard::drop, and restore_stale.                         *)

DropBegins ==
  /\ at = "engaged"
  /\ Goto("restore")
  /\ UNCHANGED <<host, resolver, record, ghosts, bounds>>

\* Neither asks while a tunnel is up or coming up, nor raises a prompt to get a helper.
MayAsk == status = "disconnected" /\ helper

\* restore_dns_best_effort asks at launch, journal or not; maybe_restore_dns asks
\* later, only when there is one.
AskedAtLaunch == MayAsk /\ who = "none"
AskedByWatcher == MayAsk /\ who = "none" /\ journal # None

\* heal_proxy_dns: a leftover proxy address gives way to automatic.
HealProxyDns ==
  \/ resolver' = Clean(resolver) /\ UNCHANGED bounds
  \/ resolver = Proxy /\ Fault /\ UNCHANGED resolver

\* A wrong variant: the resolver is reset whatever it points at.
HealStarts_AnyResolver(launch) ==
  /\ IF launch THEN AskedAtLaunch ELSE AskedByWatcher
  /\ IF Readable
     THEN /\ who' = "heal" /\ at' = "restore"
          /\ UNCHANGED <<resolver, journal, bounds>>
     ELSE /\ journal' = None /\ resolver' = Automatic
          /\ UNCHANGED <<who, at, bounds>>
  /\ UNCHANGED <<host, held, ghosts>>

\* Cmd::RestoreDns.  Without a readable journal, heal_proxy_dns.
HealStarts(launch) ==
  /\ IF launch THEN AskedAtLaunch ELSE AskedByWatcher
  /\ IF Readable
     THEN /\ who' = "heal" /\ at' = "restore"
          /\ UNCHANGED <<resolver, journal, bounds>>
     ELSE /\ journal' = None
          /\ HealProxyDns
          /\ UNCHANGED <<who, at>>
  /\ UNCHANGED <<host, held, ghosts>>

Target == IF who = "heal" THEN journal ELSE held

RestoreBegins ==
  /\ at = "restore" /\ TwoStep(Clean(Target))
  /\ resolver' = Halfway
  /\ Goto("restore2")
  /\ UNCHANGED <<host, record, ghosts, bounds>>

\* A wrong variant: the journal stays.
RestoreDone_KeepsJournal ==
  /\ at = IF TwoStep(Clean(Target)) THEN "restore2" ELSE "restore"
  /\ resolver' = Clean(Target)
  /\ owed' = None
  /\ Ends
  /\ UNCHANGED <<host, journal, lost, bounds>>

\* The last command and remove_journal; killed in between, the journal is still there.
RestoreDone ==
  /\ at = IF TwoStep(Clean(Target)) THEN "restore2" ELSE "restore"
  /\ resolver' = Clean(Target)
  /\ \/ journal' = None /\ UNCHANGED bounds
     \/ /\ crashes < MaxCrashes /\ crashes' = crashes + 1
        /\ UNCHANGED <<journal, faults, edits>>
  /\ owed' = None
  /\ Ends
  /\ UNCHANGED <<host, lost>>

\* The journal is kept for a later attempt.
RestoreFails ==
  /\ at \in {"restore", "restore2"} /\ Fault
  /\ Ends
  /\ UNCHANGED <<host, resolver, journal, ghosts>>

-----------------------------------------------------------------------------
(* The environment.                                                        *)

\* Killed, or cut off by the helper's deadline.
Crash ==
  /\ who # "none" /\ crashes < MaxCrashes
  /\ Ends /\ crashes' = crashes + 1
  /\ UNCHANGED <<host, resolver, journal, ghosts, faults, edits>>

\* A tunnel comes up or goes down; the helper is elevated, declined, or gone.
AppChanges ==
  /\ status' \in {"disconnected", "other"} /\ helper' \in BOOLEAN
  /\ <<status', helper'>> # <<status, helper>>
  /\ UNCHANGED <<os, resolver, record, step, ghosts, bounds>>

JournalDamaged ==
  /\ who = "none" /\ Readable /\ Fault
  /\ journal' = Corrupt /\ lost' = TRUE
  /\ UNCHANGED <<host, resolver, held, step, owed>>

UserChanges ==
  /\ edits < MaxEdits /\ edits' = edits + 1
  /\ resolver' \in (Users \cup {Automatic}) \ {resolver}
  /\ UNCHANGED <<host, record, step, ghosts, faults, crashes>>

-----------------------------------------------------------------------------
\* A build without sanitize_prev may have left a journal that names the proxy.
JInit ==
  /\ os \in {"link", "file", "macos", "windows"}
  /\ \/ resolver \in Users \cup {Automatic} /\ journal = None
     \/ resolver = Proxy /\ journal \in {None, Proxy}
  /\ status = "disconnected" /\ helper = FALSE
  /\ who = "none" /\ at = "idle" /\ held = None
  /\ owed = None /\ lost = FALSE
  /\ faults = 0 /\ crashes = 0 /\ edits = 0

Restores == RestoreBegins \/ RestoreDone \/ RestoreFails

JNext ==
  \/ RunStarts \/ SelfHealBegins \/ SelfHealDone \/ SelfHealFails
  \/ Snapshot \/ SnapshotFails \/ EngageBegins \/ Engage \/ EngageFails
  \/ DropBegins \/ Restores
  \/ \E launch \in BOOLEAN : HealStarts(launch)
  \/ Crash \/ AppChanges \/ JournalDamaged \/ UserChanges

\* While it may ask, the watcher asks again DNS_RESTORE_RETRY after a failure; a command
\* that was started ends.
JFairness == WF_jvars(HealStarts(FALSE)) /\ WF_jvars(Restores)

JSpec == JInit /\ [][JNext]_jvars /\ JFairness

-----------------------------------------------------------------------------
(* Properties.                                                             *)

\* Types of the resolver, the journal and the process.
JTypeOK ==
  /\ os \in {"link", "file", "macos", "windows"}
  /\ status \in {"disconnected", "other"} /\ helper \in BOOLEAN
  /\ resolver \in Setting /\ journal \in Setting \cup {None, Corrupt}
  /\ held \in Setting \cup {None} /\ owed \in Setting \cup {None} /\ lost \in BOOLEAN
  /\ \/ who = "none" /\ at = "idle" /\ held = None
     \/ who = "heal" /\ at \in {"restore", "restore2"} /\ held = None /\ Readable
     \/ who = "run" /\ at \in {"selfheal", "selfheal2"} /\ held = None /\ Readable
     \/ who = "run" /\ at = "snapshot" /\ held = None /\ journal = None
     \/ /\ who = "run" /\ at \in {"engage", "engage2", "engaged", "restore", "restore2"}
        /\ held \in Setting /\ journal \in {held, None}
  /\ faults \in 0..MaxFaults /\ crashes \in 0..MaxCrashes /\ edits \in 0..MaxEdits

\* apply: "a crash at any later point can always be recovered from disk".  From the
\* snapshot until it is back, what was there before the takeover is in the journal,
\* unless a fault cost the record.
OriginalIsOnRecord == owed # None /\ ~lost => journal = owed

\* maybe_restore_dns: a journal left behind is used up by retries that do not fail for
\* ever, unless a client takes over again, the status does not stay disconnected, or
\* no helper stays to be asked.  No journal lies unused for ever otherwise.
JournalIsHealed == []<>(journal = None \/ who = "run" \/ ~MayAsk)

\* The takeover keeps the promise of DnsPromise.
Promise ==
  INSTANCE DnsPromise WITH debt <- IF Readable THEN journal ELSE held,
                           broken <- lost, changes <- edits
PromiseKept == Promise!PSpec
=============================================================================
