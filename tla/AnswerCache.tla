---------------------------- MODULE AnswerCache ----------------------------
(***************************************************************************)
(* The DNS answer cache of the split-DNS resolver, src/policy/cache.rs:    *)
(* get, put with its pruning at MAX_ENTRIES, and the snapshot file that    *)
(* carries the cache from one resolver to the next (load, save, and the    *)
(* CacheGuard of src/policy/mod.rs that calls save).                       *)
(*                                                                         *)
(* `expires` is an Instant; what matters of it is how long it is still     *)
(* ahead, so an entry carries the ticks it has left.  The snapshot keeps   *)
(* whole seconds only, so a second is several ticks.  Nothing measures     *)
(* the time between two runs: load starts each lifetime over from the      *)
(* seconds on file.                                                        *)
(***************************************************************************)
EXTENDS Naturals, FiniteSets, Functions, Absent

CONSTANTS Key,           \* questions: name, qtype, qclass
          MAX_ENTRIES,
          MIN_TTL, MAX_TTL, DEFAULT_TTL,   \* seconds
          Ttls,          \* the answers' own TTLs, with None for an answer without one
          TicksPerSec,   \* resolution of an Instant, in ticks a second
          MaxReplays     \* bound: runs killed before they saved

ASSUME CacheAssumption ==
    /\ MAX_ENTRIES \in Nat \ {0} /\ TicksPerSec \in Nat \ {0}
    /\ MIN_TTL \in Nat \ {0} /\ MAX_TTL \in Nat /\ MIN_TTL <= MAX_TTL
    /\ DEFAULT_TTL \in MIN_TTL..MAX_TTL /\ Ttls \subseteq Nat \cup {None}
    /\ MaxReplays \in Nat

VARIABLES map,      \* the cache: question -> entry
          snapshot, \* the file: question -> whole seconds and history, or unreadable
          running   \* a resolver owns the cache

acvars == <<map, snapshot, running>>

Empty == [k \in {} |-> None]

\* left: ticks until `expires`; life: the lifetime put granted.  The rest is history:
\* the ticks the answer has spent in a cache since it was put, whether it is on file,
\* and how many runs were killed while it was.
Entry == [left : Nat, life : MIN_TTL..MAX_TTL, age : Nat, filed : BOOLEAN, killed : Nat]

Partial(m) == DOMAIN m \subseteq Key /\ \A k \in DOMAIN m : m[k] \in Entry

\* The map never outgrows MAX_ENTRIES, whatever was put, pruned or loaded, and neither
\* does the file (cache.rs put, save, load).
ACTypeOK ==
    /\ running \in BOOLEAN
    /\ Partial(map) /\ Cardinality(DOMAIN map) <= MAX_ENTRIES
    /\ Partial(snapshot.map) /\ Cardinality(DOMAIN snapshot.map) <= MAX_ENTRIES

Clamp(t) == IF t < MIN_TTL THEN MIN_TTL ELSE IF t > MAX_TTL THEN MAX_TTL ELSE t
Lifetime(ttl) == Clamp(IF ttl = None THEN DEFAULT_TTL ELSE ttl)

Fresh(m) == {k \in DOMAIN m : m[k].left > 0}

-----------------------------------------------------------------------------

\* A hit changes nothing; an entry past its time is removed when it is looked up.
Get(k) ==
    /\ running /\ k \in DOMAIN map /\ map[k].left = 0
    /\ map' = Restrict(map, DOMAIN map \ {k})
    /\ UNCHANGED <<snapshot, running>>

\* Room for a new question: expired entries go first, and everything if that is not enough.
Pruned(k) ==
    IF Cardinality(DOMAIN map) < MAX_ENTRIES \/ k \in DOMAIN map THEN map
    ELSE IF Cardinality(Fresh(map)) < MAX_ENTRIES THEN Restrict(map, Fresh(map))
    ELSE Empty

PutAnswer(k, ttl) ==
    /\ running
    /\ LET m == Pruned(k)
           e == [left |-> Lifetime(ttl) * TicksPerSec, life |-> Lifetime(ttl),
                 age |-> 0, filed |-> FALSE, killed |-> 0]
       IN map' = [j \in DOMAIN m \cup {k} |-> IF j = k THEN e ELSE m[j]]
    /\ UNCHANGED <<snapshot, running>>

\* History: the copy on file of an answer being served has the same past.
Aged(m) ==
    [k \in DOMAIN m |->
        IF k \in Fresh(map) /\ map[k].filed THEN [m[k] EXCEPT !.age = map[k].age + 1]
        ELSE m[k]]

Tick ==
    /\ running /\ Fresh(map) # {}
    /\ map' = [k \in DOMAIN map |->
                 IF map[k].left = 0 THEN map[k]
                 ELSE [map[k] EXCEPT !.left = @ - 1, !.age = @ + 1]]
    /\ snapshot' = [ok |-> snapshot.ok, map |-> Aged(snapshot.map)]
    /\ UNCHANGED running

\* A plausible slip: the whole lifetime is written back.
Saved_Whole ==
    [k \in {j \in DOMAIN map : map[j].left >= TicksPerSec} |->
        [map[k] EXCEPT !.left = map[k].life * TicksPerSec, !.filed = TRUE]]

\* What save writes: whole seconds, rounded down, and only if there is one.
Saved ==
    [k \in {j \in DOMAIN map : map[j].left >= TicksPerSec} |->
        [map[k] EXCEPT !.left = (@ \div TicksPerSec) * TicksPerSec, !.filed = TRUE]]

\* CacheGuard::drop: a resolver that ends in order writes the file.
Save ==
    /\ running
    /\ snapshot' = [ok |-> TRUE, map |-> Saved]
    /\ map' = Empty /\ running' = FALSE

\* A crash writes nothing, or leaves a file that stops half way.  What the run served
\* of the answers on file is not on file.
CrashUnsaved(torn) ==
    /\ running
    /\ torn \/ \A k \in DOMAIN snapshot.map : snapshot.map[k].killed < MaxReplays
    /\ snapshot' =
         IF torn THEN [ok |-> FALSE, map |-> Empty]
         ELSE [ok |-> snapshot.ok,
               map |-> [k \in DOMAIN snapshot.map |->
                          [snapshot.map[k] EXCEPT !.killed = @ + 1]]]
    /\ map' = Empty /\ running' = FALSE

\* spawn loads the file; a missing or corrupt one loads nothing.
Load ==
    /\ ~running
    /\ map' = IF snapshot.ok THEN snapshot.map ELSE Empty
    /\ running' = TRUE
    /\ UNCHANGED snapshot

ACInit == map = Empty /\ snapshot = [ok |-> FALSE, map |-> Empty] /\ running = FALSE

ACNext ==
    \/ \E k \in Key : Get(k) \/ \E ttl \in Ttls : PutAnswer(k, ttl)
    \/ Tick \/ Save \/ Load
    \/ \E torn \in BOOLEAN : CrashUnsaved(torn)

ACSpec == ACInit /\ [][ACNext]_acvars

-----------------------------------------------------------------------------

\* However often an answer goes through the snapshot file, the time it still has and
\* the time it has been served never add up to more than the lifetime put granted it,
\* and that once more for every run killed while the answer was on file: such a run
\* leaves the file as it found it, and the next one serves the same seconds again.
\* The time between two runs is not counted (cache.rs save, load; CacheGuard).
LifetimeIsKept ==
    \A k \in DOMAIN map : LET e == map[k] IN
        e.left + e.age <= e.life * TicksPerSec * (1 + e.killed)

\* While a resolver runs, an answer that has not expired is lost only to a newer answer
\* for its question, or when the cache is full of unexpired answers (cache.rs put).
FreshAnswersStay ==
    [][(running /\ running') =>
         \/ Fresh(map) \subseteq DOMAIN map'
         \/ Cardinality(Fresh(map)) >= MAX_ENTRIES]_acvars
=============================================================================
