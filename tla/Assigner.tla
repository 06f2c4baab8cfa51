------------------------------ MODULE Assigner ------------------------------
(***************************************************************************)
(* The node-id keyed lease table of the server's learning mode             *)
(* (src/assign.rs), with its lease file (src/state.rs) and the crashes and *)
(* restarts of the server around it.                                       *)
(*                                                                         *)
(* A HashMap is a total function whose absent keys map to None.  The four  *)
(* indexes of the struct are the four fields of one record, `table', so    *)
(* that the steps inside `allocate' are operators from tables to tables    *)
(* and a call is one action.  An assigned IPv6 address embeds the IPv4     *)
(* address in its low 32 bits, so it is represented by that IPv4 address.  *)
(***************************************************************************)
EXTENDS Integers, FiniteSets

CONSTANTS
  Node,         \* node ids that send AssignRequests
  Peer,         \* UDP endpoints the requests come from
  Ip4,          \* the IPv4 addresses that occur, as host-order numbers
  None,         \* the absent value of an Option
  ServerIp,     \* the server's own tunnel address
  Configs,      \* pool ranges and reserved sets an operator may configure
  Ip6Prefix,    \* prefix length of the server's tun_ip6, or None
  ServerIp6,    \* the address whose embedding is the server's tun_ip6, or None
  Offset,       \* first 32 bits of SHA-256 of each node id
  TTL,          \* assign_ttl, in clock ticks
  TicksPerSec,  \* clock ticks in the second the lease file counts in
  Windows,      \* TRUE: rename cannot replace, the old file is removed first
  Faults,       \* which of "write", "read", "corrupt" may happen to the file
  ForeignRows,  \* rows an operator may add to the file while it is not in use
  ClockSets,    \* times the wall clock may be set to (it is not monotonic)
  MaxTime       \* bound on the clock

VARIABLES
  table,        \* [by_node, by_ip4, by_ip6, by_peer]
  file,         \* the lease file: [state, rows]
  last_persist, \* time of the last successful write
  cfg,          \* the configuration of the running process
  up,           \* whether the server process is running
  now,          \* SystemTime::now()
  out           \* what the call of the last step returned

vars == <<table, file, last_persist, cfg, up, now, out>>

Optional(S) == S \cup {None}

Config == [start : Ip4, end : Ip4, reserved : SUBSET Ip4]

Lease == [node_id : Node, ip4 : Ip4, ip6 : Optional(Ip4),
          last_seen : Int, last_peer : Optional(Peer)]

Table == [by_node : [Node -> Optional(Lease)],
          by_ip4  : [Ip4 -> Optional(Node)],
          by_ip6  : [Ip4 -> Optional(Node)],
          by_peer : [Peer -> Optional(Node)]]

File == [state : {"missing", "corrupt", "valid"}, rows : SUBSET Lease]

\* `allocate' and `reap' return the leases they dropped; `allocate' also the
\* reply.  Other steps return nothing.
Output == [status : {"Ok", "Exhausted", "none"}, node : Optional(Node),
           ip4 : Optional(Ip4), ip6 : Optional(Ip4), dropped : SUBSET Lease]

ASSUME TypeAssumption ==
  /\ Ip4 \subseteq Nat /\ ServerIp \in Ip4 /\ ServerIp6 \in Optional(Ip4)
  /\ Ip6Prefix \in Optional(0 .. 128) /\ Windows \in BOOLEAN
  /\ Offset \in [Node -> Nat]
  /\ TTL \in Nat /\ TicksPerSec \in Nat \ {0} /\ MaxTime \in Nat
  /\ ClockSets \subseteq Nat

\* A pool is a range of addresses.  It is empty when end < start.
ASSUME ConfigAssumption ==
  /\ Configs \subseteq Config
  /\ \A c \in Configs : c.start .. c.end \subseteq Ip4

ASSUME RowAssumption == ForeignRows \subseteq Lease

ASSUME NoneAssumption ==
  /\ None \notin 0 .. 128
  /\ None \notin Node /\ None \notin Peer /\ None \notin Ip4 /\ None \notin Lease

-----------------------------------------------------------------------------
(* The table: expiry, dropping, picking an address, binding.               *)

EmptyTable == [by_node |-> [n \in Node |-> None],
               by_ip4  |-> [a \in Ip4 |-> None],
               by_ip6  |-> [a \in Ip4 |-> None],
               by_peer |-> [p \in Peer |-> None]]

Held(T) == {n \in Node : T.by_node[n] # None}

LeasesOf(T, D) == {T.by_node[n] : n \in D}

\* A clock that went back past last_seen gives a negative age: not expired.
IsExpired(last_seen, t) == t - last_seen > TTL

ExpiredNodes(T, t) == {n \in Held(T) : IsExpired(T.by_node[n].last_seen, t)}

\* drop_lease for every node of D, all of which hold leases.
DropLeases(T, D) ==
  [by_node |-> [n \in Node |-> IF n \in D THEN None ELSE T.by_node[n]],
   by_ip4  |-> [a \in Ip4 |-> IF \E n \in D : T.by_node[n].ip4 = a
                              THEN None ELSE T.by_ip4[a]],
   by_ip6  |-> [a \in Ip4 |-> IF \E n \in D : T.by_node[n].ip6 = a
                              THEN None ELSE T.by_ip6[a]],
   by_peer |-> [p \in Peer |-> IF \E n \in D : /\ T.by_node[n].last_peer = p
                                               /\ T.by_peer[p] = n
                               THEN None ELSE T.by_peer[p]]]

Usable(T, c, a, n) ==
  /\ a \in c.start .. c.end
  /\ a # ServerIp
  /\ a \notin c.reserved
  /\ T.by_ip4[a] \in {None, n}

\* IPv6 is only handed out under a prefix that leaves 32 bits to embed into.
AssignIp6 == Ip6Prefix # None /\ Ip6Prefix <= 96

\* ip6_for does not answer SkipV4.
Ip6Free(T, a, n, want6) ==
  want6 /\ AssignIp6 => /\ a # ServerIp6
                        /\ T.by_ip6[a] \in {None, n}

Ip6For(a, want6) == IF want6 /\ AssignIp6 THEN a ELSE None

TryIp4(T, c, a, n, want6) == Usable(T, c, a, n) /\ Ip6Free(T, a, n, want6)

\* A wrong variant: the probe is one candidate short of the pool.
PickAddr_ShortProbe(T, c, n, hint, want6) ==
  LET span    == c.end - c.start + 1
      Cand(k) == c.start + ((Offset[n] + k) % span)
      hits    == {k \in 0 .. span - 2 : TryIp4(T, c, Cand(k), n, want6)}
  IN  IF TryIp4(T, c, hint, n, want6) THEN hint
      ELSE IF hits = {} THEN None
      ELSE Cand(CHOOSE k \in hits : \A j \in hits : k <= j)

\* The hint if it can be had, else the first candidate of the circular probe
\* that starts at the hash of the node id, else None.
PickAddr(T, c, n, hint, want6) ==
  LET span    == c.end - c.start + 1
      Cand(k) == c.start + ((Offset[n] + k) % span)
      hits    == {k \in 0 .. span - 1 : TryIp4(T, c, Cand(k), n, want6)}
  IN  IF TryIp4(T, c, hint, n, want6) THEN hint
      ELSE IF hits = {} THEN None
      ELSE Cand(CHOOSE k \in hits : \A j \in hits : k <= j)

\* A wrong variant: max_by_key.
Oldest_Newest(T) ==
  {n \in Held(T) : \A m \in Held(T) :
                     T.by_node[n].last_seen >= T.by_node[m].last_seen}

\* The leases min_by_key may return: HashMap order breaks ties.
Oldest(T) ==
  {n \in Held(T) : \A m \in Held(T) :
                     T.by_node[n].last_seen <= T.by_node[m].last_seen}

\* A wrong variant: the lease forgets its IPv6 address.
Refresh_ForgetsIp6(T, n, p, t) ==
  [T EXCEPT !.by_node[n].last_seen = t,
            !.by_node[n].ip6 = None]

\* refresh_existing: the lease follows its node to the requesting endpoint.
Refresh(T, n, p, t) ==
  [by_node |-> [T.by_node EXCEPT ![n] =
                  [@ EXCEPT !.last_seen = t, !.last_peer = p]],
   by_ip4  |-> T.by_ip4,
   by_ip6  |-> T.by_ip6,
   by_peer |-> [q \in Peer |->
                  IF q = p THEN n
                  ELSE IF q = T.by_node[n].last_peer /\ T.by_peer[q] = n THEN None
                  ELSE T.by_peer[q]]]

\* An endpoint another node was bound to is unbound before the address is
\* picked, hence also when the request then fails.
UnbindPeer(T, n, p) ==
  IF T.by_peer[p] # n THEN [T EXCEPT !.by_peer[p] = None] ELSE T

BindNew(T, n, p, a, a6, t) ==
  LET S == DropLeases(T, Held(T) \cap {n}) IN
  [by_node |-> [S.by_node EXCEPT ![n] =
                  [node_id |-> n, ip4 |-> a, ip6 |-> a6,
                   last_seen |-> t, last_peer |-> p]],
   by_ip4  |-> [S.by_ip4 EXCEPT ![a] = n],
   by_ip6  |-> IF a6 = None THEN S.by_ip6 ELSE [S.by_ip6 EXCEPT ![a6] = n],
   by_peer |-> [S.by_peer EXCEPT ![p] = n]]

-----------------------------------------------------------------------------
(* The lease file.                                                         *)

\* last_seen is stored in whole seconds.
ToRow(l) == [l EXCEPT !.last_seen = l.last_seen \div TicksPerSec]
FromRow(r) == [r EXCEPT !.last_seen = r.last_seen * TicksPerSec]

Snapshot(T) == {ToRow(l) : l \in LeasesOf(T, Held(T))}

\* write_private_atomic renames a synced copy over the file.  When that fails
\* the old file stays, except on Windows, where it is already unlinked.
WriteLeases(T) == file' = [state |-> "valid", rows |-> Snapshot(T)]

WriteFails ==
  /\ "write" \in Faults
  /\ \/ UNCHANGED file
     \/ Windows /\ file' = [state |-> "missing", rows |-> {}]

\* A wrong variant: throttles the writes of new bindings too.
Persist_Throttled(T, t) ==
  \/ 4 * (t - last_persist) >= TTL /\ WriteLeases(T) /\ last_persist' = t
  \/ 4 * (t - last_persist) < TTL /\ UNCHANGED <<file, last_persist>>

Persist(T, t) ==
  \/ WriteLeases(T) /\ last_persist' = t
  \/ WriteFails /\ UNCHANGED last_persist

PersistIf(cond, T, t) ==
  IF cond THEN Persist(T, t) ELSE UNCHANGED <<file, last_persist>>

\* A wrong variant: waits for half the TTL.
ShouldPersist_Half(t) == t < last_persist \/ 2 * (t - last_persist) >= TTL

ShouldPersist(t) == t < last_persist \/ 4 * (t - last_persist) >= TTL

\* A wrong variant: does not look at IPv6 addresses.
Conflict_V4(r, s) == r # s /\ (r.node_id = s.node_id \/ r.ip4 = s.ip4)

\* Rows `load' cannot keep both of.
Conflict(r, s) ==
  /\ r # s
  /\ \/ r.node_id = s.node_id
     \/ r.ip4 = s.ip4
     \/ r.ip6 # None /\ r.ip6 = s.ip6

\* A wrong variant: drops a row that is exactly as old as the TTL.
Loadable_AtTTL(rows, t) ==
  LET live == {r \in rows : t - FromRow(r).last_seen < TTL} IN
  {S \in SUBSET live :
     /\ \A r, s \in S : ~Conflict(r, s)
     /\ \A r \in live \ S : \E s \in S : Conflict(r, s)}

\* `load' keeps a live row unless it conflicts with one it kept before.  What
\* it keeps is a maximal conflict-free set; which one depends on the row order.
Loadable(rows, t) ==
  LET live == {r \in rows : ~IsExpired(FromRow(r).last_seen, t)} IN
  {S \in SUBSET live :
     /\ \A r, s \in S : ~Conflict(r, s)
     /\ \A r \in live \ S : \E s \in S : Conflict(r, s)}

\* The table of a conflict-free set of rows.  by_peer starts empty.
TableOf(S) ==
  [by_node |-> [n \in Node |->
                  IF \E r \in S : r.node_id = n
                  THEN FromRow(CHOOSE r \in S : r.node_id = n) ELSE None],
   by_ip4  |-> [a \in Ip4 |->
                  IF \E r \in S : r.ip4 = a
                  THEN (CHOOSE r \in S : r.ip4 = a).node_id ELSE None],
   by_ip6  |-> [a \in Ip4 |->
                  IF \E r \in S : r.ip6 = a
                  THEN (CHOOSE r \in S : r.ip6 = a).node_id ELSE None],
   by_peer |-> [p \in Peer |-> None]]

-----------------------------------------------------------------------------
(* Calls of the running server.                                            *)

NoOutput == [status |-> "none", node |-> None, ip4 |-> None, ip6 |-> None,
             dropped |-> {}]

Ok(n, l, dropped) ==
  [status |-> "Ok", node |-> n, ip4 |-> l.ip4,
   ip6 |-> IF Ip6Prefix = None THEN None ELSE l.ip6, dropped |-> dropped]

Exhausted(n, dropped) ==
  [status |-> "Exhausted", node |-> n, ip4 |-> None, ip6 |-> None,
   dropped |-> dropped]

Expired == ExpiredNodes(table, now)
Reaped == DropLeases(table, Expired)

\* allocate, for a node whose lease is live.
AllocateRefresh(n, p) ==
  /\ up
  /\ n \in Held(Reaped)
  /\ table' = Refresh(Reaped, n, p, now)
  /\ out' = Ok(n, Reaped.by_node[n], LeasesOf(table, Expired))
  /\ PersistIf(\/ Expired # {}
               \/ Reaped.by_node[n].last_peer # p
               \/ ShouldPersist(now), table', now)
  /\ UNCHANGED <<cfg, up, now>>

\* allocate, for a node without a lease: bind address a of table T.
Bind(T, n, p, a, want6, dropped) ==
  /\ table' = BindNew(T, n, p, a, Ip6For(a, want6), now)
  /\ out' = Ok(n, table'.by_node[n], dropped)
  /\ Persist(table', now)
  /\ UNCHANGED <<cfg, up, now>>

\* ... when an address is free,
AllocateFree(n, p, hint, want6) ==
  LET T == UnbindPeer(Reaped, n, p)
      a == PickAddr(T, cfg, n, hint, want6) IN
  /\ up
  /\ n \notin Held(Reaped)
  /\ a # None
  /\ Bind(T, n, p, a, want6, LeasesOf(table, Expired))

\* ... when none is, but dropping the lease idle for longest frees one,
AllocateReclaim(n, p, hint, want6) ==
  LET T == UnbindPeer(Reaped, n, p) IN
  /\ up
  /\ n \notin Held(Reaped)
  /\ PickAddr(T, cfg, n, hint, want6) = None
  /\ \E o \in Oldest(T) :
       LET S == DropLeases(T, {o})
           a == PickAddr(S, cfg, n, hint, want6) IN
       /\ a # None
       /\ Bind(S, n, p, a, want6, LeasesOf(table, Expired \cup {o}))

\* ... and when there is no lease to drop, or dropping it was no use.
AllocateExhausted(n, p, hint, want6) ==
  LET T == UnbindPeer(Reaped, n, p) IN
  /\ up
  /\ n \notin Held(Reaped)
  /\ PickAddr(T, cfg, n, hint, want6) = None
  /\ \/ /\ Held(T) = {}
        /\ table' = T
        /\ out' = Exhausted(n, LeasesOf(table, Expired))
        /\ PersistIf(Expired # {}, T, now)
     \/ \E o \in Oldest(T) :
          /\ table' = DropLeases(T, {o})
          /\ PickAddr(table', cfg, n, hint, want6) = None
          /\ out' = Exhausted(n, LeasesOf(table, Expired \cup {o}))
          /\ Persist(table', now)
  /\ UNCHANGED <<cfg, up, now>>

Allocate(n, p, hint, want6) ==
  \/ AllocateRefresh(n, p)
  \/ AllocateFree(n, p, hint, want6)
  \/ AllocateReclaim(n, p, hint, want6)
  \/ AllocateExhausted(n, p, hint, want6)

\* The sweeper's call.
Reap ==
  /\ up
  /\ table' = Reaped
  /\ out' = [NoOutput EXCEPT !.dropped = LeasesOf(table, Expired)]
  /\ PersistIf(Expired # {}, Reaped, now)
  /\ UNCHANGED <<cfg, up, now>>

-----------------------------------------------------------------------------
(* Crash, restart and the environment.                                     *)

\* The table of a stopped process is kept as the memory it died with.
Crash ==
  /\ up
  /\ up' = FALSE
  /\ out' = NoOutput
  /\ UNCHANGED <<table, file, last_persist, cfg, now>>

\* Assigner::new, `load' included, with the configuration then in force.
Start(c) ==
  /\ ~up
  /\ up' = TRUE
  /\ cfg' = c
  /\ out' = NoOutput
  /\ UNCHANGED now

\* The file is there and parses.
RestartLoad(c) ==
  /\ Start(c)
  /\ file.state = "valid"
  /\ \E S \in Loadable(file.rows, now) :
       /\ table' = TableOf(S)
       /\ IF S = file.rows THEN UNCHANGED file
          ELSE WriteLeases(table') \/ WriteFails
       /\ last_persist' = now

\* It is missing or cannot be read, or it is corrupt and renamed out of the way
\* (the rename may fail too).
RestartEmpty(c) ==
  /\ Start(c)
  /\ table' = EmptyTable
  /\ last_persist' = now
  /\ \/ file.state = "missing" /\ UNCHANGED file
     \/ "read" \in Faults /\ UNCHANGED file
     \/ file.state = "corrupt" /\ file' = [state |-> "missing", rows |-> {}]
     \/ file.state = "corrupt" /\ "write" \in Faults /\ UNCHANGED file

CorruptFile ==
  /\ "corrupt" \in Faults
  /\ file.state = "valid"
  /\ file' = [state |-> "corrupt", rows |-> {}]
  /\ out' = NoOutput
  /\ UNCHANGED <<table, last_persist, cfg, up, now>>

EditFile(r) ==
  /\ ~up
  /\ file.state # "corrupt"
  /\ file' = [state |-> "valid", rows |-> file.rows \cup {r}]
  /\ out' = NoOutput
  /\ UNCHANGED <<table, last_persist, cfg, up, now>>

Tick ==
  /\ now < MaxTime
  /\ now' = now + 1
  /\ out' = NoOutput
  /\ UNCHANGED <<table, file, last_persist, cfg, up>>

SetClock(t) ==
  /\ now' = t
  /\ out' = NoOutput
  /\ UNCHANGED <<table, file, last_persist, cfg, up>>

Init ==
  /\ table = EmptyTable
  /\ file = [state |-> "missing", rows |-> {}]
  /\ last_persist = 0
  /\ cfg \in Configs
  /\ up = FALSE
  /\ now = 0
  /\ out = NoOutput

Next ==
  \/ \E n \in Node, p \in Peer, hint \in Ip4, want6 \in BOOLEAN :
       Allocate(n, p, hint, want6)
  \/ Reap
  \/ Crash
  \/ \E c \in Configs : RestartLoad(c) \/ RestartEmpty(c)
  \/ CorruptFile
  \/ \E r \in ForeignRows : EditFile(r)
  \/ Tick
  \/ \E t \in ClockSets : SetClock(t)

Spec == Init /\ [][Next]_vars

-----------------------------------------------------------------------------
(* Properties.                                                             *)

TypeOK ==
  /\ table \in Table
  /\ file \in File
  /\ last_persist \in Int
  /\ cfg \in Configs
  /\ up \in BOOLEAN
  /\ now \in Int
  /\ out \in Output

Owners(T) ==
  /\ \A n \in Held(T) : T.by_node[n].node_id = n
  /\ \A a \in Ip4, n \in Node :
       T.by_ip4[a] = n <=> n \in Held(T) /\ T.by_node[n].ip4 = a
  /\ \A a \in Ip4, n \in Node :
       T.by_ip6[a] = n <=> n \in Held(T) /\ T.by_node[n].ip6 = a

Bindings(T) ==
  \A p \in Peer, n \in Node :
    T.by_peer[p] = n => n \in Held(T) /\ T.by_node[n].last_peer = p

\* No two nodes ever hold the same tunnel address, and the address indexes are
\* the inverse of by_node: whatever allocate, reap, load and drop_lease do, no
\* index names a node that no longer holds the address.
OneOwnerPerAddress == Owners(table)

\* An endpoint is bound to a node only while that node holds a lease that was
\* last requested from that endpoint, although several leases may name the
\* endpoint (a recycled port).  maybe_learn decides by this index.
BindingFollowsLease == Bindings(table)

\* A node keeps its addresses for as long as it holds a live lease: no request,
\* reap or reclaim renumbers it, however the endpoints move.
AddressIsStable ==
  [][up /\ up' =>
       \A n \in Held(table) \ Expired :
         n \in Held(table)' =>
           /\ table'.by_node[n].ip4 = table.by_node[n].ip4
           /\ table'.by_node[n].ip6 = table.by_node[n].ip6]_vars

\* Every lease a call removes or replaces is among those it returns, so that
\* the server can unlearn it: bind_new, which discards the result of its own
\* drop_lease, never has anything to discard.
DropsAreReported ==
  [][up /\ up' =>
       \A n \in Held(table) :
         \/ table.by_node[n] \in out'.dropped
         \/ /\ n \in Held(table)'
            /\ table'.by_node[n].ip4 = table.by_node[n].ip4
            /\ table'.by_node[n].ip6 = table.by_node[n].ip6]_vars

\* A lease that has not expired is only dropped under pool pressure: it is the
\* one idle for longest, only one goes, and every address of the pool was taken
\* by a live lease (or had no free IPv6 twin).
ReclaimIsLastResort ==
  [][up /\ up' =>
       LET lost == {n \in Held(table) \ Expired : n \notin Held(table)'} IN
       lost # {} =>
         /\ Cardinality(lost) = 1
         /\ \A n \in lost, m \in Held(Reaped) :
              table.by_node[n].last_seen <= table.by_node[m].last_seen
         /\ out'.status # "none"
         /\ \A a \in cfg.start .. cfg.end :
              \/ a = ServerIp \/ a \in cfg.reserved
              \/ Reaped.by_ip4[a] # None
              \/ AssignIp6 /\ a = ServerIp6
              \/ AssignIp6 /\ Reaped.by_ip6[a] # None]_vars

\* While the server runs, the file holds the bindings of the table: a crash at
\* any point loses no assignment and resurrects no dropped one.  (For a file
\* that can always be read and written.)
FileHoldsBindings ==
  up /\ Faults = {} =>
    /\ file.state = "valid" \/ Held(table) = {}
    /\ {[r EXCEPT !.last_seen = 0] : r \in file.rows}
         = {[l EXCEPT !.last_seen = 0] : l \in LeasesOf(table, Held(table))}

\* What the file may lag behind on is last_seen, and only for requests made
\* less than a quarter of the TTL after the last write (should_persist).
LastSeenLagIsBounded ==
  up /\ Faults = {} =>
    \A n \in Held(table) :
      LET l == table.by_node[n] IN
      \/ ToRow(l) \in file.rows
      \/ /\ last_persist <= l.last_seen
         /\ 4 * (l.last_seen - last_persist) < TTL

\* A restart restores nothing but leases that were held when the process died,
\* each with its addresses, and forgets one only when the file says it was idle
\* for longer than the TTL.
RestartKeepsAddresses ==
  [][~up /\ up' /\ Faults = {} /\ ForeignRows = {} =>
       /\ \A n \in Held(table)' :
            /\ n \in Held(table)
            /\ table'.by_node[n].ip4 = table.by_node[n].ip4
            /\ table'.by_node[n].ip6 = table.by_node[n].ip6
       /\ \A n \in Held(table) \ Held(table)' :
            \E r \in file.rows :
              r.node_id = n /\ IsExpired(FromRow(r).last_seen, now)]_vars

\* The addresses a configuration leaves for nodes.
Assignable(c) == {a \in c.start .. c.end : a # ServerIp /\ a \notin c.reserved}

\* With one configuration, a request is refused only when the configuration has
\* no address to give, or when IPv6 is handed out and none of its addresses has
\* both halves free even now that the oldest lease is gone.
ExhaustedMeansNone ==
  /\ Configs = {cfg} /\ ForeignRows = {}
  /\ out.status = "Exhausted"
  => \A a \in Assignable(cfg) :
       AssignIp6 /\ (a = ServerIp6 \/ table.by_ip6[a] # None \/ table.by_ip4[a] # None)

\* docs/guide/auto-assign.md:115: "Leases survive a server restart".  That is, a
\* lease that has been idle for no more than half the TTL is held after it.
LeasesSurviveRestart ==
  [][~up /\ up' =>
       {n \in Held(table) : 2 * (now - table.by_node[n].last_seen) <= TTL}
         \subseteq Held(table)']_vars
=============================================================================
