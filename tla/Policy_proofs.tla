--------------------------- MODULE Policy_proofs ----------------------------
(***************************************************************************)
(* Proofs about the split-DNS policy: the resolver (Resolver) and what it  *)
(* keeps on disk, the answers' cache (AnswerCache) and the journal of the  *)
(* host's resolver settings (DnsJournal), for any names, addresses, tasks, *)
(* configurations, limits, TTLs and settings and any number of runs,       *)
(* crashes, faults and changes by the user.                                *)
(*                                                                         *)
(* Resolver: a query is answered only after its route: each task carries   *)
(* what it has asked and got (TaskOK), an answer that needs the tunnel is  *)
(* entered in the books of its resolver in the step that starts the route  *)
(* request (Recorded), what is on the books of the resolver in the slot is *)
(* routed, refused or still being requested (Booked), and an answer on its *)
(* way out is on them (Replied).  The books alone are not inductive: a     *)
(* route request outlives the task's place in the slot, and a stop drains  *)
(* the books of a resolver whose requests are still under way.             *)
(*                                                                         *)
(* The resolver's own queries pass because the clean sockets of a resolver *)
(* have ports of their own, and a number is taken out of the set only by   *)
(* the query that has it or by a local one that shares it (PortsOK).       *)
(*                                                                         *)
(* AnswerCache: the budget of an answer has to hold on file as well, as    *)
(* load believes the seconds it finds there.  While a run serves what it   *)
(* has loaded, the file promises more than the budget has left; what that  *)
(* comes to is one lifetime at most, which a killed run adds to it.        *)
(*                                                                         *)
(* DnsJournal: that the takeover keeps DnsPromise needs to know that a run *)
(* without a journal is one whose record a fault has already cost:         *)
(* otherwise a crash would lose the debt silently.                         *)
(***************************************************************************)
EXTENDS Resolver, AnswerCache, DnsJournal, Integers, FiniteSetTheorems, TLAPS

-----------------------------------------------------------------------------
(* Resolver.                                                               *)

\* An answer for name n that the split allows, or one an earlier client left on file.
Allowed(n, a) ==
    /\ a \in Answer
    /\ ~a.old /\ n \in conf.list => a.src = "remote" /\ a.tunnel
    /\ ~a.old /\ conf.mode = "chinadns" /\ ~a.tunnel => a.src = "local" /\ a.ip \in China

\* What a task has asked and got at each of its awaits.
TaskOK(r) ==
    /\ r.at = "free" => r = Free
    /\ r.at # "free" => /\ r.name \in Name /\ r.gen \in 1..gen
                        /\ conf.magic => r.name \notin Overlay
    /\ r.at \in {"free", "local", "tunnel", "install", "reply"} => r.remote = "none"
    /\ r.at \in {"free", "local", "remote", "race"} => r.resp = None
    /\ r.at = "local" => conf.mode # "chinadns" /\ r.name \notin conf.list
    /\ r.at = "remote" => /\ r.remote \in Outstanding
                          /\ r.local \in {"none", "failed"} \cup Ip
                          /\ r.name \in conf.list => r.local = "none"
    /\ r.at = "race" => /\ r.remote \in Outstanding \cup {"failed"} \cup Ip
                        /\ r.name \notin conf.list
    /\ r.at \in {"tunnel", "install", "reply"} => Allowed(r.name, r.resp)
    /\ r.at \in {"tunnel", "install"} => r.resp.tunnel
    /\ r.at = "install" => r.resp.ip # Server

TasksOK == \A t \in Task : TaskOK(tasks[t])

CacheOK == \A n \in Name : cache[n] # None => Allowed(n, cache[n])

\* A clean query has a port for as long as its socket is open; no other clean query of
\* its resolver has the same one; and it is registered, or a local query has ended on it.
PortsOK ==
    /\ \A t \in Task :
         /\ tasks[t].rport # None <=> tasks[t].remote \in Outstanding
         /\ tasks[t].rport # None => t \in clashed \/ tasks[t].rport \in inflight[tasks[t].gen]
    /\ \A t, u \in Task :
         t # u /\ tasks[t].gen = tasks[u].gen /\ tasks[t].rport # None
            => tasks[u].rport # tasks[t].rport

\* The handle: the books of a resolver are drained once, and the process keeps nothing.
HandleOK ==
    /\ phase \in {"up", "leaving", "deleting"} => gen \in Gens
    /\ phase # "deleting" => doomed = {}
    /\ phase = "gone" => routes = {} /\ \A t \in Task : tasks[t] = Free

\* A route request under way is on the books of its resolver, until they are drained.
Recorded ==
    \A t \in Task : tasks[t].at = "install" /\ ~Dropped(tasks[t].gen)
                        => tasks[t].resp.ip \in added[gen]

\* What is on the books of the resolver in the slot is routed, or about to be, or refused.
Pending(ip) == \E u \in Task : tasks[u].at = "install" /\ tasks[u].gen = gen
                                   /\ tasks[u].resp.ip = ip
Booked ==
    phase = "up" => \A ip \in added[gen] \ failed : ip \in routes \/ Pending(ip)

\* An answer on its way to the asker is on those books.
Replied ==
    \A t \in Task : LET r == tasks[t] IN
        r.at = "reply" /\ Live(r) /\ r.resp.tunnel /\ r.resp.ip # Server
            => r.resp.ip \in added[gen]

RInv == /\ conf \in Confs
        /\ RsTypeOK /\ TasksOK /\ CacheOK /\ PortsOK /\ OwnQueriesPass
        /\ HandleOK /\ Recorded /\ Booked /\ Replied /\ RoutesAreOnTheBooks

-----------------------------------------------------------------------------

\* A task without a query has asked and got nothing.
LEMMA FreeIsATask ==
    /\ Free \in TaskState /\ Free.at = "free" /\ Free.remote = "none" /\ Free.resp = None
    /\ Free.lport = None /\ Free.rport = None
BY ResolverAssumption DEF Free, TaskState, Upstream

\* An answer of the cache file is one an earlier client decided.
LEMMA FileAnswer ==
    ASSUME NEW a, NEW n \in Name, NEW f \in Files, a = f[n]
    PROVE  a = None \/ (a \in Answer /\ a.old)
<1> DEFINE Kept == [src : {"local", "remote"}, ip : Ip, tunnel : BOOLEAN, old : {TRUE}]
<1>1. f \in [Name -> Kept \cup {None}]
  BY NoneIsNoAnswer, Zenon
<1>2. ASSUME a \in Kept PROVE a \in Answer /\ a.old
  BY <1>2, Zenon DEF Answer
<1> HIDE DEF Kept
<1>3. a \in Kept \cup {None}
  BY <1>1, Zenon
<1> QED
  BY <1>2, <1>3, Zenon

\* A process that has not spawned a resolver has routed nothing.
LEMMA RInitInv == RInit0 => RInv
<1> SUFFICES ASSUME RInit0 PROVE RInv
  BY Zenon
<1> USE ResolverAssumption, NoneIsNoAnswer DEF RInit0
<1>1. /\ Free \in TaskState /\ Free.at = "free" /\ Free.remote = "none" /\ Free.resp = None
      /\ Free.rport = None
  BY FreeIsATask, Zenon
<1>2. ASSUME NEW n \in Name
      PROVE  cache[n] = None \/ (cache[n] \in Answer /\ cache[n].old)
  BY FileAnswer, Zenon
<1>3. RsTypeOK
  <2>1. cache \in [Name -> Answer \cup {None}]
    BY Zenon DEF Answer
  <2> QED
    BY <1>1, <2>1 DEF RsTypeOK, Modes, Gens
<1>4. TasksOK /\ CacheOK
  BY <1>1, <1>2, Zenon DEF TasksOK, TaskOK, CacheOK, Allowed
<1>6. PortsOK /\ OwnQueriesPass
  BY <1>1, Zenon DEF PortsOK, OwnQueriesPass, Outstanding
<1>5. HandleOK /\ Recorded /\ Booked /\ Replied /\ RoutesAreOnTheBooks
  BY <1>1, <1>3, Zenon DEF HandleOK, Recorded, Booked, Replied, RoutesAreOnTheBooks, Live
<1> QED
  BY <1>3, <1>4, <1>5, <1>6, Zenon DEF RInv

-----------------------------------------------------------------------------
(* Steps before an answer is routed.                                       *)

\* A query that asks, waits or gets its answer, while every route request under way
\* stays under way: the books and the routes are not concerned.
Asks1(u) ==
    /\ TaskOK(tasks'[u])
    /\ tasks[u].at # "install" /\ tasks'[u].at # "install"
    /\ tasks'[u].at = "reply" => ~tasks'[u].resp.tunnel

\* Steps that ask, wait or get an answer keep the invariant.
LEMMA AskingSteps ==
    ASSUME RInv, UNCHANGED <<world, kernel, handle>>,
           phase = "gone" => tasks' = tasks,
           tasks' \in [Task -> TaskState], strays' \subseteq Name \X Port,
           inflight' \in [Gens -> SUBSET Port], clashed' \subseteq Task,
           \A u \in Task : tasks'[u] = tasks[u] \/ Asks1(u),
           PortsOK', OwnQueriesPass'
    PROVE  RInv'
<1> USE DEF RInv, world, kernel, handle
<1>1. RsTypeOK'
  BY Zenon DEF RsTypeOK
<1>2. TasksOK'
  BY DEF TasksOK, TaskOK, Allowed, Asks1
<1>3. CacheOK'
  BY Zenon DEF CacheOK, Allowed
<1>5. HandleOK'
  BY Zenon DEF HandleOK
<1>6. Recorded'
  BY Zenon DEF Recorded, Dropped, Asks1
<1>7. Booked'
  <2> SUFFICES ASSUME phase = "up", NEW ip \in added[gen] \ failed, ip \notin routes
               PROVE  Pending(ip)'
    BY Zenon DEF Booked
  <2>1. PICK u \in Task : tasks[u].at = "install" /\ tasks[u].gen = gen
                             /\ tasks[u].resp.ip = ip
    BY Zenon DEF Booked, Pending
  <2> QED
    BY <2>1, Zenon DEF Pending, Asks1
<1>8. Replied'
  BY Zenon DEF Replied, Live, Asks1
<1>9. RoutesAreOnTheBooks'
  BY <1>1, Zenon DEF RoutesAreOnTheBooks
<1> QED
  BY <1>1, <1>2, <1>3, <1>5, <1>6, <1>7, <1>8, <1>9, Zenon

\* The ports of the queries and their registration stay.
LEMMA PortsStay ==
    ASSUME PortsOK, inflight' = inflight, clashed' = clashed,
           \A u \in Task : /\ tasks'[u].gen = tasks[u].gen /\ tasks'[u].rport = tasks[u].rport
                           /\ tasks'[u].remote \in Outstanding
                                <=> tasks[u].remote \in Outstanding
    PROVE  PortsOK'
<1>1. ASSUME NEW t \in Task
      PROVE  /\ tasks'[t].rport # None <=> tasks'[t].remote \in Outstanding
             /\ tasks'[t].rport # None
                   => t \in clashed' \/ tasks'[t].rport \in inflight'[tasks'[t].gen]
  <2>1. /\ tasks[t].rport # None <=> tasks[t].remote \in Outstanding
        /\ tasks[t].rport # None
              => t \in clashed \/ tasks[t].rport \in inflight[tasks[t].gen]
    BY Zenon DEF PortsOK
  <2>2. /\ tasks'[t].gen = tasks[t].gen /\ tasks'[t].rport = tasks[t].rport
        /\ tasks'[t].remote \in Outstanding <=> tasks[t].remote \in Outstanding
    BY Zenon
  <2> QED
    BY <2>1, <2>2
<1>2. ASSUME NEW t \in Task, NEW u \in Task, t # u, tasks'[t].gen = tasks'[u].gen,
             tasks'[t].rport # None
      PROVE  tasks'[u].rport # tasks'[t].rport
  <2>1. tasks[t].gen = tasks[u].gen /\ tasks[t].rport # None
    BY <1>2, Zenon
  <2>2. tasks[u].rport # tasks[t].rport
    BY <1>2, <2>1, Zenon DEF PortsOK
  <2> QED
    BY <2>2, Zenon
<1> QED
  BY <1>1, <1>2, Zenon DEF PortsOK

\* A query is registered under ports no other of its kind has.
LEMMA Registers ==
    ASSUME RInv, phase = "up", NEW u \in Task, tasks[u].at = "free",
           NEW r \in TaskState, r.rport # None <=> r.remote \in Outstanding,
           r.rport # None => r.rport \in CleanPorts /\ r.gen = gen,
           tasks' \in [Task -> TaskState], tasks'[u] = r,
           \A v \in Task \ {u} : /\ tasks'[v].rport = tasks[v].rport
                                 /\ tasks'[v].gen = tasks[v].gen
                                 /\ tasks'[v].remote \in Outstanding
                                       <=> tasks[v].remote \in Outstanding,
           inflight' = Register(r), clashed' = clashed
    PROVE  /\ PortsOK' /\ inflight' \in [Gens -> SUBSET Port]
           /\ \A v \in Task \ {u} : tasks[v].rport # None => tasks[v].gen \in Gens
<1>1. /\ gen \in Gens /\ inflight \in [Gens -> SUBSET Port] /\ tasks \in [Task -> TaskState]
      /\ PortsOK /\ TasksOK /\ MaxGens \in Nat /\ gen \in Nat
  BY ResolverAssumption DEF RInv, RsTypeOK, HandleOK, Gens
<1>2. r.lport \in Port \cup {None} /\ r.rport \in Port \cup {None}
  BY Zenon DEF TaskState
<1>3. /\ inflight' \in [Gens -> SUBSET Port]
      /\ \A g \in Gens : inflight[g] \subseteq inflight'[g]
      /\ r.rport # None => r.rport \in inflight'[gen]
  BY <1>1, <1>2, Zenon DEF Register
<1>4. ASSUME NEW v \in Task, tasks[v].rport # None
      PROVE  tasks[v].gen \in Gens
  <2>1. tasks[v].at # "free"
    BY <1>1, <1>4, FreeIsATask, Zenon DEF TasksOK, TaskOK
  <2>2. tasks[v].gen \in 1..gen
    BY <1>1, <2>1, Zenon DEF TasksOK, TaskOK
  <2> QED
    BY <1>1, <2>2 DEF Gens
<1>5. ASSUME NEW v \in Task
      PROVE  /\ tasks'[v].rport # None <=> tasks'[v].remote \in Outstanding
             /\ tasks'[v].rport # None
                   => v \in clashed \/ tasks'[v].rport \in inflight'[tasks'[v].gen]
  <2>1. CASE v = u
    BY <1>3, <2>1, Zenon
  <2>2. CASE v # u
    BY <1>1, <1>3, <1>4, <2>2, Zenon DEF PortsOK
  <2> QED
    BY <2>1, <2>2, Zenon
<1>6. ASSUME NEW v \in Task, NEW w \in Task, v # w, tasks'[v].gen = tasks'[w].gen,
             tasks'[v].rport # None
      PROVE  tasks'[w].rport # tasks'[v].rport
  <2>1. CASE v = u
    BY <1>6, <2>1, Zenon DEF CleanPorts
  <2>2. CASE w = u
    BY <1>6, <2>2, Zenon DEF CleanPorts
  <2>3. CASE v # u /\ w # u
    BY <1>1, <1>6, <2>3, Zenon DEF PortsOK
  <2> QED
    BY <2>1, <2>2, <2>3, Zenon
<1> QED
  BY <1>3, <1>4, <1>5, <1>6, Zenon DEF PortsOK

\* resolve up to its first await, from the magic names and the cache to the upstreams.
LEMMA ResolvingOK ==
    ASSUME RInv, phase = "up", NEW n \in Name, NEW r \in Resolving(n)
    PROVE  /\ r \in TaskState /\ TaskOK(r) /\ r.at # "install"
           /\ r.at = "reply" => ~r.resp.tunnel
           /\ r.remote \in {"none", "queued"}
           /\ r.rport # None <=> r.remote \in Outstanding
           /\ r.rport # None => r.rport \in CleanPorts /\ r.gen = gen
<1> DEFINE base == [Free EXCEPT !.name = n, !.gen = gen]
<1>1. gen \in Gens /\ gen \in 0..MaxGens /\ gen \in 1..gen
  BY DEF RInv, RsTypeOK, HandleOK, Gens
<1>2. /\ base \in TaskState /\ base.name = n /\ base.gen = gen
      /\ base.local = "none" /\ base.remote = "none" /\ base.resp = None
      /\ base.lport = None /\ base.rport = None
  BY <1>1, FreeIsATask, Zenon DEF Free, TaskState
<1> HIDE DEF base
<1>3. CASE conf.magic /\ n \in Overlay
  <2>1. r = Free
    BY <1>3 DEF Resolving
  <2> QED
    BY <2>1, FreeIsATask, Zenon DEF TaskOK, Outstanding
<1>4. CASE ~(conf.magic /\ n \in Overlay) /\ conf.mode # "full" /\ cache[n] # None
  <2> DEFINE a == cache[n]
  <2>1. a \in Answer /\ Allowed(n, a)
    BY <1>4, Zenon DEF RInv, CacheOK, Allowed
  <2>2. r = [Decided(base, a) EXCEPT !.hit = TRUE]
    BY <1>4 DEF Resolving, base
  <2> HIDE DEF a
  <2>3. /\ r \in TaskState /\ r.at = IF a.tunnel THEN "tunnel" ELSE "reply"
        /\ r.name = n /\ r.gen = gen /\ r.local = "none" /\ r.remote = "none" /\ r.resp = a
        /\ r.rport = None
    BY <1>2, <2>1, <2>2, Zenon DEF Decided, TaskState, Upstream
  <2>4. TaskOK(r)
    BY <1>1, <1>4, <2>1, <2>3, Zenon DEF TaskOK
  <2> QED
    BY <2>3, <2>4, Zenon DEF Outstanding
<1>5. CASE ~(conf.magic /\ n \in Overlay) /\ ~(conf.mode # "full" /\ cache[n] # None)
  <2> DEFINE q == Asks(n)
             asked == [base EXCEPT !.at = q.at, !.local = q.local, !.remote = q.remote]
             L == IF asked.local = "none" THEN {None} ELSE LocalPorts
             R == IF asked.remote = "none" THEN {None} ELSE CleanPorts
             S == {[asked EXCEPT !.lport = s[1], !.rport = s[2]] : s \in L \X R}
  <2>0. Resolving(n) = IF conf.magic /\ n \in Overlay THEN {Free}
                       ELSE IF conf.mode # "full" /\ cache[n] # None
                       THEN {[Decided(base, cache[n]) EXCEPT !.hit = TRUE]} ELSE S
    BY Zenon DEF Resolving, base
  <2> HIDE DEF S
  <2>8. r \in S
    BY <1>5, <2>0, Zenon
  <2> HIDE DEF asked, L, R
  <2>9. PICK s \in L \X R : r = [asked EXCEPT !.lport = s[1], !.rport = s[2]]
    BY <2>8, Zenon DEF S
  <2> DEFINE lp == s[1]
             rp == s[2]
  <2>1. lp \in L /\ rp \in R /\ r = [asked EXCEPT !.lport = lp, !.rport = rp]
    BY <2>9
  <2> HIDE DEF lp, rp
  <2> USE DEF asked, L, R
  <2>2. \/ /\ q.at = "local" /\ q.local = "sent" /\ q.remote = "none"
           /\ conf.mode # "chinadns" /\ n \notin conf.list
        \/ q.at = "remote" /\ q.local = "none" /\ q.remote = "queued"
        \/ q.at = "race" /\ q.local = "sent" /\ q.remote = "queued" /\ n \notin conf.list
    <3>1. conf.mode \in Modes /\ (conf.mode = "full" => n \notin conf.list)
      BY ResolverAssumption, Zenon DEF RInv, RsTypeOK
    <3> QED
      BY <3>1, Zenon DEF Asks, Modes
  <2> HIDE DEF q
  <2>3. /\ asked \in TaskState /\ asked.at = q.at /\ asked.local = q.local
        /\ asked.remote = q.remote /\ asked.name = n /\ asked.gen = gen /\ asked.resp = None
    BY <1>2, <2>2, Zenon DEF TaskState, Upstream
  <2> HIDE DEF asked
  <2>4. lp \in Port \cup {None} /\ rp \in Port \cup {None}
    BY <2>1, Zenon DEF LocalPorts, CleanPorts
  <2>5. /\ r \in TaskState /\ r.at = q.at /\ r.local = q.local /\ r.remote = q.remote
        /\ r.name = n /\ r.gen = gen /\ r.resp = None /\ r.rport = rp
    BY <2>1, <2>3, <2>4, Zenon DEF TaskState
  <2>6. TaskOK(r)
    BY <1>1, <1>5, <2>2, <2>5, Zenon DEF TaskOK, Outstanding
  <2>7. IF r.remote = "none" THEN rp = None ELSE rp \in CleanPorts /\ rp # None
    BY <2>1, <2>3, <2>5, NoneIsNoAnswer, Zenon DEF CleanPorts
  <2> QED
    BY <2>2, <2>5, <2>6, <2>7, Zenon DEF Outstanding
<1> QED
  BY <1>3, <1>4, <1>5, Zenon

\* A query is taken up: answered from the cache, or asked.
LEMMA BeginKeeps ==
    ASSUME RInv, NEW t \in Task, NEW n \in Name, Begin(t, n), strays' \subseteq Name \X Port
    PROVE  RInv'
<1>1. PICK r \in Resolving(n) : tasks' = [tasks EXCEPT ![t] = r] /\ inflight' = Register(r)
  BY Zenon DEF Begin, Put
<1>2. /\ phase = "up" /\ tasks[t].at = "free"
      /\ UNCHANGED <<world, kernel, handle>> /\ clashed' = clashed
  BY Zenon DEF Begin
<1>3. /\ r \in TaskState /\ TaskOK(r) /\ r.at # "install"
      /\ r.at = "reply" => ~r.resp.tunnel
      /\ r.remote \in {"none", "queued"}
      /\ r.rport # None <=> r.remote \in Outstanding
      /\ r.rport # None => r.rport \in CleanPorts /\ r.gen = gen
  BY <1>2, ResolvingOK, Zenon
<1>4. tasks \in [Task -> TaskState] /\ clashed \subseteq Task
  BY Zenon DEF RInv, RsTypeOK
<1>5. /\ tasks' \in [Task -> TaskState] /\ tasks'[t] = r
      /\ \A u \in Task \ {t} : tasks'[u] = tasks[u]
  BY <1>1, <1>3, <1>4, Zenon
<1>6. \A u \in Task : tasks'[u] = tasks[u] \/ Asks1(u)
  BY <1>2, <1>3, <1>5, Zenon DEF Asks1
<1>7. PortsOK' /\ inflight' \in [Gens -> SUBSET Port]
  BY <1>1, <1>2, <1>3, <1>5, Registers, Zenon
<1>8. OwnQueriesPass'
  BY <1>2, <1>3, <1>5, Zenon DEF RInv, OwnQueriesPass, handle
<1> QED
  BY <1>2, <1>4, <1>5, <1>6, <1>7, <1>8, AskingSteps, Zenon

\* The query of a task that waits for the clean upstream, on the TUN.
LEMMA TunKeeps ==
    ASSUME RInv, NEW t \in Task,
           \/ TunPasses(t)
           \/ \E u \in Task : TunIntercepts(t, u)
    PROVE  RInv'
<1>1. /\ tasks \in [Task -> TaskState] /\ TasksOK /\ PortsOK /\ strays \subseteq Name \X Port
      /\ tasks[t] \in TaskState /\ TaskOK(tasks[t]) /\ gen \in Nat
      /\ inflight \in [Gens -> SUBSET Port] /\ clashed \subseteq Task
  BY DEF RInv, RsTypeOK, TasksOK
<1>2. tasks[t].remote = "queued"
  BY Zenon DEF TunPasses, TunIntercepts
<1>3. tasks[t].at \in {"remote", "race"} /\ tasks[t].name \in Name /\ tasks[t].gen \in 1..gen
  BY <1>1, <1>2, Zenon DEF TaskOK, TaskState
<1>4. phase # "gone"
  BY <1>3, FreeIsATask, Zenon DEF RInv, HandleOK
<1>5. ASSUME NEW w \in {"sent", "eaten"}
      PROVE  LET q == [tasks[t] EXCEPT !.remote = w] IN
             /\ q \in TaskState /\ TaskOK(q) /\ q.remote = w /\ q.at = tasks[t].at
             /\ q.gen = tasks[t].gen /\ q.rport = tasks[t].rport
  <2> DEFINE q == [tasks[t] EXCEPT !.remote = w]
  <2>1. /\ q \in TaskState /\ q.remote = w /\ q.at = tasks[t].at /\ q.gen = tasks[t].gen
        /\ q.name = tasks[t].name /\ q.local = tasks[t].local /\ q.resp = tasks[t].resp
        /\ q.rport = tasks[t].rport
    BY <1>1, Zenon DEF TaskState, Upstream
  <2> HIDE DEF q
  <2>2. TaskOK(q)
    BY <1>1, <1>3, <2>1, Zenon DEF TaskOK, Outstanding
  <2> QED
    BY <2>1, <2>2, Zenon DEF q
<1>6. CASE TunPasses(t)
  <2> DEFINE q == [tasks[t] EXCEPT !.remote = "sent"]
  <2>1. /\ tasks' = [tasks EXCEPT ![t] = q] /\ UNCHANGED <<world, kernel, handle>>
        /\ UNCHANGED <<inflight, clashed, strays>>
    BY <1>6, Zenon DEF TunPasses, Put, ports
  <2>2. /\ q \in TaskState /\ TaskOK(q) /\ q.remote = "sent" /\ q.at = tasks[t].at
        /\ q.gen = tasks[t].gen /\ q.rport = tasks[t].rport
    BY <1>5, Zenon
  <2> HIDE DEF q
  <2>3. /\ tasks' \in [Task -> TaskState] /\ tasks'[t] = q
        /\ \A u \in Task \ {t} : tasks'[u] = tasks[u]
    BY <1>1, <2>1, <2>2, Zenon
  <2>4. \A u \in Task : tasks'[u] = tasks[u] \/ Asks1(u)
    BY <1>3, <2>2, <2>3, Zenon DEF Asks1
  <2>5. \A u \in Task : /\ tasks'[u].gen = tasks[u].gen /\ tasks'[u].rport = tasks[u].rport
                        /\ tasks'[u].remote \in Outstanding <=> tasks[u].remote \in Outstanding
    BY <1>2, <2>2, <2>3, Zenon DEF Outstanding
  <2>6. PortsOK'
    <3>1. inflight' = inflight /\ clashed' = clashed /\ PortsOK
      BY <1>1, <2>1, Zenon
    <3> QED
      BY <2>5, <3>1, PortsStay
  <2>7. OwnQueriesPass'
    BY <2>1, <2>2, <2>3, Zenon DEF RInv, OwnQueriesPass, handle
  <2> QED
    BY <1>1, <1>4, <2>1, <2>3, <2>4, <2>6, <2>7, AskingSteps, Zenon
<1>7. ASSUME NEW u \in Task, TunIntercepts(t, u) PROVE RInv'
  <2> DEFINE q == [tasks[t] EXCEPT !.remote = "eaten"]
  <2>1. PICK r \in Resolving(tasks[t].name) :
             /\ tasks' = [tasks EXCEPT ![t].remote = "eaten", ![u] = r]
             /\ inflight' = Register(r)
    BY <1>7, Zenon DEF TunIntercepts
  <2>2. /\ phase = "up" /\ ~Owns(tasks[t].rport) /\ tasks[u].at = "free"
        /\ UNCHANGED <<world, kernel, handle>> /\ strays' = strays /\ clashed' = clashed
    BY <1>7, Zenon DEF TunIntercepts
  <2>3. tasks[t].gen < gen \/ t \in clashed
    <3>1. tasks[t].gen = gen => t \in clashed
      BY <1>1, <1>2, <2>2, Zenon DEF Owns, PortsOK, Outstanding
    <3> QED
      BY <1>1, <1>3, <3>1
  <2>4. /\ r \in TaskState /\ TaskOK(r) /\ r.at # "install"
        /\ r.at = "reply" => ~r.resp.tunnel
        /\ r.remote \in {"none", "queued"}
        /\ r.rport # None <=> r.remote \in Outstanding
        /\ r.rport # None => r.rport \in CleanPorts /\ r.gen = gen
    BY <1>3, <2>2, ResolvingOK, Zenon
  <2>5. /\ q \in TaskState /\ TaskOK(q) /\ q.remote = "eaten" /\ q.at = tasks[t].at
        /\ q.gen = tasks[t].gen /\ q.rport = tasks[t].rport
    BY <1>5, Zenon
  <2>6. t # u
    BY <1>3, <2>2, Zenon
  <2>7. tasks' = [tasks EXCEPT ![t] = q, ![u] = r]
    BY <1>1, <2>1, <2>6, Zenon
  <2> HIDE DEF q
  <2>8. /\ tasks' \in [Task -> TaskState] /\ tasks'[t] = q /\ tasks'[u] = r
        /\ \A v \in Task \ {t, u} : tasks'[v] = tasks[v]
    BY <1>1, <2>4, <2>5, <2>6, <2>7, Zenon
  <2>9. \A v \in Task : tasks'[v] = tasks[v] \/ Asks1(v)
    BY <1>3, <2>2, <2>4, <2>5, <2>8, Zenon DEF Asks1
  <2>10. \A v \in Task \ {u} :
            /\ tasks'[v].rport = tasks[v].rport /\ tasks'[v].gen = tasks[v].gen
            /\ tasks'[v].remote \in Outstanding <=> tasks[v].remote \in Outstanding
    BY <1>2, <2>5, <2>8, Zenon DEF Outstanding
  <2>11. PortsOK' /\ inflight' \in [Gens -> SUBSET Port]
    BY <2>1, <2>2, <2>4, <2>8, <2>10, Registers, Zenon
  <2>12. OwnQueriesPass'
    BY <2>2, <2>3, <2>4, <2>5, <2>8, Zenon DEF RInv, OwnQueriesPass, handle
  <2> QED
    BY <1>1, <1>4, <2>2, <2>8, <2>9, <2>11, <2>12, AskingSteps, Zenon
<1> QED
  BY <1>6, <1>7, Zenon

\* A task that has asked gets its answer; one the split allows.
LEMMA DecidedOK ==
    ASSUME RInv, NEW r \in TaskState, r.name \in Name, r.gen \in 1..gen,
           conf.magic => r.name \notin Overlay,
           NEW a \in Answer, Allowed(r.name, a)
    PROVE  LET q == Decided(r, a) IN
           /\ q \in TaskState /\ TaskOK(q) /\ q.at # "install" /\ q.remote = "none"
           /\ q.rport = None
           /\ q.at = "reply" => ~q.resp.tunnel
<1> DEFINE q == Decided(r, a)
<1>1. /\ q \in TaskState /\ q.at = IF a.tunnel THEN "tunnel" ELSE "reply"
      /\ q.name = r.name /\ q.gen = r.gen /\ q.local = "none" /\ q.remote = "none" /\ q.resp = a
      /\ q.rport = None
  BY Zenon DEF Decided, TaskState, Upstream
<1> HIDE DEF q
<1>2. TaskOK(q)
  BY <1>1, Zenon DEF TaskOK
<1> QED
  BY <1>1, <1>2, Zenon DEF q

\* Both halves of the race are over: the clean answer, the local one for a name that
\* is not on the list, or none.
LEMMA CleanDecidesOK ==
    ASSUME RInv, NEW r \in TaskState, r.at \in {"remote", "race"},
           r.name \in Name, r.gen \in 1..gen, conf.magic => r.name \notin Overlay,
           r.remote \in Ip \cup {"failed"}, r.local \in Ip \cup {"none", "failed"},
           r.name \in conf.list => r.local = "none"
    PROVE  LET q == CleanDecides(r) IN
           /\ q \in TaskState /\ TaskOK(q) /\ q.at # "install" /\ q.remote = "none"
           /\ q.rport = None
           /\ q.at = "reply" => ~q.resp.tunnel
<1>2. CASE r.remote # "failed"
  <2> DEFINE a == FromUpstream("remote", r.remote, TRUE)
  <2>1. a \in Answer /\ a.src = "remote" /\ a.tunnel
    BY <1>2, Zenon DEF FromUpstream, Answer
  <2>2. CleanDecides(r) = Decided(r, a)
    BY <1>2, Zenon DEF CleanDecides
  <2> HIDE DEF a
  <2> QED
    BY <2>1, <2>2, DecidedOK DEF Allowed
<1>3. CASE r.remote = "failed" /\ r.local \notin {"none", "failed"}
  <2> DEFINE a == FromUpstream("local", r.local, TRUE)
  <2>1. a \in Answer /\ a.src = "local" /\ a.tunnel /\ r.name \notin conf.list
    BY <1>3, Zenon DEF FromUpstream, Answer
  <2>2. CleanDecides(r) = Decided(r, a)
    BY <1>3, Zenon DEF CleanDecides
  <2> HIDE DEF a
  <2> QED
    BY <2>1, <2>2, DecidedOK, Zenon DEF Allowed
<1>4. CASE r.remote = "failed" /\ r.local \in {"none", "failed"}
  BY <1>4, FreeIsATask, Zenon DEF CleanDecides, TaskOK
<1> QED
  BY <1>2, <1>3, <1>4, Zenon

\* One task moves, and its sockets close on some of its ports.
LEMMA OneTaskAsks ==
    ASSUME RInv, NEW t \in Task, NEW q \in TaskState, TaskOK(q), NEW closing,
           tasks' = [tasks EXCEPT ![t] = q], tasks[t].at \notin {"install", "free"},
           q.at # "install", q.at = "reply" => ~q.resp.tunnel,
           \/ q.rport = None /\ q.remote \notin Outstanding
           \/ /\ q.rport = tasks[t].rport /\ q.remote = tasks[t].remote
              /\ q.gen = tasks[t].gen,
           inflight' = [inflight EXCEPT ![tasks[t].gen] = @ \ closing],
           clashed' \subseteq Task,
           \A u \in Task : tasks'[u].rport # None =>
               /\ u \in clashed => u \in clashed'
               /\ tasks[u].gen = tasks[t].gen /\ tasks[u].rport \in closing => u \in clashed',
           strays' \subseteq Name \X Port, UNCHANGED <<world, kernel, handle>>
    PROVE  RInv'
<1>1. /\ tasks \in [Task -> TaskState] /\ PortsOK /\ OwnQueriesPass
      /\ inflight \in [Gens -> SUBSET Port]
  BY Zenon DEF RInv, RsTypeOK
<1>2. phase # "gone"
  BY FreeIsATask, Zenon DEF RInv, HandleOK
<1>3. /\ tasks' \in [Task -> TaskState] /\ tasks'[t] = q
      /\ \A u \in Task \ {t} : tasks'[u] = tasks[u]
  BY <1>1, Zenon
<1>4. \A u \in Task : tasks'[u] = tasks[u] \/ Asks1(u)
  BY <1>3, Zenon DEF Asks1
<1>5. ASSUME NEW u \in Task, tasks'[u].rport # None
      PROVE  /\ tasks'[u].rport = tasks[u].rport /\ tasks'[u].remote = tasks[u].remote
             /\ tasks'[u].gen = tasks[u].gen
  BY <1>3, <1>5, Zenon
<1>6. ASSUME NEW u \in Task
      PROVE  tasks'[u].rport # None <=> tasks'[u].remote \in Outstanding
  BY <1>1, <1>3, Zenon DEF PortsOK
<1>7. \A g \in Gens : inflight'[g] = IF g = tasks[t].gen THEN inflight[g] \ closing
                                      ELSE inflight[g]
  BY <1>1, Zenon
<1>8. ASSUME NEW u \in Task, tasks[u].rport # None PROVE tasks[u].gen \in Gens
  <2>1. tasks[u].at # "free"
    BY <1>8, FreeIsATask, Zenon DEF RInv, TasksOK, TaskOK
  <2>2. tasks[u].gen \in 1..gen /\ gen \in 0..MaxGens
    BY <2>1, Zenon DEF RInv, TasksOK, TaskOK, RsTypeOK
  <2> QED
    BY <2>2, ResolverAssumption DEF Gens
<1>9. ASSUME NEW u \in Task, tasks'[u].rport # None
      PROVE  u \in clashed' \/ tasks'[u].rport \in inflight'[tasks'[u].gen]
  <2>1. tasks[u].rport # None /\ tasks[u].gen \in Gens
    BY <1>5, <1>8, <1>9, Zenon
  <2>2. u \in clashed \/ tasks[u].rport \in inflight[tasks[u].gen]
    BY <1>1, <2>1, Zenon DEF PortsOK
  <2>3. u \in clashed' \/ tasks[u].rport \in inflight'[tasks[u].gen]
    <3>1. /\ u \in clashed => u \in clashed'
          /\ tasks[u].gen = tasks[t].gen /\ tasks[u].rport \in closing => u \in clashed'
      BY <1>9, Zenon
    <3>2. CASE tasks[u].gen = tasks[t].gen
      <4>1. inflight'[tasks[u].gen] = inflight[tasks[u].gen] \ closing
        BY <1>7, <2>1, <3>2, Zenon
      <4> QED
        BY <2>2, <3>1, <3>2, <4>1, Zenon
    <3>3. CASE tasks[u].gen # tasks[t].gen
      <4>1. inflight'[tasks[u].gen] = inflight[tasks[u].gen]
        BY <1>7, <2>1, <3>3, Zenon
      <4> QED
        BY <2>2, <3>1, <4>1, Zenon
    <3> QED
      BY <3>2, <3>3, Zenon
  <2> QED
    BY <1>5, <1>9, <2>3
<1>10. PortsOK'
  BY <1>1, <1>5, <1>6, <1>9 DEF PortsOK
<1>11. OwnQueriesPass'
  BY <1>1, <1>5, <1>6, Zenon DEF OwnQueriesPass, Outstanding, handle
<1>12. inflight' \in [Gens -> SUBSET Port]
  BY <1>1, Zenon
<1> QED
  BY <1>2, <1>3, <1>4, <1>10, <1>11, <1>12, AskingSteps, Zenon

\* What a closing socket leaves on the TUN is a query from one of the ports.
LEMMA StraysType ==
    ASSUME NEW r, r.name \in Name, r.remote = "queued" => r.rport \in Port,
           strays \subseteq Name \X Port
    PROVE  strays \cup LeftQueued(r) \subseteq Name \X Port
BY DEF LeftQueued

\* The local upstream settles.
LEMMA LocalKeeps ==
    ASSUME RInv, NEW t \in Task, NEW a \in Ip \cup {"failed"}, LocalSettles(t, a)
    PROVE  RInv'
<1> DEFINE r == tasks[t]
           waiting == [r EXCEPT !.at = "remote", !.local = a, !.lport = None]
           good(q) == /\ q \in TaskState /\ TaskOK(q) /\ q.at # "install"
                      /\ q.at = "reply" => ~q.resp.tunnel
           over(q) == q.rport = None /\ q.remote \notin Outstanding
<1>1. /\ r \in TaskState /\ TaskOK(r) /\ strays \subseteq Name \X Port /\ PortsOK
      /\ tasks \in [Task -> TaskState] /\ clashed \subseteq Task
  BY Zenon DEF RInv, RsTypeOK, TasksOK
<1>2. r.at \in {"local", "race"} /\ UNCHANGED <<world, kernel, handle>>
  BY Zenon DEF LocalSettles
<1>3. r.name \in Name /\ r.gen \in 1..gen /\ (conf.magic => r.name \notin Overlay)
  BY <1>1, <1>2, Zenon DEF TaskOK
<1>4. ASSUME NEW ip \in Ip, r.name \notin conf.list,
             conf.mode = "chinadns" => ip \in China
      PROVE  LET q == Decided(r, FromUpstream("local", ip, FALSE)) IN good(q) /\ over(q)
  <2> DEFINE b == FromUpstream("local", ip, FALSE)
  <2>1. b \in Answer /\ Allowed(r.name, b)
    BY <1>4, Zenon DEF FromUpstream, Answer, Allowed
  <2> HIDE DEF b
  <2>2. good(Decided(r, b)) /\ over(Decided(r, b))
    BY <1>1, <1>3, <2>1, DecidedOK, Zenon DEF Outstanding
  <2> QED
    BY <2>2, Zenon DEF b
<1>5. \A u \in Task : tasks[u].gen = r.gen /\ tasks[u].rport = r.lport => u \in Sharing(r)
  BY Zenon DEF Sharing
<1>6. Sharing(r) \subseteq Task
  BY Zenon DEF Sharing
<1>7. CASE r.at = "local"
  <2> DEFINE q == IF a = "failed" \/ conf.mode = "full" THEN Free
                  ELSE Decided(r, FromUpstream("local", a, FALSE))
  <2>1. /\ tasks' = [tasks EXCEPT ![t] = q] /\ strays' = strays
        /\ inflight' = [inflight EXCEPT ![r.gen] = @ \ {r.lport}]
        /\ clashed' = clashed \cup Sharing(r)
    BY <1>7, Zenon DEF LocalSettles, Put, Unregister
  <2>2. good(q) /\ over(q)
    BY <1>1, <1>4, <1>7, FreeIsATask, Zenon DEF TaskOK, Outstanding
  <2> HIDE DEF q
  <2>3. /\ clashed' \subseteq Task
        /\ \A u \in Task : /\ u \in clashed => u \in clashed'
                           /\ tasks[u].gen = r.gen /\ tasks[u].rport \in {r.lport}
                                => u \in clashed'
    BY <1>1, <1>5, <1>6, <2>1, Zenon
  <2> QED
    BY <1>1, <1>2, <1>7, <2>1, <2>2, <2>3, OneTaskAsks, Zenon
<1>8. CASE r.at = "race" /\ Domestic(a)
  <2> DEFINE q == Decided(r, FromUpstream("local", a, FALSE))
             closing == {r.lport, r.rport}
  <2>1. /\ tasks' = [tasks EXCEPT ![t] = q] /\ strays' = strays \cup LeftQueued(r)
        /\ inflight' = [inflight EXCEPT ![r.gen] = @ \ closing]
        /\ clashed' = (clashed \cup Sharing(r)) \ {t}
    BY <1>8, Zenon DEF LocalSettles, Put, Unregister
  <2>2. good(q) /\ over(q)
    BY <1>1, <1>4, <1>8, ResolverAssumption, Zenon DEF TaskOK, Domestic
  <2>3. strays' \subseteq Name \X Port
    <3>1. r.remote = "queued" => r.rport \in Port
      <4>1. r.rport \in Port \cup {None}
        BY <1>1, Zenon DEF TaskState
      <4>2. r.remote = "queued" => r.rport # None
        BY <1>1, Zenon DEF PortsOK, Outstanding
      <4> QED
        BY <4>1, <4>2, Zenon
    <3> QED
      BY <1>1, <1>3, <2>1, <3>1, StraysType, Zenon
  <2> HIDE DEF q
  <2>4. tasks'[t] = q /\ \A u \in Task \ {t} : tasks'[u] = tasks[u]
    BY <1>1, <2>1, Zenon
  <2>5. ASSUME NEW u \in Task, tasks'[u].rport # None
        PROVE  /\ u \in clashed => u \in clashed'
               /\ tasks[u].gen = r.gen /\ tasks[u].rport \in closing => u \in clashed'
    <3>1. u # t /\ tasks[u].rport # None
      BY <2>2, <2>4, <2>5, Zenon
    <3>2. tasks[u].gen = r.gen => tasks[u].rport # r.rport
      BY <1>1, <3>1, Zenon DEF PortsOK
    <3> QED
      BY <1>5, <2>1, <3>1, <3>2, Zenon
  <2>6. clashed' \subseteq Task
    BY <1>1, <1>6, <2>1, Zenon
  <2> HIDE DEF closing
  <2> QED
    BY <1>1, <1>2, <1>8, <2>1, <2>2, <2>3, <2>5, <2>6, OneTaskAsks, Zenon
<1>9. CASE r.at = "race" /\ ~Domestic(a)
  <2>1. /\ tasks' = [tasks EXCEPT ![t] = IF r.remote \in Outstanding THEN waiting
                                         ELSE CleanDecides(waiting)]
        /\ strays' = strays /\ inflight' = [inflight EXCEPT ![r.gen] = @ \ {r.lport}]
        /\ clashed' = clashed \cup Sharing(r)
    BY <1>9, Zenon DEF LocalSettles, Put, Unregister
  <2>2. /\ waiting \in TaskState /\ waiting.at = "remote" /\ waiting.local = a
        /\ waiting.name = r.name /\ waiting.gen = r.gen /\ waiting.remote = r.remote
        /\ waiting.resp = r.resp /\ waiting.rport = r.rport
    BY <1>1, Zenon DEF TaskState, Upstream
  <2> HIDE DEF waiting
  <2>3. /\ clashed' \subseteq Task
        /\ \A u \in Task : /\ u \in clashed => u \in clashed'
                           /\ tasks[u].gen = r.gen /\ tasks[u].rport \in {r.lport}
                                => u \in clashed'
    BY <1>1, <1>5, <1>6, <2>1, Zenon
  <2>4. CASE r.remote \in Outstanding
    <3>1. TaskOK(waiting)
      BY <1>1, <1>3, <1>9, <2>2, <2>4, Zenon DEF TaskOK
    <3> QED
      BY <1>1, <1>2, <1>9, <2>1, <2>2, <2>3, <2>4, <3>1, OneTaskAsks, Zenon
  <2>5. CASE r.remote \notin Outstanding
    <3>1. waiting.remote \in Ip \cup {"failed"} /\ r.name \notin conf.list
      BY <1>1, <1>9, <2>2, <2>5, Zenon DEF TaskOK
    <3>2. good(CleanDecides(waiting)) /\ over(CleanDecides(waiting))
      BY <1>3, <2>2, <3>1, CleanDecidesOK, Zenon DEF Outstanding
    <3> QED
      BY <1>1, <1>2, <1>9, <2>1, <2>3, <2>5, <3>2, OneTaskAsks, Zenon
  <2> QED
    BY <2>4, <2>5, Zenon
<1> QED
  BY <1>2, <1>7, <1>8, <1>9, Zenon

\* The clean upstream settles, or its query times out.
LEMMA CleanKeeps ==
    ASSUME RInv, NEW t \in Task, NEW a \in Ip \cup {"failed"}, CleanSettles(t, a)
    PROVE  RInv'
<1> DEFINE r == [tasks[t] EXCEPT !.remote = a, !.rport = None]
           q == IF r.at = "race" THEN r ELSE CleanDecides(r)
           closing == {tasks[t].rport}
<1>1. /\ tasks[t] \in TaskState /\ TaskOK(tasks[t]) /\ strays \subseteq Name \X Port
      /\ PortsOK /\ clashed \subseteq Task /\ tasks \in [Task -> TaskState]
  BY Zenon DEF RInv, RsTypeOK, TasksOK
<1>2. /\ r \in TaskState /\ r.remote = a /\ r.at = tasks[t].at /\ r.name = tasks[t].name
      /\ r.gen = tasks[t].gen /\ r.local = tasks[t].local /\ r.resp = tasks[t].resp
      /\ r.rport = None
  BY <1>1, Zenon DEF TaskState, Upstream
<1>3. /\ tasks[t].remote \in Outstanding /\ tasks' = [tasks EXCEPT ![t] = q]
      /\ inflight' = [inflight EXCEPT ![tasks[t].gen] = @ \ closing]
      /\ clashed' = clashed \ {t} /\ strays' = strays \cup LeftQueued(tasks[t])
      /\ UNCHANGED <<world, kernel, handle>>
  BY <1>2, Zenon DEF CleanSettles, CleanEnds, Put, Unregister
<1>4. /\ tasks[t].at \in {"remote", "race"} /\ tasks[t].name \in Name
      /\ tasks[t].gen \in 1..gen /\ (conf.magic => tasks[t].name \notin Overlay)
  BY <1>1, <1>3, Zenon DEF TaskOK, TaskState, Outstanding
<1>5. a \notin Outstanding
  BY NoneIsNoAnswer, Zenon DEF Outstanding
<1> HIDE DEF r
<1>6. /\ q \in TaskState /\ TaskOK(q) /\ q.at # "install"
      /\ q.at = "reply" => ~q.resp.tunnel
      /\ q.remote \notin Outstanding /\ q.rport = None
  <2>1. CASE r.at = "race"
    BY <1>1, <1>2, <1>4, <1>5, <2>1, Zenon DEF TaskOK
  <2>2. CASE r.at = "remote"
    <3>1. r.local \in {"none", "failed"} \cup Ip /\ (r.name \in conf.list => r.local = "none")
      BY <1>1, <1>2, <2>2, Zenon DEF TaskOK
    <3> QED
      BY <1>2, <1>4, <2>2, <3>1, CleanDecidesOK, Zenon DEF Outstanding
  <2> QED
    BY <1>2, <1>4, <2>1, <2>2, Zenon
<1>7. strays' \subseteq Name \X Port
  <2>1. tasks[t].rport \in Port
    <3>1. tasks[t].rport \in Port \cup {None}
      BY <1>1, Zenon DEF TaskState
    <3>2. tasks[t].rport # None
      BY <1>1, <1>3, Zenon DEF PortsOK
    <3> QED
      BY <3>1, <3>2, Zenon
  <2> QED
    BY <1>1, <1>3, <1>4, <2>1, StraysType, Zenon
<1> HIDE DEF q
<1>8. tasks'[t] = q /\ \A u \in Task \ {t} : tasks'[u] = tasks[u]
  BY <1>1, <1>3, Zenon
<1>9. ASSUME NEW u \in Task, tasks'[u].rport # None
      PROVE  /\ u \in clashed => u \in clashed'
             /\ tasks[u].gen = tasks[t].gen /\ tasks[u].rport \in closing => u \in clashed'
  <2>1. u # t /\ tasks[u].rport # None
    BY <1>6, <1>8, <1>9, Zenon
  <2> QED
    BY <1>1, <1>3, <2>1, Zenon DEF PortsOK
<1>10. clashed' \subseteq Task
  BY <1>1, <1>3, Zenon
<1> HIDE DEF closing
<1> QED
  BY <1>3, <1>4, <1>6, <1>7, <1>9, <1>10, OneTaskAsks, Zenon

\* Packets of closed sockets, and entries of the cache that expire.
LEMMA StrayKeeps ==
    ASSUME RInv, NEW n \in Name, (\E p \in Port : StrayPasses(n, p)) \/ Expire(n)
    PROVE  RInv'
<1>1. ASSUME NEW p \in Port, StrayPasses(n, p) PROVE RInv'
  <2>1. /\ UNCHANGED <<world, kernel, handle>> /\ tasks' = tasks /\ inflight' = inflight
        /\ clashed' = clashed /\ strays' \subseteq Name \X Port
        /\ tasks \in [Task -> TaskState] /\ inflight \in [Gens -> SUBSET Port]
        /\ clashed \subseteq Task
    BY <1>1, Zenon DEF StrayPasses, RInv, RsTypeOK, ports
  <2>2. PortsOK' /\ OwnQueriesPass'
    BY <2>1, Zenon DEF RInv, PortsOK, OwnQueriesPass, handle
  <2> QED
    BY <2>1, <2>2, AskingSteps, Zenon
<1>2. CASE Expire(n)
  <2> USE DEF RInv, kernel, handle, ports
  <2>1. /\ UNCHANGED <<conf, kernel, handle, tasks, ports, strays>>
        /\ cache' = [cache EXCEPT ![n] = None]
    BY <1>2, Zenon DEF Expire
  <2>2. RsTypeOK'
    BY <2>1, Zenon DEF RsTypeOK
  <2>3. TasksOK' /\ CacheOK'
    BY <2>1 DEF RsTypeOK, TasksOK, TaskOK, CacheOK, Allowed
  <2>5. PortsOK' /\ OwnQueriesPass'
    BY <2>1, Zenon DEF PortsOK, OwnQueriesPass
  <2>4. HandleOK' /\ Recorded' /\ Booked' /\ Replied' /\ RoutesAreOnTheBooks'
    BY <2>1, <2>2, Zenon DEF HandleOK, Recorded, Booked, Replied, RoutesAreOnTheBooks, Live,
       Dropped, Pending
  <2> QED
    BY <2>1, <2>2, <2>3, <2>4, <2>5, Zenon
<1> QED
  BY <1>1, <1>2, Zenon

-----------------------------------------------------------------------------
(* Routing and caching.                                                    *)

\* A task of this resolver that is past its upstreams, and where it goes on.
LEMMA MovesOn ==
    ASSUME RInv, NEW t \in Task, tasks[t].at \in {"tunnel", "install", "reply"},
           NEW onto \in {"install", "reply"}, onto = "install" => tasks[t].at = "tunnel",
           onto = "install" => tasks[t].resp.ip # Server,
           tasks' = [tasks EXCEPT ![t] = [tasks[t] EXCEPT !.at = onto]],
           UNCHANGED <<world, gen, inflight, clashed>>
    PROVE  /\ tasks' \in [Task -> TaskState] /\ TasksOK' /\ CacheOK' /\ PortsOK'
           /\ OwnQueriesPass' /\ phase # "gone"
           /\ tasks[t].resp \in Answer /\ tasks[t].gen \in 1..gen
           /\ tasks'[t].at = onto /\ tasks'[t].resp = tasks[t].resp
           /\ tasks'[t].gen = tasks[t].gen
           /\ \A u \in Task \ {t} : tasks'[u] = tasks[u]
<1> DEFINE q == [tasks[t] EXCEPT !.at = onto]
<1>1. tasks \in [Task -> TaskState] /\ tasks[t] \in TaskState /\ TaskOK(tasks[t])
  BY Zenon DEF RInv, RsTypeOK, TasksOK
<1>2. /\ q \in TaskState /\ q.at = onto /\ q.name = tasks[t].name /\ q.gen = tasks[t].gen
      /\ q.local = tasks[t].local /\ q.remote = tasks[t].remote /\ q.resp = tasks[t].resp
      /\ q.rport = tasks[t].rport
  BY <1>1, Zenon DEF TaskState
<1> HIDE DEF q
<1>3. tasks' \in [Task -> TaskState] /\ tasks'[t] = q /\ \A u \in Task \ {t} : tasks'[u] = tasks[u]
  BY <1>1, <1>2, Zenon DEF q
<1>4. TaskOK(q) /\ q.remote = "none" /\ tasks[t].remote = "none"
  BY <1>1, <1>2, Zenon DEF TaskOK
<1>5. TasksOK' /\ CacheOK'
  BY <1>3, <1>4 DEF RInv, TasksOK, CacheOK, TaskOK, Allowed, world
<1>6. PortsOK' /\ OwnQueriesPass'
  <2>1. \A u \in Task : /\ tasks'[u].gen = tasks[u].gen /\ tasks'[u].rport = tasks[u].rport
                        /\ tasks'[u].remote = tasks[u].remote
    BY <1>2, <1>3, Zenon
  <2>2. PortsOK'
    BY <2>1, PortsStay, Zenon DEF RInv
  <2>3. OwnQueriesPass'
    BY <2>1, Zenon DEF RInv, OwnQueriesPass
  <2> QED
    BY <2>2, <2>3, Zenon
<1>7. phase # "gone" /\ tasks[t].resp \in Answer /\ tasks[t].gen \in 1..gen
  BY <1>1, FreeIsATask, Zenon DEF RInv, HandleOK, TaskOK, Allowed
<1> QED
  BY <1>2, <1>3, <1>5, <1>6, <1>7, Zenon

\* add_route records the address before it asks for the route.
LEMMA TunnelKeeps ==
    ASSUME RInv, NEW t \in Task, Tunnel(t)
    PROVE  RInv'
<1> USE DEF RInv, kernel, handle
<1> DEFINE ip == tasks[t].resp.ip
           g == tasks[t].gen
           new == tasks[t].resp.tunnel /\ ip \notin Excluded \cup added[g]
           onto == IF new THEN "install" ELSE "reply"
<1>1. /\ tasks[t].at = "tunnel" /\ tasks' = [tasks EXCEPT ![t] = [tasks[t] EXCEPT !.at = onto]]
      /\ added' = (IF new THEN [added EXCEPT ![g] = @ \cup {ip}] ELSE added)
      /\ UNCHANGED <<world, gen, inflight, clashed, routes, failed, astray, phase, doomed,
                     strays>>
  BY Zenon DEF Tunnel, Put, ports
<1>2. onto \in {"install", "reply"} /\ (onto = "install" => ip # Server)
  BY Zenon DEF Excluded
<1>3. /\ tasks' \in [Task -> TaskState] /\ TasksOK' /\ CacheOK' /\ PortsOK'
      /\ OwnQueriesPass' /\ phase # "gone"
      /\ tasks[t].resp \in Answer /\ g \in 1..gen
      /\ tasks'[t].at = onto /\ tasks'[t].resp = tasks[t].resp /\ tasks'[t].gen = g
      /\ \A u \in Task \ {t} : tasks'[u] = tasks[u]
  BY <1>1, <1>2, MovesOn, Zenon
<1>4. g \in Gens /\ ip \in Host /\ gen \in 0..MaxGens /\ added \in [Gens -> SUBSET Host]
  BY <1>3, ResolverAssumption DEF RsTypeOK, Gens, Host, Answer
<1>5. added' \in [Gens -> SUBSET Host]
  BY <1>1, <1>4, Zenon
<1>6. \A h \in Gens : added[h] \subseteq added'[h] /\ added'[h] \subseteq added[h] \cup {ip}
                     /\ (h # g => added'[h] = added[h])
  BY <1>1, <1>4, Zenon
<1>7. new => ip \in added'[g]
  BY <1>1, <1>4, Zenon
<1>8. tasks[t].resp.tunnel
  BY <1>1, Zenon DEF TasksOK, TaskOK
<1>9. ~new /\ ip # Server => ip \in added'[g]
  BY <1>6, <1>8, <1>4, Zenon DEF Excluded
<1>10. ~new => added' = added
  BY <1>1, Zenon
<1>11. onto = "install" <=> new
  BY Zenon
<1> HIDE DEF ip, g, new, onto
<1>12. conf' = conf /\ RsTypeOK'
  BY <1>1, <1>3, <1>5, Zenon DEF RsTypeOK, world
<1>13. HandleOK'
  BY <1>1, <1>3, Zenon DEF HandleOK
<1>14. Recorded'
  <2> SUFFICES ASSUME NEW u \in Task, tasks'[u].at = "install", ~Dropped(tasks'[u].gen)
               PROVE  tasks'[u].resp.ip \in added'[gen]
    BY <1>1, Zenon DEF Recorded, Dropped
  <2>1. tasks'[u].gen = gen /\ gen \in Gens
    BY <1>1, <1>3, <1>4, <1>12 DEF Dropped, TasksOK, TaskOK, RsTypeOK, Gens
  <2>2. CASE u = t
    BY <1>3, <1>7, <1>11, <2>1, <2>2, Zenon DEF ip
  <2>3. CASE u # t
    BY <1>3, <1>6, <2>1, <2>3 DEF Recorded
  <2> QED
    BY <2>2, <2>3, Zenon
<1>15. Booked'
  <2> SUFFICES ASSUME phase = "up", NEW j \in added'[gen] \ failed, j \notin routes
               PROVE  Pending(j)'
    BY <1>1, Zenon DEF Booked
  <2>1. gen \in Gens
    BY Zenon DEF HandleOK
  <2>2. CASE j \in added[gen]
    <3>1. PICK u \in Task : tasks[u].at = "install" /\ tasks[u].gen = gen
                               /\ tasks[u].resp.ip = j
      BY <2>2, Zenon DEF Booked, Pending
    <3> QED
      BY <1>1, <1>3, <3>1, Zenon DEF Pending
  <2>3. CASE j \notin added[gen]
    <3>1. j = ip /\ g = gen /\ new
      BY <1>6, <1>10, <2>1, <2>3, Zenon
    <3> QED
      BY <1>1, <1>3, <1>11, <3>1, Zenon DEF Pending, ip
  <2> QED
    BY <2>2, <2>3, Zenon
<1>16. Replied'
  <2> SUFFICES ASSUME NEW u \in Task, tasks'[u].at = "reply", Live(tasks'[u]),
                      tasks'[u].resp.tunnel, tasks'[u].resp.ip # Server
               PROVE  tasks'[u].resp.ip \in added'[gen]
    BY <1>1, Zenon DEF Replied, Live
  <2>1. gen \in Gens /\ tasks'[u].gen = gen
    BY Zenon DEF HandleOK, Live
  <2>2. CASE u = t
    BY <1>3, <1>7, <1>9, <2>1, <2>2, Zenon DEF ip
  <2>3. CASE u # t
    BY <1>3, <1>6, <2>1, <2>3 DEF Replied
  <2> QED
    BY <2>2, <2>3, Zenon
<1>17. RoutesAreOnTheBooks'
  BY <1>1, <1>6, <1>12, Zenon DEF RoutesAreOnTheBooks, HandleOK
<1> QED
  BY <1>3, <1>12, <1>13, <1>14, <1>15, <1>16, <1>17, Zenon

\* The route request follows, after the books may have been drained.
LEMMA InstallKeeps ==
    ASSUME RInv, NEW t \in Task, NEW ok \in BOOLEAN, Install(t, ok)
    PROVE  RInv'
<1> USE DEF RInv, kernel, handle
<1> DEFINE ip == tasks[t].resp.ip
           g == tasks[t].gen
<1>1. /\ tasks[t].at = "install" /\ tasks' = [tasks EXCEPT ![t] = [tasks[t] EXCEPT !.at = "reply"]]
      /\ routes' = IF ok THEN routes \cup {ip} ELSE routes
      /\ failed' = IF ok THEN failed ELSE failed \cup {ip}
      /\ astray' = IF ok /\ Dropped(g) THEN astray \cup {ip} ELSE astray
      /\ UNCHANGED <<world, added, gen, phase, doomed, inflight, clashed, strays>>
  BY Zenon DEF Install, Put, ports
<1>2. /\ tasks' \in [Task -> TaskState] /\ TasksOK' /\ CacheOK' /\ PortsOK'
      /\ OwnQueriesPass' /\ phase # "gone"
      /\ tasks[t].resp \in Answer /\ g \in 1..gen
      /\ tasks'[t].at = "reply" /\ tasks'[t].resp = tasks[t].resp /\ tasks'[t].gen = g
      /\ \A u \in Task \ {t} : tasks'[u] = tasks[u]
  BY <1>1, MovesOn, Zenon
<1>3. ip \in Host /\ ip # Server
  BY <1>1, <1>2, Zenon DEF TasksOK, TaskOK, Host, Answer
<1>4. ~Dropped(g) => g = gen /\ ip \in added[gen] /\ phase \in {"up", "leaving"}
  BY <1>1, <1>2 DEF Recorded, Dropped, RsTypeOK
<1>5. \/ routes' = routes \cup {ip} /\ failed' = failed
         /\ (astray' = astray \/ astray' = astray \cup {ip})
         /\ (Dropped(g) => astray' = astray \cup {ip})
      \/ routes' = routes /\ failed' = failed \cup {ip} /\ astray' = astray
  BY <1>1, Zenon
<1> HIDE DEF ip, g
<1>6. conf' = conf /\ RsTypeOK'
  BY <1>1, <1>2, <1>3, <1>5, Zenon DEF RsTypeOK, world
<1>7. HandleOK' /\ Recorded'
  BY <1>1, <1>2, Zenon DEF HandleOK, Recorded, Dropped
<1>8. Booked'
  <2> SUFFICES ASSUME phase = "up", NEW j \in added[gen] \ failed', j \notin routes'
               PROVE  Pending(j)'
    BY <1>1, Zenon DEF Booked
  <2>1. j # ip /\ j \in added[gen] \ failed /\ j \notin routes
    BY <1>5, Zenon
  <2>2. PICK u \in Task : tasks[u].at = "install" /\ tasks[u].gen = gen
                             /\ tasks[u].resp.ip = j
    BY <2>1, Zenon DEF Booked, Pending
  <2> QED
    BY <1>1, <1>2, <2>1, <2>2, Zenon DEF Pending, ip
<1>9. Replied'
  <2> SUFFICES ASSUME NEW u \in Task, tasks'[u].at = "reply", Live(tasks'[u]),
                      tasks'[u].resp.tunnel, tasks'[u].resp.ip # Server
               PROVE  tasks'[u].resp.ip \in added[gen]
    BY <1>1, Zenon DEF Replied, Live
  <2>1. CASE u = t
    <3>1. ~Dropped(g)
      BY <1>2, <2>1 DEF Dropped, Live, RsTypeOK
    <3> QED
      BY <1>2, <1>4, <2>1, <3>1, Zenon DEF ip
  <2>2. CASE u # t
    BY <1>2, <2>2, Zenon DEF Replied
  <2> QED
    BY <2>1, <2>2, Zenon
<1>10. RoutesAreOnTheBooks'
  <2>1. Server \notin routes'
    BY <1>3, <1>5, Zenon DEF RoutesAreOnTheBooks
  <2>2. CASE Dropped(g)
    BY <1>1, <1>5, <1>6, <2>1, <2>2, Zenon DEF RoutesAreOnTheBooks
  <2>3. CASE ~Dropped(g)
    BY <1>1, <1>4, <1>5, <1>6, <2>1, <2>3, Zenon DEF RoutesAreOnTheBooks
  <2> QED
    BY <2>2, <2>3, Zenon
<1> QED
  BY <1>2, <1>6, <1>7, <1>8, <1>9, <1>10, Zenon

\* The answer is cached, for its own resolver only, and the task ends.
LEMMA StoreKeeps ==
    ASSUME RInv, NEW t \in Task, StoreAndReply(t)
    PROVE  RInv'
<1> USE DEF RInv, kernel, handle
<1> DEFINE r == tasks[t]
<1>1. /\ r.at = "reply" /\ tasks' = [tasks EXCEPT ![t] = Free]
      /\ UNCHANGED <<conf, kernel, handle, inflight, clashed, strays>>
      /\ cache' = cache \/ cache' = [cache EXCEPT ![r.name] = r.resp]
  BY Zenon DEF StoreAndReply, Put, ports
<1>2. /\ r.name \in Name /\ Allowed(r.name, r.resp) /\ r.remote = "none" /\ r.resp \in Answer
      /\ tasks \in [Task -> TaskState] /\ cache \in [Name -> Answer \cup {None}]
  BY <1>1, Zenon DEF TasksOK, TaskOK, RsTypeOK, Allowed
<1>3. /\ tasks' \in [Task -> TaskState] /\ tasks'[t] = Free
      /\ \A u \in Task \ {t} : tasks'[u] = tasks[u]
      /\ cache' \in [Name -> Answer \cup {None}]
  BY <1>1, <1>2, FreeIsATask, Zenon
<1>4. CacheOK'
  BY <1>1, <1>2, Zenon DEF CacheOK, Allowed
<1>5. TasksOK'
  BY <1>1, <1>3, FreeIsATask DEF TasksOK, TaskOK, Allowed
<1>6. PortsOK' /\ OwnQueriesPass'
  BY <1>1, <1>3, FreeIsATask, Zenon DEF PortsOK, OwnQueriesPass, Outstanding
<1>7. RsTypeOK'
  BY <1>1, <1>3, Zenon DEF RsTypeOK
<1>8. HandleOK' /\ Recorded' /\ Replied'
  BY <1>1, <1>3, FreeIsATask, Zenon DEF HandleOK, Recorded, Dropped, Replied, Live
<1>9. Booked'
  <2> SUFFICES ASSUME phase = "up", NEW j \in added[gen] \ failed, j \notin routes
               PROVE  Pending(j)'
    BY <1>1, Zenon DEF Booked
  <2>1. PICK u \in Task : tasks[u].at = "install" /\ tasks[u].gen = gen
                             /\ tasks[u].resp.ip = j
    BY Zenon DEF Booked, Pending
  <2> QED
    BY <1>1, <1>3, <2>1, Zenon DEF Pending
<1>10. RoutesAreOnTheBooks'
  BY <1>1, <1>7, Zenon DEF RoutesAreOnTheBooks
<1> QED
  BY <1>1, <1>4, <1>5, <1>6, <1>7, <1>8, <1>9, <1>10, Zenon

-----------------------------------------------------------------------------
(* The resolver's life.                                                    *)

\* A new resolver starts with books of its own; its predecessors' tasks run on.
LEMMA SpawnKeeps ==
    ASSUME RInv, Spawn
    PROVE  RInv'
<1> USE DEF RInv
<1>1. /\ phase = "down" /\ gen < MaxGens /\ gen' = gen + 1 /\ phase' = "up"
      /\ added' = [added EXCEPT ![gen + 1] = {CleanDns}] /\ routes' = routes \cup {CleanDns}
      /\ UNCHANGED <<conf, cache, failed, astray, doomed, tasks, inflight, clashed, strays>>
  BY Zenon DEF Spawn, Seed, world, ports
<1>2. /\ gen \in Nat /\ gen + 1 \in Gens /\ MaxGens \in Nat /\ CleanDns \in Host
      /\ added \in [Gens -> SUBSET Host] /\ CleanDns # Server
  BY <1>1, ResolverAssumption DEF RsTypeOK, Gens, Host
<1>3. added' \in [Gens -> SUBSET Host] /\ added'[gen'] = {CleanDns}
  BY <1>1, <1>2, Zenon
<1>4. RsTypeOK'
  BY <1>1, <1>2, <1>3 DEF RsTypeOK, Gens
<1>5. TasksOK' /\ CacheOK'
  BY <1>1, <1>2 DEF TasksOK, TaskOK, CacheOK, Allowed
<1>10. PortsOK'
  BY <1>1, Zenon DEF PortsOK
<1>6. OwnQueriesPass'
  BY <1>1, <1>2, ResolverAssumption DEF OwnQueriesPass, RsTypeOK, TaskState
<1>7. \A t \in Task : tasks[t].gen < gen'
  BY <1>1, <1>2, FreeIsATask DEF TasksOK, TaskOK, Free
<1>8. HandleOK' /\ Recorded' /\ Replied' /\ Booked'
  BY <1>1, <1>2, <1>3, <1>7 DEF HandleOK, Recorded, Replied, Booked, Dropped, Live
<1>9. RoutesAreOnTheBooks'
  BY <1>1, <1>2, <1>3, <1>4, Zenon DEF RoutesAreOnTheBooks
<1> QED
  BY <1>1, <1>4, <1>5, <1>6, <1>8, <1>9, <1>10, Zenon

\* A failed spawn ends the process, and with it the device and its routes.
LEMMA SpawnFailsKeeps ==
    ASSUME RInv, SpawnFails
    PROVE  RInv'
<1> USE DEF RInv
<1>1. /\ phase = "down" /\ phase' = "gone" /\ routes' = {}
      /\ tasks' = [t \in Task |-> Free] /\ inflight' = [g \in Gens |-> {}]
      /\ strays' = {} /\ clashed' = {}
      /\ UNCHANGED <<conf, cache, added, failed, astray, gen, doomed>>
  BY Zenon DEF SpawnFails, world
<1>2. RsTypeOK'
  BY <1>1, FreeIsATask, Zenon DEF RsTypeOK
<1>3. TasksOK' /\ CacheOK' /\ PortsOK' /\ OwnQueriesPass'
  BY <1>1, FreeIsATask, Zenon DEF TasksOK, TaskOK, CacheOK, Allowed, PortsOK, Outstanding,
     OwnQueriesPass
<1>4. HandleOK' /\ Recorded' /\ Replied' /\ Booked'
  BY <1>1, FreeIsATask, Zenon DEF HandleOK, Recorded, Replied, Booked
<1>5. RoutesAreOnTheBooks'
  BY <1>1, <1>2, Zenon DEF RoutesAreOnTheBooks
<1> QED
  BY <1>1, <1>2, <1>3, <1>4, <1>5, Zenon

\* shutdown_policy, the guard's drain, its deletions and the saved cache.
LEMMA LeavingKeeps ==
    ASSUME RInv, \/ Shutdown \/ Drain \/ SaveCache
                 \/ \E ip \in Host, ok \in BOOLEAN : DeleteRoute(ip, ok)
    PROVE  RInv'
<1> USE DEF RInv
<1>1. /\ UNCHANGED <<conf, cache, gen, tasks, inflight, clashed, strays>>
      /\ phase \in {"up", "leaving", "deleting"} /\ gen \in Gens
  BY Zenon DEF Shutdown, Drain, SaveCache, DeleteRoute, world, kernel, ports, HandleOK
<1>2. TasksOK' /\ CacheOK' /\ PortsOK' /\ OwnQueriesPass'
  <2>1. TasksOK' /\ CacheOK'
    BY <1>1 DEF TasksOK, TaskOK, CacheOK, Allowed
  <2>2. PortsOK' /\ OwnQueriesPass'
    BY <1>1, Zenon DEF PortsOK, OwnQueriesPass
  <2> QED
    BY <2>1, <2>2, Zenon
<1>3. CASE Shutdown
  <2>1. /\ phase = "up" /\ phase' = "leaving"
        /\ UNCHANGED <<routes, added, doomed, failed, astray>>
    BY <1>3, Zenon DEF Shutdown, kernel
  <2>2. RsTypeOK'
    BY <1>1, <2>1, Zenon DEF RsTypeOK
  <2>3. HandleOK' /\ Recorded' /\ Replied' /\ Booked' /\ RoutesAreOnTheBooks'
    BY <1>1, <2>1, <2>2, Zenon DEF HandleOK, Recorded, Replied, Booked, Dropped, Live,
       RoutesAreOnTheBooks
  <2> QED
    BY <1>1, <1>2, <2>2, <2>3, Zenon
<1>4. CASE Drain
  <2>1. /\ phase = "leaving" /\ phase' = "deleting" /\ doomed' = added[gen]
        /\ added' = [added EXCEPT ![gen] = {}] /\ UNCHANGED <<routes, failed, astray>>
    BY <1>4, Zenon DEF Drain
  <2>2. RsTypeOK'
    BY <1>1, <2>1, Zenon DEF RsTypeOK
  <2>3. HandleOK' /\ Recorded' /\ Replied' /\ Booked'
    BY <1>1, <2>1, Zenon DEF HandleOK, Recorded, Replied, Booked, Dropped, Live
  <2>4. RoutesAreOnTheBooks'
    BY <1>1, <2>1, <2>2, Zenon DEF HandleOK, RoutesAreOnTheBooks
  <2> QED
    BY <1>1, <1>2, <2>2, <2>3, <2>4, Zenon
<1>5. CASE SaveCache
  <2>1. /\ phase = "deleting" /\ phase' = "down" /\ doomed = {}
        /\ UNCHANGED <<routes, added, doomed, failed, astray>>
    BY <1>5, Zenon DEF SaveCache, kernel
  <2>2. RsTypeOK'
    BY <1>1, <2>1, Zenon DEF RsTypeOK
  <2>3. HandleOK' /\ Recorded' /\ Replied' /\ Booked' /\ RoutesAreOnTheBooks'
    BY <1>1, <2>1, <2>2, Zenon DEF HandleOK, Recorded, Replied, Booked, Dropped, Live,
       RoutesAreOnTheBooks
  <2> QED
    BY <1>1, <1>2, <2>2, <2>3, Zenon
<1>6. ASSUME NEW ip \in Host, NEW ok \in BOOLEAN, DeleteRoute(ip, ok) PROVE RInv'
  <2>1. /\ phase = "deleting" /\ doomed' = doomed \ {ip}
        /\ \/ routes' = routes \ {ip} /\ failed' = failed /\ astray' = astray
           \/ routes' = routes /\ failed' = failed \cup {ip} /\ astray' = astray \cup {ip}
        /\ UNCHANGED <<added, phase>>
    BY <1>6, Zenon DEF DeleteRoute
  <2>2. RsTypeOK'
    BY <1>1, <2>1, Zenon DEF RsTypeOK
  <2>3. HandleOK' /\ Recorded' /\ Replied' /\ Booked' /\ RoutesAreOnTheBooks'
    BY <1>1, <2>1, <2>2, Zenon DEF HandleOK, Recorded, Replied, Booked, Dropped, Live,
       RoutesAreOnTheBooks
  <2> QED
    BY <1>1, <1>2, <2>2, <2>3, Zenon
<1> QED
  BY <1>3, <1>4, <1>5, <1>6, Zenon

-----------------------------------------------------------------------------

\* Every step of the tasks, the handle and the kernel keeps the invariant.
LEMMA RInvInductive == RInv /\ [RNext0]_rvars => RInv'
<1> SUFFICES ASSUME RInv, [RNext0]_rvars PROVE RInv'
  BY Zenon
<1>1. ASSUME NEW t \in Task, NEW n \in Name,
             Query(t, n) \/ \E p \in Port : StrayIntercepted(t, n, p)
      PROVE  RInv'
  <2>1. Begin(t, n) /\ strays' \subseteq Name \X Port
    BY <1>1, Zenon DEF Query, StrayIntercepted, RInv, RsTypeOK
  <2> QED
    BY <2>1, BeginKeeps, Zenon
<1>2. ASSUME NEW n \in Name, Expire(n) \/ \E p \in Port : StrayPasses(n, p) PROVE RInv'
  BY <1>2, StrayKeeps, Zenon
<1>3. ASSUME NEW t \in Task, NEW u \in Task, TunIntercepts(t, u) PROVE RInv'
  BY <1>3, TunKeeps, Zenon
<1>4. ASSUME NEW t \in Task, Progress(t) PROVE RInv'
  BY <1>4, TunKeeps, LocalKeeps, CleanKeeps, TunnelKeeps, InstallKeeps, StoreKeeps, Zenon DEF
     Progress
<1>5. CASE Spawn \/ SpawnFails
  BY <1>5, SpawnKeeps, SpawnFailsKeeps, Zenon
<1>6. CASE \/ Shutdown \/ Drain \/ SaveCache
           \/ \E ip \in Host, ok \in BOOLEAN : DeleteRoute(ip, ok)
  BY <1>6, LeavingKeeps, Zenon
<1>7. CASE UNCHANGED rvars
  <2>1. /\ UNCHANGED <<world, kernel, handle>> /\ tasks' = tasks /\ inflight' = inflight
        /\ clashed' = clashed /\ strays' = strays
    BY <1>7, Zenon DEF rvars, ports
  <2>2. PortsOK' /\ OwnQueriesPass'
    BY <2>1, Zenon DEF RInv, PortsOK, OwnQueriesPass, handle
  <2> QED
    BY <2>1, <2>2, AskingSteps, Zenon DEF RInv, RsTypeOK
<1> QED
  BY <1>1, <1>2, <1>3, <1>4, <1>5, <1>6, <1>7, Zenon DEF RNext0

\* So it holds at all times.
LEMMA ResolverInvariant == ResolverSpec => []RInv
BY RInitInv, RInvInductive, PTL DEF ResolverSpec

\* An answer that reaches its asker as tunnelled is routed into the TUN, or its route
\* is being requested by the query that recorded it first: the books are consulted and
\* filled in one step, and the request is made in another (route.rs add_route).
THEOREM AnswersAreRouted == ResolverSpec => []AnswerIsRouted
<1>1. RInv => AnswerIsRouted
  BY DEF RInv, Booked, Replied, Pending, Live, AnswerIsRouted, Excluded
<1> QED
  BY <1>1, ResolverInvariant, PTL

\* Every host route on the TUN is on the books of the resolver that will delete it, is
\* being deleted, was requested after those books were drained, or is one whose deletion
\* failed (route.rs delete_all).
THEOREM RoutesAreAccounted == ResolverSpec => []RoutesAreOnTheBooks
<1>1. RInv => RoutesAreOnTheBooks
  BY Zenon DEF RInv
<1> QED
  BY <1>1, ResolverInvariant, PTL

\* No answer this client decided, cached or on its way, breaks the split of its mode and
\* its list, whatever the order in which the two upstreams settle and whatever an earlier
\* client left in the cache file (proxy.rs decide_gfwlist, decide_chinadns).
THEOREM SplitIsKept == ResolverSpec => []SplitIsRespected
<1>1. RInv => SplitIsRespected
  <2> SUFFICES ASSUME RInv PROVE SplitIsRespected
    BY Zenon
  <2>1. ASSUME NEW n \in Name, cache[n] # None PROVE Allowed(n, cache[n])
    BY <2>1, Zenon DEF RInv, CacheOK
  <2>2. ASSUME NEW t \in Task, tasks[t].resp # None
        PROVE  Allowed(tasks[t].name, tasks[t].resp)
    <3>1. tasks[t] \in TaskState /\ TaskOK(tasks[t])
      BY Zenon DEF RInv, RsTypeOK, TasksOK
    <3> QED
      BY <2>2, <3>1, Zenon DEF TaskOK, TaskState
  <2>3. conf.magic => \A t \in Task : tasks[t].name \notin Overlay
    BY ResolverAssumption, NoneIsNoAnswer DEF RInv, TasksOK, TaskOK, Free
  <2> QED
    BY <2>1, <2>2, <2>3 DEF SplitIsRespected, Allowed
<1> QED
  BY <1>1, ResolverInvariant, PTL

\* The intercept takes an open clean query only for a later resolver than the one that
\* asked it, or after a local query with the same port number has ended (client.rs
\* tun_to_net, proxy.rs owns_source_port, PortGuard).
THEOREM OwnQueriesReachTheTunnel == ResolverSpec => []OwnQueriesPass
<1>1. RInv => OwnQueriesPass
  BY Zenon DEF RInv
<1> QED
  BY <1>1, ResolverInvariant, PTL

-----------------------------------------------------------------------------
(* AnswerCache.                                                            *)

Raw == [left : Nat, life : Nat, age : Nat, filed : BOOLEAN, killed : Nat]
Budget(e) == e.life * TicksPerSec * (1 + e.killed)

\* An entry within its lifetime, whose past is within its budget.
Sound(e) == e \in Raw /\ e.left <= e.life * TicksPerSec /\ e.age <= Budget(e)

Shaped(m) ==
    /\ m = [k \in DOMAIN m |-> m[k]] /\ IsFiniteSet(DOMAIN m)
    /\ \A k \in DOMAIN m : Sound(m[k])

Budgeted(m) == \A k \in DOMAIN m : m[k].left + m[k].age <= Budget(m[k])

\* An answer loaded from the file is still on it.
OnFile ==
    \A k \in DOMAIN map : map[k].filed =>
        /\ k \in DOMAIN snapshot.map
        /\ snapshot.map[k].life = map[k].life /\ snapshot.map[k].killed = map[k].killed

\* The file of a run under way may promise more than the budget: a killed run pays.
ACInv ==
    /\ Shaped(map) /\ Budgeted(map) /\ Shaped(snapshot.map) /\ OnFile
    /\ ~running => Budgeted(snapshot.map)

\* Rounding down to whole seconds gives no time away.
LEMMA RoundsDown ==
    ASSUME NEW x \in Nat, NEW s \in Nat \ {0}
    PROVE  (x \div s) * s \in Nat /\ (x \div s) * s <= x
OBVIOUS

\* A killed run adds one lifetime to the budget.
LEMMA OneMore ==
    ASSUME NEW l \in Nat, NEW n \in Nat
    PROVE  l * (1 + n) \in Nat /\ l * (1 + (n + 1)) = l * (1 + n) + l
OBVIOUS

\* Budgets are numbers.
LEMMA BudgetType ==
    ASSUME NEW e \in Raw
    PROVE  e.life * TicksPerSec \in Nat /\ Budget(e) \in Nat
<1>1. e.life * TicksPerSec \in Nat
  BY CacheAssumption DEF Raw
<1> QED
  BY <1>1, OneMore, Zenon DEF Raw, Budget

\* What the updates of an entry's fields come to.
LEMMA Updates ==
    ASSUME NEW e \in Raw, NEW x, NEW y
    PROVE  /\ [e EXCEPT !.left = x, !.age = y] =
                [left |-> x, life |-> e.life, age |-> y, filed |-> e.filed, killed |-> e.killed]
           /\ [e EXCEPT !.left = x, !.filed = y] =
                [left |-> x, life |-> e.life, age |-> e.age, filed |-> y, killed |-> e.killed]
<1> DEFINE r == [left |-> x, life |-> e.life, age |-> e.age, filed |-> e.filed,
                 killed |-> e.killed]
<1>1. [e EXCEPT !.left = x] = r
  BY DEF Raw
<1>2. /\ [e EXCEPT !.left = x, !.age = y] = [[e EXCEPT !.left = x] EXCEPT !.age = y]
      /\ [e EXCEPT !.left = x, !.filed = y] = [[e EXCEPT !.left = x] EXCEPT !.filed = y]
  BY Zenon
<1>3. [r EXCEPT !.age = y] =
         [left |-> x, life |-> e.life, age |-> y, filed |-> e.filed, killed |-> e.killed]
  OBVIOUS
<1>4. [r EXCEPT !.filed = y] =
         [left |-> x, life |-> e.life, age |-> e.age, filed |-> y, killed |-> e.killed]
  OBVIOUS
<1> HIDE DEF r
<1> QED
  BY <1>1, <1>2, <1>3, <1>4, Zenon

\* A tick moves time from what is left to what was served.
LEMMA TickedEntry ==
    ASSUME NEW e, Sound(e), e.left # 0, e.left + e.age <= Budget(e)
    PROVE  LET f == [e EXCEPT !.left = @ - 1, !.age = @ + 1]
           IN /\ f = [left |-> e.left - 1, life |-> e.life, age |-> e.age + 1,
                      filed |-> e.filed, killed |-> e.killed]
              /\ Sound(f) /\ f.left + f.age <= Budget(f)
              /\ e.age + 1 \in Nat /\ e.age + 1 <= Budget(e)
<1> DEFINE f == [left |-> e.left - 1, life |-> e.life, age |-> e.age + 1,
                 filed |-> e.filed, killed |-> e.killed]
<1>1. e \in Raw /\ e.left <= e.life * TicksPerSec
  BY Zenon DEF Sound
<1>2. [e EXCEPT !.left = @ - 1, !.age = @ + 1] = f
  BY <1>1, Updates, Zenon
<1>3. f.life = e.life /\ f.killed = e.killed /\ f.left = e.left - 1 /\ f.age = e.age + 1
  BY Zenon
<1>4. Budget(f) = Budget(e) /\ f.life * TicksPerSec = e.life * TicksPerSec
  BY <1>3, Zenon DEF Budget
<1>5. f \in Raw
  BY <1>1 DEF Raw
<1>6. e.life * TicksPerSec \in Nat /\ Budget(e) \in Nat /\ e.left \in Nat /\ e.age \in Nat
  BY <1>1, BudgetType, Zenon DEF Raw
<1> HIDE DEF f
<1>7. /\ f.left <= f.life * TicksPerSec /\ f.left + f.age <= Budget(f)
      /\ f.age <= Budget(f) /\ e.age + 1 <= Budget(e) /\ e.age + 1 \in Nat
  BY <1>1, <1>3, <1>4, <1>6
<1> QED
  BY <1>2, <1>5, <1>7, Zenon DEF Sound, f

\* What goes to the file keeps its past and loses a part of a second.
LEMMA SavedEntry ==
    ASSUME NEW e, Sound(e), e.left + e.age <= Budget(e)
    PROVE  LET w == (e.left \div TicksPerSec) * TicksPerSec
               f == [e EXCEPT !.left = (@ \div TicksPerSec) * TicksPerSec, !.filed = TRUE]
           IN /\ w \in Nat
              /\ f = [left |-> w, life |-> e.life, age |-> e.age, filed |-> TRUE,
                      killed |-> e.killed]
              /\ Sound(f) /\ f.left + f.age <= Budget(f)
<1> DEFINE w == (e.left \div TicksPerSec) * TicksPerSec
           f == [left |-> w, life |-> e.life, age |-> e.age, filed |-> TRUE,
                 killed |-> e.killed]
<1>1. e \in Raw /\ e.left <= e.life * TicksPerSec /\ e.age <= Budget(e)
  BY Zenon DEF Sound
<1>2. w \in Nat /\ w <= e.left
  BY <1>1, RoundsDown, CacheAssumption, Zenon DEF Raw
<1>3. [e EXCEPT !.left = (@ \div TicksPerSec) * TicksPerSec, !.filed = TRUE] = f
  BY <1>1, Updates, Zenon
<1> HIDE DEF w
<1>4. f.life = e.life /\ f.killed = e.killed /\ f.left = w /\ f.age = e.age
  BY Zenon
<1>5. Budget(f) = Budget(e) /\ f.life * TicksPerSec = e.life * TicksPerSec
  BY <1>4, Zenon DEF Budget
<1>6. f \in Raw
  BY <1>1, <1>2, Zenon DEF Raw
<1>7. e.life * TicksPerSec \in Nat /\ Budget(e) \in Nat /\ e.left \in Nat /\ e.age \in Nat
  BY <1>1, BudgetType, Zenon DEF Raw
<1> HIDE DEF f
<1>8. f.left <= f.life * TicksPerSec /\ f.left + f.age <= Budget(f) /\ f.age <= Budget(f)
  BY <1>1, <1>2, <1>4, <1>5, <1>7
<1> QED
  BY <1>2, <1>3, <1>6, <1>8, Zenon DEF Sound, w, f

\* After a killed run the budget covers what the file grants again.
LEMMA KilledEntry ==
    ASSUME NEW e, Sound(e)
    PROVE  LET f == [e EXCEPT !.killed = @ + 1]
           IN /\ f = [left |-> e.left, life |-> e.life, age |-> e.age, filed |-> e.filed,
                      killed |-> e.killed + 1]
              /\ Sound(f) /\ f.left + f.age <= Budget(f)
<1> DEFINE f == [left |-> e.left, life |-> e.life, age |-> e.age, filed |-> e.filed,
                 killed |-> e.killed + 1]
           l == e.life * TicksPerSec
<1>1. e \in Raw /\ e.left <= l /\ e.age <= Budget(e)
  BY Zenon DEF Sound
<1>2. [e EXCEPT !.killed = @ + 1] = f
  BY <1>1 DEF Raw
<1>3. /\ f.life = e.life /\ f.killed = e.killed + 1 /\ f.left = e.left /\ f.age = e.age
  BY Zenon
<1>4. f \in Raw
  BY <1>1 DEF Raw
<1>5. l \in Nat /\ e.killed \in Nat /\ e.left \in Nat /\ e.age \in Nat
  BY <1>1, BudgetType, Zenon DEF Raw
<1>6. Budget(e) = l * (1 + e.killed) /\ Budget(f) = l * (1 + (e.killed + 1))
  BY <1>3, Zenon DEF Budget
<1> HIDE DEF f, l
<1>7. Budget(f) = Budget(e) + l /\ Budget(e) \in Nat
  BY <1>5, <1>6, OneMore, Zenon
<1>8. f.left <= l /\ f.left + f.age <= Budget(f) /\ f.age <= Budget(f)
  BY <1>1, <1>3, <1>5, <1>7
<1>9. f.life * TicksPerSec = l
  BY <1>3, Zenon DEF l
<1> QED
  BY <1>2, <1>4, <1>8, <1>9, Zenon DEF Sound, f

\* put, pruning, time, save, a crash and load keep every answer within its budget.
LEMMA ACInvInductive == ACInv /\ [ACNext]_acvars => ACInv'
<1> SUFFICES ASSUME ACInv, [ACNext]_acvars PROVE ACInv'
  BY Zenon
<1> USE DEF ACInv
<1>1. ASSUME NEW S, S \subseteq DOMAIN map
      PROVE  /\ Shaped(Restrict(map, S)) /\ Budgeted(Restrict(map, S))
             /\ DOMAIN Restrict(map, S) = S /\ \A k \in S : Restrict(map, S)[k] = map[k]
  BY <1>1, FS_Subset, Zenon DEF Shaped, Budgeted, Restrict
<1>2. Shaped(Empty) /\ Budgeted(Empty) /\ DOMAIN Empty = {}
  BY FS_EmptySet, Zenon DEF Shaped, Budgeted, Empty
<1>3. ASSUME NEW k \in Key, Get(k) PROVE ACInv'
  BY <1>1, <1>3 DEF Get, OnFile
<1>4. ASSUME NEW k \in Key, NEW ttl \in Ttls, PutAnswer(k, ttl) PROVE ACInv'
  <2> DEFINE m == Pruned(k)
             e == [left |-> Lifetime(ttl) * TicksPerSec, life |-> Lifetime(ttl),
                   age |-> 0, filed |-> FALSE, killed |-> 0]
  <2>1. /\ Shaped(m) /\ Budgeted(m) /\ DOMAIN m \subseteq DOMAIN map
        /\ \A j \in DOMAIN m : m[j] = map[j]
    BY <1>1, <1>2, Zenon DEF Pruned, Fresh
  <2>2. Lifetime(ttl) \in Nat /\ Lifetime(ttl) * TicksPerSec \in Nat
    BY CacheAssumption DEF Lifetime, Clamp
  <2>3. /\ map' = [j \in DOMAIN m \cup {k} |-> IF j = k THEN e ELSE m[j]]
        /\ snapshot' = snapshot /\ running' = running
    BY <1>4, Zenon DEF PutAnswer
  <2>4. Sound(e) /\ e.left + e.age <= Budget(e) /\ ~e.filed
    <3>1. e \in Raw
      BY <2>2 DEF Raw
    <3>2. Budget(e) = Lifetime(ttl) * TicksPerSec
      BY <2>2 DEF Budget
    <3> QED
      BY <2>2, <3>1, <3>2 DEF Sound
  <2> HIDE DEF m, e
  <2>5. IsFiniteSet(DOMAIN m \cup {k})
    BY <2>1, FS_AddElement, Zenon DEF Shaped
  <2>6. Shaped(map')
    BY <2>1, <2>3, <2>4, <2>5, Zenon DEF Shaped
  <2>7. Budgeted(map')
    BY <2>1, <2>3, <2>4, Zenon DEF Budgeted
  <2>8. OnFile'
    BY <2>1, <2>3, <2>4, Zenon DEF OnFile
  <2> QED
    BY <2>3, <2>6, <2>7, <2>8, Zenon
<1>5. CASE Tick
  <2>1. /\ map' = [k \in DOMAIN map |->
                     IF map[k].left = 0 THEN map[k]
                     ELSE [map[k] EXCEPT !.left = @ - 1, !.age = @ + 1]]
        /\ snapshot'.map = Aged(snapshot.map) /\ running /\ running'
    BY <1>5, Zenon DEF Tick
  <2>2. ASSUME NEW k \in DOMAIN map
        PROVE  /\ Sound(map'[k]) /\ map'[k].left + map'[k].age <= Budget(map'[k])
               /\ map'[k].filed = map[k].filed /\ map'[k].life = map[k].life
               /\ map'[k].killed = map[k].killed
    <3>1. Sound(map[k]) /\ map[k].left + map[k].age <= Budget(map[k])
      BY Zenon DEF Shaped, Budgeted
    <3>2. CASE map[k].left = 0
      BY <2>1, <3>1, <3>2, Zenon
    <3>3. CASE map[k].left # 0
      <4> DEFINE f == [left |-> map[k].left - 1, life |-> map[k].life,
                       age |-> map[k].age + 1, filed |-> map[k].filed,
                       killed |-> map[k].killed]
      <4>1. map'[k] = [map[k] EXCEPT !.left = @ - 1, !.age = @ + 1]
        BY <2>1, <3>3, Zenon
      <4>2. map'[k] = f /\ Sound(map'[k]) /\ map'[k].left + map'[k].age <= Budget(map'[k])
        BY <3>1, <3>3, <4>1, TickedEntry, Zenon
      <4>3. f.filed = map[k].filed /\ f.life = map[k].life /\ f.killed = map[k].killed
        BY Zenon
      <4> QED
        BY <4>2, <4>3, Zenon
    <3> QED
      BY <3>2, <3>3, Zenon
  <2>3. ASSUME NEW k \in DOMAIN snapshot.map
        PROVE  /\ Sound(Aged(snapshot.map)[k])
               /\ Aged(snapshot.map)[k].life = snapshot.map[k].life
               /\ Aged(snapshot.map)[k].killed = snapshot.map[k].killed
    <3>1. Sound(snapshot.map[k])
      BY Zenon DEF Shaped
    <3>2. CASE ~(k \in Fresh(map) /\ map[k].filed)
      BY <3>1, <3>2, Zenon DEF Aged
    <3>3. CASE k \in Fresh(map) /\ map[k].filed
      <4> DEFINE a == map[k].age + 1
                 e == snapshot.map[k]
                 f == [left |-> e.left, life |-> e.life, age |-> a, filed |-> e.filed,
                       killed |-> e.killed]
      <4>1. k \in DOMAIN map /\ map[k].left # 0
        <5>1. k \in DOMAIN map /\ map[k].left > 0
          BY <3>3, Zenon DEF Fresh
        <5> QED
          BY <5>1
      <4>2. a \in Nat /\ a <= Budget(map[k])
        BY <4>1, TickedEntry, Zenon DEF Shaped, Budgeted
      <4>3. Budget(map[k]) = Budget(e)
        BY <3>3, <4>1, Zenon DEF OnFile, Budget
      <4>4. Aged(snapshot.map)[k] = [e EXCEPT !.age = a]
        BY <3>3, Zenon DEF Aged
      <4> HIDE DEF a
      <4>5. [e EXCEPT !.age = a] = f
        BY <3>1 DEF Sound, Raw
      <4>6. f.life = e.life /\ f.killed = e.killed /\ f.left = e.left /\ f.age = a
        BY Zenon
      <4>7. f \in Raw
        BY <3>1, <4>2, Zenon DEF Sound, Raw
      <4> HIDE DEF e
      <4>8. Budget(f) = Budget(e)
        BY <4>6, Zenon DEF Budget
      <4>9. Sound(f)
        BY <3>1, <4>2, <4>3, <4>6, <4>7, <4>8, Zenon DEF Sound, e
      <4> QED
        BY <4>4, <4>5, <4>6, <4>9, Zenon DEF e
    <3> QED
      BY <3>2, <3>3, Zenon
  <2>4. Shaped(map') /\ Budgeted(map') /\ DOMAIN map' = DOMAIN map
    BY <2>1, <2>2, Zenon DEF Shaped, Budgeted
  <2>5. Shaped(snapshot'.map) /\ DOMAIN snapshot'.map = DOMAIN snapshot.map
    BY <2>1, <2>3, Zenon DEF Shaped, Aged
  <2>6. OnFile'
    <3> SUFFICES ASSUME NEW k \in DOMAIN map', map'[k].filed
                 PROVE  /\ k \in DOMAIN snapshot'.map
                        /\ snapshot'.map[k].life = map'[k].life
                        /\ snapshot'.map[k].killed = map'[k].killed
      BY Zenon DEF OnFile
    <3>1. /\ k \in DOMAIN map /\ map[k].filed
          /\ map'[k].life = map[k].life /\ map'[k].killed = map[k].killed
      BY <2>2, <2>4, Zenon
    <3>2. /\ k \in DOMAIN snapshot.map
          /\ snapshot.map[k].life = map[k].life /\ snapshot.map[k].killed = map[k].killed
      BY <3>1, Zenon DEF OnFile
    <3> QED
      BY <2>1, <2>3, <2>5, <3>1, <3>2, Zenon
  <2> QED
    BY <2>1, <2>4, <2>5, <2>6, Zenon
<1>6. CASE Save
  <2> DEFINE D == {j \in DOMAIN map : map[j].left >= TicksPerSec}
  <2>1. /\ Saved = [k \in D |-> [map[k] EXCEPT !.left = (@ \div TicksPerSec) * TicksPerSec,
                                               !.filed = TRUE]]
        /\ DOMAIN Saved = D
    BY Zenon DEF Saved
  <2>2. ASSUME NEW k \in D
        PROVE  Sound(Saved[k]) /\ Saved[k].left + Saved[k].age <= Budget(Saved[k])
    BY <2>1, SavedEntry, Zenon DEF Shaped, Budgeted
  <2>3. Shaped(Saved) /\ Budgeted(Saved)
    BY <2>1, <2>2, FS_Subset, Zenon DEF Shaped, Budgeted
  <2>4. snapshot'.map = Saved /\ map' = Empty
    BY <1>6, Zenon DEF Save
  <2> QED
    BY <1>2, <2>3, <2>4, Zenon DEF OnFile
<1>7. ASSUME NEW torn \in BOOLEAN, CrashUnsaved(torn) PROVE ACInv'
  <2>1. map' = Empty
    BY <1>7, Zenon DEF CrashUnsaved
  <2>2. Shaped(snapshot'.map) /\ Budgeted(snapshot'.map)
    <3> DEFINE M == snapshot.map
               K == [k \in DOMAIN M |-> [M[k] EXCEPT !.killed = @ + 1]]
    <3>1. CASE torn
      BY <1>2, <1>7, <3>1, Zenon DEF CrashUnsaved
    <3>2. CASE ~torn
      <4>1. snapshot'.map = K
        BY <1>7, <3>2, Zenon DEF CrashUnsaved
      <4>2. \A k \in DOMAIN M : Sound(K[k]) /\ K[k].left + K[k].age <= Budget(K[k])
        BY KilledEntry, Zenon DEF Shaped
      <4> QED
        BY <4>1, <4>2, Zenon DEF Shaped, Budgeted
    <3> QED
      BY <3>1, <3>2, Zenon
  <2> QED
    BY <1>2, <2>1, <2>2, Zenon DEF OnFile
<1>8. CASE Load
  BY <1>2, <1>8, Zenon DEF Load, OnFile
<1>9. CASE UNCHANGED acvars
  BY <1>9, Zenon DEF acvars, OnFile
<1> QED
  BY <1>3, <1>4, <1>5, <1>6, <1>7, <1>8, <1>9, Zenon DEF ACNext

\* An empty cache and no file.
LEMMA ACInitInv == ACInit => ACInv
BY FS_EmptySet DEF ACInit, ACInv, Shaped, Budgeted, OnFile, Empty

\* However often an answer goes through the snapshot file, the time it has left and
\* the time it has been served stay within the lifetime put granted it, and that once
\* more for every run killed while it was on file.
THEOREM LifetimesAreKept == ACSpec => []LifetimeIsKept
<1>1. ACInv => LifetimeIsKept
  BY Zenon DEF ACInv, Budgeted, Budget, LifetimeIsKept
<1> QED
  BY <1>1, ACInitInv, ACInvInductive, PTL DEF ACSpec

\* While a resolver runs, get, put and time lose no unexpired answer unless the cache
\* is full of them.
THEOREM FreshAnswersAreKept == ACSpec => FreshAnswersStay
<1> DEFINE Stays == (running /\ running') =>
             \/ Fresh(map) \subseteq DOMAIN map'
             \/ Cardinality(Fresh(map)) >= MAX_ENTRIES
<1>1. ACInv /\ [ACNext]_acvars => [Stays]_acvars
  <2> SUFFICES ASSUME ACInv, ACNext, running, running' PROVE Stays
    BY Zenon
  <2>1. ASSUME NEW k \in Key, Get(k) PROVE Stays
    BY <2>1 DEF Get, Fresh, Restrict
  <2>2. ASSUME NEW k \in Key, NEW ttl \in Ttls, PutAnswer(k, ttl) PROVE Stays
    <3>1. DOMAIN map' = DOMAIN Pruned(k) \cup {k}
      BY <2>2, Zenon DEF PutAnswer
    <3>2. CASE Pruned(k) = map \/ Pruned(k) = Restrict(map, Fresh(map))
      BY <3>1, <3>2, Zenon DEF Fresh, Restrict
    <3>3. CASE ~(Cardinality(Fresh(map)) < MAX_ENTRIES)
      <4>1. Fresh(map) \subseteq DOMAIN map /\ IsFiniteSet(DOMAIN map)
        BY Zenon DEF Fresh, ACInv, Shaped
      <4>2. Cardinality(Fresh(map)) \in Nat
        BY <4>1, FS_Subset, FS_CardinalityType, Zenon
      <4> QED
        BY <3>3, <4>2, CacheAssumption
    <3> QED
      BY <3>2, <3>3, Zenon DEF Pruned
  <2>3. CASE Tick
    BY <2>3, Zenon DEF Tick, Fresh
  <2>4. ~Save /\ ~Load /\ \A torn \in BOOLEAN : ~CrashUnsaved(torn)
    BY Zenon DEF Save, Load, CrashUnsaved
  <2> QED
    BY <2>1, <2>2, <2>3, <2>4, Zenon DEF ACNext
<1> QED
  BY <1>1, ACInitInv, ACInvInductive, PTL DEF ACSpec, FreshAnswersStay

\* Leaving entries out keeps a map typed and within its size.
LEMMA SmallerFits ==
    ASSUME NEW m, Partial(m), IsFiniteSet(DOMAIN m), Cardinality(DOMAIN m) <= MAX_ENTRIES,
           NEW S, S \subseteq DOMAIN m
    PROVE  /\ Partial(Restrict(m, S)) /\ DOMAIN Restrict(m, S) = S
           /\ IsFiniteSet(S) /\ Cardinality(S) \in Nat /\ Cardinality(S) <= MAX_ENTRIES
<1>1. IsFiniteSet(S) /\ Cardinality(S) <= Cardinality(DOMAIN m)
  BY FS_Subset, Zenon
<1>2. Cardinality(S) \in Nat /\ Cardinality(DOMAIN m) \in Nat
  BY <1>1, FS_CardinalityType, Zenon
<1> QED
  BY <1>1, <1>2, CacheAssumption DEF Partial, Restrict

\* The empty cache fits.
LEMMA EmptyFits == Partial(Empty) /\ Cardinality(DOMAIN Empty) = 0
  BY FS_EmptySet, Zenon DEF Partial, Empty

\* Only put adds an entry, and it makes room first.
LEMMA PutFits ==
    ASSUME ACInv, ACTypeOK, NEW k \in Key, NEW ttl \in Ttls, PutAnswer(k, ttl)
    PROVE  Partial(map') /\ Cardinality(DOMAIN map') <= MAX_ENTRIES
<1> DEFINE m == Pruned(k)
           e == [left |-> Lifetime(ttl) * TicksPerSec, life |-> Lifetime(ttl),
                 age |-> 0, filed |-> FALSE, killed |-> 0]
<1>1. IsFiniteSet(DOMAIN map) /\ Cardinality(DOMAIN map) \in Nat
  BY FS_CardinalityType, Zenon DEF ACInv, Shaped
<1>2. Fresh(map) \subseteq DOMAIN map
  BY Zenon DEF Fresh
<1>3. /\ Partial(m) /\ IsFiniteSet(DOMAIN m) /\ Cardinality(DOMAIN m) \in Nat
      /\ Cardinality(DOMAIN m) < MAX_ENTRIES \/ (k \in DOMAIN m /\ Cardinality(DOMAIN m) <= MAX_ENTRIES)
  <2>1. CASE m = map /\ (Cardinality(DOMAIN map) < MAX_ENTRIES \/ k \in DOMAIN map)
    BY <1>1, <2>1, Zenon DEF ACTypeOK
  <2>2. CASE m = Restrict(map, Fresh(map)) /\ Cardinality(Fresh(map)) < MAX_ENTRIES
    BY <1>1, <1>2, <2>2, SmallerFits, Zenon DEF ACTypeOK
  <2>3. CASE m = Empty
    BY <2>3, EmptyFits, FS_EmptySet, CacheAssumption DEF Empty
  <2> QED
    BY <2>1, <2>2, <2>3, Zenon DEF Pruned
<1>4. Lifetime(ttl) \in MIN_TTL..MAX_TTL /\ Lifetime(ttl) * TicksPerSec \in Nat
  BY CacheAssumption DEF Lifetime, Clamp
<1>5. e \in Entry
  BY <1>4 DEF Entry
<1>6. map' = [j \in DOMAIN m \cup {k} |-> IF j = k THEN e ELSE m[j]]
  BY Zenon DEF PutAnswer
<1> HIDE DEF m, e
<1>7. Partial(map') /\ DOMAIN map' = DOMAIN m \cup {k}
  BY <1>3, <1>5, <1>6, Zenon DEF Partial
<1>8. Cardinality(DOMAIN m \cup {k}) <= MAX_ENTRIES
  <2>1. Cardinality(DOMAIN m \cup {k}) =
          IF k \in DOMAIN m THEN Cardinality(DOMAIN m) ELSE Cardinality(DOMAIN m) + 1
    BY <1>3, FS_AddElement, Zenon
  <2> QED
    BY <1>3, <2>1, CacheAssumption
<1> QED
  BY <1>7, <1>8, Zenon

\* Neither the cache nor its file ever holds more than MAX_ENTRIES answers, whatever
\* was put, pruned, saved or loaded.
THEOREM CacheIsBounded == ACSpec => []ACTypeOK
<1>1. ACInit => ACTypeOK
  <2> SUFFICES ASSUME ACInit PROVE ACTypeOK
    BY Zenon
  <2>1. map = Empty /\ snapshot.map = Empty /\ running = FALSE
    BY Zenon DEF ACInit
  <2>2. 0 <= MAX_ENTRIES
    BY CacheAssumption
  <2> QED
    BY <2>1, <2>2, EmptyFits, Zenon DEF ACTypeOK
<1>2. ACInv /\ ACTypeOK /\ [ACNext]_acvars => ACTypeOK'
  <2> SUFFICES ASSUME ACInv, ACTypeOK, [ACNext]_acvars PROVE ACTypeOK'
    BY Zenon
  <2>1. IsFiniteSet(DOMAIN map) /\ 0 <= MAX_ENTRIES
    BY CacheAssumption DEF ACInv, Shaped
  <2>2. ASSUME NEW k \in Key, Get(k) PROVE ACTypeOK'
    BY <2>1, <2>2, SmallerFits, Zenon DEF Get, ACTypeOK
  <2>3. ASSUME NEW k \in Key, NEW ttl \in Ttls, PutAnswer(k, ttl) PROVE ACTypeOK'
    BY <2>3, PutFits, Zenon DEF PutAnswer, ACTypeOK
  <2>4. CASE Tick
    <3>1. /\ map' = [k \in DOMAIN map |->
                       IF map[k].left = 0 THEN map[k]
                       ELSE [map[k] EXCEPT !.left = @ - 1, !.age = @ + 1]]
          /\ snapshot'.map = Aged(snapshot.map) /\ running' = running
      BY <2>4, Zenon DEF Tick
    <3>2. ASSUME NEW k \in DOMAIN map, map[k].left # 0 PROVE map'[k] \in Entry
      <4>1. Sound(map[k]) /\ map[k].left + map[k].age <= Budget(map[k])
        BY Zenon DEF ACInv, Shaped, Budgeted
      <4>2. /\ map'[k] = [left |-> map[k].left - 1, life |-> map[k].life,
                          age |-> map[k].age + 1, filed |-> map[k].filed,
                          killed |-> map[k].killed]
            /\ Sound(map'[k])
        BY <3>1, <3>2, <4>1, TickedEntry, Zenon
      <4>3. map'[k].life \in MIN_TTL..MAX_TTL
        BY <4>2 DEF ACTypeOK, Partial, Entry
      <4> QED
        BY <4>2, <4>3, Zenon DEF Sound, Raw, Entry
    <3>3. Partial(map') /\ DOMAIN map' = DOMAIN map
      BY <3>1, <3>2, Zenon DEF ACTypeOK, Partial
    <3>4. ASSUME NEW k \in DOMAIN snapshot.map PROVE Aged(snapshot.map)[k] \in Entry
      <4>1. snapshot.map[k] \in Entry
        BY Zenon DEF ACTypeOK, Partial
      <4>2. CASE k \in Fresh(map)
        <5>1. map[k] \in Raw
          BY <4>2, Zenon DEF Fresh, ACInv, Shaped, Sound
        <5>2. map[k].age + 1 \in Nat
          BY <5>1 DEF Raw
        <5> QED
          BY <4>1, <5>2, Zenon DEF Aged, Entry
      <4> QED
        BY <4>1, <4>2, Zenon DEF Aged
    <3>5. Partial(snapshot'.map) /\ DOMAIN snapshot'.map = DOMAIN snapshot.map
      BY <3>1, <3>4, Zenon DEF ACTypeOK, Partial, Aged
    <3> QED
      BY <3>1, <3>3, <3>5, Zenon DEF ACTypeOK
  <2>5. CASE Save
    <3> DEFINE D == {j \in DOMAIN map : map[j].left >= TicksPerSec}
    <3>1. /\ D \subseteq DOMAIN map /\ DOMAIN Saved = D
          /\ \A k \in D : Saved[k] = [map[k] EXCEPT !.left = (@ \div TicksPerSec) * TicksPerSec,
                                                    !.filed = TRUE]
      BY Zenon DEF Saved
    <3>2. \A k \in D : Saved[k] \in Entry
      <4> SUFFICES ASSUME NEW k \in D PROVE Saved[k] \in Entry
        BY Zenon
      <4>1. map[k] \in Entry
        BY Zenon DEF ACTypeOK, Partial
      <4>2. (map[k].left \div TicksPerSec) * TicksPerSec \in Nat
        BY <4>1, RoundsDown, CacheAssumption, Zenon DEF Entry
      <4> QED
        BY <3>1, <4>1, <4>2, Zenon DEF Entry
    <3> HIDE DEF D
    <3>3. Partial(Saved) /\ Cardinality(DOMAIN Saved) <= MAX_ENTRIES
      BY <2>1, <3>1, <3>2, SmallerFits, Zenon DEF ACTypeOK, Partial
    <3> QED
      BY <2>1, <2>5, <3>3, EmptyFits, Zenon DEF Save, ACTypeOK
  <2>6. ASSUME NEW torn \in BOOLEAN, CrashUnsaved(torn) PROVE ACTypeOK'
    <3> DEFINE M == snapshot.map
               K == [k \in DOMAIN M |-> [M[k] EXCEPT !.killed = @ + 1]]
    <3>1. CASE torn
      BY <2>1, <2>6, <3>1, EmptyFits, Zenon DEF CrashUnsaved, ACTypeOK
    <3>2. CASE ~torn
      <4>1. snapshot'.map = K /\ map' = Empty /\ running' = FALSE
        BY <2>6, <3>2, Zenon DEF CrashUnsaved
      <4>2. ASSUME NEW k \in DOMAIN M PROVE K[k] \in Entry
        <5>1. M[k] \in Entry
          BY Zenon DEF ACTypeOK, Partial
        <5>2. M[k].killed + 1 \in Nat
          BY <5>1 DEF Entry
        <5> QED
          BY <5>1, <5>2, Zenon DEF Entry
      <4>3. Partial(K) /\ DOMAIN K = DOMAIN M
        BY <4>2, Zenon DEF ACTypeOK, Partial
      <4> QED
        BY <2>1, <4>1, <4>3, EmptyFits, Zenon DEF ACTypeOK
    <3> QED
      BY <3>1, <3>2, Zenon
  <2>7. CASE Load
    BY <2>1, <2>7, EmptyFits, Zenon DEF Load, ACTypeOK
  <2>8. CASE UNCHANGED acvars
    BY <2>8, Zenon DEF acvars, ACTypeOK
  <2> QED
    BY <2>2, <2>3, <2>4, <2>5, <2>6, <2>7, <2>8, Zenon DEF ACNext
<1> QED
  BY <1>1, <1>2, ACInitInv, ACInvInductive, PTL DEF ACSpec

-----------------------------------------------------------------------------
(* DnsJournal.                                                             *)

NoSilentLoss == held # None /\ journal = None => lost

JInv == JTypeOK /\ OriginalIsOnRecord /\ NoSilentLoss

\* What is cleaned is a setting other than the proxy's address.
LEMMA CleanIsASetting ==
  ASSUME NEW v \in Setting
  PROVE  Clean(v) \in Setting /\ Clean(v) # Proxy
BY JournalAssumption, Zenon DEF Clean, Setting

\* Every step of a run, of a healing and of the environment keeps the invariant.
LEMMA JInvInductive == JInv /\ [JNext]_jvars => JInv'
<1> SUFFICES ASSUME JInv, [JNext]_jvars PROVE JInv'
  BY Zenon
<1> USE JournalAssumption
    DEF JInv, JTypeOK, OriginalIsOnRecord, NoSilentLoss, Readable, Fault, Ends, Goto,
        host, record, step, ghosts, bounds
<1>1. CASE RunStarts
  BY <1>1, Zenon DEF RunStarts
<1>2. CASE SelfHealBegins
  BY <1>2, Zenon DEF SelfHealBegins, Halfway, Setting
<1>3. CASE SelfHealDone
  BY <1>3, CleanIsASetting, Zenon DEF SelfHealDone
<1>4. CASE SelfHealFails
  BY <1>4 DEF SelfHealFails
<1>5. CASE Snapshot
  <2>1. /\ at = "snapshot" /\ who = "run" /\ journal = None
        /\ held' = Clean(resolver) /\ Clean(resolver) \in Setting
        /\ owed' = IF resolver = Proxy THEN owed ELSE resolver
        /\ UNCHANGED <<host, resolver, who>> /\ at' = "engage"
    BY <1>5, CleanIsASetting, Zenon DEF Snapshot
  <2>2. owed = None \/ lost
    BY <2>1, Zenon
  <2>3. CASE journal' = Clean(resolver) /\ UNCHANGED <<lost, bounds>>
    <3>1. JTypeOK'
      BY <2>1, <2>3, Zenon
    <3>2. OriginalIsOnRecord' /\ NoSilentLoss'
      BY <2>1, <2>2, <2>3, Zenon DEF Clean, Setting
    <3> QED
      BY <3>1, <3>2, Zenon
  <2>4. CASE Fault /\ lost' = TRUE /\ UNCHANGED journal
    BY <2>1, <2>4
  <2> QED
    BY <1>5, <2>3, <2>4, Zenon DEF Snapshot
<1>6. CASE SnapshotFails
  BY <1>6 DEF SnapshotFails
<1>7. CASE EngageBegins
  BY <1>7 DEF EngageBegins, Setting
<1>8. CASE Engage
  BY <1>8 DEF Engage, Setting
<1>9. CASE EngageFails
  BY <1>9 DEF EngageFails
<1>10. CASE DropBegins
  BY <1>10, Zenon DEF DropBegins
<1>11. CASE RestoreBegins
  BY <1>11 DEF RestoreBegins, Halfway, Setting
<1>12. CASE RestoreDone
  <2>1. Clean(Target) \in Setting
    BY <1>12, CleanIsASetting, Zenon DEF RestoreDone, Target, Setting
  <2> QED
    BY <1>12, <2>1 DEF RestoreDone
<1>13. CASE RestoreFails
  BY <1>13 DEF RestoreFails
<1>14. ASSUME NEW launch \in BOOLEAN, HealStarts(launch) PROVE JInv'
  BY <1>14 DEF HealStarts, AskedAtLaunch, AskedByWatcher, HealProxyDns, Clean, Setting
<1>15. CASE Crash
  BY <1>15 DEF Crash
<1>16. CASE JournalDamaged
  BY <1>16 DEF JournalDamaged
<1>17. CASE UserChanges
  BY <1>17 DEF UserChanges, Setting
<1>18. CASE UNCHANGED jvars
  BY <1>18, Zenon DEF jvars
<1>19. CASE AppChanges
  BY <1>19, Zenon DEF AppChanges
<1> QED
  BY <1>1, <1>2, <1>3, <1>4, <1>5, <1>6, <1>7, <1>8, <1>9, <1>10, <1>11, <1>12, <1>13, <1>14,
     <1>15, <1>16, <1>17, <1>18, <1>19, Zenon DEF JNext, Restores

\* A process starts from a resolver without a debt of its own making.
LEMMA JInitInv == JInit => JInv
<1> SUFFICES ASSUME JInit PROVE JInv
  BY Zenon
<1>1. OriginalIsOnRecord /\ NoSilentLoss
  BY Zenon DEF JInit, OriginalIsOnRecord, NoSilentLoss
<1>2. resolver \in Setting /\ journal \in Setting \cup {None, Corrupt}
  BY Zenon DEF JInit, Setting
<1>3. /\ faults \in 0 .. MaxFaults /\ crashes \in 0 .. MaxCrashes
      /\ edits \in 0 .. MaxEdits
  BY JournalAssumption DEF JInit
<1>4. JTypeOK
  BY <1>2, <1>3, Zenon DEF JInit, JTypeOK
<1> QED
  BY <1>1, <1>4, Zenon DEF JInv

\* From the snapshot until it is back, what the takeover replaced is on disk, unless
\* a fault cost the record.
THEOREM JournalSafety == JSpec => [](JTypeOK /\ OriginalIsOnRecord)
<1>1. JInv => JTypeOK /\ OriginalIsOnRecord
  BY Zenon DEF JInv
<1> QED
  BY <1>1, JInitInv, JInvInductive, PTL DEF JSpec

-----------------------------------------------------------------------------
(* The takeover implements the promise.                                    *)

\* Every step is one of the promise's or leaves what it speaks of alone.
LEMMA StepKeepsPromise == JInv /\ [JNext]_jvars => [Promise!PNext]_(Promise!pvars)
<1> SUFFICES ASSUME JInv, [JNext]_jvars PROVE [Promise!PNext]_(Promise!pvars)
  BY Zenon
<1> USE JournalAssumption
    DEF JInv, JTypeOK, NoSilentLoss, Readable, Fault, Ends, Goto, record, step, ghosts,
        bounds, Promise!PNext, Promise!pvars
<1>1. CASE RunStarts
  BY <1>1, Zenon DEF RunStarts
<1>2. CASE SelfHealBegins
  BY <1>2, Zenon DEF SelfHealBegins, Halfway, Promise!Touch, Setting
<1>3. CASE SelfHealDone
  BY <1>3, Zenon DEF SelfHealDone, Clean, Promise!Repay, Promise!Due, Setting
<1>4. CASE SelfHealFails
  BY <1>4, Zenon DEF SelfHealFails, Promise!Default
<1>5. CASE Snapshot
  BY <1>5, Zenon DEF Snapshot, Clean, Promise!Borrow, Promise!Volatile, Promise!Due, Setting
<1>6. CASE SnapshotFails
  BY <1>6, Zenon DEF SnapshotFails
<1>7. CASE EngageBegins
  BY <1>7, Zenon DEF EngageBegins, Promise!Touch
<1>8. CASE Engage
  BY <1>8, Zenon DEF Engage, Promise!Touch
<1>9. CASE EngageFails
  BY <1>9, Zenon DEF EngageFails, Promise!Default
<1>10. CASE DropBegins
  BY <1>10, Zenon DEF DropBegins
<1>11. CASE RestoreBegins
  BY <1>11, Zenon DEF RestoreBegins, Halfway, Promise!Touch
<1>12. CASE RestoreDone
  BY <1>12, Zenon DEF RestoreDone, Target, Clean, Promise!Repay, Promise!Due, Setting
<1>13. CASE RestoreFails
  BY <1>13, Zenon DEF RestoreFails, Promise!Default
<1>14. ASSUME NEW launch \in BOOLEAN, HealStarts(launch)
       PROVE  [Promise!PNext]_(Promise!pvars)
  BY <1>14, Zenon DEF HealStarts, AskedAtLaunch, AskedByWatcher, HealProxyDns, Clean, Promise!Reset
<1>15. CASE Crash
  BY <1>15, Zenon DEF Crash, Promise!Default
<1>16. CASE JournalDamaged
  BY <1>16, Zenon DEF JournalDamaged, Promise!Default
<1>17. CASE UserChanges
  BY <1>17, Zenon DEF UserChanges, Promise!UserSets
<1>18. CASE UNCHANGED jvars
  BY <1>18, Zenon DEF jvars
<1>19. CASE AppChanges
  BY <1>19, Zenon DEF AppChanges
<1> QED
  BY <1>1, <1>2, <1>3, <1>4, <1>5, <1>6, <1>7, <1>8, <1>9, <1>10, <1>11, <1>12, <1>13, <1>14,
     <1>15, <1>16, <1>17, <1>18, <1>19, Zenon DEF JNext, Restores

\* The resolver is touched only while what was there is on record, and the record is
\* closed only by putting it back or by a fault that is noticed.
THEOREM PromiseIsKept == JSpec => PromiseKept
<1>1. JInit => Promise!PInit
  BY JournalAssumption, Zenon DEF JInit, Promise!PInit, Promise!Setting, Readable
<1> QED
  BY <1>1, JInitInv, JInvInductive, StepKeepsPromise, PTL DEF JSpec, PromiseKept, Promise!PSpec
=============================================================================
