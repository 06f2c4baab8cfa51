------------------------------ MODULE MCPolicy -------------------------------
(***************************************************************************)
(* The parts of the split-DNS policy side by side.  They share no state, so *)
(* a behaviour is a behaviour of one of them, `part', with the others at    *)
(* rest.                                                                    *)
(***************************************************************************)
EXTENDS Resolver, DnsJournal, AnswerCache, DnsWire

VARIABLE part

policy == <<rvars, jvars, acvars, wvars, part>>

Conf(mode, magic, list) == [mode |-> mode, magic |-> magic, list |-> list]
MCConfs == {Conf("full", TRUE, {}), Conf("gfwlist", FALSE, GfwList),
            Conf("chinadns", TRUE, GfwList), Conf("chinadns", TRUE, {})}

\* An earlier client without the list has left listed names direct.
Direct == [src |-> "local", ip |-> CHOOSE i \in China : TRUE, tunnel |-> FALSE, old |-> TRUE]
MCFiles == {[n \in Name |-> IF n \in GfwList THEN Direct ELSE None]}

Header == <<7, 8, 1, 0, 0, 1, 0, 0, 0, 0, 0, 0>>
Alphabet == {0, 1, 2, 12, 14, 64, 192}
Tails == UNION {[1..n -> Alphabet] : n \in 0..4}
Qnames == {<<0>>, <<1, 65, 0>>, <<1, 97, 2, 98, 99, 0>>, <<192, 2>>, <<1, 66, 192, 10>>}
Queries == {n \o <<0, t, 0, c>> : n \in Qnames, t \in {1, 28, 15}, c \in {1, 3}}
V4(b) == [i \in 1..4 |-> b]
V6(b) == [i \in 1..16 |-> b]
MCAnswers == {<<>>, <<V4(10)>>, <<V6(253)>>, <<V4(10), V6(253), V4(192)>>}
MCInputs == {Header \o t : t \in Tails \cup Queries}

-----------------------------------------------------------------------------
(* At rest: no query, nothing to restore, an empty cache, an empty message. *)

RestResolver == RInit0 /\ conf = Conf("full", TRUE, {})
RestJournal == JInit /\ os = "link" /\ resolver = Automatic
RestCache == ACInit
RestWire == WireInit /\ msg = Header

MCInit ==
    \/ part = "resolver" /\ RInit0 /\ RestJournal /\ RestCache /\ RestWire
    \/ part = "journal" /\ JInit /\ RestResolver /\ RestCache /\ RestWire
    \/ part = "cache" /\ ACInit /\ RestResolver /\ RestJournal /\ RestWire
    \/ part = "wire" /\ WireInit /\ RestResolver /\ RestJournal /\ RestCache

InResolver(A) == part = "resolver" /\ A /\ UNCHANGED <<jvars, acvars, wvars, part>>
InJournal(A) == part = "journal" /\ A /\ UNCHANGED <<rvars, acvars, wvars, part>>
InCache(A) == part = "cache" /\ A /\ UNCHANGED <<rvars, jvars, wvars, part>>
InWire(A) == part = "wire" /\ A /\ UNCHANGED <<rvars, jvars, acvars, part>>

\* Bounds.  In chinadns mode without a list the resolver is started again, a task has
\* one port for its local query and its clean one, only the deletion of one of China's
\* addresses fails, and one packet at a time outlives its socket.  In the other modes
\* there is one resolver; in gfwlist mode a task has one port for its clean queries and
\* no route request fails.
PortOf == CHOOSE f \in [Task -> Port] : \A t, u \in Task : t # u => f[t] # f[u]
Bounded ==
    CASE conf.mode = "chinadns" /\ conf.list = {} ->
            /\ failed' = failed \/ (phase = "deleting" /\ failed' \subseteq China)
            /\ Cardinality(strays') <= 1
            /\ \A t \in Task : {tasks'[t].lport, tasks'[t].rport} \subseteq {None, PortOf[t]}
      [] conf.mode = "gfwlist" ->
            /\ gen' <= 1 /\ failed' = failed
            /\ \A t \in Task : tasks'[t].rport \in {None, PortOf[t]}
      [] OTHER -> gen' <= 1

MCNext == InResolver(RNext0 /\ Bounded) \/ InJournal(JNext) \/ InCache(ACNext) \/ InWire(WireNext)

\* The fairness of each part's own specification.
MCFairness ==
    /\ \A t \in Task : WF_policy(InResolver(Progress(t)))
    /\ WF_policy(InJournal(HealStarts(FALSE))) /\ WF_policy(InJournal(Restores))

MCSpec == MCInit /\ [][MCNext]_policy /\ MCFairness
=============================================================================
