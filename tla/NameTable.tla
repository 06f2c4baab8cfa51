----------------------------- MODULE NameTable ------------------------------
(***************************************************************************)
(* The server's Magic DNS table (src/magic.rs, NameTable): which hostname  *)
(* each client endpoint has been granted.                                  *)
(*                                                                         *)
(* Labels are opaque.  What sanitising, the collision suffix and truncation*)
(* to 32 bytes do to them is given by Candidates: the labels unique_name   *)
(* tries, in order, once the wanted one is taken.  Different wanted labels *)
(* may share candidates, and a candidate may be wanted outright.           *)
(***************************************************************************)
EXTENDS Integers, Sequences, FiniteSets, Endpoints

CONSTANTS
  TunIp,         \* tunnel addresses
  Tag,          \* collision suffixes: of a node id, or of the last IPv4 octet
  Label,        \* sanitized host names
  Candidates,   \* the labels tried for <<wanted, tag>>: -tag, -tag-2, ...
  ServerName,   \* the permanent row of the server itself
  NameTTL,      \* lease_ttl, in clock ticks
  MaxPeers      \* MAX_PEERS: entries of one PeerPush

VARIABLES
  names         \* [by_peer, by_name]

nvars == <<names, clock>>

Row == [requested : Label, granted : Label, ip4 : TunIp, last_seen : Int]

Names == [by_peer : [Peer -> Row \cup {None}],
          by_name : [Label -> Peer \cup {None}]]

ASSUME NameAssumption ==
  /\ Candidates \in [Label \X Tag -> Seq(Label)]
  /\ \A x \in Label \X Tag : Len(Candidates[x]) > 0
  /\ ServerName \in Label
  /\ NameTTL \in Nat /\ MaxPeers \in Nat \ {0}
  /\ None \notin Peer /\ None \notin Row

NoNames == [by_peer |-> [p \in Peer |-> None], by_name |-> [l \in Label |-> None]]

NameTaken(T, l) == l = ServerName \/ T.by_name[l] # None

\* The wanted label, else the first candidate that is not taken.  When all of
\* them are, the first candidate is granted although somebody has it.
UniqueName(T, wanted, tag) ==
  LET cand == Candidates[wanted, tag]
      free == {i \in 1 .. Len(cand) : ~NameTaken(T, cand[i])} IN
  IF ~NameTaken(T, wanted) THEN wanted
  ELSE IF free = {} THEN cand[1]
  ELSE cand[CHOOSE i \in free : \A j \in free : i <= j]

\* withdraw, and what expire does, for all the endpoints of D.
WithdrawAll(T, D) ==
  [by_peer |-> [p \in Peer |-> IF p \in D THEN None ELSE T.by_peer[p]],
   by_name |-> [l \in Label |->
                  IF \E p \in D : /\ T.by_name[l] = p
                                  /\ T.by_peer[p] # None
                                  /\ T.by_peer[p].granted = l
                  THEN None ELSE T.by_name[l]]]

\* A wrong variant: does not free the label granted before.
Grant_KeepsOld(T, p, wanted, ip4, tag, t) ==
  LET granted == UniqueName(T, wanted, tag) IN
  [by_peer |-> [T.by_peer EXCEPT ![p] =
                  [requested |-> wanted, granted |-> granted,
                   ip4 |-> ip4, last_seen |-> t]],
   by_name |-> [T.by_name EXCEPT ![granted] = p]]

\* A new name: the previous one is freed first.
Grant(T, p, wanted, ip4, tag, t) ==
  LET S == WithdrawAll(T, {p})
      granted == UniqueName(S, wanted, tag) IN
  [by_peer |-> [S.by_peer EXCEPT ![p] =
                  [requested |-> wanted, granted |-> granted,
                   ip4 |-> ip4, last_seen |-> t]],
   by_name |-> [S.by_name EXCEPT ![granted] = p]]

\* A wrong variant: every advert is a new one.
AdvertiseName_Regrants(T, p, wanted, ip4, tag, t) ==
  Grant(T, p, wanted, ip4, tag, t)

\* A repeated advert only refreshes the row.
AdvertiseName(T, p, wanted, ip4, tag, t) ==
  IF T.by_peer[p] # None /\ T.by_peer[p].requested = wanted
  THEN [T EXCEPT !.by_peer[p].ip4 = ip4, !.by_peer[p].last_seen = t]
  ELSE Grant(T, p, wanted, ip4, tag, t)

IdleNames(T, t) ==
  {p \in Peer : T.by_peer[p] # None /\ t - T.by_peer[p].last_seen > NameTTL}

\* The endpoints whose rows `snapshot' may list after the server's own: all of
\* them, or as many as fit, in HashMap order.
Snapshots(T) ==
  LET rows == {p \in Peer : T.by_peer[p] # None} IN
  IF Cardinality(rows) < MaxPeers THEN {rows}
  ELSE {S \in SUBSET rows : Cardinality(S) = MaxPeers - 1}

-----------------------------------------------------------------------------
AdvertisesName(p, wanted, ip4, tag) ==
  /\ names' = AdvertiseName(names, p, wanted, ip4, tag, clock)
  /\ UNCHANGED clock

\* An advert of an empty name, or unlearn_dropped.
WithdrawsName(p) ==
  /\ names' = WithdrawAll(names, {p})
  /\ UNCHANGED clock

ExpiresNames ==
  /\ names' = WithdrawAll(names, IdleNames(names, clock))
  /\ UNCHANGED clock

NameClock ==
  /\ Tick
  /\ UNCHANGED names

NInit == names = NoNames /\ clock = 0

NNext ==
  \/ \E p \in Peer, wanted \in Label, ip4 \in TunIp, tag \in Tag :
       AdvertisesName(p, wanted, ip4, tag)
  \/ \E p \in Peer : WithdrawsName(p)
  \/ ExpiresNames
  \/ NameClock

NSpec == NInit /\ [][NNext]_nvars

-----------------------------------------------------------------------------
NTypeOK == names \in Names /\ clock \in Int

\* by_name is the inverse of by_peer: every granted label leads back to the one
\* endpoint that has it, so that withdrawing or expiring one client's row never
\* frees or strands another's label.  And no push lists a name twice, the server's
\* own included: the client's table is keyed by name, and the second entry would
\* hide the first.
NamesConsistent ==
  /\ NTypeOK
  /\ \A p \in Peer, l \in Label :
       names.by_name[l] = p <=> /\ names.by_peer[p] # None
                                /\ names.by_peer[p].granted = l
  /\ \A S \in Snapshots(names) :
       /\ Cardinality(S) < MaxPeers
       /\ \A p \in S : names.by_peer[p].granted # ServerName
       /\ \A p, q \in S : p # q => names.by_peer[p].granted # names.by_peer[q].granted

\* First come keeps a name: whatever others advertise, withdraw or let expire,
\* an endpoint that keeps asking for the same name keeps the label it was
\* granted until it has been idle for longer than the TTL or withdraws.
FirstComeKeeps ==
  [][\A p \in Peer :
       names.by_peer[p] # None /\ names'.by_peer[p] # None
         /\ names'.by_peer[p].requested = names.by_peer[p].requested
       => /\ names'.by_peer[p].granted = names.by_peer[p].granted
          /\ names'.by_name[names.by_peer[p].granted] = p]_nvars
=============================================================================
