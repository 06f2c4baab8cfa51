# ShadowVPN in TLA+

A model of ShadowVPN: who holds which tunnel address and where a packet goes (the
server), how a client gets its address and keeps the system in step with it, how
the split-DNS policy decides, routes and cleans up, and how the desktop
application keeps a privileged client running. The modules are translated from
the Rust source; `PROJECT.json` gives, for every definition, the lines it stands
for.

## The system

ShadowVPN carries one raw IP packet per encrypted UDP datagram. A server process
owns a TUN device and a UDP socket; clients are known to it only by their UDP
endpoint, which a NAT may change at any time. A payload that starts with a zero
byte is a control message.

| Part | Source | State | Talks to | Modules |
|---|---|---|---|---|
| Address assignment | `src/assign.rs`, `src/state.rs` | leases by node id, indexes by IPv4, IPv6 and endpoint, lease file | server | `Assigner` |
| Learning-mode server | `src/bin/server.rs` | inner address to endpoint map, all tables behind one mutex | tables, TUN, socket | `LearnRouting` |
| Subnet routes (server) | `src/mesh.rs` | advertised networks with owner, approval and age | server | `SubnetTable` |
| Magic DNS names | `src/magic.rs` | granted names by endpoint and by label | server, assignment | `NameTable`, `Matching` |
| NAT mode | `src/nat.rs`, `src/pool.rs` | sessions, owners of internal addresses, leased pool with a cursor | server | `Nat`, `NatRewrite` |
| Address plan | `src/config.rs`, `src/pool.rs` | none | assignment | `AddressPlan` |
| Control codec | `src/mesh.rs` | none | server, client | `Codec` |
| Carrier | `src/obfs.rs` | none | server, client | `Obfs` |
| Client session | `src/bin/client.rs`, `src/mesh.rs` | assignment, timers, state file, installed routes | server, TUN, policy | `ClientSession` |
| TUN device | `src/tun_device.rs` | addresses and connected prefixes | client, operating system | `TunDevice` |
| Policy resolver | `src/policy/{mod,proxy,route,intercept}.rs` | running queries, host routes, registered ports | client, cache | `Resolver` |
| Answer cache | `src/policy/cache.rs` | answers with their lifetime, snapshot file | resolver | `AnswerCache` |
| DNS messages | `src/policy/dns.rs` | none | resolver | `DnsWire` |
| Lists | `src/policy/{chnroute,gfwlist}.rs` | none | resolver | `Matching` |
| Resolver takeover | `src/policy/dnsconf.rs` | system resolver, restore journal | client, desktop | `DnsJournal`, `DnsPromise` |
| Desktop | `desktop/src-tauri/src/` | intent, run files, helper and client processes | client, operating system | `Desktop` |
| Desktop profiles | `desktop/src-tauri/src/profiles.rs` | profiles and the state files beside them | desktop, client configuration | `Profiles` |

**Where things happen at once.** In the server `udp_to_tun`, `tun_to_udp` and the
sweeper are tokio tasks that share `Routing` behind one `std::sync::Mutex`, never
held across an await. A handler is therefore atomic there, and the hard behaviour
lies in the order of handlers. The client is different: its run loop and the
net-to-TUN processor are two tasks, and `handle_assign_reply` awaits between its
steps. Every query of the policy resolver is a task of its own. The desktop
application has a main lock, but the status poll does not take it, and the
helper, the client and the files outlive it. There every action is the code
between two places where another actor can come in.

## Modules

`MCX` holds the instances of `X` for TLC, `X_proofs` the theorems about it. Five proof
modules are named otherwise: `Server_proofs` is about `Assigner` and `LearnRouting`,
`Tables_proofs` about `SubnetTable`, `Nat`, `NatRewrite`, `NameTable`, `TunDevice`,
`Profiles` and `AddressPlan`, `Policy_proofs` about `Resolver`, `AnswerCache` and
`DnsJournal`, `Wire_proofs` about `Obfs` and the reader of `DnsWire`, and
`DnsReplies_proofs` continues it with the replies. `Absent`
(the constant `None`) and `Endpoints` (endpoints and clock) are what several
components share.

### Assigner

Variables: `table` (the four maps), `file`, `last_persist`, `cfg` (the
configuration in force), `up`, `now`, `out` (the reply and the dropped leases of
the last call).

`allocate` is four actions that share their guards: `AllocateRefresh` (the node
holds a live lease), `AllocateFree`, `AllocateReclaim` (the pool is full and the
oldest lease makes room) and `AllocateExhausted`. Each starts from `Reaped`, the
table after `reap_inner`, and ends with the write the code makes at that point:
always after a bind or a drop, and otherwise only when `should_persist` says so.
`min_by_key` over a HashMap breaks ties in any order, so `Oldest` is a set. The
hint may be any address; the code's unspecified address is one that is not
usable. IPv6 addresses are named by the IPv4 address they embed.

The file holds rows with whole-second times. A write replaces it atomically or
fails; on Windows a failure may leave none (`Windows`). `Faults` says which of
reading, writing and the file itself may go wrong, `ForeignRows` what an operator
may have added. `load` keeps a maximal set of live rows without conflicts; which
one depends on the order of the rows, and any is possible. The table of a stopped
process is kept as the memory it died with, so that a restart can be compared
with it. `Configs` is the set of configurations a restart may pick.

### LearnRouting

Extends `Assigner` and instantiates `NameTable` and `SubnetTable` over its own
`names` and `routes`; its own state is `clients` and `next_sweep`. One action per
arm of `handle_control` and one for data packets. `Unlearn` and `WithdrawAll` act
on sets where the code loops; the order of a loop makes no difference to either.
One clock stands for `SystemTime` (leases) and `Instant` (the rest). Where a data
packet goes (`Forward`) changes no state and is used by the properties.

### SubnetTable, NameTable, Nat, NatRewrite

A network is the set of its addresses, so longest prefix is smallest set. What
sanitising, suffixing and truncating do to a host name is the constant
`Candidates` of `NameTable`: the labels `unique_name` tries. (`Matching` has the
functions that make them.) The NAT probe is written as the first free candidate
after the cursor, and a whole round leaves the cursor where it was. `NatRewrite`
keeps words below `Base` (2^16 in the code) and one further word for everything else a checksum
covers; that word is never zero because the version or the protocol number is in
it.

### ClientSession

The server is a lease that may move or be refused (`ServerMoves`,
`ServerAnswers`, external); the link keeps replies in `net` and may lose, repeat
or reorder them. `handle_assign_reply` is `ReplyRefused`, `ReplyUnchanged` or
`ReplyApplied`, followed by `HandlerChanges` (the old policy and installer go),
`HandlerStarts` or `HandlerFails`, and `HandlerPersists`; `at` says where it is.
`PushBegins` and `PushApplied` are the other task. It holds the slot's lock from
taking the installer to the end of `RouteInstaller::apply` (the guard is a temporary
of the `match`), so the handler waits for it (`SlotFree`) and no push meets an
installer that has been replaced. `apply` may fail on any network, and so may a
deletion. `Crash` ends the process anywhere; the state file is written without a
rename, so a crash may tear it.

A client may have an IPv6 address of its own; then it asks for none and keeps it
(`WantIp6`, `Overlaid`, `Assigned`), and it is programmed with the first IPv4
address (`Programmed`). Setting an address takes the old one off the device and puts
the new one on, also when they are the same, and the kernel may drop routes with it
(`Readdressed`); `flushed` is history, the routes the installer in force lost so.

### TunDevice

`apply_assignment` and `SubnetRouteGuard::apply` are two actions whose system
calls may fail each by itself; whether the kernel drops a route whose preferred
source goes is left open. `stuck` records the prefixes whose removal failed, which
the code only logs.

### Resolver

A query goes through `local`, `remote` or `race` (waiting for upstreams),
`tunnel` (the lock of `added`), `install` (the request to the kernel outside that
lock) and `reply`. A clean query leaves through the TUN device (`queued`), where
the intercept passes it on or takes it for a host's, by its source port. A resolver
has one set of port numbers for its local and its clean queries, which are bound to
different addresses and may therefore have the same number; the one that ends first
takes the number out (`Unregister`). `Shutdown`, `Drain`,
`DeleteRoute` and `SaveCache` are the steps of dropping a `PolicyHandle`, with
queries still running. An answer is one address, its upstream and whether it is
tunnelled. The cache file at the start is one that an earlier client left, perhaps in
another mode or with another list (`Files`; its answers are marked `old`). `failed`,
`astray` and `clashed` are history: addresses the kernel refused; addresses routed for
a resolver that had already been dropped, or whose deletion failed; clean queries whose
number a local query took out. Routes that the kernel drops when the same IPv4 address
is set again under a resolver that stays are left out: `ClientSession` has that step,
for the installer's routes.

### AnswerCache, DnsWire

The cache counts time in ticks, several to a second, because `save` rounds down
to seconds. An entry carries its history: the time it has been served, whether it is
on file, and how many runs were killed while it was. `DnsWire` runs `read_name` step by step with its locals as variables
and has the other readers and the two writers as operators, all on byte
sequences.

### DnsJournal and DnsPromise

`DnsPromise` says what a takeover owes: the resolver is touched only while what
was there is on record, and the record is closed only by putting it back or by a
named fault. `DnsJournal` is `apply`, `engage`, the drop of `DnsGuard`, and
`restore_stale`, each command a step that may fail half way (`Part`), on four
kinds of system. The desktop application asks for a restore only while its status is
disconnected and a helper answers (`MayAsk`); both change at any time (`AppChanges`).
`Crash` is the end of a process, by a kill or by the deadline the helper gives a
restore. The refinement maps the debt to the journal if it can be read and
to the guard's memory otherwise.

### Desktop

Three threads of the GUI (`main` under `AppState.lock`, `init`, `poll`), the
helpers, the daemon and the client processes. A request to a helper is one action
and begins by reaping, as in the code. `Sites` are the machines: on Unix a client
that has exited stays until its parent waits for it, on Windows it does not.
A client that hangs in the kernel (`stuck`) survives its kill. One whose pid file
cannot be written is killed and forgotten (`PidFileFails`): if it hangs it is
`disowned`, alive and nobody's. `prompted` and `down` are history.

`main` is one thread because commands and the watcher's round take `AppState.lock`;
the lock itself is taken for granted, and what the properties are about is the order of
rounds and commands and what dies between their steps. `BeforeBoot` is exact where the
code compares clocks with 2 s of slack: a run recorded within those seconds of the boot,
or a clock that was set, is left out, and so is a pid that is given to another process
within one boot.

### Codec, Obfs, Matching, AddressPlan, Profiles

The first three are functions of their input, chosen in `Init` or by an action
and compared with what they are meant to compute. `Codec` also changes a payload
by one byte, as another version of the program might, and asks that it be refused
or understood to the last byte; names that end in a character of several bytes are
left out of that, since `name_bytes` cannot write them. `AddressPlan` has 32-bit arithmetic at `Bits` bits,
with the saturation of `host_range`. `Profiles` reduces a profile to what the two
validations look at, an absent field and a blank one told apart; the deletion of a profile is cut where another thread can
come in.

## What is checked

| Run | Question |
|---|---|
| `assigner_core` | Are addresses stable, and reclaim and refusal the last resort? |
| `assigner_faults` | Has every address one owner, and is every index exact, through edited, damaged, unreadable and unwritable lease files and a pool that shrinks? |
| `assigner_persist` | What does the file hold whenever the process may die, and what does a restart restore? |
| `assigner_survive` | A counterexample: a lease that was renewed is lost in a restart. |
| `learn` | Is a leased address only ever mapped to its holder's endpoint, and how stale can a client entry, a route or a name become? |
| `learn_withdrawn` | A counterexample: an active client loses its name with somebody else's lease. |
| `tables` | Ten components that share no state, each by itself (below). |
| `rewrite_zero` | A counterexample: a UDP checksum disappears. |
| `client` | One address everywhere, every installed route on record in the kernel but for those a re-addressing drops, nothing sent from an unconfirmed address; does a client decide in time and end up with the server's address? |
| `policy` | Resolver, resolver takeover, cache and DNS reader, each by itself (below). |
| `desktop` | Does a disconnect stay one, is no dialog raised by itself, no second client started, no foreign process aimed at; does a revoked helper leave and a dead client come back? |
| `desktop_reap` | A counterexample: on Unix a dead client is not noticed. |

`tables` asks: does the last advert of a network decide (`LastWordDecides`); are the
two name maps inverse, is a push without duplicates, and is the first client served
first (`NamesConsistent`, `FirstComeKeeps`); do NAT answers return to their sender
(`ReplyGoesToSender`); does the incremental checksum agree with the full sum
(`VerdictsKept`); does every control message arrive as it was sent, and is one of
another version refused or understood whole (`ControlIsUnderstood`); is every address
handed out a host of the tunnel (`HandoutsAreTunHosts`); is a carrier undone by its
reader (`WrapIsUndone`); do the China table, the domain list and the labels mean what
they should (`LookupsAreRight`); do the device and the kernel's routes follow the
assignment (`DeviceFollowsAssignment`); does a client run under its own profile's
identity and not under that of a deleted one of the same name
(`IdentityIsNotInherited`).

`policy` asks: is a tunnelled answer routed before it is given (`AnswerIsRouted`), is
every host route on the books of somebody who will delete it, but for late requests and
failed deletions (`RoutesAreOnTheBooks`), does what this client decides respect the split
(`SplitIsRespected`), are the resolver's own queries let through as long as their number
is registered (`OwnQueriesPass`), does every query end (`QueriesEnd`); does the takeover
of the resolver keep the promise to give it back (`PromiseKept`), and is a journal used up
while there is somebody to ask (`JournalIsHealed`); does an answer live no longer than it
may, once per run that was killed (`LifetimeIsKept`); does the name reader agree with the
skipper and refuse nothing but loops, and do replies read back (`WireIsRead`). That a reply
has the question of its query is stated of the bytes: the question section is the same.

`desktop` has `OneClientPerHelper` of the clients a helper has not disowned, and
`DisconnectIsFinal` of disconnects that succeeded: one that fails after the intent was
cleared leaves a client, which the next round adopts (below).

An invariant that is a conjunction (`WireIsRead`, `LookupsAreRight` and the like)
joins statements about one component that are named and explained one by one in its
module. Where the types of a component's state have no invariant of their own they are a
conjunct of one of its invariants: `LTypeOK` of `StaleIsBounded`, `NTypeOK` of `NamesConsistent`,
`CTypeOK` of `OneAddressEverywhere`, `RsTypeOK` of `RoutesAreOnTheBooks`, `DTypeOK` of
`OneClientPerHelper`.

`MCTables` and `MCPolicy` put independent components side by side: `part`, chosen
in the initial state, says which of them moves, and the others rest in one of
their initial states. The state space is the sum of the parts', and a property of
one part is checked on all of its behaviours. `MCLearnRouting` does the same with
inputs: `slice` restricts what clients do.

Every property of a passing run is accompanied by a wrong variant of one operator
(its name is the operator's, an underscore and what is wrong); with the variant in
place TLC finds the property violated.

### Bounds

- `assigner_core`: three nodes for two addresses, so that the pool overflows; two
  endpoints, so that they are shared and recycled; TTL 1 and times 0 to 3, so that
  leases age, expire and are made again; one address is the server's IPv6 twin, so
  that a reclaim can be in vain.
- `assigner_faults`: one endpoint and two nodes keep it small; all faults at once,
  one foreign row that conflicts with a node, an IPv4 and an IPv6 address, and two
  configurations.
- `assigner_persist`, `assigner_survive`: TTL 5 against a write every quarter of
  it; in the former two ticks to a second, and a clock that may be set to 0.
- `learn`: in the slice `leases` two nodes, two endpoints and two dual-stack leases,
  with data packets from either address of the first, which is the one that nodes
  contend for; in `ages` one node on two endpoints, one network and one name, the
  sweeper at its interval. `learn_withdrawn`: two nodes with names.
- `tables`: a network, its two halves and a part of one for two clients; three
  clients, a wanted name that is also a candidate and candidate lists in two
  orders; four endpoints for three internal addresses with the server's own in the
  middle, so that the probe wraps and skips; checksum words of two bits, for which
  carries cascade and both zeros occur (what else the two checksums cover is taken
  to be the same word, `MCInit`); message lists one longer than their caps;
  addresses of three bits, all masks and pools; datagrams of up to four bytes and
  all packet number lengths; up to three route lines, names of three and host names
  of five characters; three IPv4 and two IPv6 networks with two addresses in one;
  one profile name, two lives of it, and drafts for the ways in which either validation
  can refuse.
- `client`: two addresses, with and without IPv6, one move of the lease, two
  replies in flight, one of them repeated, two requests before the deadline, with and
  without an IPv6 address of one's own. The channel holds one reply, against eight in
  the code, so that it is full at times. One pushed network contains the server.
- `policy`: two queries at a time (a race needs two) for a listed and an overlay
  name, a domestic address and the server's own, two ports, one failing route request;
  two resolvers in a row in chinadns mode without a list, where in return each query
  has one port for both its sockets, and one elsewhere (`Bounded`); a cache file with
  the listed name left direct. Two faults, two crashes and one change by the user during
  a takeover. Two questions for a cache of one, and two runs killed. All DNS messages with up to four bytes from an alphabet of lengths, pointers and
  reserved bits behind a header.
- `desktop`: one profile, one elevated helper, the daemon, two process ids, two
  binaries on three sites; the janitor leaves after two ticks (six in the code).

`MaxTime` and `Horizon` end time in every instance after at least one full
expiry; at the bound all other actions stay enabled.

No symmetry is used: probe order and clock make nodes and addresses distinct.
The candidate lists of `tables` never run out. The code tries 255 labels and then
grants the first although it is taken; that needs as many clients with the same
name and tag. (`NameSafety` has this as a hypothesis.)

Deadlock is not checked in `tables` and `policy`, where a part that computes a
function is done after a step.

### Fairness

| Module | Assumed | Why |
|---|---|---|
| `Desktop` | the threads of the GUI take the steps of a command once it has begun, the watcher's round, the poll's second half, the helper's janitor and its answer to a disconnect, and the ageing of a run file | operating system threads in a loop with a sleep, and a clock; a dialog is answered one way or the other. Nothing is assumed of users, of deaths or of the start of a process. |
| `ClientSession` | the two timers, the reply handler and the push task | tokio intervals and tasks that do not block |
| `ClientSession`, `AddressConverges` only | `FairLink`: a datagram sent over and over gets through | a hypothesis of the property and not of the specification: without it a link may lose everything |
| `Resolver` | a step of every query that can be taken | tokio tasks; every upstream query has a timeout |
| `DnsJournal` | the watcher's attempt to heal, while it may ask, and the commands of a restore once begun | the watcher's loop, which asks again after `DNS_RESTORE_RETRY`; commands end. Nothing is assumed of the helper's presence or of the status: `JournalIsHealed` excepts behaviours without either. |

All of it is weak fairness but for `FairLink`. The other specifications state none
and have safety properties only. `StaleIsBounded` needs the sweeper to run at its
interval; the model lets time pass only while the sweeper is not due
(`ServerTick`), which stands for a tokio timer that is served within a tick.
`MissedTickBehavior::Delay` is the next due time counted from the sweep.

## What is proved

All theorems hold for every value of the constants that satisfies the named
assumptions of the module.

| Module | Theorems |
|---|---|
| `Server_proofs` | `TypeCorrect`, `AddressesHaveOneOwner`, `BindingsFollowLeases`, `LiveLeasesAreStable`, `NoSilentDrop`; `CrashesLoseNoBinding`, `LagIsBounded`, `RestartsKeepAddresses`, `RefusedOnlyWhenFull`, `ReclaimsAreLastResort`; `RoutesLeadToHolders`, `DroppedLeasesAreUnlearned`, `StaleStateIsBounded` |
| `Tables_proofs` | `SubnetSafety`, `UnapprovedSafety`, `PushSafety`; `NatSafety`, `NatStability`; `NameSafety`, `NameStability`; `TunSafety`; `ProfileSafety`; `ChecksumsSurviveRewriting`; `AddressPlanIsSafe` |
| `Policy_proofs` | `AnswersAreRouted`, `RoutesAreAccounted`, `SplitIsKept`, `OwnQueriesReachTheTunnel`; `LifetimesAreKept`, `CacheIsBounded`, `FreshAnswersAreKept`; `JournalSafety`, `PromiseIsKept` |
| `ClientSession_proofs` | `OneAddress`, `RecordedRoutes`, `ConfirmedAddresses` |
| `Desktop_proofs` | `NoUnaskedPrompts`, `OneClientEach`, `DisconnectsAreFinal`, `ForeignPidsAreSafe`, `HelpersLeaveNobody` |
| `Wire_proofs` | `CarriersAreUndone` |
| `Codec_proofs` | `ControlIsSafe` |
| `DnsReplies_proofs` | `WireRepliesAreRead` |

Where a theorem states a property of a run, `PROJECT.json` names it. The others are
left to the prover alone, which says more than another run would: `BindingFollowsLease`,
`DropsAreReported` and `TypeOK` of the assigner, `DroppedIsUnlearned`, `STypeOK`,
`UnapprovedNeverUsed` and `PushedRoutesLeadElsewhere`, `NatTypeOK`, `MapsAgree`,
`ExhaustedMeansFull` and `InternalIsStable`, `JTypeOK` and
`OriginalIsOnRecord`, `ACTypeOK` and `FreshAnswersStay`; `HelpersLeaveNobody` is the
second half of `RevokedHelperLeaves`.

The assumptions on the constants say that the sets are what their names say: bounds and
times are naturals, `None` is no member of the sets it stands beside, a pool is a range,
a lease in `ClientSession` has an IPv4 address, the daemon runs some binary. Of data
they ask little: a checksum has more than one word (`BaseAssumption`), a datagram and a
message are sequences of bytes (`ObfsAssumption`, `WireAssumption`), a message handed to
the reader is as long as a header (`question` sees to that), a reply has fewer than 2^16
addresses and a TTL of 32 bits, an address has some width (`BitsAssumption`), and a control
message has the fields of its type, with ASCII names, and limits on its lists that fit the
byte they are sent in (`CodecAssumption`). The runs evaluate them. The theorems with a hypothesis
of their own are the two about names (`EnoughCandidates`) and the first two of
`LearnRouting` (an IPv6 prefix). The inductive invariants were also checked with TLC on the
instances of the runs.

**Assigner.** The invariant `IInv` joins `TypeOK`, `OneOwnerPerAddress` and
`BindingFollowsLease`. None is inductive alone. Dropping a lease clears the index
entries at its addresses, which is right only if those entries are its own; that
is the first index invariant. Clearing an endpoint is right only if the binding
names the lease's `last_peer`; that is the second. `WellFormed` states the three
of a table value, and one lemma per operator (`DropKeeps`, `RefreshKeeps`,
`UnbindKeeps`, `BindKeeps`, `TableOfKeeps`) shows that it is kept. `PickIsUsable`
shows that the probe returns an address whose halves are free or the node's own,
from the fact that a set of naturals has a least element. Each action then
combines the lemmas of the operators it applies. The two action theorems use
`Accounted`: after any step a lease has its addresses still, or it is among the
dropped ones and, if it was live, gone.

**The lease file.** `FInv` is `IInv` with four facts. `FileHoldsBindings` speaks of a
running server and would let the file hold two rows of one node that differ in
`last_seen`, of which `load` keeps one only; `FileOK` says that the rows are those of the
leases while the server is down, too, and one for each node, so a load finds no conflict
and keeps every row that has not expired. `CallFiles` and `StartFiles` reduce every call
and start to three cases: the file is written, left alone shortly after a write, or loaded
whole. Refusals need `PoolOK` (with one configuration every lease lies in the pool) and
`ProbeIsComplete`, that the probe from any offset meets every address of the range, which
is arithmetic of `%`: the address of the lease that was dropped for the request would have
been found, unless its IPv6 half stands in the way. `ReclaimsAreLastResort` uses the same
completeness.

**LearnRouting.** `LInv` is `IInv` of the assigner and `Mapped`: an entry of the
client map at a leased address is the lease's `last_peer`. A request changes
leases and the map in one step, so the proof follows `allocate` case by case:
`Accounted` says which leases went, `Unlearn` removes their entries, and learning
puts in the holder's. The first two theorems assume a server with an IPv6 prefix. Without
one, a lease that was loaded with an IPv6 address keeps it, but a request no longer
learns it, so after roaming its IPv6 entry would be the former endpoint's until it
expires.

`StaleStateIsBounded` needs no prefix. A bound on the age of an entry now is not
inductive, for time passes; `Swept` bounds its age at the sweeper's next round instead,
which neither a tick nor a handler changes, and says that this round is due no sooner than
now and at most an interval away. The sweep is the only step that moves it, and leaves
nothing older than the TTL.

**SubnetTable.** The invariant is `STypeOK` and `LastWordDecides`, the agreement of
the table with the history of adverts. `LookupIsLongest` needs the address set to
be finite: a non-empty set of matching networks then has a smallest one.

**Nat.** `NatInv` joins `MapsAgree` with `SenderIsHolder`, which relates the ghost
`sender` to the map of owners. `ProbeCoversPool` shows that a whole round of the
cursor meets every address, from the arithmetic of `%` (`ModOfARound`,
`ModBelow`); it is what makes a refusal mean that the pool is full.

**NameTable.** `NInv` is `NamesConsistent` without the pushes. `unique_name` grants a
label that somebody has when all of its candidates are taken, so the theorems assume
`EnoughCandidates`: there are no more endpoints than different labels on offer for a
request, the server's own not counted. The code offers the wanted label and 255 others.
By the injection from taken labels to their endpoints one is then free, since the
endpoint that asks holds none.

**Profiles.** `PInv` says, next to the types, of each holder of an identity - the file
beside the profile, the deletion under way, the running client - whose it is
(`IdentityIsOwn`). Without the deletion under way the invariant is not
inductive: the profile is gone before its identity is. What is left when the application
ends between the two, or a client had loaded the profile before, is what `cut` records.

**DnsJournal.** `JInv` adds to the types and `OriginalIsOnRecord` that a guard
without a journal means that a fault was recorded (`NoSilentLoss`). From it every
step of `DnsJournal` is a step of `DnsPromise` or leaves its variables alone
(`PromiseIsKept`).

**TunDevice.** `TunInv` says what holds between the two actions as well: the record
of the programmed IPv6 address covers what the device has (`Addressed`), the guard's
record covers what the kernel has but for `stuck` (`Routed`), and when the guard has
run both agree with the assignment (`Settled`).

**AnswerCache.** The invariant budgets the snapshot as well as the map: an entry's
remaining time and age never exceed its lifetime, times one more than the runs killed on
it. While a run is under way the file may promise more than that, for what it holds is
being used up (`OnFile` ties it to the map); a run that saves writes what is left, and one
that is killed is counted.
`PutFits` counts what `put` leaves after pruning; nothing else adds an entry.

**ClientSession.** `handle_assign_reply` rebuilds the device, the connected routes, the
proxy and the installer one await at a time while the processor applies pushes. `CInv` says
with `Rebuilt` which of them already carry the new address at each await, with `Quiet` that
a process that is down and a static client have nothing under way, with `PushHoldsSlot` that
a push under way works on the installer in the slot, and with `Granted` that every reply on
the wire or in the channel is a lease of this run or a refusal. Of the routes it says that
what the installer has on record is in the kernel but for `flushed`, to which only
`Readdressed` adds. `Granted` is what makes
`OnlyConfirmedAddressSends` more than a statement about the handler: a cached address from
the file is never among them.

**Resolver.** `RInv` says of every task what it has asked and got at the await it is at
(`TaskOK`) and of every cached answer that the split allows it or an earlier client
decided it (`CacheOK`). Routes need
four facts: a request under way is on the books of its resolver until they are drained
(`Recorded`); what is on the books of the resolver in the slot is routed, refused or being
requested (`Booked`); an answer that is on its way is on them (`Replied`); the handle's
books are drained once (`HandleOK`). `AskingSteps` disposes of all steps that concern no
route at once; the others are proved one by one. The resolver's own queries pass because
the port of an open clean query is registered unless it is in `clashed`, and no two clean
queries of one resolver have the same (`PortsOK`): without the second, the end of one would
unregister the other.

**Desktop.** `DInv` gives each thread the pairs of command and step it may be at
(`Threads`), so that "the watcher never prompts" becomes "no watch is at `spawn`".
`Children` ties every live client that was not disowned to its helper's child slot: a
helper that puts a surviving client back refuses the next. `PidIsOurs` says that a run recorded in this boot
names no foreign process, and `Final` that a disconnect leaves neither intent, run nor
attempt.

**NatRewrite.** The sum a checksum verifies is folded with an end-around carry as often as
it takes. `FoldIsResidue` shows that this comes to the residue of the sum modulo `Ones`,
with `Ones` in place of zero for every sum but zero; it is by induction on the sum. An
adjusted checksum changes the sum by a multiple of `Ones` (`AdjustIs`), so that the verdict
is the same unless one of the two sums is zero, and none is: the word that stands for the
rest of the packet is not zero (`VerdictKept`).

**Obfs.** For the QUIC carrier the header byte gives back the length of the packet number.
For base64 the proof goes group by group: three bytes make four characters, of which the
three are read back (`Sextet`, `Mid8`, `Low8`). The decoder knows no groups, it shifts six
bits at a time into a buffer of 16 and takes a byte out whenever there are eight; the
invariant of its loop says what the buffer holds after each character, also where padding
cuts the last group short. `ObfsInv` carries the wrapped datagram through the steps.

**DnsWire.** `ReaderInv` relates the reader to the skipper: from where the reader stands
`skip_name` ends where it ends from the start (`SkipperFollows`), until the first pointer
fixes that place. `TrailOK` is about the loop guard: the reader leaves each offset it has
stood on for one fixed other, so that an offset met again means a loop, and as long as none
is met every hop has spent one of a budget that is larger than the number of offsets.
A reply is taken apart into pieces of bytes one behind the other; `Carries` says where a
piece stands, is kept when more is appended, and is what `Short`, `Long` and `Slice` read
back. The walk over the records is then shown to step as the loop of `build_response` did
(`AddressesAsked`, `AddressesNotAsked`, `TtlFound`). `ReplyInv` says that a reply was made
of the question that was read.

**AddressPlan.** Networks are arithmetic: masking with a prefix clears the low bits
(`MaskClears`, `AndIsNet`), so that a network is a block of addresses with its hosts between
the first and the last. A longer prefix whose block begins inside a shorter one's lies in it
(`NetInNet`), which is what `validate_assign_pool` relies on when it compares two prefix
lengths and one address, and `HostsOfTun` carries it to the hosts. `PlanInv` says
that the verdict is the one on what was given.

**Codec.** A payload is fields one behind the other, and `Carries` says where one stands, as
for `DnsWire`. The loops over routes and peers are followed entry by entry, in both
directions: what the encoder wrote is read back (`RoutesAreRead`, `PeersAreRead`), and what
the reader took, written again, is as long and reads the same (`RoutesAreTaken`,
`PeersAreTaken`). The lengths 1 and 5 are a keepalive's whatever the type byte says, so no
other message may have them (`NeverOne`). `CodecInv` keeps the payload a sequence of bytes
and, as long as nobody changed it, the encoding of what was sent.

The recursive functions of these five modules are reasoned about by induction over a set
of numbers (`LeastNat`, `CountUp`); `Iteration` shows that a function defined by recursion
exists, without which its equation may not be used.

Only model-checked:

- `LookupsAreRight` of `Matching`: sorting, folds and trims are community operators defined
  by `CHOOSE` over permutations and by folds with an operator for an argument, which the
  provers cannot instantiate.
- liveness, for want of rules for fairness and `ENABLED`: `QueriesEnd`, `JournalIsHealed`,
  `AssignmentDecides`, `AddressConverges`, the first half of `RevokedHelperLeaves` and
  `DeadClientIsRetriedOnWindows`.

Every other safety property that a passing run checks is proved, under the hypotheses named
above.

## Differences from the documentation

With a counterexample:

- Leases are said to survive a restart. A renewal is only written every quarter of
  the TTL, so the file may show a lease as up to that much older than it is, and a
  restart drops one that has been idle for less than the TTL (`assigner_survive`).
- Names are said to leave when the advertiser goes quiet. Dropping a lease
  withdraws the name of the endpoint it was last seen on, which may by then be
  another node's (`learn_withdrawn`).
- A UDP checksum of zero is said to mean "no checksum, leave it". The update may
  produce one (`rewrite_zero`).
- The reconnect watcher is said to bring the tunnel back when the client dies. On
  Unix a dead client is a zombie of the helper, which reaps only when it is asked
  something; `kill(pid, 0)` finds it, the status stays "connected", and nobody asks
  (`desktop_reap`). On Windows the property holds.

Read in the code while modelling:

- `reserved_ips` are "never auto-assigned", but a lease made before the address
  was reserved is loaded and renewed (`assign.rs`, `load` and `refresh_existing`).
- "First-come keeps" a name, but the table is keyed by endpoint: a client whose
  endpoint changes is renamed on account of its own former row (`magic.rs`,
  `advertise`).
- A push "includes the server and the requesting client", but with `MAX_PEERS`
  clients or more the requester may be left out (`magic.rs`, `snapshot`).
- The NAT placeholder is what "the client actually uses", but it is stored once per
  session (`nat.rs`, `ingress`).
- A NAT lease is refreshed "by any traffic from its client", but traffic to it
  counts as well (`nat.rs`, `egress`).
- `sanitize_hostname` "replaces invalid characters with `-`", but only underscores
  and white space are; others are dropped (`magic.rs`).
- `name_bytes` is said to truncate "without splitting a codepoint", but drops the
  continuation bytes of a last character that is whole, too, and keeps its first byte
  (`mesh.rs`). Names are sanitized to ASCII before they get there.
- A netmask that is not contiguous is refused only where an `assign_pool` is given;
  without one the range handed out is not the tunnel's network (`config.rs`).
  `HandoutsAreTunHosts` is about contiguous masks.
- "Every address added is tracked and removed again when the `RouteGuard` is
  dropped", but a query that is still running then adds a route nobody removes until
  the device goes, and one whose deletion fails stays as well (`route.rs`; `astray` in
  `Resolver`). An address whose route was refused is recorded as added and not tried
  again (`failed`).
- "The resolver's own tunneled upstream queries still take the encrypt path", but one
  that is still queued when its socket closes is taken for a host's (`client.rs`;
  `strays`). It is then resolved once more for nobody. So is one whose number a local
  query had, too, and has taken out of `inflight` (`proxy.rs`, `PortGuard`; `clashed`).
- The cache file is not tied to a mode or a list: answers that an earlier client left
  direct are served as they are to one that lists the name (`cache.rs`, `mod.rs`).
- A steady-state push is a no-op, so a subnet route that the kernel drops when a reply
  sets an unchanged IPv4 address again (a new netmask, peer or IPv6 address is enough)
  stays on record and is not put back (`client.rs`, `handle_assign_reply`; `flushed`).
  A route whose deletion fails is forgotten (`mesh.rs`, `apply`).
- `apply` of `dnsconf.rs` has no caller any more; what is left in use is
  `restore_stale`. A comment in `reconnect.rs` still relies on the next `apply`. The
  model keeps both, because journals of earlier builds are what is restored; what it
  shows of the takeover concerns no code that runs. Without a helper a journal stays:
  nobody raises a prompt for it.
- Cached answers do not age while no client runs, and a run that is killed leaves the
  file as it found it, so that the next serves the same seconds again (`cache.rs`).
- `validate_config` "Mirrors the client's fail-fast validation", but leaves to the
  client a keepalive of zero, DNS addresses that do not parse, networks that do not
  parse, are too many or are default routes, a blank suffix, and blank addresses and
  netmasks, which it takes for absent ones; and it refuses names of ciphers that the
  client knows as aliases (`ValidateConfig` and `Resolves` in `Profiles`). The client
  then fails at the start, which hurts no property here. Deleting a profile does not
  unlink an explicit `state_file`.
- When the pid file cannot be written `spawn_client` is not to "leave an orphaned root
  client behind", but it waits 2 s for the kill and then forgets the client whether or not
  it has gone (`PidFileFails`). `OneClientPerHelper` excepts such a client.
- After a disconnect "the watcher must not bring it back", but when the kill is
  declined the client stays, the next round adopts it, and from then on it is brought
  back (`runner.rs`, `reconnect.rs`). `DisconnectIsFinal` is about disconnects that
  succeeded.
- The status poll reads and deletes without the lock, so it may delete the files of a
  run that has just begun (`runner.rs`, `current_status`). A helper that does not
  answer when the application ends is left running with its token (`helper.rs`,
  `on_app_exit`). Both are in the model and none of its properties is hurt.

## What is not modelled

- The encrypted envelope (`src/crypto.rs`): every datagram is sealed with its own
  salt and opened by itself. There is no counter, window or session, so there is no
  state; what is left is the library's cryptography.
- Sockets, TUN input and output, packet relay beyond where a packet goes, and the
  checksums of packets the intercept makes.
- `src/policy/geoip.rs`: a database format read through a library, which yields the
  same table as a list file. `build_query` of `dns.rs`: one fixed layout.
- `PeerTable` of `magic.rs`: a map that a push replaces under a lock. As with route
  pushes the client keeps no sequence number, so what is in force is the push that
  arrived last, and the keepalives bring another.
- `src/uri.rs` and the merging of command line, file and defaults in
  `src/config.rs`: text and `or_else`, without state.
- In `DnsJournal`, which service or interface is changed, and a `--restore-dns` run by
  hand at the same time as a client.
- The desktop's windows, tray, dialogs' wording and native bindings.
