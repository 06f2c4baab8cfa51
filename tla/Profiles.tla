----------------------------- MODULE Profiles -------------------------------
(***************************************************************************)
(* The desktop application's profiles and what the client makes of them:   *)
(* save_profile with validate_config and delete_profile of                 *)
(* desktop/src-tauri/src/profiles.rs, ClientArgs::resolve of               *)
(* src/config.rs, and the state file the client keeps beside a profile     *)
(* (default_client_state_path, load_or_create_state).                      *)
(*                                                                         *)
(* save_profile and delete_profile run on the application's main thread,   *)
(* do_connect on another, the client in a process of its own.  A profile   *)
(* is reduced to what the two validations look at, and names no state file *)
(* of its own; an identity to the profile it was generated for.            *)
(***************************************************************************)
EXTENDS Naturals, Absent

CONSTANTS Profile,      \* profile names
          Drafts,       \* what the editor may save
          Bundles,      \* data files beside the client binary: [gfwlist, geoip]
          MaxBirths     \* bound: how many profiles are created

VARIABLES stored,    \* profiles/<name>.json
          sibling,   \* profiles/<name>.json.state: the profile it was generated for
          bundle,    \* the data files beside the client now
          connecting,\* do_connect, between its checks and state.json
          status,    \* the profile state.json names, or None
          vpn,       \* the client: None, or what it has loaded
          deletion,  \* delete_profile, between two of its steps
          births,
          cut        \* history: names whose deletion was cut short or overtaken

pvars == <<stored, sibling, bundle, connecting, status, vpn, deletion, births, cut>>
gui == <<connecting, status, deletion>>

Stored == [cfg : Drafts, born : Nat]
Deletion == [name : Profile, at : {"remove", "unlink"}]

ASSUME ProfileAssumption ==
    MaxBirths \in Nat /\ None \notin Profile /\ None \notin Stored /\ None \notin Deletion

-----------------------------------------------------------------------------
(* The two validations.  A text field is absent, blank (present, and the   *)
(* empty string), ok or garbled.                                           *)

\* resolve_policy: an explicit path, be it blank, wins; then the bundled file, in the
\* modes that use it.
HasGfwlist(c, b) == c.gfwlist # "absent" \/ (c.mode \in {"gfwlist", "chinadns"} /\ b.gfwlist)
HasChinaSet(c, b) ==
    \/ c.chnroute # "absent" \/ c.geoip # "absent"
    \/ c.mode = "chinadns" /\ b.geoip

ResolvePolicy(c, b) ==
    /\ c.mode \in {"absent", "full", "gfwlist", "chinadns"}
    /\ c.dns \in {"absent", "ok"} /\ c.suffix \in {"absent", "ok"}
    /\ c.mode = "gfwlist" => HasGfwlist(c, b)
    /\ c.mode = "chinadns" => HasChinaSet(c, b)

ResolveCrypto(c) == c.password # "absent" /\ c.cipher \in {"absent", "listed", "alias"}

\* resolve_client_tun: both addresses or neither.
ResolveClientTun(c) == c.tun_ip = "absent" <=> c.peer_ip = "absent"

\* FileConfig::load: addresses and networks are parsed with the file, which refuses an
\* empty string.
FileLoads(c) ==
    /\ {c.tun_ip, c.peer_ip, c.tun_netmask} \subseteq {"absent", "ok"}
    /\ c.nets # "garbled"

ValidateAdvertised(c) == c.nets \notin {"too many", "default route"}

\* ClientArgs::resolve.
Resolves(c, b) ==
    /\ FileLoads(c) /\ ResolvePolicy(c, b) /\ c.server # "absent" /\ ResolveCrypto(c)
    /\ ResolveClientTun(c) /\ c.keepalive # 0 /\ ValidateAdvertised(c)

\* unwrap_or("").is_empty().
Unset(v) == v \in {"absent", "blank"}

\* validate_config, which takes a blank field for an absent one.
ValidateConfig(c, b) ==
    /\ ~Unset(c.server) /\ ~Unset(c.password)
    /\ \/ Unset(c.tun_ip) /\ Unset(c.peer_ip)
       \/ c.tun_ip = "ok" /\ c.peer_ip = "ok"
    /\ Unset(c.tun_netmask) \/ c.tun_netmask = "ok"
    /\ c.cipher \in {"absent", "listed"} /\ c.obfs \in {"absent", "listed"}
    /\ \/ c.mode \in {"absent", "full"}
       \/ c.mode = "gfwlist" /\ (~Unset(c.gfwlist) \/ b.gfwlist)
       \/ c.mode = "chinadns" /\ (~Unset(c.chnroute) \/ ~Unset(c.geoip) \/ b.geoip)

-----------------------------------------------------------------------------
(* The main thread.                                                        *)

NotDeleting == deletion = None

\* Saving over a profile keeps what it is; a new name is a new profile.
SaveProfile(n, c) ==
    /\ NotDeleting /\ ValidateConfig(c, bundle)
    /\ stored[n] = None => births < MaxBirths
    /\ births' = IF stored[n] = None THEN births + 1 ELSE births
    /\ stored' = [stored EXCEPT ![n] =
                    [cfg |-> c,
                     born |-> IF stored[n] = None THEN births + 1 ELSE stored[n].born]]
    /\ UNCHANGED <<sibling, bundle, gui, vpn, cut>>

\* delete_profile: not while current_status says the profile is up.
DeleteChecks(n) ==
    /\ NotDeleting /\ stored[n] # None /\ status # n
    /\ deletion' = [name |-> n, at |-> "remove"]
    /\ UNCHANGED <<stored, sibling, bundle, connecting, status, vpn, births, cut>>

\* Overtaken: a client has read the profile since the check.
DeleteRemoves ==
    /\ ~NotDeleting /\ deletion.at = "remove"
    /\ stored' = [stored EXCEPT ![deletion.name] = None]
    /\ cut' = IF vpn = None THEN cut
              ELSE IF vpn.name = deletion.name THEN cut \cup {deletion.name} ELSE cut
    /\ deletion' = [deletion EXCEPT !.at = "unlink"]
    /\ UNCHANGED <<sibling, bundle, connecting, status, vpn, births>>

\* A plausible slip: the sibling is left.
UnlinkProfileState_Never(ok) ==
    /\ ~NotDeleting /\ deletion.at = "unlink"
    /\ deletion' = None /\ ok
    /\ UNCHANGED <<stored, sibling, bundle, connecting, status, vpn, births, cut>>

\* unlink_profile_state; a failure is reported, but the profile is gone.
UnlinkProfileState(ok) ==
    /\ ~NotDeleting /\ deletion.at = "unlink"
    /\ sibling' = IF ok THEN [sibling EXCEPT ![deletion.name] = None] ELSE sibling
    /\ cut' = IF ok THEN cut ELSE cut \cup {deletion.name}
    /\ deletion' = None
    /\ UNCHANGED <<stored, bundle, connecting, status, vpn, births>>

\* The application ends: whatever it was doing is left where it was.
GuiEnds ==
    /\ connecting # None \/ deletion # None
    /\ cut' = IF NotDeleting THEN cut ELSE cut \cup {deletion.name}
    /\ connecting' = None /\ deletion' = None
    /\ UNCHANGED <<stored, sibling, bundle, status, vpn, births>>

\* An update, or another client binary in the settings.
BundleChanges ==
    /\ bundle' \in Bundles \ {bundle}
    /\ UNCHANGED <<stored, sibling, gui, vpn, births, cut>>

-----------------------------------------------------------------------------
(* do_connect and the client.                                              *)

\* Up to the elevation prompt.
ConnectChecks(n) ==
    /\ connecting = None /\ status = None /\ vpn = None /\ stored[n] # None
    /\ connecting' = n
    /\ UNCHANGED <<stored, sibling, bundle, status, vpn, deletion, births, cut>>

\* state.json is written and the helper starts the client.
ConnectRecords ==
    /\ connecting # None
    /\ status' = connecting /\ connecting' = None
    /\ UNCHANGED <<stored, sibling, bundle, vpn, deletion, births, cut>>

\* The client resolves its configuration; refused, it exits and the status follows.
ClientLoads ==
    /\ status # None /\ vpn = None
    /\ LET p == stored[status] IN
       \/ /\ p # None /\ Resolves(p.cfg, bundle)
          /\ vpn' = [name |-> status, born |-> p.born,
                     auto |-> p.cfg.tun_ip = "absent", id |-> None]
          /\ UNCHANGED status
       \/ /\ p # None => ~Resolves(p.cfg, bundle)
          /\ status' = None /\ UNCHANGED vpn
    /\ UNCHANGED <<stored, sibling, bundle, connecting, deletion, births, cut>>

\* load_or_create_state, of a client that asks for its address.
ClientIdentifies ==
    /\ vpn # None /\ vpn.auto /\ vpn.id = None
    /\ LET n == vpn.name
           id == IF sibling[n] = None THEN vpn.born ELSE sibling[n]
       IN /\ vpn' = [vpn EXCEPT !.id = id]
          /\ sibling' = [sibling EXCEPT ![n] = id]
    /\ UNCHANGED <<stored, bundle, gui, births, cut>>

ClientEnds ==
    /\ vpn # None
    /\ vpn' = None /\ status' = None
    /\ UNCHANGED <<stored, sibling, bundle, connecting, deletion, births, cut>>

-----------------------------------------------------------------------------
PInit ==
    /\ stored = [n \in Profile |-> None] /\ sibling = [n \in Profile |-> None]
    /\ bundle \in Bundles
    /\ connecting = None /\ status = None /\ vpn = None /\ deletion = None
    /\ births = 0 /\ cut = {}

PNext ==
    \/ \E n \in Profile : \/ \E c \in Drafts : SaveProfile(n, c)
                          \/ DeleteChecks(n) \/ ConnectChecks(n)
    \/ DeleteRemoves \/ (\E ok \in BOOLEAN : UnlinkProfileState(ok)) \/ GuiEnds
    \/ BundleChanges
    \/ ConnectRecords \/ ClientLoads \/ ClientIdentifies \/ ClientEnds

PSpec == PInit /\ [][PNext]_pvars

-----------------------------------------------------------------------------
(* Properties.                                                             *)

\* delete_profile: leaving the state file "would hand a later same-named profile this
\* node's assigned IP".  A client runs under the identity generated for its own profile,
\* unless a deletion of that name was cut short or a client had got hold of the profile
\* before it was removed.
IdentityIsNotInherited ==
    (vpn # None /\ vpn.name \notin cut) => vpn.id \in {None, vpn.born}
=============================================================================
