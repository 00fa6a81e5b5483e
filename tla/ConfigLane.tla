----------------------------- MODULE ConfigLane -----------------------------
(***************************************************************************)
(* The configuration of a running process (meow-api: routes.rs; meow-app:  *)
(* subscription_refresh.rs, geodata_fetch.rs; meow-tunnel: Tunnel).  The   *)
(* endpoints that change it hold CONFIG_MUTATION from the clone of the raw *)
(* configuration to its swap; PATCH /configs, POST /config/save and the    *)
(* two background tasks do not.                                            *)
(*                                                                         *)
(* Of a configuration the proxies, groups and rules are one set of edits:  *)
(* an edit adds its author, a subscription or a PUT replaces all.  The     *)
(* inner config_mutation_lock is only taken under CONFIG_MUTATION and adds *)
(* nothing.  Writing a file is one step; disks do not fail.  The handler   *)
(* of a request whose client goes away is dropped where it awaits.         *)
(***************************************************************************)
EXTENDS Integers, FiniteSets, TLAPS

CONSTANTS
  Requests,       \* requests of the API
  Refresher,      \* the loop of subscription_refresh
  Geodata,        \* the task of geodata_fetch
  Modes, None

VARIABLES
  raw,            \* raw_config: [edits, mode, tun]
  route,          \* RouteTable: [proxies, rules], the edits they were built from
  flags,          \* needs_ip_resolution and needs_process_lookup, likewise
  mode,           \* of the tunnel
  lane,           \* who holds CONFIG_MUTATION
  tunOn,          \* has_tun
  pc, kind, cand, \* of each task; cand is its candidate, or the snapshot it saves
  file, bak, tmp, \* whose snapshot the configuration file, its backup and the .tmp hold
  died,           \* history: the TUN listener ended by itself, or out of its request's reach
  kept,           \* history: edits acknowledged since the last replacement
  author,         \* history: who last wrote the edits of raw
  installer,      \* history: who last installed routing
  crossed         \* history: routing was installed before Geodata stored its flags

running == <<route, flags, installer, crossed>>
disk == <<file, bak, tmp>>
vars == <<raw, running, mode, lane, tunOn, pc, kind, cand, disk, died, kept, author>>

Tasks == Requests \cup {Refresher, Geodata}
Ids == Tasks \cup {"startup"}
Configs == [edits : SUBSET Ids, mode : Modes \cup {None}, tun : BOOLEAN]

LaneAssumption ==
  /\ Refresher \notin Requests /\ Geodata \notin Requests \cup {Refresher}
  /\ None \notin Ids \cup Modes /\ "startup" \notin Tasks

Replaces(k) == k \in {"subscription", "put"}

Init ==
  /\ raw \in [edits : {{"startup"}}, mode : Modes, tun : BOOLEAN]
  /\ route = [proxies |-> raw.edits, rules |-> raw.edits] /\ flags = raw.edits
  /\ mode = raw.mode /\ lane = None
  /\ tunOn \in {raw.tun, FALSE} /\ died = (raw.tun # tunOn)
  /\ pc = [t \in Tasks |-> "start"] /\ kind = [t \in Tasks |-> None]
  /\ cand = [t \in Tasks |-> None]
  /\ file = "startup" /\ bak = None /\ tmp = None
  /\ kept = {} /\ author = "startup" /\ installer = "startup" /\ crossed = FALSE

Goto(t, label) == pc' = [pc EXCEPT ![t] = label]

\* The handler returns: its guard and its locals are gone
Return(t) ==
  /\ Goto(t, "done") /\ lane' = IF lane = t THEN None ELSE lane
  /\ kind' = [kind EXCEPT ![t] = None] /\ cand' = [cand EXCEPT ![t] = None]

---------------------------------------------------------------------------
(* The endpoints in the lane                                               *)

\* The group and rule endpoints: the configuration with their change
Edited(t) == [raw EXCEPT !.edits = @ \cup {t}]

\* The subscription endpoints: what was fetched replaces the groups and rules
Subscribed(t) == [raw EXCEPT !.edits = {t}]

\* put_configs: the document it was sent
Documents(t) == [edits : {{t}}, mode : Modes \cup {None}, tun : BOOLEAN]

Begin(t, k, c) ==
  /\ kind' = [kind EXCEPT ![t] = k] /\ cand' = [cand EXCEPT ![t] = c]
  /\ Goto(t, "build")
  /\ UNCHANGED <<raw, running, mode, tunOn, disk, died, kept, author>>

Candidate(t) ==
  \/ Begin(t, "edit", Edited(t))
  \/ Begin(t, "subscription", Subscribed(t))
  \/ \E c \in Documents(t) : Begin(t, "put", c)

\* The lane, and in it the clone of the configuration
Acquire(t) == pc[t] = "start" /\ lane = None /\ lane' = t /\ Candidate(t)

\* install_routing: the flags are stored under the write lock of the route
install_routing(t, edits) ==
  /\ route' = [proxies |-> edits, rules |-> edits] /\ flags' = edits
  /\ installer' = t
  /\ crossed' = (pc[Geodata] = "flags")

\* apply_raw_to_tunnel: the candidate builds and is installed; a PUT sets the mode too
Apply(t) ==
  /\ t \in Requests /\ pc[t] = "build"
  /\ install_routing(t, cand[t].edits)
  /\ mode' = IF kind[t] = "put" /\ cand[t].mode # None THEN cand[t].mode ELSE mode
  /\ Goto(t, "swap")
  /\ UNCHANGED <<raw, lane, tunOn, kind, cand, disk, died, kept, author>>

\* A forced PUT of a configuration that does not build installs empty routing
ApplyEmpty(t) ==
  /\ pc[t] = "build" /\ kind[t] = "put"
  /\ install_routing(t, {})
  /\ mode' = IF cand[t].mode # None THEN cand[t].mode ELSE mode
  /\ Goto(t, "swap")
  /\ UNCHANGED <<raw, lane, tunOn, kind, cand, disk, died, kept, author>>

\* The candidate does not build or lacks a group it names, or the handler is dropped
Reject(t) ==
  /\ pc[t] = "build" /\ Return(t)
  /\ UNCHANGED <<raw, running, mode, tunOn, disk, died, kept, author>>

\* A subscription is saved before the lane is left
Finish(t) ==
  IF kind[t] = "subscription" THEN Goto(t, "write") /\ UNCHANGED <<lane, kind, cand>>
  ELSE Return(t)

\* swap_config_and_reconcile_tun: the candidate becomes the configuration
Swap(t) ==
  /\ pc[t] = "swap"
  /\ raw' = cand[t] /\ author' = t
  /\ kept' = IF Replaces(kind[t]) THEN {t} ELSE kept \cup {t}
  /\ IF raw.tun = cand[t].tun THEN Finish(t)
     ELSE Goto(t, IF cand[t].tun THEN "spawn" ELSE "stop") /\ UNCHANGED <<lane, kind, cand>>
  /\ UNCHANGED <<running, mode, tunOn, disk, died>>

\* spawn_tun_from_raw and set_tun_handle
SpawnOk(t) ==
  /\ pc[t] = "spawn"
  /\ tunOn' = TRUE /\ died' = FALSE /\ Finish(t)
  /\ UNCHANGED <<raw, running, mode, disk, kept, author>>

\* Faulty variant of SpawnFails: the configuration is not rolled back
SpawnForgets(t) ==
  /\ pc[t] = "spawn"
  /\ Finish(t)
  /\ UNCHANGED <<raw, running, mode, tunOn, disk, died, kept, author>>

\* The listener does not come up: tun.enable is rolled back
SpawnFails(t) ==
  /\ pc[t] = "spawn"
  /\ raw' = [raw EXCEPT !.tun = FALSE] /\ Finish(t)
  /\ UNCHANGED <<running, mode, tunOn, disk, died, kept, author>>

\* stop_tun
Stop(t) ==
  /\ pc[t] = "stop"
  /\ tunOn' = FALSE /\ died' = FALSE /\ Finish(t)
  /\ UNCHANGED <<raw, running, mode, disk, kept, author>>

---------------------------------------------------------------------------
(* Outside the lane                                                        *)

\* update_configs, under the write lock of raw_config
Patch(t) ==
  /\ pc[t] = "start"
  /\ \E m \in Modes : mode' = m /\ raw' = [raw EXCEPT !.mode = m]
  /\ Goto(t, "done")
  /\ UNCHANGED <<running, lane, tunOn, kind, cand, disk, died, kept, author>>

\* save_config
SaveConfig(t) ==
  /\ pc[t] = "start"
  /\ cand' = [cand EXCEPT ![t] = raw] /\ Goto(t, "write")
  /\ UNCHANGED <<raw, running, mode, lane, tunOn, kind, disk, died, kept, author>>

\* A fetched subscription replaces the edits under the write lock of raw_config
RefreshWrites ==
  /\ pc[Refresher] = "start"
  /\ raw' = [raw EXCEPT !.edits = {Refresher}] /\ author' = Refresher /\ kept' = {}
  /\ cand' = [cand EXCEPT ![Refresher] = raw'] /\ Goto(Refresher, "build")
  /\ UNCHANGED <<running, mode, lane, tunOn, kind, disk, died>>

RefreshInstalls ==
  /\ pc[Refresher] = "build"
  /\ install_routing(Refresher, cand[Refresher].edits) /\ Goto(Refresher, "write")
  /\ UNCHANGED <<raw, mode, lane, tunOn, kind, cand, disk, died, kept, author>>

\* New databases are on disk: rules are rebuilt from the configuration of now
GeoClones ==
  /\ pc[Geodata] = "start"
  /\ cand' = [cand EXCEPT ![Geodata] = raw] /\ Goto(Geodata, "build")
  /\ UNCHANGED <<raw, running, mode, lane, tunOn, kind, disk, died, kept, author>>

\* update_rules: the rules of the route under its lock, then the flags without it
GeoRules ==
  /\ pc[Geodata] = "build"
  /\ route' = [route EXCEPT !.rules = cand[Geodata].edits] /\ installer' = Geodata
  /\ Goto(Geodata, "flags")
  /\ UNCHANGED <<raw, flags, crossed, mode, lane, tunOn, kind, cand, disk, died, kept,
                 author>>

GeoFlags ==
  /\ pc[Geodata] = "flags"
  /\ flags' = cand[Geodata].edits /\ Return(Geodata)
  /\ UNCHANGED <<raw, route, installer, crossed, mode, tunOn, disk, died, kept, author>>

\* The TUN listener ends by itself
TunExits ==
  /\ tunOn /\ tunOn' = FALSE /\ died' = TRUE
  /\ UNCHANGED <<raw, running, mode, lane, pc, kind, cand, disk, kept, author>>

---------------------------------------------------------------------------
(* save_raw_config_async                                                   *)

WriteTmp(t) ==
  /\ pc[t] = "write" /\ tmp' = t /\ Goto(t, "backup")
  /\ UNCHANGED <<raw, running, mode, lane, tunOn, kind, cand, file, bak, died, kept, author>>

\* Faulty variant of Backup: the file is removed
BackupRemoves(t) ==
  /\ pc[t] = "backup" /\ Goto(t, "rename")
  /\ file' = None /\ UNCHANGED bak
  /\ UNCHANGED <<raw, running, mode, lane, tunOn, kind, cand, tmp, died, kept, author>>

\* The file, if there is one, becomes the backup
Backup(t) ==
  /\ pc[t] = "backup" /\ Goto(t, "rename")
  /\ file' = None /\ bak' = IF file = None THEN bak ELSE file
  /\ UNCHANGED <<raw, running, mode, lane, tunOn, kind, cand, tmp, died, kept, author>>

\* The temporary file, if it is still there, becomes the file; otherwise an error
Rename(t) ==
  /\ pc[t] = "rename" /\ Return(t)
  /\ IF tmp = None THEN UNCHANGED <<file, tmp>> ELSE file' = tmp /\ tmp' = None
  /\ UNCHANGED <<raw, running, mode, tunOn, bak, died, kept, author>>

\* The handler is dropped: a TUN listener that is coming up stays without a handle, and
\* of a save only the operation under way is carried out
Cancel(t) ==
  /\ pc[t] \in {"spawn", "backup", "rename"} /\ Return(t)
  /\ died' = (died \/ pc[t] = "spawn")
  /\ UNCHANGED <<raw, running, mode, tunOn, disk, kept, author>>

Request(t) ==
  Acquire(t) \/ Apply(t) \/ ApplyEmpty(t) \/ Swap(t) \/ SpawnOk(t) \/ SpawnFails(t) \/ Stop(t)
    \/ Patch(t) \/ SaveConfig(t) \/ Cancel(t)

Next ==
  \/ \E t \in Requests : Request(t)
  \/ \E t \in Tasks : Reject(t)
  \/ \E t \in Requests \cup {Refresher} : WriteTmp(t) \/ Backup(t) \/ Rename(t)
  \/ RefreshWrites \/ RefreshInstalls \/ GeoClones \/ GeoRules \/ GeoFlags \/ TunExits

Spec == Init /\ [][Next]_vars

---------------------------------------------------------------------------
\* Types, and the lane is held by a request that is under way.
TypeOK ==
  /\ raw \in Configs /\ route \in [proxies : SUBSET Ids, rules : SUBSET Ids]
  /\ flags \in SUBSET Ids /\ mode \in Modes
  /\ lane # None => lane \in Requests /\ pc[lane] \notin {"start", "done"}
  /\ \A t \in Requests : pc[t] \in {"build", "swap", "spawn", "stop"} => lane = t
  /\ \A t \in Tasks : cand[t] = None \/ cand[t] \in Configs
  /\ tunOn \in BOOLEAN /\ died \in BOOLEAN
  /\ {file, bak, tmp} \subseteq Ids \cup {None}

\* "All mutation endpoints share one commit lane": an edit the API has acknowledged stays
\* in the configuration until a subscription or a PUT replaces it, whatever other
\* endpoints and background tasks do in between.
AckedEditsStay == kept \subseteq raw.edits

\* Between two commits of the API the routing that runs is the one of the configuration
\* (or empty after a forced PUT), if no background task wrote either of them last.
LaneAgrees ==
  lane = None /\ {author, installer} \subseteq Requests =>
    /\ author = installer
    /\ \/ route = [proxies |-> raw.edits, rules |-> raw.edits]
       \/ route = [proxies |-> {}, rules |-> {}]

\* swap_config_and_reconcile_tun: between commits no TUN listener runs behind an
\* enable=false configuration with a handle to it, and an enabled one is missing only if it
\* ended by itself or the request that started it was dropped before it was up.
TunFollowsConfig ==
  lane = None => /\ tunOn => raw.tun
                 /\ raw.tun => tunOn \/ died

\* The cached flags are those of the rules that run ("true if any rule needs the dst_ip
\* resolved"), except where update_rules, which stores them after it unlocks the route,
\* was overtaken by an install.
FlagsFollowRules == pc[Geodata] # "flags" /\ ~crossed => flags = route.rules

\* Whatever saves overlap or are cut short, the configuration file or its
\* backup is there.
CopySurvives == file # None \/ bak # None

\* What the commit lane protects: an acknowledged edit, and a copy of the configuration on
\* disk.
EditsSurvive == AckedEditsStay /\ CopySurvives

\* Between commits the routing is the one of the configuration, the TUN listener follows
\* tun.enable, and the cached flags are those of the rules that run, but for the race
\* FlagsFollowRules names.
CommitsAgree == TypeOK /\ LaneAgrees /\ TunFollowsConfig /\ FlagsFollowRules

\* "Save a RawConfig back to disk with atomic write (.tmp -> rename) and .bak backup": when
\* no save is under way the configuration file is there.
FileSurvives == (\A t \in Tasks : pc[t] \notin {"backup", "rename"}) => file # None

---------------------------------------------------------------------------
(* Proofs about the commits of a configuration, for any number of requests *)
(* of the API beside the two background tasks.                             *)

Labels == {"start", "build", "swap", "spawn", "stop", "flags", "write", "backup", "rename", "done"}
Kinds == {"edit", "subscription", "put"}

Typed ==
  /\ raw \in Configs /\ route \in [proxies : SUBSET Ids, rules : SUBSET Ids]
  /\ flags \in SUBSET Ids /\ mode \in Modes /\ lane \in Requests \cup {None}
  /\ pc \in [Tasks -> Labels] /\ kind \in [Tasks -> Kinds \cup {None}]
  /\ cand \in [Tasks -> Configs \cup {None}]
  /\ tunOn \in BOOLEAN /\ died \in BOOLEAN /\ crossed \in BOOLEAN
  /\ file \in Ids \cup {None} /\ bak \in Ids \cup {None} /\ tmp \in Ids \cup {None}
  /\ author \in Ids /\ installer \in Ids

\* Who builds or swaps has a candidate; a request does both, and reconciles, in the lane
InLane ==
  /\ lane # None => pc[lane] \notin {"start", "done"}
  /\ \A t \in Requests : pc[t] \in {"build", "swap", "spawn", "stop"} => lane = t
  /\ \A t \in Tasks : pc[t] \in {"build", "swap", "flags"} => cand[t] \in Configs
  /\ \A t \in Requests : pc[t] \in {"build", "swap"} => kind[t] \in Kinds

\* The candidate of an edit holds the edit and all acknowledged ones
EditsCarried ==
  \A t \in Requests : pc[t] \in {"build", "swap"} =>
    t \in cand[t].edits /\ (~Replaces(kind[t]) => kept \subseteq cand[t].edits)

RouteOf(edits) ==
  \/ route = [proxies |-> edits, rules |-> edits]
  \/ route = [proxies |-> {}, rules |-> {}]

\* Before the swap of a commit and after it, the routing is the one of the configuration; in
\* between it is the one of the candidate, unless a background task has replaced it
Agreement ==
  /\ (\A t \in Requests : pc[t] # "swap") /\ {author, installer} \subseteq Requests =>
       author = installer /\ RouteOf(raw.edits)
  /\ \A t \in Requests : pc[t] = "swap" =>
       installer \notin Requests \/ (installer = t /\ RouteOf(cand[t].edits))

\* The TUN listener follows the configuration except while a commit reconciles them
Reconciled ==
  /\ (\A t \in Requests : pc[t] \notin {"spawn", "stop"}) =>
       (tunOn => raw.tun) /\ (raw.tun => tunOn \/ died)
  /\ \A t \in Requests : pc[t] = "spawn" => ~tunOn /\ raw.tun
  /\ \A t \in Requests : pc[t] = "stop" => ~raw.tun

\* Between its two writes, update_rules still has to store the flags of the rules
FlagsPending ==
  crossed \/ IF pc[Geodata] = "flags" THEN route.rules = cand[Geodata].edits ELSE flags = route.rules

LaneInv ==
  Typed /\ InLane /\ EditsCarried /\ AckedEditsStay /\ CopySurvives /\ Agreement /\ Reconciled
    /\ FlagsPending

---------------------------------------------------------------------------
LEMMA StepTyped == ASSUME LaneAssumption PROVE LaneInv /\ [Next]_vars => (Typed /\ InLane)'
<1> SUFFICES ASSUME LaneInv, [Next]_vars PROVE (Typed /\ InLane)'
  OBVIOUS
<1> USE DEF LaneInv, Typed, InLane, LaneAssumption, Tasks, Ids, Configs, Labels, Kinds, Goto, running, disk
<1>1. ASSUME NEW t \in Requests, Acquire(t) PROVE (Typed /\ InLane)'
  BY <1>1 DEF Acquire, Candidate, Begin, Edited, Subscribed, Documents
<1>2. ASSUME NEW t \in Requests, Apply(t) PROVE (Typed /\ InLane)'
  BY <1>2 DEF Apply, install_routing
<1>3. ASSUME NEW t \in Requests, ApplyEmpty(t) PROVE (Typed /\ InLane)'
  BY <1>3 DEF ApplyEmpty, install_routing
<1>4. ASSUME NEW t \in Requests, Swap(t) PROVE (Typed /\ InLane)'
  BY <1>4 DEF Swap, Finish, Return
<1>5. ASSUME NEW t \in Requests, SpawnOk(t) PROVE (Typed /\ InLane)'
  <2>1. tunOn' \in BOOLEAN /\ died' \in BOOLEAN
    BY <1>5, Zenon DEF SpawnOk
  <2>2. QED
    BY <1>5, <2>1 DEF SpawnOk, Finish, Return
<1>6. ASSUME NEW t \in Requests, SpawnFails(t) PROVE (Typed /\ InLane)'
  <2>1. raw' \in Configs
    BY <1>6, Zenon DEF SpawnFails
  <2>2. QED
    BY <1>6, <2>1 DEF SpawnFails, Finish, Return
<1>7. ASSUME NEW t \in Requests, Stop(t) PROVE (Typed /\ InLane)'
  <2>1. tunOn' \in BOOLEAN /\ died' \in BOOLEAN
    BY <1>7, Zenon DEF Stop
  <2>2. QED
    BY <1>7, <2>1 DEF Stop, Finish, Return
<1>8. ASSUME NEW t \in Requests, Patch(t) PROVE (Typed /\ InLane)'
  BY <1>8 DEF Patch
<1>9. ASSUME NEW t \in Requests, SaveConfig(t) PROVE (Typed /\ InLane)'
  BY <1>9 DEF SaveConfig
<1>10. ASSUME NEW t \in Requests, Cancel(t) PROVE (Typed /\ InLane)'
  BY <1>10 DEF Cancel, Return
<1>11. ASSUME NEW t \in Tasks, Reject(t) PROVE (Typed /\ InLane)'
  BY <1>11 DEF Reject, Return
<1>12. ASSUME NEW t \in Requests \cup {Refresher}, WriteTmp(t) PROVE (Typed /\ InLane)'
  BY <1>12 DEF WriteTmp
<1>13. ASSUME NEW t \in Requests \cup {Refresher}, Backup(t) PROVE (Typed /\ InLane)'
  BY <1>13 DEF Backup
<1>14. ASSUME NEW t \in Requests \cup {Refresher}, Rename(t) PROVE (Typed /\ InLane)'
  BY <1>14 DEF Rename, Return
<1>15. CASE RefreshWrites
  BY <1>15 DEF RefreshWrites
<1>16. CASE RefreshInstalls
  BY <1>16 DEF RefreshInstalls, install_routing
<1>17. CASE GeoClones
  BY <1>17 DEF GeoClones
<1>18. CASE GeoRules
  BY <1>18 DEF GeoRules
<1>19. CASE GeoFlags
  BY <1>19 DEF GeoFlags, Return
<1>20. CASE TunExits
  <2>1. tunOn' \in BOOLEAN /\ died' \in BOOLEAN
    BY <1>20, Zenon DEF TunExits
  <2>2. QED
    BY <1>20, <2>1 DEF TunExits
<1>21. CASE UNCHANGED vars
  BY <1>21 DEF vars
<1>22. QED
  BY <1>1, <1>2, <1>3, <1>4, <1>5, <1>6, <1>7, <1>8, <1>9, <1>10, <1>11, <1>12, <1>13, <1>14, <1>15, <1>16, <1>17, <1>18, <1>19, <1>20, <1>21, Zenon
  DEF Next, Request
\* An edit is built on all acknowledged ones, and nothing else in the lane comes between
LEMMA StepEdits == ASSUME LaneAssumption PROVE LaneInv /\ [Next]_vars => (EditsCarried /\ AckedEditsStay)'
<1> SUFFICES ASSUME LaneInv, [Next]_vars PROVE (EditsCarried /\ AckedEditsStay)'
  OBVIOUS
<1> USE DEF LaneInv, Typed, InLane, LaneAssumption, Tasks, Ids, Configs, Labels, Kinds, Goto, running, disk,
           EditsCarried, AckedEditsStay, Replaces
<1>1. ASSUME NEW t \in Requests, Acquire(t) PROVE (EditsCarried /\ AckedEditsStay)'
  BY <1>1 DEF Acquire, Candidate, Begin, Edited, Subscribed, Documents
<1>2. ASSUME NEW t \in Requests, Apply(t) PROVE (EditsCarried /\ AckedEditsStay)'
  BY <1>2 DEF Apply, install_routing
<1>3. ASSUME NEW t \in Requests, ApplyEmpty(t) PROVE (EditsCarried /\ AckedEditsStay)'
  BY <1>3 DEF ApplyEmpty, install_routing
<1>4. ASSUME NEW t \in Requests, Swap(t) PROVE (EditsCarried /\ AckedEditsStay)'
  BY <1>4 DEF Swap, Finish, Return
<1>5. ASSUME NEW t \in Requests, SpawnOk(t) PROVE (EditsCarried /\ AckedEditsStay)'
  BY <1>5 DEF SpawnOk, Finish, Return
<1>6. ASSUME NEW t \in Requests, SpawnFails(t) PROVE (EditsCarried /\ AckedEditsStay)'
  BY <1>6 DEF SpawnFails, Finish, Return
<1>7. ASSUME NEW t \in Requests, Stop(t) PROVE (EditsCarried /\ AckedEditsStay)'
  BY <1>7 DEF Stop, Finish, Return
<1>8. ASSUME NEW t \in Requests, Patch(t) PROVE (EditsCarried /\ AckedEditsStay)'
  BY <1>8 DEF Patch
<1>9. ASSUME NEW t \in Requests, SaveConfig(t) PROVE (EditsCarried /\ AckedEditsStay)'
  BY <1>9 DEF SaveConfig
<1>10. ASSUME NEW t \in Requests, Cancel(t) PROVE (EditsCarried /\ AckedEditsStay)'
  BY <1>10 DEF Cancel, Return
<1>11. ASSUME NEW t \in Tasks, Reject(t) PROVE (EditsCarried /\ AckedEditsStay)'
  BY <1>11 DEF Reject, Return
<1>12. ASSUME NEW t \in Requests \cup {Refresher}, WriteTmp(t) PROVE (EditsCarried /\ AckedEditsStay)'
  BY <1>12 DEF WriteTmp
<1>13. ASSUME NEW t \in Requests \cup {Refresher}, Backup(t) PROVE (EditsCarried /\ AckedEditsStay)'
  BY <1>13 DEF Backup
<1>14. ASSUME NEW t \in Requests \cup {Refresher}, Rename(t) PROVE (EditsCarried /\ AckedEditsStay)'
  BY <1>14 DEF Rename, Return
<1>15. CASE RefreshWrites
  BY <1>15 DEF RefreshWrites
<1>16. CASE RefreshInstalls
  BY <1>16 DEF RefreshInstalls, install_routing
<1>17. CASE GeoClones
  BY <1>17 DEF GeoClones
<1>18. CASE GeoRules
  BY <1>18 DEF GeoRules
<1>19. CASE GeoFlags
  BY <1>19 DEF GeoFlags, Return
<1>20. CASE TunExits
  BY <1>20 DEF TunExits
<1>21. CASE UNCHANGED vars
  BY <1>21, SMTT(30) DEF vars
<1>22. QED
  BY <1>1, <1>2, <1>3, <1>4, <1>5, <1>6, <1>7, <1>8, <1>9, <1>10, <1>11, <1>12, <1>13, <1>14, <1>15, <1>16, <1>17, <1>18, <1>19, <1>20, <1>21
  DEF Next, Request

\* The candidate is installed and swapped by one holder of the lane
LEMMA StepAgreement == ASSUME LaneAssumption PROVE LaneInv /\ [Next]_vars => Agreement'
<1> SUFFICES ASSUME LaneInv, [Next]_vars PROVE Agreement'
  OBVIOUS
<1> USE DEF LaneInv, Typed, InLane, LaneAssumption, Tasks, Ids, Configs, Labels, Kinds, Goto, running, disk,
           Agreement, RouteOf
<1>1. ASSUME NEW t \in Requests, Acquire(t) PROVE Agreement'
  BY <1>1 DEF Acquire, Candidate, Begin, Edited, Subscribed, Documents
<1>2. ASSUME NEW t \in Requests, Apply(t) PROVE Agreement'
  BY <1>2 DEF Apply, install_routing
<1>3. ASSUME NEW t \in Requests, ApplyEmpty(t) PROVE Agreement'
  BY <1>3 DEF ApplyEmpty, install_routing
<1>4. ASSUME NEW t \in Requests, Swap(t) PROVE Agreement'
  BY <1>4 DEF Swap, Finish, Return
<1>5. ASSUME NEW t \in Requests, SpawnOk(t) PROVE Agreement'
  BY <1>5 DEF SpawnOk, Finish, Return
<1>6. ASSUME NEW t \in Requests, SpawnFails(t) PROVE Agreement'
  BY <1>6 DEF SpawnFails, Finish, Return
<1>7. ASSUME NEW t \in Requests, Stop(t) PROVE Agreement'
  BY <1>7 DEF Stop, Finish, Return
<1>8. ASSUME NEW t \in Requests, Patch(t) PROVE Agreement'
  BY <1>8 DEF Patch
<1>9. ASSUME NEW t \in Requests, SaveConfig(t) PROVE Agreement'
  BY <1>9 DEF SaveConfig
<1>10. ASSUME NEW t \in Requests, Cancel(t) PROVE Agreement'
  BY <1>10 DEF Cancel, Return
<1>11. ASSUME NEW t \in Tasks, Reject(t) PROVE Agreement'
  BY <1>11 DEF Reject, Return
<1>12. ASSUME NEW t \in Requests \cup {Refresher}, WriteTmp(t) PROVE Agreement'
  BY <1>12 DEF WriteTmp
<1>13. ASSUME NEW t \in Requests \cup {Refresher}, Backup(t) PROVE Agreement'
  BY <1>13 DEF Backup
<1>14. ASSUME NEW t \in Requests \cup {Refresher}, Rename(t) PROVE Agreement'
  BY <1>14 DEF Rename, Return
<1>15. CASE RefreshWrites
  BY <1>15 DEF RefreshWrites
<1>16. CASE RefreshInstalls
  BY <1>16 DEF RefreshInstalls, install_routing
<1>17. CASE GeoClones
  BY <1>17 DEF GeoClones
<1>18. CASE GeoRules
  BY <1>18 DEF GeoRules
<1>19. CASE GeoFlags
  BY <1>19 DEF GeoFlags, Return
<1>20. CASE TunExits
  BY <1>20 DEF TunExits
<1>21. CASE UNCHANGED vars
  BY <1>21, SMTT(30) DEF vars
<1>22. QED
  BY <1>1, <1>2, <1>3, <1>4, <1>5, <1>6, <1>7, <1>8, <1>9, <1>10, <1>11, <1>12, <1>13, <1>14, <1>15, <1>16, <1>17, <1>18, <1>19, <1>20, <1>21, Zenon
  DEF Next, Request

\* A listener is started behind a configuration that had none, and stopped behind one without
LEMMA StepReconciled == ASSUME LaneAssumption PROVE LaneInv /\ [Next]_vars => Reconciled'
<1> SUFFICES ASSUME LaneInv, [Next]_vars PROVE Reconciled'
  OBVIOUS
<1> USE DEF LaneInv, Typed, InLane, LaneAssumption, Tasks, Ids, Configs, Labels, Kinds, Goto, running, disk,
           Reconciled
<1>1. ASSUME NEW t \in Requests, Acquire(t) PROVE Reconciled'
  BY <1>1 DEF Acquire, Candidate, Begin, Edited, Subscribed, Documents
<1>2. ASSUME NEW t \in Requests, Apply(t) PROVE Reconciled'
  BY <1>2 DEF Apply, install_routing
<1>3. ASSUME NEW t \in Requests, ApplyEmpty(t) PROVE Reconciled'
  BY <1>3 DEF ApplyEmpty, install_routing
<1>4. ASSUME NEW t \in Requests, Swap(t) PROVE Reconciled'
  BY <1>4 DEF Swap, Finish, Return
<1>5. ASSUME NEW t \in Requests, SpawnOk(t) PROVE Reconciled'
  BY <1>5 DEF SpawnOk, Finish, Return
<1>6. ASSUME NEW t \in Requests, SpawnFails(t) PROVE Reconciled'
  BY <1>6 DEF SpawnFails, Finish, Return
<1>7. ASSUME NEW t \in Requests, Stop(t) PROVE Reconciled'
  BY <1>7 DEF Stop, Finish, Return
<1>8. ASSUME NEW t \in Requests, Patch(t) PROVE Reconciled'
  BY <1>8 DEF Patch
<1>9. ASSUME NEW t \in Requests, SaveConfig(t) PROVE Reconciled'
  BY <1>9 DEF SaveConfig
<1>10. ASSUME NEW t \in Requests, Cancel(t) PROVE Reconciled'
  BY <1>10 DEF Cancel, Return
<1>11. ASSUME NEW t \in Tasks, Reject(t) PROVE Reconciled'
  BY <1>11 DEF Reject, Return
<1>12. ASSUME NEW t \in Requests \cup {Refresher}, WriteTmp(t) PROVE Reconciled'
  BY <1>12 DEF WriteTmp
<1>13. ASSUME NEW t \in Requests \cup {Refresher}, Backup(t) PROVE Reconciled'
  BY <1>13 DEF Backup
<1>14. ASSUME NEW t \in Requests \cup {Refresher}, Rename(t) PROVE Reconciled'
  BY <1>14 DEF Rename, Return
<1>15. CASE RefreshWrites
  BY <1>15 DEF RefreshWrites
<1>16. CASE RefreshInstalls
  BY <1>16 DEF RefreshInstalls, install_routing
<1>17. CASE GeoClones
  BY <1>17 DEF GeoClones
<1>18. CASE GeoRules
  BY <1>18 DEF GeoRules
<1>19. CASE GeoFlags
  BY <1>19 DEF GeoFlags, Return
<1>20. CASE TunExits
  BY <1>20 DEF TunExits
<1>21. CASE UNCHANGED vars
  BY <1>21, SMTT(30) DEF vars
<1>22. QED
  BY <1>1, <1>2, <1>3, <1>4, <1>5, <1>6, <1>7, <1>8, <1>9, <1>10, <1>11, <1>12, <1>13, <1>14, <1>15, <1>16, <1>17, <1>18, <1>19, <1>20, <1>21, Zenon
  DEF Next, Request

\* An install stores rules and flags together
LEMMA StepFlags == ASSUME LaneAssumption PROVE LaneInv /\ [Next]_vars => FlagsPending'
<1> SUFFICES ASSUME LaneInv, [Next]_vars PROVE FlagsPending'
  OBVIOUS
<1> USE DEF LaneInv, Typed, InLane, LaneAssumption, Tasks, Ids, Configs, Labels, Kinds, Goto, running, disk,
           FlagsPending
<1>1. ASSUME NEW t \in Requests, Acquire(t) PROVE FlagsPending'
  BY <1>1 DEF Acquire, Candidate, Begin, Edited, Subscribed, Documents
<1>2. ASSUME NEW t \in Requests, Apply(t) PROVE FlagsPending'
  BY <1>2, Zenon DEF Apply, install_routing
<1>3. ASSUME NEW t \in Requests, ApplyEmpty(t) PROVE FlagsPending'
  BY <1>3, Zenon DEF ApplyEmpty, install_routing
<1>4. ASSUME NEW t \in Requests, Swap(t) PROVE FlagsPending'
  BY <1>4 DEF Swap, Finish, Return
<1>5. ASSUME NEW t \in Requests, SpawnOk(t) PROVE FlagsPending'
  BY <1>5 DEF SpawnOk, Finish, Return
<1>6. ASSUME NEW t \in Requests, SpawnFails(t) PROVE FlagsPending'
  BY <1>6 DEF SpawnFails, Finish, Return
<1>7. ASSUME NEW t \in Requests, Stop(t) PROVE FlagsPending'
  BY <1>7 DEF Stop, Finish, Return
<1>8. ASSUME NEW t \in Requests, Patch(t) PROVE FlagsPending'
  BY <1>8 DEF Patch
<1>9. ASSUME NEW t \in Requests, SaveConfig(t) PROVE FlagsPending'
  BY <1>9 DEF SaveConfig
<1>10. ASSUME NEW t \in Requests, Cancel(t) PROVE FlagsPending'
  BY <1>10 DEF Cancel, Return
<1>11. ASSUME NEW t \in Tasks, Reject(t) PROVE FlagsPending'
  BY <1>11 DEF Reject, Return
<1>12. ASSUME NEW t \in Requests \cup {Refresher}, WriteTmp(t) PROVE FlagsPending'
  BY <1>12 DEF WriteTmp
<1>13. ASSUME NEW t \in Requests \cup {Refresher}, Backup(t) PROVE FlagsPending'
  BY <1>13 DEF Backup
<1>14. ASSUME NEW t \in Requests \cup {Refresher}, Rename(t) PROVE FlagsPending'
  BY <1>14 DEF Rename, Return
<1>15. CASE RefreshWrites
  BY <1>15 DEF RefreshWrites
<1>16. CASE RefreshInstalls
  BY <1>16, Zenon DEF RefreshInstalls, install_routing
<1>17. CASE GeoClones
  BY <1>17 DEF GeoClones
<1>18. CASE GeoRules
  BY <1>18 DEF GeoRules
<1>19. CASE GeoFlags
  BY <1>19 DEF GeoFlags, Return
<1>20. CASE TunExits
  BY <1>20 DEF TunExits
<1>21. CASE UNCHANGED vars
  BY <1>21 DEF vars
<1>22. QED
  BY <1>1, <1>2, <1>3, <1>4, <1>5, <1>6, <1>7, <1>8, <1>9, <1>10, <1>11, <1>12, <1>13, <1>14, <1>15, <1>16, <1>17, <1>18, <1>19, <1>20, <1>21, Zenon
  DEF Next, Request

\* A backup replaces the file by a copy of it
LEMMA StepCopy == ASSUME LaneAssumption PROVE LaneInv /\ [Next]_vars => CopySurvives'
<1> SUFFICES ASSUME LaneInv, [Next]_vars PROVE CopySurvives'
  OBVIOUS
<1> USE DEF LaneInv, CopySurvives, disk
<1>1. ASSUME NEW t \in Tasks, Backup(t) PROVE CopySurvives'
  BY <1>1 DEF Backup
<1>2. ASSUME NEW t \in Tasks, Rename(t) PROVE CopySurvives'
  BY <1>2 DEF Rename
<1>3. CASE UNCHANGED <<file, bak>>
  BY <1>3
<1>4. QED
  BY <1>1, <1>2, <1>3 DEF Tasks, Next, Request, Acquire, Candidate, Begin, Apply, ApplyEmpty, Swap, SpawnOk,
     SpawnFails, Stop, Patch, SaveConfig, Cancel, Reject, WriteTmp, RefreshWrites, RefreshInstalls,
     GeoClones, GeoRules, GeoFlags, TunExits, vars

---------------------------------------------------------------------------
LEMMA InitLane == ASSUME LaneAssumption PROVE Init => LaneInv
<1> SUFFICES ASSUME Init PROVE LaneInv
  OBVIOUS
<1> USE DEF Init, LaneAssumption, Tasks, Ids
<1>1. Typed
  BY Zenon DEF Typed, Configs, Labels, Kinds
<1>2. InLane
  BY DEF InLane
<1>3. Agreement /\ FlagsPending /\ EditsCarried
  BY DEF Agreement, RouteOf, FlagsPending, EditsCarried
<1>4. Reconciled
  BY Zenon DEF Reconciled
<1>5. QED
  BY <1>1, <1>2, <1>3, <1>4 DEF LaneInv, AckedEditsStay, CopySurvives

LEMMA StepLane == ASSUME LaneAssumption PROVE LaneInv /\ [Next]_vars => LaneInv'
BY StepTyped, StepEdits, StepAgreement, StepReconciled, StepFlags, StepCopy DEF LaneInv

\* CONFIG_MUTATION and save_raw_config_async: an acknowledged edit stays in the configuration
\* until a subscription or a PUT replaces it, and the configuration file or its backup is
\* there, with any number of requests that overlap, fail or are dropped.
THEOREM EditsAlwaysSurvive == ASSUME LaneAssumption PROVE Spec => []EditsSurvive
<1>1. LaneInv => EditsSurvive
  BY DEF LaneInv, EditsSurvive
<1>2. QED
  BY <1>1, InitLane, StepLane, PTL DEF Spec

\* apply_raw_to_tunnel and swap_config_and_reconcile_tun: between the commits of the API the
\* routing, the TUN listener and the cached flags are those of the configuration.
THEOREM CommitsAlwaysAgree == ASSUME LaneAssumption PROVE Spec => []CommitsAgree
<1>1. LaneInv => CommitsAgree
  <2> SUFFICES ASSUME LaneInv PROVE CommitsAgree
    OBVIOUS
  <2>1. TypeOK
    BY DEF LaneInv, Typed, InLane, TypeOK
  <2>2. LaneAgrees
    BY DEF LaneInv, LaneAssumption, Typed, InLane, Agreement, RouteOf, LaneAgrees, Tasks, Ids
  <2>3. TunFollowsConfig
    BY DEF LaneInv, LaneAssumption, InLane, Reconciled, TunFollowsConfig, Tasks, Ids
  <2>4. FlagsFollowRules
    BY DEF LaneInv, FlagsPending, FlagsFollowRules
  <2>5. QED
    BY <2>1, <2>2, <2>3, <2>4 DEF CommitsAgree
<1>2. QED
  BY <1>1, InitLane, StepLane, PTL DEF Spec
=============================================================================
