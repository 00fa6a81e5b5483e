--------------------------- MODULE TcpAdmission ---------------------------
(***************************************************************************)
(* TCP admission, connection tracking and cold reload of the tunnel        *)
(* (meow-tunnel: tcp.rs, tunnel.rs, statistics.rs).                        *)
(*                                                                         *)
(* A setup task captures the cold-reload generation, reads the mode and    *)
(* the route table, may await DNS, and then registers in the connection    *)
(* table under the read lock of tcp_generation.  API tasks close one       *)
(* connection, close all, publish routing (warm), change the mode, or run  *)
(* a cold reload, which holds the write lock over cancellation and         *)
(* publication.  Every step below is one atomic operation of the code: a   *)
(* lock acquisition, one load or store, one operation on a map entry.      *)
(*                                                                         *)
(* A connection is its own key (the code draws a fresh v4 UUID).  Of a      *)
(* route table only one thing matters here: whether the scan for the       *)
(* connections modelled reaches a slot that demands the destination IP.    *)
(***************************************************************************)
EXTENDS Naturals, FiniteSets

CONSTANTS Conns,       \* inbound TCP connections, each served by one task
          Admins,      \* API tasks
          None,        \* no task, no connection
          Modes,       \* the tunnel modes considered
          MaxGen       \* bound on cold reloads

ASSUME NoneAssumption == None \notin Conns /\ None \notin Admins
ASSUME ModesAssumption == Modes \subseteq {"rule", "global", "direct"}
ASSUME BoundAssumption == MaxGen \in Nat

VARIABLES
  generation,   \* tcp_generation
  writer,       \* task holding its write lock, or None
  readers,      \* tasks holding its read lock
  needsIp,      \* published route table: the scan demands a destination IP
  mode,         \* published mode
  connections,  \* keys of Statistics::connections
  closed,       \* ConnCounters::closed of each connection
  waiter,       \* its Notified future: not registered, registered, woken
  pc,           \* where each setup task is
  adm,          \* TcpAdmission::generation
  ip,           \* dst_ip is absent, or known (or its lookup is over)
  old,          \* history: mode or route read before the last cold
                \* reload had published both
  apc,          \* where each API task is
  target,       \* the connection it is closing
  todo          \* entries its retain() must still visit

lockVars == <<generation, writer, readers>>
policyVars == <<needsIp, mode>>
localVars == <<adm, ip>>
flowVars == <<closed, waiter, pc, localVars, old>>
adminVars == <<apc, target, todo>>
vars == <<lockVars, policyVars, connections, flowVars, adminVars>>

\* run_until_closed is entered and the guard not yet dropped
Guarded == {"enable", "check", "run", "drop"}
\* the mode has been read, the task is not over
Deciding == {"mode2", "route", "ruleRoute", "globalRoute", "dns", "decided", "insert"}
ConnStates == {"new", "mode", "done"} \cup Deciding \cup Guarded
AdminStates == {"idle", "store", "notify", "retain", "retainNotify",
                "install", "setmode"}

\* Types: admission, policy lock, connection table, close handles and API requests.
TypeOK ==
  /\ generation \in Nat
  /\ writer \in Admins \cup {None}
  /\ readers \subseteq Conns
  /\ needsIp \in BOOLEAN
  /\ mode \in Modes
  /\ connections \subseteq Conns
  /\ closed \in [Conns -> BOOLEAN]
  /\ waiter \in [Conns -> {"none", "enabled", "woken"}]
  /\ pc \in [Conns -> ConnStates]
  /\ adm \in [Conns -> Nat]
  /\ ip \in [Conns -> {"absent", "known"}]
  /\ old \subseteq Conns
  /\ apc \in [Admins -> AdminStates]
  /\ target \in [Admins -> Conns \cup {None}]
  /\ todo \in [Admins -> SUBSET Conns]

\* Tunnel::new, then the routing configuration of the startup
Init ==
  /\ generation = 0 /\ writer = None /\ readers = {}
  /\ needsIp \in BOOLEAN /\ mode \in Modes
  /\ connections = {}
  /\ closed = [c \in Conns |-> FALSE]
  /\ waiter = [c \in Conns |-> "none"]
  /\ pc = [c \in Conns |-> "new"]
  /\ adm = [c \in Conns |-> 0]
  /\ ip = [c \in Conns |-> "absent"]
  /\ old = {}
  /\ apc = [a \in Admins |-> "idle"]
  /\ target = [a \in Admins |-> None]
  /\ todo = [a \in Admins |-> {}]

\* DashMap::retain holds the shard of the entry it is closing
ShardLocked(c) == \E a \in Admins : apc[a] = "retainNotify" /\ target[a] = c

\* Some API task has taken c out of the table and has yet to signal it
Closing(c) == \E a \in Admins : apc[a] \in {"store", "notify"} /\ target[a] = c

---------------------------------------------------------------------------
(* The setup task of connection c                                          *)

Goto(c, l) == pc' = [pc EXCEPT ![c] = l]

\* The task returns: its locals are gone
Exit(c) ==
  /\ Goto(c, "done")
  /\ adm' = [adm EXCEPT ![c] = 0]
  /\ ip' = [ip EXCEPT ![c] = "absent"]
  /\ old' = old \ {c}

\* Faulty variant of Capture: the generation is read without its lock
CaptureUnlocked(c) ==
  /\ pc[c] = "new"
  /\ adm' = [adm EXCEPT ![c] = generation]
  /\ ip' = [ip EXCEPT ![c] = "known"] /\ Goto(c, "mode2")
  /\ UNCHANGED <<lockVars, policyVars, connections, closed, waiter, old, adminVars>>

\* route_inbound_tcp and the plain-HTTP path resolve lazily; TPROXY always
\* knows its destination address and resolves eagerly.
Capture(c) ==
  /\ pc[c] = "new" /\ writer = None
  /\ adm' = [adm EXCEPT ![c] = generation]
  /\ \/ \E i \in {"absent", "known"} : ip' = [ip EXCEPT ![c] = i] /\ Goto(c, "mode")
     \/ ip' = [ip EXCEPT ![c] = "known"] /\ Goto(c, "mode2")
  /\ UNCHANGED <<lockVars, policyVars, connections, closed, waiter, old, adminVars>>

\* resolve_proxy_lazy reads the mode, and resolve_proxy reads it again when it
\* is not Rule.
ReadModeLazy(c) ==
  /\ pc[c] = "mode"
  /\ Goto(c, IF mode = "rule" THEN "route" ELSE "mode2")
  /\ UNCHANGED <<lockVars, policyVars, connections, closed, waiter, localVars, old, adminVars>>

ReadMode(c) ==
  /\ pc[c] = "mode2"
  /\ Goto(c, CASE mode = "direct" -> "decided"
               [] mode = "global" -> "globalRoute"
               [] mode = "rule" -> "ruleRoute")
  /\ UNCHANGED <<lockVars, policyVars, connections, closed, waiter, localVars, old, adminVars>>

\* match_rules_lazy stops at a slot that demands a missing dst_ip
ReadRouteLazy(c) ==
  /\ pc[c] = "route"
  /\ Goto(c, IF needsIp /\ ip[c] = "absent" THEN "dns" ELSE "decided")
  /\ UNCHANGED <<lockVars, policyVars, connections, closed, waiter, localVars, old, adminVars>>

\* resolve_proxy: the strict match takes the metadata as it is
ReadRoute(c) ==
  /\ pc[c] \in {"ruleRoute", "globalRoute"}
  /\ Goto(c, "decided")
  /\ UNCHANGED <<lockVars, policyVars, connections, closed, waiter, localVars, old, adminVars>>

\* resolve_ip_real answers or fails, and the strict match uses the snapshot
ResolveDone(c) ==
  /\ pc[c] = "dns"
  /\ ip' = [ip EXCEPT ![c] = "known"]
  /\ Goto(c, "decided")
  /\ UNCHANGED <<lockVars, policyVars, connections, closed, waiter, adm, old, adminVars>>

\* The task is aborted while it awaits DNS (its listener is torn down)
AbortSetup(c) ==
  /\ pc[c] = "dns"
  /\ Exit(c)
  /\ UNCHANGED <<lockVars, policyVars, connections, closed, waiter, adminVars>>

\* Faulty variant of Validate: the generation is not compared
NoRecheck(c) ==
  /\ pc[c] = "decided" /\ writer = None
  /\ readers' = readers \cup {c} /\ Goto(c, "insert")
  /\ UNCHANGED <<generation, writer, policyVars, connections, closed, waiter,
                 localVars, old, adminVars>>

\* TcpAdmission::track takes the read lock and compares the generation
Validate(c) ==
  /\ pc[c] = "decided" /\ writer = None
  /\ IF adm[c] = generation
     THEN readers' = readers \cup {c} /\ Goto(c, "insert") /\ UNCHANGED <<localVars, old>>
     ELSE UNCHANGED readers /\ Exit(c)
  /\ UNCHANGED <<generation, writer, policyVars, connections, closed, waiter, adminVars>>

\* ... and inserts the entry before it releases the lock
Insert(c) ==
  /\ pc[c] = "insert"
  /\ connections' = connections \cup {c}
  /\ readers' = readers \ {c}
  /\ Goto(c, "enable")
  /\ UNCHANGED <<generation, writer, policyVars, closed, waiter, localVars, old, adminVars>>

\* ConnCounters::closed, first poll: register with the Notify ...
Enable(c) ==
  /\ pc[c] = "enable"
  /\ waiter' = [waiter EXCEPT ![c] = "enabled"]
  /\ Goto(c, "check")
  /\ UNCHANGED <<lockVars, policyVars, connections, closed, localVars, old, adminVars>>

\* Faulty variant of CheckClosed: the flag is not looked at after registering
SkipCheck(c) ==
  /\ pc[c] = "check"
  /\ Goto(c, "run")
  /\ UNCHANGED <<lockVars, policyVars, connections, closed, waiter, localVars, old, adminVars>>

\* ... then look at the flag
CheckClosed(c) ==
  /\ pc[c] = "check"
  /\ Goto(c, IF closed[c] THEN "drop" ELSE "run")
  /\ UNCHANGED <<lockVars, policyVars, connections, closed, waiter, localVars, old, adminVars>>

\* The biased select of run_until_closed returns: the wake-up is polled first
Cancelled(c) ==
  /\ pc[c] = "run" /\ waiter[c] = "woken"
  /\ Goto(c, "drop")
  /\ UNCHANGED <<lockVars, policyVars, connections, closed, waiter, localVars, old, adminVars>>

\* dial error or timeout, prefix write error, end of the relay, or abort
FutureEnds(c) ==
  /\ pc[c] = "run" /\ waiter[c] # "woken"
  /\ Goto(c, "drop")
  /\ UNCHANGED <<lockVars, policyVars, connections, closed, waiter, localVars, old, adminVars>>

\* Drop for ConnectionGuard: close_connection; only the task itself waits on
\* the signal, so the three operations of the call are one step.
DropGuard(c) ==
  /\ pc[c] = "drop" /\ ~ShardLocked(c)
  /\ connections' = connections \ {c}
  /\ closed' = [closed EXCEPT ![c] = @ \/ c \in connections]
  /\ waiter' = [waiter EXCEPT ![c] = "none"]
  /\ Exit(c)
  /\ UNCHANGED <<lockVars, policyVars, adminVars>>

---------------------------------------------------------------------------
(* API task a                                                              *)

AdminGoto(a, l, c) ==
  /\ apc' = [apc EXCEPT ![a] = l]
  /\ target' = [target EXCEPT ![a] = c]

\* DELETE /connections/:id takes the entry out of the table, and signals
CloseConnection(a, c) ==
  /\ apc[a] = "idle" /\ c \in connections /\ ~ShardLocked(c)
  /\ connections' = connections \ {c}
  /\ AdminGoto(a, "store", c)
  /\ UNCHANGED <<lockVars, policyVars, flowVars, todo>>

\* ConnCounters::close: the flag, then notify_waiters
StoreClosed(a) ==
  /\ apc[a] = "store"
  /\ closed' = [closed EXCEPT ![target[a]] = TRUE]
  /\ AdminGoto(a, "notify", target[a])
  /\ UNCHANGED <<lockVars, policyVars, connections, waiter, pc, localVars, old, todo>>

Notified(c) == [waiter EXCEPT ![c] = IF @ = "enabled" THEN "woken" ELSE @]

NotifyWaiters(a) ==
  /\ apc[a] = "notify"
  /\ waiter' = Notified(target[a])
  /\ AdminGoto(a, "idle", None)
  /\ UNCHANGED <<lockVars, policyVars, connections, closed, pc, localVars, old, todo>>

\* DELETE /connections
CloseAll(a) ==
  /\ apc[a] = "idle"
  /\ todo' = [todo EXCEPT ![a] = connections]
  /\ AdminGoto(a, "retain", None)
  /\ UNCHANGED <<lockVars, policyVars, connections, flowVars>>

\* Faulty variant of Reload: the generation counts down
CountDown(a) ==
  /\ apc[a] = "idle" /\ writer = None /\ readers = {} /\ generation < MaxGen
  /\ writer' = a
  /\ generation' = generation - 1
  /\ todo' = [todo EXCEPT ![a] = connections]
  /\ AdminGoto(a, "retain", None)
  /\ UNCHANGED <<readers, policyVars, connections, flowVars>>

\* reload_routing takes the write lock and bumps the generation
Reload(a) ==
  /\ apc[a] = "idle" /\ writer = None /\ readers = {} /\ generation < MaxGen
  /\ writer' = a
  /\ generation' = generation + 1
  /\ todo' = [todo EXCEPT ![a] = connections]
  /\ AdminGoto(a, "retain", None)
  /\ UNCHANGED <<readers, policyVars, connections, flowVars>>

\* close_all_connections_counted closes each entry under its shard lock and
\* removes it.  It visits every entry present when it started; one inserted
\* later is visited or not.
RetainStore(a, c) ==
  /\ apc[a] = "retain" /\ c \in connections /\ ~ShardLocked(c)
  /\ closed' = [closed EXCEPT ![c] = TRUE]
  /\ AdminGoto(a, "retainNotify", c)
  /\ UNCHANGED <<lockVars, policyVars, connections, waiter, pc, localVars, old, todo>>

RetainNotify(a) ==
  /\ apc[a] = "retainNotify"
  /\ waiter' = Notified(target[a])
  /\ connections' = connections \ {target[a]}
  /\ AdminGoto(a, "retain", None)
  /\ UNCHANGED <<lockVars, policyVars, closed, pc, localVars, old, todo>>

\* Faulty variant of RetainEnd: it stops before every entry was visited
StopEarly(a) ==
  /\ apc[a] = "retain"
  /\ AdminGoto(a, IF writer = a THEN "install" ELSE "idle", None)
  /\ todo' = [todo EXCEPT ![a] = {}]
  /\ UNCHANGED <<lockVars, policyVars, connections, flowVars>>

RetainEnd(a) ==
  /\ apc[a] = "retain" /\ todo[a] \cap connections = {}
  /\ AdminGoto(a, IF writer = a THEN "install" ELSE "idle", None)
  /\ todo' = [todo EXCEPT ![a] = {}]
  /\ UNCHANGED <<lockVars, policyVars, connections, flowVars>>

\* install_routing under the generation lock
Install(a) ==
  /\ apc[a] = "install"
  /\ needsIp' \in BOOLEAN
  /\ AdminGoto(a, "setmode", None)
  /\ UNCHANGED <<lockVars, mode, connections, flowVars, todo>>

\* the optional set_mode, then the lock is released
Release(a) ==
  /\ apc[a] = "setmode"
  /\ mode' \in Modes
  /\ writer' = None
  /\ old' = {c \in Conns : pc[c] \in Deciding \cup Guarded}
  /\ AdminGoto(a, "idle", None)
  /\ UNCHANGED <<generation, readers, needsIp, connections, closed, waiter, pc, localVars, todo>>

\* update_routing, update_rules: publish without touching active flows
UpdateRouting(a) ==
  /\ apc[a] = "idle"
  /\ needsIp' = ~needsIp
  /\ UNCHANGED <<lockVars, mode, connections, flowVars, adminVars>>

\* PATCH /configs
PatchMode(a) ==
  /\ apc[a] = "idle"
  /\ mode' \in Modes \ {mode}
  /\ UNCHANGED <<lockVars, needsIp, connections, flowVars, adminVars>>

---------------------------------------------------------------------------
\* What the scheduler owes a task: every step it can take by itself
TaskStep(c) ==
  \/ ReadModeLazy(c) \/ ReadMode(c) \/ ReadRouteLazy(c) \/ ReadRoute(c)
  \/ ResolveDone(c) \/ Validate(c) \/ Insert(c)
  \/ Enable(c) \/ CheckClosed(c) \/ Cancelled(c) \/ DropGuard(c)

AdminStep(a) ==
  \/ StoreClosed(a) \/ NotifyWaiters(a)
  \/ \E c \in Conns : RetainStore(a, c)
  \/ RetainNotify(a) \/ RetainEnd(a) \/ Install(a) \/ Release(a)

ConnNext(c) == Capture(c) \/ TaskStep(c) \/ AbortSetup(c) \/ FutureEnds(c)

AdminNext(a) ==
  \/ AdminStep(a)
  \/ \E c \in Conns : CloseConnection(a, c)
  \/ CloseAll(a) \/ Reload(a) \/ UpdateRouting(a) \/ PatchMode(a)

Next == (\E c \in Conns : ConnNext(c)) \/ (\E a \in Admins : AdminNext(a))

Spec == Init /\ [][Next]_vars

FairSpec ==
  /\ Spec
  /\ \A c \in Conns : WF_vars(TaskStep(c))
  /\ \A a \in Admins : WF_vars(AdminStep(a))

---------------------------------------------------------------------------
\* No flow decided by an older generation outlives a cold reload: once the
\* write lock is free, every guarded connection that captured an older
\* generation has been signalled, or the API task that removed it from the
\* table is about to (reload_routing, TcpAdmission::track).
NoStaleFlow ==
  writer = None =>
    \A c \in Conns : pc[c] \in Guarded /\ adm[c] # generation
                       => closed[c] \/ Closing(c)

\* A guarded connection of the current generation was decided from a mode and
\* a route table both read after the last cold reload had published its own:
\* setup never carries an older decision into the new generation
\* (tcp_admission is taken before the mode and the table are read).
DecidedFromCurrentPolicy ==
  \A c \in Conns :
    pc[c] \in Guarded /\ adm[c] = generation /\ writer = None => c \notin old

\* No lost wake-up: a connection that runs its dial or relay although its
\* close flag is set has been woken, or the closer that set the flag has not
\* called notify_waiters yet (ConnCounters::closed registers before it looks).
NoLostWakeup ==
  \A c \in Conns :
    pc[c] = "run" /\ closed[c] => waiter[c] = "woken" \/ Closing(c) \/ ShardLocked(c)

\* Everything that still runs can be found and cancelled: a guarded connection
\* is in the table, or it has been signalled, or its closer is on the way; and
\* the entry is gone once its task is (ConnectionGuard::drop).
TableIsComplete ==
  \A c \in Conns :
    /\ pc[c] \in Guarded => c \in connections \/ closed[c] \/ Closing(c)
    /\ c \in connections => pc[c] \in Guarded

\* A setup or flow whose generation a cold reload has passed ends: it is
\* refused at registration, or cancelled while it dials or relays.
StaleFlowsEnd ==
  \A c \in Conns :
    (pc[c] # "new" /\ adm[c] # generation) ~> (pc[c] = "done")

\* A connection whose closure was requested ends, wherever its task was
SignalledFlowsEnd == \A c \in Conns : closed[c] ~> (pc[c] = "done")
=============================================================================
