----------------------------- MODULE AnyTlsPool -----------------------------
(* The pool of AnyTLS client sessions (meow-anytls: client/session_pool.rs,    *)
(* client/client.rs).  A caller takes the newest live session of the pool, or  *)
(* dials one and adds it, and opens a stream on it; the session stays in the   *)
(* pool, where a periodic task retires the ones that are idle.  What happens   *)
(* inside a session is AnyTlsSession; here it carries a set of streams and is  *)
(* closed or not.                                                              *)
EXTENDS Integers, FiniteSets, FiniteSetsExt

CONSTANTS Callers, None,
          Sessions,      \* sequence numbers, in the order of creation
          IdleTimeout,   \* idle_timeout, in ticks
          MinIdle,       \* min_idle_sessions
          MaxNow         \* bound on the clock

VARIABLES
  now,
  live,       \* the state of each session: "none", "open" or "closed"
  streams,    \* the stream table of each session
  pool,       \* idle_sessions: the pooled sequence numbers
  since,      \* idle_since of each session
  pc, ses,    \* each caller: state and session
  stamp,      \* the time a caller's session was last stamped for it
  cpc,        \* the cleanup task
  cnow,       \* the time it read before it took the lock
  todo,       \* the sessions it has not looked at yet
  active,     \* active_count
  doomed,     \* to_remove
  orphans     \* history: sessions whose dial was dropped before they were pooled

taskVars == <<pc, ses, stamp>>
cleanupVars == <<cpc, cnow, todo, active, doomed>>
vars == <<now, live, streams, pool, since, taskVars, cleanupVars, orphans>>

\* Types, and only open sessions carry streams.
TypeOK ==
  /\ now \in 0..MaxNow /\ cnow \in 0..MaxNow
  /\ live \in [Sessions -> {"none", "open", "closed"}]
  /\ streams \in [Sessions -> SUBSET Callers]
  /\ \A s \in Sessions : streams[s] # {} => live[s] = "open"
  /\ pool \subseteq Sessions /\ since \in [Sessions -> 0..MaxNow]
  /\ pc \in [Callers -> {"idle", "dial", "start", "add", "got", "stream", "half"}]
  /\ ses \in [Callers -> Sessions \cup {None}] /\ stamp \in [Callers -> 0..MaxNow]
  /\ cpc \in {"tick", "lock", "scan", "remove", "aborted"}
  /\ todo \subseteq Sessions /\ doomed \subseteq Sessions
  /\ active \in 0..Cardinality(Sessions)
  /\ orphans \subseteq Sessions

Init ==
  /\ now = 0 /\ cnow = 0
  /\ live = [s \in Sessions |-> "none"] /\ streams = [s \in Sessions |-> {}]
  /\ pool = {} /\ since = [s \in Sessions |-> 0]
  /\ pc = [c \in Callers |-> "idle"] /\ ses = [c \in Callers |-> None]
  /\ stamp = [c \in Callers |-> 0]
  /\ cpc = "tick" /\ todo = {} /\ active = 0 /\ doomed = {}
  /\ orphans = {}

\* The cleanup task holds the write lock of the pool while it scans and removes
Unlocked == cpc \notin {"scan", "remove"}

Goto(c, l) == pc' = [pc EXCEPT ![c] = l]
Leave(c) == Goto(c, "idle") /\ ses' = [ses EXCEPT ![c] = None] /\ stamp' = [stamp EXCEPT ![c] = 0]

---------------------------------------------------------------------------
(* create_stream and create_new_session                                        *)

\* Faulty variant of GetIdleSession: the session is handed out as it is
GetUntouched(c) ==
  /\ pc[c] = "idle" /\ Unlocked
  /\ LET open == {s \in pool : live[s] = "open"} IN
     \/ /\ open = {}
        /\ pool' = {} /\ Goto(c, "dial") /\ UNCHANGED <<since, ses, stamp>>
     \/ /\ open # {}
        /\ pool' = {s \in pool : s <= Max(open)}
        /\ Goto(c, "got") /\ ses' = [ses EXCEPT ![c] = Max(open)]
        /\ stamp' = [stamp EXCEPT ![c] = now] /\ UNCHANGED since
  /\ UNCHANGED <<now, live, streams, cleanupVars, orphans>>

\* get_idle_session: the newest live session is touched and left in the pool; the closed
\* ones met on the way to it are pruned
GetIdleSession(c) ==
  /\ pc[c] = "idle" /\ Unlocked
  /\ LET open == {s \in pool : live[s] = "open"} IN
     \/ /\ open = {}
        /\ pool' = {} /\ Goto(c, "dial") /\ UNCHANGED <<since, ses, stamp>>
     \/ /\ open # {}
        /\ pool' = {s \in pool : s <= Max(open)}
        /\ since' = [since EXCEPT ![Max(open)] = now]
        /\ Goto(c, "got") /\ ses' = [ses EXCEPT ![c] = Max(open)]
        /\ stamp' = [stamp EXCEPT ![c] = now]
  /\ UNCHANGED <<now, live, streams, cleanupVars, orphans>>

\* The connection, TLS and the authentication succeed and the session starts
CreateNewSession(c) ==
  /\ pc[c] = "dial"
  /\ \E s \in Sessions :
       /\ live[s] = "none" /\ \A r \in Sessions : r < s => live[r] # "none"
       /\ live' = [live EXCEPT ![s] = "open"]
       /\ ses' = [ses EXCEPT ![c] = s]
  /\ Goto(c, "start")
  /\ UNCHANGED <<now, streams, pool, since, stamp, cleanupVars, orphans>>

DialFails(c) ==
  /\ pc[c] = "dial" /\ Leave(c)
  /\ UNCHANGED <<now, live, streams, pool, since, cleanupVars, orphans>>

\* add_idle_session: a session that is closed already is not added; the time is read
\* before the lock is taken
AddBegin(c) ==
  /\ pc[c] = "start"
  /\ Goto(c, IF live[ses[c]] = "closed" THEN "got" ELSE "add")
  /\ stamp' = [stamp EXCEPT ![c] = now]
  /\ UNCHANGED <<now, live, streams, pool, since, ses, cleanupVars, orphans>>

AddIdleSession(c) ==
  /\ pc[c] = "add" /\ Unlocked /\ cpc # "aborted"
  /\ pool' = pool \cup {ses[c]} /\ since' = [since EXCEPT ![ses[c]] = stamp[c]]
  /\ Goto(c, "got")
  /\ UNCHANGED <<now, live, streams, ses, stamp, cleanupVars, orphans>>

\* open_stream registers the stream unless the session is closed
OpenStream(c) ==
  /\ pc[c] = "got"
  /\ \/ /\ live[ses[c]] = "closed" /\ Leave(c) /\ UNCHANGED streams
     \/ /\ live[ses[c]] = "open"
        /\ streams' = [streams EXCEPT ![ses[c]] = @ \cup {c}]
        /\ Goto(c, "stream") /\ UNCHANGED <<ses, stamp>>
  /\ UNCHANGED <<now, live, pool, since, cleanupVars, orphans>>

\* The stream is over and its FIN is written, which takes it out of the table
StreamEnds(c) ==
  /\ pc[c] \in {"stream", "half"}
  /\ streams' = [streams EXCEPT ![ses[c]] = @ \ {c}]
  /\ Leave(c)
  /\ UNCHANGED <<now, live, pool, since, cleanupVars, orphans>>

\* The server's FIN takes the stream out of the table while the caller may still write
PeerFin(c) ==
  /\ pc[c] = "stream"
  /\ streams' = [streams EXCEPT ![ses[c]] = @ \ {c}]
  /\ Goto(c, "half")
  /\ UNCHANGED <<now, live, pool, since, ses, stamp, cleanupVars, orphans>>

\* A dial is dropped where it awaits.  Before the session starts nothing is left of it;
\* after that its own tasks keep it alive.
CancelDial(c) ==
  /\ pc[c] \in {"dial", "add", "got"}
  /\ orphans' = IF pc[c] = "add" THEN orphans \cup {ses[c]} ELSE orphans
  /\ Leave(c)
  /\ UNCHANGED <<now, live, streams, pool, since, cleanupVars>>

---------------------------------------------------------------------------
(* The end of a session                                                        *)

Closed(s) ==
  /\ live' = [live EXCEPT ![s] = "closed"]
  /\ streams' = [streams EXCEPT ![s] = {}]

\* Streams of a closed session end with an error
Ended(s) ==
  LET cut == {c \in Callers : ses[c] = s /\ pc[c] \in {"stream", "half"}} IN
  /\ pc' = [c \in Callers |-> IF c \in cut THEN "idle" ELSE pc[c]]
  /\ ses' = [c \in Callers |-> IF c \in cut THEN None ELSE ses[c]]
  /\ stamp' = [c \in Callers |-> IF c \in cut THEN 0 ELSE stamp[c]]

\* The server closes it, a write fails or its heartbeat stays unanswered
SessionDies(s) ==
  /\ live[s] = "open"
  /\ Closed(s) /\ Ended(s)
  /\ orphans' = orphans \ {s}
  /\ UNCHANGED <<now, pool, since, cleanupVars>>

---------------------------------------------------------------------------
(* The cleanup task                                                            *)

\* The interval elapses; the time is read before the lock is awaited
CleanupTick ==
  /\ cpc = "tick"
  /\ cpc' = "lock" /\ cnow' = now
  /\ UNCHANGED <<now, live, streams, pool, since, taskVars, todo, active, doomed, orphans>>

CleanupLock ==
  /\ cpc = "lock"
  /\ cpc' = IF pool = {} THEN "tick" ELSE "scan"
  /\ todo' = pool /\ active' = 0 /\ doomed' = {}
  /\ UNCHANGED <<now, live, streams, pool, since, taskVars, cnow, orphans>>

\* duration_since saturates at zero
IdleFor(s) == IF since[s] > cnow THEN 0 ELSE cnow - since[s]

\* Faulty variant of Kept: the idle time alone decides
KeptFresh(s) == IdleFor(s) < IdleTimeout \/ active < MinIdle

\* A session that carries streams, is not idle for long enough or belongs to the minimum
Kept(s) == streams[s] # {} \/ IdleFor(s) < IdleTimeout \/ active < MinIdle

\* One session is looked at, oldest first; has_active_streams awaits
Scan ==
  /\ cpc = "scan" /\ todo # {}
  /\ LET s == Min(todo) IN
       /\ todo' = todo \ {s}
       /\ IF live[s] = "open" /\ Kept(s)
          THEN active' = active + 1 /\ UNCHANGED doomed
          ELSE doomed' = doomed \cup {s} /\ UNCHANGED active
  /\ UNCHANGED <<now, live, streams, pool, since, taskVars, cpc, cnow, orphans>>

ScanDone ==
  /\ cpc = "scan" /\ todo = {}
  /\ cpc' = "remove"
  /\ UNCHANGED <<now, live, streams, pool, since, taskVars, cnow, todo, active, doomed, orphans>>

\* The marked sessions are removed and closed, each close awaiting its shutdown
Remove ==
  /\ cpc = "remove" /\ doomed # {}
  /\ LET s == Min(doomed) IN
       /\ doomed' = doomed \ {s} /\ pool' = pool \ {s}
       /\ Closed(s) /\ Ended(s)
  /\ UNCHANGED <<now, since, cpc, cnow, todo, active, orphans>>

CleanupDone ==
  /\ cpc = "remove" /\ doomed = {}
  /\ cpc' = "tick"
  /\ cnow' = 0 /\ active' = 0
  /\ UNCHANGED <<now, live, streams, pool, since, taskVars, todo, doomed, orphans>>

Cleanup == CleanupTick \/ CleanupLock \/ Scan \/ ScanDone \/ Remove \/ CleanupDone

\* Drop of the pool, after its adapter was replaced: the task is aborted, and the sessions
\* are left to the tasks that hold them
DropPool ==
  /\ cpc # "aborted" /\ \A c \in Callers : pc[c] \notin {"dial", "start", "add"}
  /\ cpc' = "aborted" /\ todo' = {} /\ doomed' = {} /\ active' = 0 /\ cnow' = 0
  /\ pool' = {}
  /\ UNCHANGED <<now, live, streams, since, taskVars, orphans>>

---------------------------------------------------------------------------
\* A caller that was handed a session opens its stream within idle_timeout
Tick ==
  /\ now < MaxNow
  /\ \A c \in Callers : pc[c] \in {"add", "got"} => now + 1 < stamp[c] + IdleTimeout
  /\ now' = now + 1
  /\ UNCHANGED <<live, streams, pool, since, taskVars, cleanupVars, orphans>>

Next ==
  \/ \E c \in Callers :
       \/ cpc # "aborted" /\ GetIdleSession(c)
       \/ CreateNewSession(c) \/ DialFails(c) \/ AddBegin(c) \/ AddIdleSession(c)
       \/ OpenStream(c) \/ StreamEnds(c) \/ PeerFin(c) \/ CancelDial(c)
  \/ \E s \in Sessions : SessionDies(s)
  \/ Cleanup \/ DropPool \/ Tick

Spec == Init /\ [][Next]_vars

---------------------------------------------------------------------------
\* The cleanup closes a live session only if it carries no stream and no caller is about
\* to open one on it, although it decides before it awaits the sessions after this one.
\* A stream the server has finished does not count.
RetiresOnlyUnused ==
  [][Remove => LET s == Min(doomed) IN
       live[s] = "open" =>
         streams[s] = {} /\ \A c \in Callers : ses[c] = s => pc[c] = "half"]_vars

\* While there is a pool, an open session is in it or about to be added, so that the
\* cleanup can retire it: none is kept alive by its own heartbeat alone, unless its dial
\* was dropped while it waited for the pool's lock.
NoneForgotten ==
  cpc # "aborted" =>
    \A s \in Sessions : live[s] = "open" =>
      \/ s \in pool \cup orphans
      \/ \E c \in Callers : ses[c] = s /\ pc[c] \in {"start", "add"}
=============================================================================
