------------------------------ MODULE MuxPool ------------------------------
(***************************************************************************)
(* The client pool of multiplexed sessions (meow-proxy: mux/client.rs).    *)
(* Each caller is one open_stream call: it takes the pool mutex, prunes,   *)
(* reserves a slot on the least loaded session or dials a new one while    *)
(* holding the mutex, opens its stream, retries once, and later drops the  *)
(* stream.  Slots are released without the mutex, at any moment.           *)
(***************************************************************************)
EXTENDS Integers, FiniteSets, FiniteSetTheorems, TLAPS

CONSTANTS Callers, None,
          Sessions,                                 \* numbers, in the order of creation
          MaxConnections, MinStreams, MaxStreams,   \* MuxOptions
          IdleTimeout,                              \* IDLE_TIMEOUT, in ticks
          Width,                                    \* values of the clock word
          MaxNow                                    \* bound on the clock

MuxAssumption ==
  /\ Sessions \subseteq Nat /\ Callers \subseteq Nat /\ IsFiniteSet(Callers)
  /\ {MaxConnections, MinStreams, MaxStreams, IdleTimeout, Width, MaxNow} \subseteq Nat
  /\ IdleTimeout < Width
  /\ None \notin Callers /\ None \notin Sessions

VARIABLES
  now,                 \* now_ms, before truncation
  pool,                \* the sessions in the deque
  created,             \* sessions dialled so far
  unusable,            \* sessions that are dead, or retired
  streams, lastUsed,   \* the counters of each session
  idled,               \* history: sessions evicted as idle
  lock,                \* the pool mutex: its holder, or None
  pc, ses, tries,      \* each caller: state, session, attempts made
  clock, load          \* the mutex holder's locals: the clock and load it read

holderVars == <<lock, clock, load>>
sessionVars == <<created, unusable, lastUsed, idled>>
vars == <<now, pool, streams, sessionVars, holderVars, pc, ses, tries>>

States == {"new", "offer", "prune", "pick", "load", "reserve", "dial", "open",
           "stream", "done"}

\* The callers that hold a slot of a session: while opening, and afterwards
Holders(s) == {c \in Callers : ses[c] = s /\ pc[c] \in {"open", "stream"}}

\* Types: a pooled session was dialled, and a stream count stays between zero and the callers.
TypeOK ==
  /\ now \in 0..MaxNow /\ clock \in 0..(Width - 1)
  /\ created \subseteq Sessions
  /\ pool \subseteq created /\ unusable \subseteq created /\ idled \subseteq created
  /\ streams \in [Sessions -> 0..Cardinality(Callers)]
  /\ lastUsed \in [Sessions -> 0..(Width - 1)]
  /\ lock \in Callers \cup {None}
  /\ load \in 0..Cardinality(Callers)
  /\ pc \in [Callers -> States]
  /\ ses \in [Callers -> Sessions \cup {None}]
  /\ tries \in [Callers -> 0..2]

Init ==
  /\ now = 0 /\ clock = 0 /\ load = 0
  /\ pool = {} /\ created = {} /\ unusable = {} /\ idled = {}
  /\ streams = [s \in Sessions |-> 0] /\ lastUsed = [s \in Sessions |-> 0]
  /\ lock = None
  /\ pc = [c \in Callers |-> "new"] /\ ses = [c \in Callers |-> None]
  /\ tries = [c \in Callers |-> 0]

Goto(c, l) == pc' = [pc EXCEPT ![c] = l] /\ UNCHANGED tries

\* The call is over, or has its stream: its attempts no longer matter
Settle(c, l) == pc' = [pc EXCEPT ![c] = l] /\ tries' = [tries EXCEPT ![c] = 0]
NowMs == now % Width

---------------------------------------------------------------------------
(* open_stream_flags and offer                                             *)

\* An attempt begins: at most two are made.  Callers are numbered in the order they come.
Attempt(c) ==
  /\ pc[c] = "new" /\ tries[c] < 2
  /\ \A d \in Callers : d < c => pc[d] # "new" \/ tries[d] > 0
  /\ tries' = [tries EXCEPT ![c] = @ + 1]
  /\ pc' = [pc EXCEPT ![c] = "offer"]
  /\ UNCHANGED <<now, pool, streams, sessionVars, holderVars, ses>>

\* Both attempts failed
GiveUp(c) ==
  /\ pc[c] = "new" /\ tries[c] = 2
  /\ Settle(c, "done")
  /\ UNCHANGED <<now, pool, streams, sessionVars, holderVars, ses>>

\* The mutex is taken and the clock read
Lock(c) ==
  /\ pc[c] = "offer" /\ lock = None
  /\ lock' = c /\ clock' = NowMs
  /\ Goto(c, "prune")
  /\ UNCHANGED <<now, pool, streams, sessionVars, load, ses>>

Idle(s) == (clock - lastUsed[s]) % Width >= IdleTimeout

\* Faulty variant of Evictable: the streams of the session are not looked at
EvictableBusy(s) == Idle(s)

Evictable(s) == streams[s] = 0 /\ Idle(s)

\* retain: unusable sessions go, and so do idle ones without streams
Prune(c) ==
  /\ pc[c] = "prune"
  /\ LET idle == {s \in pool \ unusable : Evictable(s)} IN
       /\ pool' = (pool \ unusable) \ idle
       /\ idled' = idled \cup idle
  /\ Goto(c, "pick")
  /\ UNCHANGED <<now, streams, created, unusable, lastUsed, holderVars, ses>>

\* min_by_key: a least loaded session, if there is any.  The loads of the
\* sessions are read as one snapshot; Load reads the chosen one again.
Pick(c) ==
  /\ pc[c] = "pick"
  /\ IF pool = {} THEN Goto(c, "dial") /\ UNCHANGED ses
     ELSE /\ \E s \in pool : /\ \A r \in pool : streams[s] <= streams[r]
                             /\ ses' = [ses EXCEPT ![c] = s]
          /\ Goto(c, "load")
  /\ UNCHANGED <<now, pool, streams, sessionVars, holderVars>>

Reuse(n) ==
  \/ n = 0
  \/ MaxConnections > 0 /\ (Cardinality(pool) >= MaxConnections \/ n < MinStreams)
  \/ MaxConnections = 0 /\ (n < MinStreams \/ (MaxStreams > 0 /\ n < MaxStreams))

\* The load is read and the decision taken; a session that cannot take the
\* stream is left alone, and a new one dialled
Load(c) ==
  /\ pc[c] = "load"
  /\ load' = streams[ses[c]]
  /\ IF Reuse(load') THEN Goto(c, "reserve") /\ UNCHANGED ses
     ELSE Goto(c, "dial") /\ ses' = [ses EXCEPT ![c] = None]
  /\ UNCHANGED <<now, pool, streams, sessionVars, lock, clock>>

\* Faulty variant of Reserve: the counter is stored from the load read before
ReserveStored(c) ==
  /\ pc[c] = "reserve"
  /\ streams' = [streams EXCEPT ![ses[c]] = load + 1]
  /\ lock' = None /\ clock' = 0 /\ load' = 0
  /\ Goto(c, "open")
  /\ UNCHANGED <<now, pool, sessionVars, ses>>

\* compare_exchange: the slot is reserved and the mutex released, or the load
\* has changed and is read again
Reserve(c) ==
  /\ pc[c] = "reserve"
  /\ IF streams[ses[c]] = load
     THEN /\ streams' = [streams EXCEPT ![ses[c]] = load + 1]
          /\ lock' = None /\ clock' = 0 /\ load' = 0
          /\ Goto(c, "open")
     ELSE Goto(c, "load") /\ UNCHANGED <<streams, holderVars>>
  /\ UNCHANGED <<now, pool, sessionVars, ses>>

\* offer_new_locked: the new session joins the pool with the caller's slot
DialOk(c) ==
  /\ pc[c] = "dial"
  /\ \E s \in Sessions \ created :
       /\ \A r \in Sessions : r < s => r \in created
       /\ created' = created \cup {s} /\ pool' = pool \cup {s}
       /\ streams' = [streams EXCEPT ![s] = 1]
       /\ lastUsed' = [lastUsed EXCEPT ![s] = NowMs]
       /\ ses' = [ses EXCEPT ![c] = s]
  /\ lock' = None /\ clock' = 0 /\ load' = 0
  /\ Goto(c, "open")
  /\ UNCHANGED <<now, unusable, idled>>

\* The dial fails, or SESSION_SETUP_TIMEOUT ends it: the error is returned
\* without another attempt
DialError(c) ==
  /\ pc[c] = "dial"
  /\ lock' = None /\ clock' = 0 /\ load' = 0
  /\ Settle(c, "done")
  /\ UNCHANGED <<now, pool, streams, sessionVars, ses>>

\* The stream opens: the reservation becomes its slot
OpenOk(c) ==
  /\ pc[c] = "open" /\ ses[c] \notin unusable
  /\ lastUsed' = [lastUsed EXCEPT ![ses[c]] = NowMs]
  /\ Settle(c, "stream")
  /\ UNCHANGED <<now, pool, streams, created, unusable, idled, holderVars, ses>>

Release(c) ==
  /\ streams' = [streams EXCEPT ![ses[c]] = @ - 1]
  /\ ses' = [ses EXCEPT ![c] = None]
  /\ UNCHANGED <<now, pool, sessionVars, holderVars>>

\* The session rejects the stream: the reservation is dropped, and the next
\* attempt begins
OpenError(c) == pc[c] = "open" /\ Release(c) /\ Goto(c, "new")

\* The future is dropped while the stream opens: Reservation::drop
CancelOpen(c) == pc[c] = "open" /\ Release(c) /\ Settle(c, "done")

\* Faulty variant of CancelOffer: a cancelled dial keeps the mutex
CancelKeepsLock(c) ==
  /\ pc[c] \in {"offer", "dial"}
  /\ Settle(c, "done")
  /\ UNCHANGED <<now, pool, streams, sessionVars, holderVars, ses>>

\* The future is dropped while it waits for the mutex, or while it dials: the
\* mutex is released
CancelOffer(c) ==
  /\ pc[c] \in {"offer", "dial"}
  /\ IF lock = c THEN lock' = None /\ clock' = 0 /\ load' = 0 ELSE UNCHANGED holderVars
  /\ Settle(c, "done")
  /\ UNCHANGED <<now, pool, streams, sessionVars, ses>>

\* MuxStreamConn::drop
DropStream(c) == pc[c] = "stream" /\ Release(c) /\ Settle(c, "done")

---------------------------------------------------------------------------
\* A physical connection dies, or a Mux.Cool session runs out of stream ids
Fail(s) ==
  /\ s \in created \ unusable
  /\ unusable' = unusable \cup {s}
  /\ UNCHANGED <<now, pool, streams, created, lastUsed, idled, holderVars, pc, ses, tries>>

ClockTick ==
  /\ now < MaxNow /\ now' = now + 1
  /\ UNCHANGED <<pool, streams, sessionVars, holderVars, pc, ses, tries>>

Offer(c) ==
  \/ Attempt(c) \/ GiveUp(c) \/ Lock(c) \/ Prune(c) \/ Pick(c) \/ Load(c)
  \/ Reserve(c) \/ DialOk(c) \/ DialError(c)

Next ==
  \/ \E c \in Callers : Offer(c) \/ OpenOk(c) \/ OpenError(c) \/ CancelOpen(c)
                        \/ CancelOffer(c) \/ DropStream(c)
  \/ \E s \in Sessions : Fail(s)
  \/ ClockTick

Spec == Init /\ [][Next]_vars

\* A caller that can run is polled, the setup timeout ends every dial, and the
\* tokio mutex queues its waiters in order of arrival.
FairSpec ==
  /\ Spec
  /\ \A c \in Callers : WF_vars(Offer(c)) /\ SF_vars(Lock(c))

---------------------------------------------------------------------------
\* The counter of every session is the number of callers that hold one of its
\* slots, through cancelled opens, failed opens and concurrent drops: no slot
\* leaks and none is released twice.
SlotsBalance == \A s \in Sessions : streams[s] = Cardinality(Holders(s))

\* No caller ever holds a slot of a session that was evicted as idle
\* (reservations are made under the mutex that retain holds).
IdleEvictionIsHarmless == \A s \in idled : Holders(s) = {}

\* The pool never holds more connections than configured, though each dial is
\* an await (the mutex is held across offer_new_locked).
WithinMaxConnections == MaxConnections > 0 => Cardinality(pool) <= MaxConnections

\* A caller that waits in offer gets a session or an error, though others dial
\* while they hold the mutex.
OfferTerminates ==
  \A c \in Callers : pc[c] = "offer" ~> pc[c] \in {"open", "stream", "done"}

\* The load below which a session takes a stream without max-connections: min-streams is
\* honoured first
StreamLimit == IF MinStreams > MaxStreams THEN MinStreams ELSE MaxStreams

\* Concurrent offers never overshoot max-streams (the comment of offer), as long
\* as neither max-connections nor a larger min-streams takes precedence over it.
NeverOvershoot == MaxConnections = 0 /\ MaxStreams > 0 => \A s \in pool : streams[s] <= StreamLimit

\* What open_stream_flags and offer promise: the slots of each session are held by exactly
\* the callers counted, the limits are kept, and an idle eviction takes no session that
\* carries a stream, whatever is cancelled, dropped or fails meanwhile.
PoolSound ==
  TypeOK /\ SlotsBalance /\ WithinMaxConnections /\ NeverOvershoot /\ IdleEvictionIsHarmless

---------------------------------------------------------------------------
(* Proofs about the pool of mux sessions, for any number of callers and    *)
(* sessions, any limits and any width of the clock word.                   *)

\* The types, without the bounds on the counters
Typed ==
  /\ now \in 0..MaxNow /\ clock \in 0..(Width - 1)
  /\ created \subseteq Sessions
  /\ pool \subseteq created /\ unusable \subseteq created /\ idled \subseteq created
  /\ IsFiniteSet(pool)
  /\ streams \in [Sessions -> Nat] /\ lastUsed \in [Sessions -> 0..(Width - 1)]
  /\ lock \in Callers \cup {None} /\ load \in Nat
  /\ pc \in [Callers -> States] /\ ses \in [Callers -> Sessions \cup {None}]
  /\ tries \in [Callers -> 0..2]

\* A caller between Lock and the end of its offer holds the mutex, and no other one does
Mutex == \A c \in Callers : pc[c] \in {"prune", "pick", "load", "reserve", "dial"} <=> lock = c

\* The session chosen under the mutex stays in the pool, that of a slot was dialled, and one
\* evicted as idle does not come back
Chosen ==
  /\ \A c \in Callers : pc[c] \in {"load", "reserve"} => ses[c] \in pool
  /\ \A c \in Callers : pc[c] \in {"open", "stream"} => ses[c] \in created
  /\ idled \cap pool = {}

\* What the decision to reuse or to dial was based on still holds when it is carried out
Decided ==
  \A c \in Callers :
    /\ pc[c] = "reserve" /\ MaxConnections = 0 /\ MaxStreams > 0 => load < StreamLimit
    /\ pc[c] = "dial" /\ MaxConnections > 0 => Cardinality(pool) < MaxConnections

Control == Mutex /\ Chosen /\ Decided

Limits == WithinMaxConnections /\ NeverOvershoot /\ IdleEvictionIsHarmless

PoolInv == Typed /\ Control /\ SlotsBalance /\ Limits

---------------------------------------------------------------------------
LEMMA ClockRange == ASSUME MuxAssumption, NEW n \in Nat PROVE n % Width \in 0..(Width - 1)
BY DEF MuxAssumption

LEMMA HoldersFinite == ASSUME MuxAssumption, NEW s PROVE IsFiniteSet(Holders(s))
BY FS_Subset DEF MuxAssumption, Holders

\* A caller with a slot is counted
LEMMA SlotCounted ==
  ASSUME MuxAssumption, Typed, Chosen, SlotsBalance, NEW c \in Callers, pc[c] \in {"open", "stream"}
  PROVE  ses[c] \in Sessions /\ streams[ses[c]] \in Nat \ {0}
<1>1. ses[c] \in Sessions /\ c \in Holders(ses[c])
  BY DEF Typed, Chosen, Holders
<1>2. Cardinality(Holders(ses[c])) # 0
  BY <1>1, HoldersFinite, FS_EmptySet, SMTT(30)
<1>3. QED
  BY <1>1, <1>2 DEF SlotsBalance, Typed

LEMMA StepTyped == ASSUME MuxAssumption PROVE PoolInv /\ [Next]_vars => Typed'
<1> SUFFICES ASSUME PoolInv, [Next]_vars PROVE Typed'
  OBVIOUS
<1> USE DEF PoolInv, Control
<1> USE DEF Typed, States, sessionVars, holderVars, Goto, Settle
<1>0. NowMs \in 0..(Width - 1) /\ 0 \in 0..(Width - 1)
  BY ClockRange DEF NowMs, MuxAssumption
<1>1. ASSUME NEW c \in Callers, Attempt(c) PROVE Typed'
  BY <1>1 DEF Attempt
<1>2. ASSUME NEW c \in Callers, GiveUp(c) PROVE Typed'
  BY <1>2 DEF GiveUp
<1>3. ASSUME NEW c \in Callers, Lock(c) PROVE Typed'
  BY <1>0, <1>3 DEF Lock
<1>4. ASSUME NEW c \in Callers, Prune(c) PROVE Typed'
  <2>1. pool' \subseteq pool
    BY <1>4 DEF Prune
  <2>2. IsFiniteSet(pool')
    BY <2>1, FS_Subset
  <2>3. QED
    BY <1>4, <2>1, <2>2 DEF Prune
<1>5. ASSUME NEW c \in Callers, Pick(c) PROVE Typed'
  BY <1>5 DEF Pick
<1>6. ASSUME NEW c \in Callers, Load(c) PROVE Typed'
  <2>1. ses[c] \in Sessions
    BY <1>6 DEF Load, Chosen
  <2>2. QED
    BY <1>6, <2>1 DEF Load
<1>7. ASSUME NEW c \in Callers, Reserve(c) PROVE Typed'
  BY <1>0, <1>7 DEF Reserve
<1>8. ASSUME NEW c \in Callers, DialOk(c) PROVE Typed'
  <2>1. IsFiniteSet(pool')
    BY <1>8, FS_AddElement DEF DialOk
  <2>2. QED
    BY <1>0, <1>8, <2>1 DEF DialOk
<1>9. ASSUME NEW c \in Callers, DialError(c) PROVE Typed'
  BY <1>0, <1>9 DEF DialError
<1>10. ASSUME NEW c \in Callers, OpenOk(c) PROVE Typed'
  <2>1. lastUsed' \in [Sessions -> 0..(Width - 1)]
    BY <1>0, <1>10, Zenon DEF OpenOk
  <2>2. pc' \in [Callers -> States] /\ tries' \in [Callers -> 0..2]
    BY <1>10 DEF OpenOk
  <2>3. QED
    BY <1>10, <2>1, <2>2 DEF OpenOk
<1>11. ASSUME NEW c \in Callers, CancelOffer(c) PROVE Typed'
  BY <1>0, <1>11 DEF CancelOffer
<1>12. ASSUME NEW c \in Callers, OpenError(c) \/ CancelOpen(c) \/ DropStream(c) PROVE Typed'
  <2>1. streams[ses[c]] \in Nat \ {0}
    BY <1>12, SlotCounted DEF OpenError, CancelOpen, DropStream
  <2>2. streams' \in [Sessions -> Nat] /\ ses' \in [Callers -> Sessions \cup {None}]
    BY <1>12, <2>1 DEF OpenError, CancelOpen, DropStream, Release
  <2>3. QED
    BY <1>12, <2>2 DEF OpenError, CancelOpen, DropStream, Release
<1>13. ASSUME NEW s \in Sessions, Fail(s) PROVE Typed'
  BY <1>13 DEF Fail
<1>14. CASE ClockTick
  BY <1>14 DEF ClockTick, MuxAssumption
<1>15. CASE UNCHANGED vars
  BY <1>15, SMTT(30) DEF vars
<1>16. QED
  BY <1>1, <1>2, <1>3, <1>4, <1>5, <1>6, <1>7, <1>8, <1>9, <1>10, <1>11, <1>12, <1>13, <1>14, <1>15, Zenon
  DEF Next, Offer

---------------------------------------------------------------------------
\* The mutex, what was chosen under it and what was decided under it
LEMMA StepControl == ASSUME MuxAssumption PROVE PoolInv /\ [Next]_vars => Control'
<1> SUFFICES ASSUME PoolInv, [Next]_vars PROVE Control'
  OBVIOUS
<1> USE DEF PoolInv, Control, Mutex, Chosen, Decided, StreamLimit, Typed, States, sessionVars, holderVars,
            Goto, Settle, MuxAssumption
<1>1. ASSUME NEW c \in Callers, Attempt(c) PROVE Control'
  BY <1>1 DEF Attempt
<1>2. ASSUME NEW c \in Callers, GiveUp(c) PROVE Control'
  BY <1>2 DEF GiveUp
<1>3. ASSUME NEW c \in Callers, Lock(c) PROVE Control'
  BY <1>3 DEF Lock
<1>4. ASSUME NEW c \in Callers, Prune(c) PROVE Control'
  BY <1>4, Zenon DEF Prune
<1>5. ASSUME NEW c \in Callers, Pick(c) PROVE Control'
  <2>1. CASE pool = {}
    <3>1. Cardinality(pool) = 0
      BY <2>1, FS_EmptySet
    <3>2. Mutex'
      BY <1>5, <2>1 DEF Pick
    <3>3. Chosen'
      BY <1>5, <2>1 DEF Pick
    <3>4. Decided'
      BY <1>5, <2>1, <3>1 DEF Pick
    <3>5. QED
      BY <3>2, <3>3, <3>4, Zenon
  <2>2. CASE pool # {}
    BY <1>5, <2>2, Zenon DEF Pick
  <2>3. QED
    BY <2>1, <2>2
<1>6. ASSUME NEW c \in Callers, Load(c) PROVE Control'
  <2>1. Mutex' /\ Chosen'
    BY <1>6 DEF Load
  <2>2. \A d \in Callers \ {c} : pc'[d] = pc[d] /\ pc[d] \notin {"reserve", "dial"}
    BY <1>6 DEF Load
  <2>3. Cardinality(pool) \in Nat /\ load' \in Nat
    BY <1>6, FS_CardinalityType, Zenon DEF Load
  <2>4. Decided'
    BY <1>6, <2>2, <2>3 DEF Load, Reuse
  <2>5. QED
    BY <2>1, <2>4
<1>7. ASSUME NEW c \in Callers, Reserve(c) PROVE Control'
  BY <1>7, ZenonT(30) DEF Reserve
<1>8. ASSUME NEW c \in Callers, DialOk(c) PROVE Control'
  BY <1>8 DEF DialOk
<1>9. ASSUME NEW c \in Callers, DialError(c) PROVE Control'
  BY <1>9 DEF DialError
<1>10. ASSUME NEW c \in Callers, OpenOk(c) PROVE Control'
  BY <1>10 DEF OpenOk
<1>11. ASSUME NEW c \in Callers, CancelOffer(c) PROVE Control'
  BY <1>11 DEF CancelOffer
<1>12. ASSUME NEW c \in Callers, OpenError(c) \/ CancelOpen(c) \/ DropStream(c) PROVE Control'
  <2>1. /\ pc' \in [Callers -> States] /\ \A d \in Callers \ {c} : pc'[d] = pc[d] /\ ses'[d] = ses[d]
        /\ pc[c] \in {"open", "stream"} /\ pc'[c] \in {"new", "done"}
    BY <1>12 DEF OpenError, CancelOpen, DropStream, Release
  <2>2. UNCHANGED <<pool, idled, created, lock, load>>
    BY <1>12 DEF OpenError, CancelOpen, DropStream, Release
  <2>3. QED
    BY <2>1, <2>2
<1>13. ASSUME NEW s \in Sessions, Fail(s) PROVE Control'
  BY <1>13 DEF Fail
<1>14. CASE ClockTick
  BY <1>14 DEF ClockTick
<1>15. CASE UNCHANGED vars
  BY <1>15 DEF vars
<1>16. QED
  BY <1>1, <1>2, <1>3, <1>4, <1>5, <1>6, <1>7, <1>8, <1>9, <1>10, <1>11, <1>12, <1>13, <1>14, <1>15, Zenon
  DEF Next, Offer

---------------------------------------------------------------------------
\* A caller takes a slot of session t, and its counter grows by one
LEMMA SlotTaken ==
  ASSUME MuxAssumption, Typed, SlotsBalance, NEW t \in Sessions, NEW c \in Callers, c \notin Holders(t),
         streams' = [streams EXCEPT ![t] = streams[t] + 1],
         Holders(t)' = Holders(t) \cup {c}, \A s \in Sessions \ {t} : Holders(s)' = Holders(s)
  PROVE  SlotsBalance'
<1>1. Cardinality(Holders(t) \cup {c}) = Cardinality(Holders(t)) + 1
  BY HoldersFinite, FS_AddElement, SMTT(30)
<1>2. QED
  BY <1>1 DEF SlotsBalance, Typed

\* A caller gives its slot of session t back, and the counter shrinks by one
LEMMA SlotReleased ==
  ASSUME MuxAssumption, Typed, SlotsBalance, NEW t \in Sessions, NEW c \in Callers, c \in Holders(t),
         streams' = [streams EXCEPT ![t] = streams[t] - 1],
         Holders(t)' = Holders(t) \ {c}, \A s \in Sessions \ {t} : Holders(s)' = Holders(s)
  PROVE  SlotsBalance'
<1>1. Cardinality(Holders(t) \ {c}) = Cardinality(Holders(t)) - 1
  BY HoldersFinite, FS_RemoveElement, Zenon
<1>2. QED
  BY <1>1, Zenon DEF SlotsBalance, Typed

LEMMA SlotsKept ==
  ASSUME MuxAssumption, Typed, SlotsBalance, UNCHANGED streams,
         \A s \in Sessions : Holders(s)' = Holders(s)
  PROVE  SlotsBalance'
BY DEF SlotsBalance, Typed

\* Who holds a slot, step by step
LEMMA StepBalance == ASSUME MuxAssumption PROVE PoolInv /\ [Next]_vars => SlotsBalance'
<1> SUFFICES ASSUME PoolInv, [Next]_vars PROVE SlotsBalance'
  OBVIOUS
<1> USE DEF PoolInv, Typed, Control, States, sessionVars, holderVars, Goto, Settle
<1>1. ASSUME NEW c \in Callers, Attempt(c) \/ GiveUp(c) \/ Lock(c) \/ Prune(c) \/ Pick(c) \/ Load(c)
                                \/ DialError(c) \/ CancelOffer(c)
      PROVE SlotsBalance'
  <2>1. UNCHANGED streams /\ pc' \in [Callers -> States]
    BY <1>1 DEF Attempt, GiveUp, Lock, Prune, Pick, Load, DialError, CancelOffer
  <2>2. pc[c] \notin {"open", "stream"} /\ pc'[c] \notin {"open", "stream"}
    BY <1>1 DEF Attempt, GiveUp, Lock, Prune, Pick, Load, DialError, CancelOffer
  <2>3. \A d \in Callers \ {c} : pc'[d] = pc[d] /\ ses'[d] = ses[d]
    BY <1>1 DEF Attempt, GiveUp, Lock, Prune, Pick, Load, DialError, CancelOffer
  <2>4. \A s \in Sessions : Holders(s)' = Holders(s)
    BY <2>2, <2>3 DEF Holders
  <2>5. QED
    BY <2>1, <2>4, SlotsKept
<1>2. ASSUME NEW c \in Callers, Reserve(c) PROVE SlotsBalance'
  <2>1. CASE streams[ses[c]] = load
    <3>1. ses[c] \in Sessions /\ c \notin Holders(ses[c])
      BY <1>2 DEF Reserve, Chosen, Holders
    <3>2. streams' = [streams EXCEPT ![ses[c]] = streams[ses[c]] + 1]
      BY <1>2, <2>1 DEF Reserve
    <3>3. \A s \in Sessions : Holders(s)' = IF s = ses[c] THEN Holders(s) \cup {c} ELSE Holders(s)
      BY <1>2, <2>1 DEF Reserve, Holders
    <3>4. QED
      BY <3>1, <3>2, <3>3, SlotTaken, Zenon
  <2>2. CASE streams[ses[c]] # load
    <3>1. UNCHANGED streams /\ \A s \in Sessions : Holders(s)' = Holders(s)
      BY <1>2, <2>2 DEF Reserve, Holders
    <3>2. QED
      BY <3>1, SlotsKept
  <2>3. QED
    BY <2>1, <2>2
<1>3. ASSUME NEW c \in Callers, DialOk(c) PROVE SlotsBalance'
  <2>1. PICK t \in Sessions \ created : /\ streams' = [streams EXCEPT ![t] = 1]
                                        /\ ses' = [ses EXCEPT ![c] = t]
    BY <1>3, Zenon DEF DialOk
  <2>2. pc[c] = "dial" /\ pc' = [pc EXCEPT ![c] = "open"]
    BY <1>3 DEF DialOk
  <2>3. Holders(t) = {}
    BY <2>1 DEF Holders, Chosen
  <2>4. streams[t] = 0
    BY <2>3, FS_EmptySet, Zenon DEF SlotsBalance
  <2>5. \A s \in Sessions : Holders(s)' = IF s = t THEN Holders(s) \cup {c} ELSE Holders(s)
    BY <2>1, <2>2 DEF Holders
  <2>6. streams' = [streams EXCEPT ![t] = streams[t] + 1]
    BY <2>1, <2>4
  <2>7. QED
    BY <2>3, <2>5, <2>6, SlotTaken, Zenon
<1>4. ASSUME NEW c \in Callers, OpenOk(c) PROVE SlotsBalance'
  <2>1. UNCHANGED streams /\ \A s \in Sessions : Holders(s)' = Holders(s)
    BY <1>4 DEF OpenOk, Holders
  <2>2. QED
    BY <2>1, SlotsKept
<1>5. ASSUME NEW c \in Callers, OpenError(c) \/ CancelOpen(c) \/ DropStream(c) PROVE SlotsBalance'
  <2>1. /\ streams' = [streams EXCEPT ![ses[c]] = streams[ses[c]] - 1]
        /\ ses' = [ses EXCEPT ![c] = None]
        /\ pc[c] \in {"open", "stream"}
        /\ pc' \in [Callers -> States] /\ pc'[c] \in {"new", "done"}
        /\ \A d \in Callers \ {c} : pc'[d] = pc[d]
    BY <1>5 DEF OpenError, CancelOpen, DropStream, Release
  <2>2. ses[c] \in Sessions /\ c \in Holders(ses[c])
    BY <2>1 DEF Chosen, Holders
  <2>3. \A s \in Sessions : Holders(s)' = IF s = ses[c] THEN Holders(s) \ {c} ELSE Holders(s)
    BY <2>1 DEF Holders
  <2>4. QED
    BY <2>1, <2>2, <2>3, SlotReleased, Zenon
<1>6. CASE UNCHANGED <<streams, pc, ses>>
  <2>1. \A s \in Sessions : Holders(s)' = Holders(s)
    BY <1>6 DEF Holders
  <2>2. QED
    BY <1>6, <2>1, SlotsKept
<1>7. QED
  BY <1>1, <1>2, <1>3, <1>4, <1>5, <1>6 DEF Next, Offer, Fail, ClockTick, vars

---------------------------------------------------------------------------
\* An evicted session has no holder and gets none; the pool grows only by a dial that was
\* decided for, and a counter only by a reservation that was
LEMMA StepLimits == ASSUME MuxAssumption PROVE PoolInv /\ [Next]_vars => Limits'
<1> SUFFICES ASSUME PoolInv, [Next]_vars PROVE Limits'
  OBVIOUS
<1> USE DEF PoolInv, Typed, Control, Limits, States, sessionVars, holderVars, Goto, Settle, MuxAssumption
<1>1. ASSUME UNCHANGED <<pool, streams, idled>>, \A s \in idled : Holders(s)' \subseteq Holders(s)
      PROVE Limits'
  BY <1>1, Zenon DEF WithinMaxConnections, NeverOvershoot, IdleEvictionIsHarmless
<1>2. ASSUME NEW c \in Callers, Attempt(c) \/ GiveUp(c) \/ Lock(c) \/ Pick(c) \/ Load(c)
                                \/ DialError(c) \/ CancelOffer(c)
      PROVE Limits'
  <2>1. UNCHANGED <<pool, streams, idled>> /\ pc' \in [Callers -> States]
    BY <1>2 DEF Attempt, GiveUp, Lock, Pick, Load, DialError, CancelOffer
  <2>2. pc'[c] \notin {"open", "stream"}
    BY <1>2 DEF Attempt, GiveUp, Lock, Pick, Load, DialError, CancelOffer
  <2>3. \A d \in Callers \ {c} : pc'[d] = pc[d] /\ ses'[d] = ses[d]
    BY <1>2 DEF Attempt, GiveUp, Lock, Pick, Load, DialError, CancelOffer
  <2>4. \A s \in idled : Holders(s)' \subseteq Holders(s)
    BY <2>2, <2>3, Zenon DEF Holders
  <2>5. QED
    BY <1>1, <2>1, <2>4
<1>3. ASSUME NEW c \in Callers, Prune(c) PROVE Limits'
  <2>1. pool' \subseteq pool /\ UNCHANGED streams
    BY <1>3 DEF Prune
  <2>2. IsFiniteSet(pool') /\ Cardinality(pool') <= Cardinality(pool)
    BY <2>1, FS_Subset, Zenon
  <2>3. Cardinality(pool') \in Nat /\ Cardinality(pool) \in Nat
    BY <2>2, FS_CardinalityType
  <2>4. \A s \in idled' \ idled : s \in Sessions /\ streams[s] = 0
    BY <1>3 DEF Prune, Evictable
  <2>5. \A s \in idled' : Holders(s) = {}
    BY <2>4, HoldersFinite, FS_EmptySet, Zenon DEF SlotsBalance, IdleEvictionIsHarmless
  <2>6. \A s \in idled' : Holders(s)' \subseteq Holders(s)
    BY <1>3 DEF Prune, Holders
  <2>7. IdleEvictionIsHarmless'
    BY <2>5, <2>6 DEF IdleEvictionIsHarmless
  <2>8. WithinMaxConnections'
    BY <2>2, <2>3 DEF WithinMaxConnections
  <2>9. NeverOvershoot'
    BY <2>1 DEF NeverOvershoot
  <2>10. QED
    BY <2>7, <2>8, <2>9
<1>4. ASSUME NEW c \in Callers, Reserve(c) PROVE Limits'
  <2>1. CASE streams[ses[c]] = load
    <3>1. ses[c] \in pool /\ ses[c] \notin idled
      BY <1>4, Zenon DEF Reserve, Chosen
    <3>2. \A s \in idled : Holders(s)' \subseteq Holders(s)
      BY <1>4, <2>1, <3>1, Zenon DEF Reserve, Holders
    <3>3. IdleEvictionIsHarmless' /\ WithinMaxConnections'
      BY <1>4, <2>1, <3>2 DEF Reserve, IdleEvictionIsHarmless, WithinMaxConnections
    <3>4. NeverOvershoot'
      BY <1>4, <2>1, <3>1 DEF Reserve, NeverOvershoot, Decided, StreamLimit
    <3>5. QED
      BY <3>3, <3>4
  <2>2. CASE streams[ses[c]] # load
    <3>1. UNCHANGED <<pool, streams, idled>> /\ \A s \in idled : Holders(s)' \subseteq Holders(s)
      BY <1>4, <2>2, Zenon DEF Reserve, Holders
    <3>2. QED
      BY <1>1, <3>1
  <2>3. QED
    BY <2>1, <2>2
<1>5. ASSUME NEW c \in Callers, DialOk(c) PROVE Limits'
  <2>1. PICK t \in Sessions \ created :
          pool' = pool \cup {t} /\ streams' = [streams EXCEPT ![t] = 1] /\ ses' = [ses EXCEPT ![c] = t]
    BY <1>5, Zenon DEF DialOk
  <2>2. pc[c] = "dial" /\ pc' = [pc EXCEPT ![c] = "open"] /\ UNCHANGED idled
    BY <1>5 DEF DialOk
  <2>3. \A s \in idled : Holders(s)' \subseteq Holders(s)
    BY <2>1, <2>2 DEF Holders
  <2>4. IdleEvictionIsHarmless'
    BY <2>2, <2>3 DEF IdleEvictionIsHarmless
  <2>5. Cardinality(pool) \in Nat /\ Cardinality(pool') = Cardinality(pool) + 1
    BY <2>1, FS_AddElement, FS_CardinalityType, Zenon
  <2>6. WithinMaxConnections'
    BY <2>2, <2>5 DEF Decided, WithinMaxConnections
  <2>7. NeverOvershoot'
    BY <2>1 DEF NeverOvershoot, StreamLimit
  <2>8. QED
    BY <2>4, <2>6, <2>7
<1>6. ASSUME NEW c \in Callers, OpenOk(c) PROVE Limits'
  <2>1. UNCHANGED <<pool, streams, idled>> /\ \A s \in idled : Holders(s)' \subseteq Holders(s)
    BY <1>6 DEF OpenOk, Holders
  <2>2. QED
    BY <1>1, <2>1
<1>7. ASSUME NEW c \in Callers, OpenError(c) \/ CancelOpen(c) \/ DropStream(c) PROVE Limits'
  <2>1. /\ streams' = [streams EXCEPT ![ses[c]] = streams[ses[c]] - 1]
        /\ ses' = [ses EXCEPT ![c] = None] /\ UNCHANGED <<pool, idled>>
        /\ pc[c] \in {"open", "stream"}
        /\ pc' \in [Callers -> States] /\ pc'[c] \in {"new", "done"}
        /\ \A d \in Callers \ {c} : pc'[d] = pc[d]
    BY <1>7 DEF OpenError, CancelOpen, DropStream, Release
  <2>2. \A s \in idled : Holders(s)' \subseteq Holders(s)
    BY <2>1 DEF Holders
  <2>3. IdleEvictionIsHarmless' /\ WithinMaxConnections'
    BY <2>1, <2>2 DEF IdleEvictionIsHarmless, WithinMaxConnections
  <2>4. ses[c] \in Sessions /\ streams[ses[c]] \in Nat \ {0}
    BY <2>1, SlotCounted
  <2>5. NeverOvershoot'
    BY <2>1, <2>4 DEF NeverOvershoot, StreamLimit
  <2>6. QED
    BY <2>3, <2>5
<1>8. CASE UNCHANGED <<pool, streams, idled, pc, ses>>
  BY <1>1, <1>8 DEF Holders
<1>9. QED
  BY <1>2, <1>3, <1>4, <1>5, <1>6, <1>7, <1>8 DEF Next, Offer, Fail, ClockTick, vars

---------------------------------------------------------------------------
LEMMA InitPool == ASSUME MuxAssumption PROVE Init => PoolInv
<1> SUFFICES ASSUME Init PROVE PoolInv
  OBVIOUS
<1>1. IsFiniteSet(pool) /\ Cardinality(pool) = 0
  BY FS_EmptySet DEF Init
<1>2. \A s : Holders(s) = {}
  BY DEF Init, Holders
<1>3. Typed
  BY <1>1 DEF Init, Typed, States, MuxAssumption
<1>4. Control
  BY DEF Init, Control, Mutex, Chosen, Decided, MuxAssumption
<1>5. SlotsBalance
  BY <1>2, FS_EmptySet DEF Init, SlotsBalance
<1>6. Limits
  BY <1>1, <1>2 DEF Init, Limits, WithinMaxConnections, NeverOvershoot, IdleEvictionIsHarmless, MuxAssumption
<1>7. QED
  BY <1>3, <1>4, <1>5, <1>6 DEF PoolInv
LEMMA StepPool == ASSUME MuxAssumption PROVE PoolInv /\ [Next]_vars => PoolInv'
BY StepTyped, StepControl, StepBalance, StepLimits DEF PoolInv

\* No counter exceeds the number of callers
LEMMA StreamsBounded ==
  ASSUME MuxAssumption, Typed, SlotsBalance, NEW s \in Sessions
  PROVE  streams[s] \in 0..Cardinality(Callers)
<1>1. Cardinality(Holders(s)) <= Cardinality(Callers)
  BY FS_Subset DEF MuxAssumption, Holders
<1>2. Cardinality(Callers) \in Nat /\ Cardinality(Holders(s)) \in Nat
  BY HoldersFinite, FS_CardinalityType, SMTT(30) DEF MuxAssumption
<1>3. QED
  BY <1>1, <1>2 DEF SlotsBalance

LoadBounded == load \in 0..Cardinality(Callers)

LEMMA StepLoad == ASSUME MuxAssumption PROVE PoolInv /\ LoadBounded /\ [Next]_vars => LoadBounded'
<1> SUFFICES ASSUME PoolInv, LoadBounded, [Next]_vars PROVE LoadBounded'
  OBVIOUS
<1>1. Cardinality(Callers) \in Nat
  BY FS_CardinalityType DEF MuxAssumption
<1>2. ASSUME NEW c \in Callers, Load(c) PROVE LoadBounded'
  BY <1>2, StreamsBounded DEF Load, LoadBounded, PoolInv, Control, Chosen, Typed
<1>3. CASE load' \in {0, load}
  BY <1>1, <1>3 DEF LoadBounded
<1>4. QED
  BY <1>2, <1>3, Zenon DEF Next, Offer, Attempt, GiveUp, Lock, Prune, Pick, Reserve, DialOk, DialError, OpenOk,
     OpenError, CancelOpen, CancelOffer, DropStream, Release, Fail, ClockTick, holderVars, vars

\* MuxClient::open_stream_flags and offer: through cancelled dials and opens, failing sessions,
\* concurrent drops and a clock word that wraps, the counter of each session is the number of
\* its holders, max-connections and the stream limit are kept, and no idle eviction takes a
\* session that carries a stream.
THEOREM PoolIsSound == ASSUME MuxAssumption PROVE Spec => []PoolSound
<1>1. Init => LoadBounded
  <2>1. Cardinality(Callers) \in Nat
    BY FS_CardinalityType DEF MuxAssumption
  <2>2. QED
    BY <2>1 DEF Init, LoadBounded
<1>2. PoolInv /\ LoadBounded => PoolSound
  <2> SUFFICES ASSUME PoolInv, LoadBounded PROVE TypeOK
    BY DEF PoolInv, Limits, PoolSound
  <2>1. streams \in [Sessions -> 0..Cardinality(Callers)]
    BY StreamsBounded DEF PoolInv, Typed
  <2>2. QED
    BY <2>1 DEF PoolInv, Typed, LoadBounded, TypeOK
<1>3. QED
  BY <1>1, <1>2, InitPool, StepPool, StepLoad, PTL DEF Spec
=============================================================================
