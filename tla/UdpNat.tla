------------------------------ MODULE UdpNat ------------------------------
(***************************************************************************)
(* The UDP NAT table of the tunnel (meow-tunnel: udp.rs): concurrent       *)
(* handle_udp calls that forward on, create, fold into and evict sessions, *)
(* and the background sweeper that evicts idle ones.                       *)
(*                                                                         *)
(* A packet is one call of handle_udp; its flow is the (source,            *)
(* destination) key.  A session is one dialled packet connection.  Time is  *)
(* counted in ticks and stored in an unsigned word of Width values, from   *)
(* which idle_for subtracts with wrap-around.                              *)
(***************************************************************************)
EXTENDS Integers, FiniteSets, TLAPS

CONSTANTS Packets, Sessions,   \* numbers, in the order of arrival and of creation
          Flows, FlowOf, None,
          UdpIdle,      \* DEFAULT_UDP_IDLE, in ticks
          Width,     \* number of values of the stored clock word
          MaxNow     \* bound on the clock

FlowAssumption ==
  Packets \subseteq Nat /\ Sessions \subseteq Nat /\ FlowOf \in [Packets -> Flows]
NoneAssumption == None \notin Sessions /\ None \notin Flows
TimeAssumption == UdpIdle \in Nat /\ Width \in Nat /\ MaxNow \in Nat /\ UdpIdle < Width

VARIABLES
  now,       \* monotonic_ms
  table,     \* nat_table: the session of each flow, or None
  created,   \* sessions that have been dialled
  last,      \* last_activity_ms, as stored
  active,    \* history: when the session was really last touched
  shut,      \* sessions whose connection was closed as redundant
  carried,   \* history: sessions that carried a datagram of a flow
  evicted,   \* history: sessions evicted for a failed write or for idleness
  hasty,     \* history: sessions swept though touched within UdpIdle of the clock read
  pc, ses,   \* handle_udp of each packet: where it is, the session it holds
  spc, skey, snow, stodo   \* the sweeper: state, entry, clock read, entries left

packetVars == <<pc, ses>>
sweepVars == <<spc, skey, snow, stodo>>
vars == <<now, table, created, last, active, shut, carried, evicted,
          hasty, packetVars, sweepVars>>

PacketStates == {"new", "lookup", "forward", "dial", "claim", "write", "evict", "done"}

\* Types: the stored clock fits its word, and only dialled sessions are installed, shut or evicted.
TypeOK ==
  /\ now \in 0..MaxNow
  /\ table \in [Flows -> Sessions \cup {None}]
  /\ created \subseteq Sessions
  /\ last \in [Sessions -> 0..(Width - 1)]
  /\ active \in [Sessions -> 0..MaxNow]
  /\ shut \subseteq created
  /\ carried \in [Flows -> SUBSET created]
  /\ evicted \subseteq created /\ hasty \subseteq evicted
  /\ pc \in [Packets -> PacketStates]
  /\ ses \in [Packets -> Sessions \cup {None}]
  /\ spc \in {"sleep", "scan", "compare"}
  /\ skey \in Flows \cup {None}
  /\ snow \in 0..MaxNow
  /\ stodo \subseteq Flows

Init ==
  /\ now = 0
  /\ table = [f \in Flows |-> None]
  /\ created = {} /\ shut = {} /\ evicted = {} /\ hasty = {}
  /\ last = [s \in Sessions |-> 0] /\ active = [s \in Sessions |-> 0]
  /\ carried = [f \in Flows |-> {}]
  /\ pc = [p \in Packets |-> "new"] /\ ses = [p \in Packets |-> None]
  /\ spc = "sleep" /\ skey = None /\ snow = 0 /\ stodo = {}

Word(t) == t % Width

\* The sweeper holds the write lock of the shard of the entry it looks at
Unlocked(f) == ~(spc = "compare" /\ skey = f)

Goto(p, l) == pc' = [pc EXCEPT ![p] = l]

---------------------------------------------------------------------------
(* handle_udp                                                              *)

\* pre_handle_metadata, pre_resolve and the fallback resolution: the packet
\* has a destination address, or is dropped.  Packets of a flow are numbered in
\* the order they arrive.
Arrive(p) ==
  /\ pc[p] = "new"
  /\ \A q \in Packets : q < p /\ FlowOf[q] = FlowOf[p] => pc[q] # "new"
  /\ Goto(p, "lookup") \/ Goto(p, "done")
  /\ UNCHANGED <<now, table, created, last, active, shut, carried,
                 evicted, hasty, ses, sweepVars>>

\* The session is cloned out of the table and the guard dropped
Lookup(p) ==
  /\ pc[p] = "lookup" /\ Unlocked(FlowOf[p])
  /\ ses' = [ses EXCEPT ![p] = table[FlowOf[p]]]
  /\ Goto(p, IF table[FlowOf[p]] = None THEN "dial" ELSE "forward")
  /\ UNCHANGED <<now, table, created, last, active, shut, carried,
                 evicted, hasty, sweepVars>>

\* write_packet succeeds on the fast path: the session is touched
ForwardOk(p) ==
  /\ pc[p] = "forward"
  /\ carried' = [carried EXCEPT ![FlowOf[p]] = @ \cup {ses[p]}]
  /\ last' = [last EXCEPT ![ses[p]] = Word(now)]
  /\ active' = [active EXCEPT ![ses[p]] = now]
  /\ Goto(p, "done")
  /\ UNCHANGED <<now, table, created, shut, evicted, hasty, ses, sweepVars>>

\* write_packet fails, on either path; a write may fail at any time
WriteError(p) ==
  /\ pc[p] \in {"forward", "write"}
  /\ Goto(p, "evict")
  /\ UNCHANGED <<now, table, created, last, active, shut, carried,
                 evicted, hasty, ses, sweepVars>>

\* remove_if: only the session that failed is evicted
Evict(p) ==
  /\ pc[p] = "evict" /\ Unlocked(FlowOf[p])
  /\ table' = [table EXCEPT ![FlowOf[p]] = IF @ = ses[p] THEN None ELSE @]
  /\ evicted' = evicted \cup {ses[p]}
  /\ Goto(p, "done")
  /\ UNCHANGED <<now, created, last, active, shut, carried, hasty, ses, sweepVars>>

\* The slow path: route and dial, or fail (no matching rule, an error or the
\* dial timeout)
DialOk(p) ==
  /\ pc[p] = "dial"
  /\ \E s \in Sessions \ created :
       /\ \A r \in Sessions : r < s => r \in created
       /\ created' = created \cup {s}
       /\ ses' = [ses EXCEPT ![p] = s]
       /\ last' = [last EXCEPT ![s] = Word(now)]
       /\ active' = [active EXCEPT ![s] = now]
  /\ Goto(p, "claim")
  /\ UNCHANGED <<now, table, shut, carried, evicted, hasty, sweepVars>>

DialError(p) ==
  /\ pc[p] = "dial"
  /\ Goto(p, "done")
  /\ UNCHANGED <<now, table, created, last, active, shut, carried,
                 evicted, hasty, ses, sweepVars>>

\* Faulty variant of Claim: a blind insert
ClaimBlindly(p) ==
  /\ pc[p] = "claim" /\ Unlocked(FlowOf[p])
  /\ table' = [table EXCEPT ![FlowOf[p]] = ses[p]]
  /\ Goto(p, "write")
  /\ UNCHANGED <<now, created, last, active, shut, carried, evicted,
                 hasty, ses, sweepVars>>

\* entry().or_insert_with: the first claim wins; a loser closes its own
\* connection and carries on with the winner's session
Claim(p) ==
  /\ pc[p] = "claim" /\ Unlocked(FlowOf[p])
  /\ IF table[FlowOf[p]] = None
     THEN table' = [table EXCEPT ![FlowOf[p]] = ses[p]] /\ UNCHANGED <<shut, ses>>
     ELSE /\ shut' = shut \cup {ses[p]}
          /\ ses' = [ses EXCEPT ![p] = table[FlowOf[p]]]
          /\ UNCHANGED table
  /\ Goto(p, "write")
  /\ UNCHANGED <<now, created, last, active, carried, evicted, hasty, sweepVars>>

\* The first write succeeds; the session is not touched
WriteOk(p) ==
  /\ pc[p] = "write"
  /\ carried' = [carried EXCEPT ![FlowOf[p]] = @ \cup {ses[p]}]
  /\ Goto(p, "done")
  /\ UNCHANGED <<now, table, created, last, active, shut, evicted,
                 hasty, ses, sweepVars>>

---------------------------------------------------------------------------
(* spawn_nat_sweeper                                                       *)

\* A tick: skipped when the table is empty
SweepTick ==
  /\ spc = "sleep" /\ \E f \in Flows : table[f] # None
  /\ spc' = "scan"
  /\ stodo' = {f \in Flows : table[f] # None}
  /\ UNCHANGED <<now, table, created, last, active, shut, carried,
                 evicted, hasty, packetVars, skey, snow>>

\* idle_for reads the clock ...
SweepReadClock(f) ==
  /\ spc = "scan" /\ f \in stodo /\ table[f] # None
  /\ spc' = "compare" /\ skey' = f /\ snow' = now
  /\ stodo' = stodo \ {f}
  /\ UNCHANGED <<now, table, created, last, active, shut, carried,
                 evicted, hasty, packetVars>>

IdleFor(s) == (Word(snow) - last[s]) % Width

\* ... and then the last activity; the entry goes when UdpIdle is reached
SweepCompare ==
  /\ spc = "compare"
  /\ LET s == table[skey] IN
       IF IdleFor(s) < UdpIdle
       THEN UNCHANGED <<table, evicted, hasty>>
       ELSE /\ table' = [table EXCEPT ![skey] = None]
            /\ evicted' = evicted \cup {s}
            /\ hasty' = IF active[s] \in (snow - UdpIdle + 1)..snow THEN hasty \cup {s} ELSE hasty
  /\ spc' = "scan" /\ skey' = None /\ snow' = 0
  /\ UNCHANGED <<now, created, last, active, shut, carried, packetVars, stodo>>

SweepEnd ==
  /\ spc = "scan" /\ \A f \in stodo : table[f] = None
  /\ spc' = "sleep" /\ stodo' = {}
  /\ UNCHANGED <<now, table, created, last, active, shut, carried,
                 evicted, hasty, packetVars, skey, snow>>

---------------------------------------------------------------------------
(* The environment                                                         *)

ClockTick ==
  /\ now < MaxNow
  /\ now' = now + 1
  /\ UNCHANGED <<table, created, last, active, shut, carried, evicted,
                 hasty, packetVars, sweepVars>>

PacketStep(p) ==
  \/ Arrive(p) \/ Lookup(p) \/ ForwardOk(p) \/ WriteError(p) \/ Evict(p)
  \/ DialOk(p) \/ DialError(p) \/ Claim(p) \/ WriteOk(p)

Sweep == SweepTick \/ (\E f \in Flows : SweepReadClock(f)) \/ SweepCompare \/ SweepEnd

Next ==
  \/ \E p \in Packets : PacketStep(p)
  \/ Sweep
  \/ ClockTick

Spec == Init /\ [][Next]_vars

---------------------------------------------------------------------------
\* A session leaves the table only for a write that failed on that very
\* session, or by the sweeper: a handler whose write failed late never tears
\* down the replacement that others have installed meanwhile (remove_if).
OnlyFailedOrIdleLeaves ==
  [][\A f \in Flows :
       table[f] # None /\ table'[f] # table[f] =>
         /\ table'[f] = None
         /\ \/ \E p \in Packets : pc[p] = "evict" /\ ses[p] = table[f]
            \/ spc = "compare" /\ skey = f]_vars

\* Concurrent creation folds into one upstream flow: every session that ever
\* carried a datagram of a flow is the installed one, or was evicted first
\* (entry().or_insert_with and the switch to the winner).
OneUpstreamFlow ==
  \A f \in Flows : \A s \in carried[f] : s = table[f] \/ s \in evicted

\* No datagram is written to the redundant connection its handler has closed
NoWriteAfterClose ==
  \A p \in Packets : pc[p] \in {"forward", "write"} => ses[p] \notin shut

\* A session in use is kept: the sweeper evicts only sessions whose last touch is at
\* least the idle timeout before it read the clock (touch, idle_for).  A touch between
\* that read and the comparison escapes: the difference wraps, and the session goes.
TouchKeepsAlive == hasty = {}

\* What handle_udp and the sweeper keep of a flow: concurrent creation folds into one
\* upstream session, which is not written to once closed, is kept while touched, and leaves
\* the table only for its own failed write or by the sweeper.
FlowIntact == [](OneUpstreamFlow /\ NoWriteAfterClose /\ TouchKeepsAlive) /\ OnlyFailedOrIdleLeaves

---------------------------------------------------------------------------
(* Proofs about the UDP NAT table, for any number of packets, flows and    *)
(* sessions and any width of the clock word.                               *)

Assumptions == FlowAssumption /\ NoneAssumption /\ TimeAssumption

\* The stored word is the true time of the last touch, truncated
Stamped == \A s \in Sessions : last[s] = Word(active[s])

\* While the sweeper looks at an entry, it holds the lock of its shard and the entry stays
Looking == spc = "compare" => skey \in Flows /\ table[skey] # None

\* What is installed or written to was dialled and is not closed, and a session written to for
\* a flow is the installed one, or was evicted since
Open ==
  /\ \A f \in Flows : table[f] # None => table[f] \in created \ shut
  /\ \A p \in Packets : pc[p] \in {"forward", "write"} =>
       /\ ses[p] \in created \ shut
       /\ ses[p] = table[FlowOf[p]] \/ ses[p] \in evicted
  /\ \A p \in Packets : pc[p] = "evict" => ses[p] \in created

\* A session that was dialled and not yet claimed is known to its own handler alone
Private ==
  \A p \in Packets : pc[p] = "claim" =>
    /\ ses[p] \in created \ shut
    /\ \A f \in Flows : table[f] # ses[p]
    /\ \A q \in Packets \ {p} : pc[q] \in {"claim", "forward", "write"} => ses[q] # ses[p]

NatInv ==
  TypeOK /\ Stamped /\ Looking /\ Open /\ Private /\ OneUpstreamFlow /\ TouchKeepsAlive

---------------------------------------------------------------------------
LEMMA WordRange == ASSUME TimeAssumption, NEW t \in Nat PROVE Word(t) \in 0..(Width - 1)
BY DEF TimeAssumption, Word

LEMMA DivMod ==
  ASSUME NEW W \in Nat \ {0}, NEW n \in Nat
  PROVE  n = W * (n \div W) + (n % W) /\ n \div W \in Nat /\ n % W \in 0..(W - 1)
OBVIOUS

LEMMA Wraps ==
  ASSUME NEW W \in Nat \ {0}, NEW d \in 0..(W - 1)
  PROVE  d % W = d /\ (d - W) % W = d
OBVIOUS

\* Two instants less than a word apart: the difference of their words, as wrapping_sub takes
\* it, is the true one
LEMMA IdleExact ==
  ASSUME NEW W \in Nat \ {0}, NEW n \in Nat, NEW a \in Nat, a <= n, n - a < W
  PROVE  ((n % W) - (a % W)) % W = n - a
<1> DEFINE q == n \div W
           k == a \div W
           r == n % W
           j == a % W
           d == n - a
<1>1. q \in Nat /\ k \in Nat /\ r \in 0..(W - 1) /\ j \in 0..(W - 1) /\ d \in 0..(W - 1)
  <2>1. q \in Nat /\ r \in 0..(W - 1)
    BY DivMod, Zenon
  <2>2. k \in Nat /\ j \in 0..(W - 1)
    BY DivMod, Zenon
  <2>3. d \in 0..(W - 1)
    OBVIOUS
  <2>4. QED
    BY <2>1, <2>2, <2>3
<1>2. W * q + r = W * k + j + d
  BY DivMod
<1> HIDE DEF q, k, r, j, d
<1>3. q = k \/ q = k + 1
  BY <1>1, <1>2
<1>4. CASE q = k
  <2>1. r - j = d
    BY <1>1, <1>2, <1>4
  <2>2. QED
    BY <1>1, <2>1, Wraps, Zenon DEF r, j, d
<1>5. CASE q = k + 1
  <2>1. W * q = W * k + W
    BY <1>1, <1>5
  <2>2. r - j = d - W
    BY <1>1, <1>2, <2>1
  <2>3. QED
    BY <1>1, <2>2, Wraps, Zenon DEF r, j, d
<1>6. QED
  BY <1>3, <1>4, <1>5

---------------------------------------------------------------------------
LEMMA InitNat == ASSUME Assumptions PROVE Init => NatInv
<1> SUFFICES ASSUME Init PROVE NatInv
  OBVIOUS
<1>1. TypeOK
  BY DEF Init, TypeOK, PacketStates, Assumptions, TimeAssumption
<1>2. Stamped
  BY SMTT(30) DEF Init, Stamped, Word, Assumptions, TimeAssumption
<1>3. QED
  BY <1>1, <1>2 DEF Init, NatInv, Looking, Open, Private, OneUpstreamFlow, TouchKeepsAlive

LEMMA StepTyped == ASSUME Assumptions PROVE NatInv /\ [Next]_vars => (TypeOK /\ Stamped /\ Looking)'
<1> SUFFICES ASSUME NatInv, [Next]_vars PROVE (TypeOK /\ Stamped /\ Looking)'
  OBVIOUS
<1> USE DEF NatInv, TypeOK, Stamped, Looking, PacketStates, Goto, packetVars, sweepVars
<1>0. Word(now) \in 0..(Width - 1) /\ now \in 0..MaxNow
  BY WordRange DEF Assumptions
<1>1. ASSUME NEW p \in Packets, Arrive(p) PROVE (TypeOK /\ Stamped /\ Looking)'
  BY <1>1 DEF Arrive
<1>2. ASSUME NEW p \in Packets, Lookup(p) PROVE (TypeOK /\ Stamped /\ Looking)'
  BY <1>2 DEF Lookup, Assumptions, FlowAssumption
<1>3. ASSUME NEW p \in Packets, ForwardOk(p) PROVE (TypeOK /\ Stamped /\ Looking)'
  BY <1>0, <1>3, ZenonT(30) DEF ForwardOk, Open, Assumptions, FlowAssumption
<1>4. ASSUME NEW p \in Packets, WriteError(p) PROVE (TypeOK /\ Stamped /\ Looking)'
  BY <1>4 DEF WriteError
<1>5. ASSUME NEW p \in Packets, Evict(p) PROVE (TypeOK /\ Stamped /\ Looking)'
  BY <1>5, Zenon DEF Evict, Unlocked, Open, Assumptions, FlowAssumption
<1>6. ASSUME NEW p \in Packets, DialOk(p) PROVE (TypeOK /\ Stamped /\ Looking)'
  BY <1>0, <1>6 DEF DialOk
<1>7. ASSUME NEW p \in Packets, DialError(p) PROVE (TypeOK /\ Stamped /\ Looking)'
  BY <1>7 DEF DialError
<1>8. ASSUME NEW p \in Packets, Claim(p) PROVE (TypeOK /\ Stamped /\ Looking)'
  BY <1>8, ZenonT(30) DEF Claim, Unlocked, Private, Assumptions, FlowAssumption, NoneAssumption
<1>9. ASSUME NEW p \in Packets, WriteOk(p) PROVE (TypeOK /\ Stamped /\ Looking)'
  BY <1>9 DEF WriteOk, Open, Assumptions, FlowAssumption
<1>10. CASE SweepTick
  BY <1>10 DEF SweepTick
<1>11. ASSUME NEW f \in Flows, SweepReadClock(f) PROVE (TypeOK /\ Stamped /\ Looking)'
  BY <1>0, <1>11 DEF SweepReadClock
<1>12. CASE SweepCompare
  BY <1>12 DEF SweepCompare, Open, Assumptions, TimeAssumption
<1>13. CASE SweepEnd
  BY <1>13 DEF SweepEnd
<1>14. CASE ClockTick
  BY <1>14 DEF ClockTick, Assumptions, TimeAssumption
<1>15. CASE UNCHANGED vars
  BY <1>15 DEF vars
<1>16. QED
  BY <1>1, <1>2, <1>3, <1>4, <1>5, <1>6, <1>7, <1>8, <1>9, <1>10, <1>11, <1>12, <1>13, <1>14, <1>15, Zenon
  DEF Next, PacketStep, Sweep

---------------------------------------------------------------------------
\* A handler's session is its own until it is claimed; then it is the flow's until evicted
LEMMA StepOpen == ASSUME Assumptions PROVE NatInv /\ [Next]_vars => (Open /\ Private /\ OneUpstreamFlow)'
<1> SUFFICES ASSUME NatInv, [Next]_vars PROVE (Open /\ Private /\ OneUpstreamFlow)'
  OBVIOUS
<1> USE DEF NatInv, TypeOK, Open, Private, OneUpstreamFlow, PacketStates, Goto, packetVars, sweepVars,
            Assumptions, FlowAssumption, NoneAssumption
<1>1. ASSUME NEW p \in Packets, Arrive(p) PROVE (Open /\ Private /\ OneUpstreamFlow)'
  BY <1>1 DEF Arrive
<1>2. ASSUME NEW p \in Packets, Lookup(p) PROVE (Open /\ Private /\ OneUpstreamFlow)'
  BY <1>2 DEF Lookup
<1>3. ASSUME NEW p \in Packets, ForwardOk(p) PROVE (Open /\ Private /\ OneUpstreamFlow)'
  BY <1>3 DEF ForwardOk
<1>4. ASSUME NEW p \in Packets, WriteError(p) PROVE (Open /\ Private /\ OneUpstreamFlow)'
  BY <1>4 DEF WriteError
<1>5. ASSUME NEW p \in Packets, Evict(p) PROVE (Open /\ Private /\ OneUpstreamFlow)'
  <2>1. Open'
    BY <1>5 DEF Evict
  <2>2. Private'
    BY <1>5, Zenon DEF Evict
  <2>3. OneUpstreamFlow'
    BY <1>5 DEF Evict
  <2>4. QED
    BY <2>1, <2>2, <2>3
<1>6. ASSUME NEW p \in Packets, DialOk(p) PROVE (Open /\ Private /\ OneUpstreamFlow)'
  BY <1>6 DEF DialOk
<1>7. ASSUME NEW p \in Packets, DialError(p) PROVE (Open /\ Private /\ OneUpstreamFlow)'
  BY <1>7 DEF DialError
<1>8. ASSUME NEW p \in Packets, Claim(p) PROVE (Open /\ Private /\ OneUpstreamFlow)'
  <2>1. CASE table[FlowOf[p]] = None
    <3>0. /\ table' = [table EXCEPT ![FlowOf[p]] = ses[p]] /\ UNCHANGED <<shut, ses, created, evicted>>
          /\ pc[p] = "claim" /\ pc' = [pc EXCEPT ![p] = "write"]
      BY <1>8, <2>1 DEF Claim
    <3>1. Open'
      <4>1. \A f \in Flows : table'[f] # None => table'[f] \in created' \ shut'
        BY <3>0
      <4>2. \A q \in Packets : pc'[q] \in {"forward", "write"} =>
              ses'[q] \in created' \ shut' /\ (ses'[q] = table'[FlowOf[q]] \/ ses'[q] \in evicted')
        BY <2>1, <3>0, Zenon
      <4>3. QED
        BY <3>0, <4>1, <4>2
    <3>2. Private'
      BY <1>8, <2>1 DEF Claim
    <3>3. OneUpstreamFlow'
      BY <1>8, <2>1 DEF Claim
    <3>4. QED
      BY <3>1, <3>2, <3>3
  <2>2. CASE table[FlowOf[p]] # None
    <3>1. Open'
      BY <1>8, <2>2 DEF Claim
    <3>2. Private'
      BY <1>8, <2>2 DEF Claim
    <3>3. OneUpstreamFlow'
      BY <1>8, <2>2 DEF Claim
    <3>4. QED
      BY <3>1, <3>2, <3>3
  <2>3. QED
    BY <2>1, <2>2
<1>9. ASSUME NEW p \in Packets, WriteOk(p) PROVE (Open /\ Private /\ OneUpstreamFlow)'
  BY <1>9 DEF WriteOk
<1>10. CASE SweepCompare
  <2>1. Open'
    BY <1>10 DEF SweepCompare, Looking
  <2>2. Private'
    <3>1. /\ table' \in {table, [table EXCEPT ![skey] = None]}
          /\ UNCHANGED <<shut, ses, created, pc>>
      BY <1>10 DEF SweepCompare
    <3>2. \A f \in Flows : table'[f] = table[f] \/ table'[f] = None
      BY <3>1
    <3>3. QED
      BY <3>1, <3>2, ZenonT(30)
  <2>3. OneUpstreamFlow'
    BY <1>10 DEF SweepCompare, Looking
  <2>4. QED
    BY <2>1, <2>2, <2>3, Zenon
<1>11. CASE UNCHANGED <<table, created, shut, carried, evicted, pc, ses>>
  BY <1>11
<1>12. QED
  BY <1>1, <1>2, <1>3, <1>4, <1>5, <1>6, <1>7, <1>8, <1>9, <1>10, <1>11
  DEF Next, PacketStep, Sweep, SweepTick, SweepReadClock, SweepEnd, ClockTick, vars

\* The sweeper spares a session that was touched within the idle timeout of its clock
LEMMA StepTouch == ASSUME Assumptions PROVE NatInv /\ [Next]_vars => TouchKeepsAlive'
<1> SUFFICES ASSUME NatInv, [Next]_vars PROVE TouchKeepsAlive'
  OBVIOUS
<1> USE DEF NatInv, TouchKeepsAlive
<1>1. CASE SweepCompare
  <2> DEFINE s == table[skey]
  <2>1. s \in Sessions /\ snow \in Nat /\ active[s] \in Nat /\ last[s] = Word(active[s])
    BY <1>1 DEF SweepCompare, Looking, TypeOK, Stamped, Assumptions, TimeAssumption
  <2>2. ASSUME active[s] \in (snow - UdpIdle + 1)..snow PROVE IdleFor(s) < UdpIdle
    <3> HIDE DEF s
    <3>1. active[s] <= snow /\ snow - active[s] < UdpIdle /\ snow - active[s] < Width
      BY <2>1, <2>2 DEF Assumptions, TimeAssumption
    <3>2. Width \in Nat \ {0}
      BY DEF Assumptions, TimeAssumption
    <3>3. ((snow % Width) - (active[s] % Width)) % Width = snow - active[s]
      BY <2>1, <3>1, <3>2, IdleExact, Zenon
    <3>4. IdleFor(s) = snow - active[s]
      BY <2>1, <3>3 DEF IdleFor, Word
    <3>5. QED
      BY <3>1, <3>4
  <2>3. QED
    BY <1>1, <2>2 DEF SweepCompare
<1>2. CASE UNCHANGED hasty
  BY <1>2
<1>3. QED
  BY <1>1, <1>2 DEF Next, PacketStep, Sweep, Arrive, Lookup, ForwardOk, WriteError, Evict, DialOk, DialError,
     Claim, WriteOk, SweepTick, SweepReadClock, SweepEnd, ClockTick, vars

LEMMA StepNat == ASSUME Assumptions PROVE NatInv /\ [Next]_vars => NatInv'
BY StepTyped, StepOpen, StepTouch DEF NatInv

\* Only the handler whose write failed on the installed session, or the sweeper, removes an entry
LEMMA StepLeaves ==
  ASSUME Assumptions, NatInv, [Next]_vars, NEW f \in Flows, table[f] # None, table'[f] # table[f]
  PROVE  /\ table'[f] = None
         /\ \/ \E p \in Packets : pc[p] = "evict" /\ ses[p] = table[f]
            \/ spc = "compare" /\ skey = f
<1> USE DEF NatInv, TypeOK, Assumptions, FlowAssumption
<1>1. ASSUME NEW p \in Packets, Evict(p) PROVE pc[p] = "evict" /\ ses[p] = table[f] /\ table'[f] = None
  BY <1>1 DEF Evict
<1>2. ASSUME NEW p \in Packets, Claim(p) PROVE FALSE
  BY <1>2 DEF Claim
<1>3. CASE SweepCompare
  BY <1>3 DEF SweepCompare
<1>4. CASE UNCHANGED table
  BY <1>4
<1>5. QED
  BY <1>1, <1>2, <1>3, <1>4 DEF Next, PacketStep, Sweep, Arrive, Lookup, ForwardOk, WriteError, DialOk,
     DialError, WriteOk, SweepTick, SweepReadClock, SweepEnd, ClockTick, vars

\* handle_udp and spawn_nat_sweeper: every session that carried a datagram of a flow is the
\* installed one or was evicted, no datagram goes to a connection closed as redundant, a
\* session touched within the idle timeout is kept although the clock word wraps, and a late
\* failure never tears down the session that replaced the failed one.
THEOREM FlowsStayIntact == ASSUME Assumptions PROVE Spec => FlowIntact
<1>1. NatInv => OneUpstreamFlow /\ NoWriteAfterClose /\ TouchKeepsAlive
  BY DEF NatInv, Open, NoWriteAfterClose
<1>2. NatInv /\ [Next]_vars =>
        [\A f \in Flows :
           table[f] # None /\ table'[f] # table[f] =>
             /\ table'[f] = None
             /\ \/ \E p \in Packets : pc[p] = "evict" /\ ses[p] = table[f]
                \/ spc = "compare" /\ skey = f]_vars
  BY StepLeaves
<1>3. QED
  BY <1>1, <1>2, InitNat, StepNat, PTL DEF Spec, FlowIntact, OnlyFailedOrIdleLeaves
=============================================================================
