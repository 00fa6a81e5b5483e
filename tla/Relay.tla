------------------------------- MODULE Relay -------------------------------
(***************************************************************************)
(* The bidirectional relay of a TCP connection (meow-tunnel: relay.rs).    *)
(* One future drives both directions in alternating fill-and-drain cycles. *)
(* It is polled when a waker it registered fires.  A direction that blocks *)
(* is parked for the rest of the poll; a direction that finishes arms an   *)
(* idle timer for the other.                                               *)
(***************************************************************************)
EXTENDS Naturals, Sequences, SequencesExt

CONSTANTS
  MaxBytes,                  \* bound: the bytes each peer sends
  BufSize, BulkBufSize,      \* RELAY_BUF_SIZE, RELAY_BULK_BUF_SIZE
  BulkUpgradeBytes, CyclesPerPoll, BytesPerPoll,
  Room                       \* what a stalled writer accepts

RelayAssumption ==
  /\ {MaxBytes, BufSize, BulkBufSize, BulkUpgradeBytes, CyclesPerPoll, BytesPerPoll, Room}
       \subseteq Nat \ {0}
  /\ BufSize < BulkBufSize

Dirs == {"ab", "ba"}
Timer == <<"linger", "timer">>      \* its waker
Other(d) == CHOOSE e \in Dirs : e # d

VARIABLES
  \* the streams, per direction
  sent, eof, taken,   \* bytes the source sent, whether it ended, bytes read
  staged, got,        \* bytes the writer holds, and the ones the peer has
  \* HalfCopy, per direction; buf holds the bytes between pos and cap
  buf, size, amt, readDone, needFlush, finished,
  \* the poll
  pc, parked, progressed, cycles, start,
  woken, wakers,      \* the task is scheduled; the registered wakers
  \* the linger timer
  timer, armed, mark,
  quiet,              \* history: no byte was written since the timer started
  over                \* how the relay ended

streams == <<sent, eof, taken, staged, got>>
halves == <<buf, size, amt, readDone, needFlush, finished>>
poll == <<pc, parked, progressed, cycles, start>>
linger == <<timer, armed, mark>>
vars == <<streams, halves, poll, woken, wakers, linger, quiet, over>>

Bytes == 1..MaxBytes

\* Types: buffered bytes stay within the buffer, and counters within the stream.
TypeOK ==
  /\ sent \in [Dirs -> 0..MaxBytes] /\ taken \in [Dirs -> 0..MaxBytes]
  /\ amt \in [Dirs -> 0..MaxBytes] /\ size \in [Dirs -> {BufSize, BulkBufSize}]
  /\ \A d \in Dirs : {staged[d], got[d], buf[d]} \subseteq Seq(Bytes) /\ Len(buf[d]) <= size[d]
  /\ {eof, readDone, needFlush, finished} \subseteq [Dirs -> BOOLEAN]
  /\ pc \in {"idle", "ab", "ba", "check"} /\ parked \subseteq Dirs
  /\ {progressed, woken, armed, quiet} \subseteq BOOLEAN
  /\ cycles \in 0..(CyclesPerPoll + 1) /\ start \in Nat /\ mark \in Nat
  /\ wakers \subseteq (Dirs \X {"read", "write"}) \cup {Timer}
  /\ timer \in {"off", "running", "expired"}
  /\ over \in {"no", "ok", "reaped", "error"}

Each(v) == [d \in Dirs |-> v]

Init ==
  /\ sent = Each(0) /\ eof = Each(FALSE) /\ taken = Each(0)
  /\ staged = Each(<<>>) /\ got = Each(<<>>)
  /\ buf = Each(<<>>) /\ size = Each(BufSize) /\ amt = Each(0)
  /\ readDone = Each(FALSE) /\ needFlush = Each(FALSE) /\ finished = Each(FALSE)
  /\ pc = "idle" /\ parked = {} /\ progressed = FALSE /\ cycles = 0 /\ start = 0
  /\ woken = TRUE /\ wakers = {}
  /\ timer = "off" /\ armed = FALSE /\ mark = 0
  /\ quiet = FALSE /\ over = "no"

---------------------------------------------------------------------------
(* The streams and the timer; each event fires the waker that waits for it *)

Fire(w) == woken' = (woken \/ w \in wakers) /\ wakers' = wakers \ {w}

Arrive(d) ==
  /\ ~eof[d]
  /\ \/ sent[d] < MaxBytes /\ sent' = [sent EXCEPT ![d] = @ + 1] /\ UNCHANGED eof
     \/ eof' = [eof EXCEPT ![d] = TRUE] /\ UNCHANGED sent
  /\ Fire(<<d, "read">>)
  /\ UNCHANGED <<taken, staged, got, halves, poll, linger, quiet, over>>

\* The peer takes what the writer holds
Transmit(d) ==
  /\ staged[d] # <<>>
  /\ got' = [got EXCEPT ![d] = @ \o staged[d]] /\ staged' = [staged EXCEPT ![d] = <<>>]
  /\ Fire(<<d, "write">>)
  /\ UNCHANGED <<sent, eof, taken, halves, poll, linger, quiet, over>>

\* RELAY_HALF_CLOSE_LINGER elapses
TimerExpires ==
  /\ timer = "running" /\ timer' = "expired"
  /\ Fire(Timer)
  /\ UNCHANGED <<streams, halves, poll, armed, mark, quiet, over>>

---------------------------------------------------------------------------
(* The poll                                                                *)

PollStart ==
  /\ over = "no" /\ pc = "idle" /\ woken
  /\ woken' = FALSE /\ pc' = "ab" /\ parked' = {} /\ progressed' = FALSE
  /\ cycles' = 0 /\ start' = amt["ab"] + amt["ba"]
  /\ UNCHANGED <<streams, halves, wakers, linger, quiet, over>>

Turn == pc' = IF pc = "ab" THEN "ba" ELSE "check"

\* A finished or parked direction is skipped
Skip(d) ==
  /\ over = "no" /\ pc = d /\ (finished[d] \/ d \in parked)
  /\ Turn
  /\ UNCHANGED <<streams, halves, parked, progressed, cycles, start, woken, wakers, linger, quiet, over>>

Runs(d) == over = "no" /\ pc = d /\ ~finished[d] /\ d \notin parked

\* The direction blocks: a waker is registered and it is parked
Park(d, ws) ==
  /\ parked' = parked \cup {d} /\ wakers' = wakers \cup ({d} \X ws)
  /\ Turn /\ UNCHANGED <<progressed, cycles, start>>

Avail(d) == sent[d] - taken[d]
Empty(d) == buf[d] = <<>> /\ ~readDone[d]

\* Faulty variant of Idle: the written bytes are not flushed
IdleUnflushed(d) ==
  /\ Runs(d) /\ Empty(d) /\ Avail(d) = 0 /\ ~eof[d]
  /\ Park(d, {"read"})
  /\ UNCHANGED <<staged, got, needFlush, sent, eof, taken, buf, size, amt, readDone, finished>>
  /\ UNCHANGED <<woken, linger, quiet, over>>

\* poll_cycle, nothing to read: flush before parking
Idle(d) ==
  /\ Runs(d) /\ Empty(d) /\ Avail(d) = 0 /\ ~eof[d]
  /\ \/ /\ needFlush[d]                                       \* poll_flush is ready
        /\ got' = [got EXCEPT ![d] = @ \o staged[d]] /\ staged' = [staged EXCEPT ![d] = <<>>]
        /\ needFlush' = [needFlush EXCEPT ![d] = FALSE]
        /\ Park(d, {"read"})
     \/ /\ needFlush[d] /\ staged[d] # <<>> /\ Park(d, {"read", "write"})
        /\ UNCHANGED <<staged, got, needFlush>>
     \/ /\ ~needFlush[d] /\ Park(d, {"read"})
        /\ UNCHANGED <<staged, got, needFlush>>
  /\ UNCHANGED <<sent, eof, taken, buf, size, amt, readDone, finished>>
  /\ UNCHANGED <<woken, linger, quiet, over>>

\* The bulk buffer replaces an empty one
Upgraded(d) == IF amt[d] >= BulkUpgradeBytes THEN BulkBufSize ELSE size[d]

\* Drain what the cycle buffered as far as the writer takes it
Drain(d, data, blocked) ==
  LET room == Room - Len(staged[d])
      n == IF Len(data) < room THEN Len(data) ELSE room IN
  /\ blocked = (n < Len(data))
  /\ staged' = [staged EXCEPT ![d] = @ \o SubSeq(data, 1, n)]
  /\ buf' = [buf EXCEPT ![d] = SubSeq(data, n + 1, Len(data))]
  /\ amt' = [amt EXCEPT ![d] = @ + n]
  /\ needFlush' = [needFlush EXCEPT ![d] = @ \/ n > 0]
  /\ quiet' = (quiet /\ n = 0)

\* After draining: park on the writer, or give the other direction a turn
AfterDrain(d, blocked) ==
  \/ blocked /\ Park(d, {"write"})
  \/ /\ ~blocked /\ progressed' = TRUE /\ cycles' = cycles + 1 /\ Turn
     /\ UNCHANGED <<parked, start, wakers>>

\* Faulty variant of Fill: the buffer is refilled before it is empty
FillEarly(d) ==
  /\ Runs(d) /\ ~readDone[d] /\ Avail(d) > 0
  /\ \E n \in 1..BulkBufSize, blocked \in BOOLEAN :
       /\ n <= Avail(d) /\ n <= Upgraded(d)
       /\ taken' = [taken EXCEPT ![d] = @ + n]
       /\ Drain(d, [k \in 1..n |-> taken[d] + k], blocked) /\ AfterDrain(d, blocked)
  /\ size' = [size EXCEPT ![d] = Upgraded(d)]
  /\ UNCHANGED <<sent, eof, got, readDone, finished, woken, linger, over>>

\* poll_cycle: one read, then writes until the buffer is empty or the writer full
Fill(d) ==
  /\ Runs(d) /\ Empty(d) /\ Avail(d) > 0
  /\ \E n \in 1..BulkBufSize, blocked \in BOOLEAN :
       /\ n <= Avail(d) /\ n <= Upgraded(d)
       /\ taken' = [taken EXCEPT ![d] = @ + n]
       /\ Drain(d, [k \in 1..n |-> taken[d] + k], blocked) /\ AfterDrain(d, blocked)
  /\ size' = [size EXCEPT ![d] = Upgraded(d)]
  /\ UNCHANGED <<sent, eof, got, readDone, finished, woken, linger, over>>

\* poll_cycle with bytes left from an earlier poll
Resume(d) ==
  /\ Runs(d) /\ buf[d] # <<>> /\ ~readDone[d]
  /\ \E blocked \in BOOLEAN : Drain(d, buf[d], blocked) /\ AfterDrain(d, blocked)
  /\ UNCHANGED <<sent, eof, taken, got, size, readDone, finished, woken, linger, over>>

\* poll_cycle at the end of the stream: shut the writer down, which flushes it
Close(d) ==
  /\ Runs(d) /\ buf[d] = <<>> /\ (readDone[d] \/ (Avail(d) = 0 /\ eof[d]))
  /\ readDone' = [readDone EXCEPT ![d] = TRUE]
  /\ \/ /\ got' = [got EXCEPT ![d] = @ \o staged[d]] /\ staged' = [staged EXCEPT ![d] = <<>>]
        /\ finished' = [finished EXCEPT ![d] = TRUE]
        /\ Turn /\ UNCHANGED <<parked, progressed, cycles, start, wakers>>
     \/ staged[d] # <<>> /\ Park(d, {"write"}) /\ UNCHANGED <<got, staged, finished>>
  /\ UNCHANGED <<sent, eof, taken, buf, size, amt, needFlush, woken, linger, quiet, over>>

\* Any stream operation may fail, which ends the relay
Fail(d) ==
  /\ Runs(d) /\ over' = "error"
  /\ UNCHANGED <<streams, halves, poll, woken, wakers, linger, quiet>>

\* Faulty variant of Rearm: the window is an absolute deadline
RearmOnce(s) == ~armed

\* The window starts with the half-close and again at any progress
Rearm(s) == ~armed \/ amt[s] # mark

\* The poll has done enough and yields
Enough == cycles >= CyclesPerPoll \/ amt["ab"] + amt["ba"] - start >= BytesPerPoll

\* The end of a round: both done, nothing moved, or the poll has done enough
Check ==
  /\ over = "no" /\ pc = "check"
  /\ \/ /\ \A d \in Dirs : finished[d]
        /\ over' = "ok" /\ pc' = "idle"
        /\ UNCHANGED <<progressed, woken, wakers, linger, quiet>>
     \/ /\ progressed /\ \E d \in Dirs : ~finished[d]
        /\ IF Enough
           THEN pc' = "idle" /\ woken' = TRUE /\ UNCHANGED progressed
           ELSE pc' = "ab" /\ progressed' = FALSE /\ UNCHANGED woken
        /\ UNCHANGED <<wakers, linger, quiet, over>>
     \/ /\ ~progressed /\ \A d \in Dirs : ~finished[d]
        /\ pc' = "idle" /\ UNCHANGED <<progressed, woken, wakers, linger, quiet, over>>
     \/ /\ ~progressed
        /\ \E s \in Dirs :                       \* the surviving direction
             /\ ~finished[s] /\ finished[Other(s)]
             /\ IF Rearm(s)
                THEN armed' = TRUE /\ mark' = amt[s] /\ timer' = "running" /\ quiet' = TRUE
                ELSE UNCHANGED <<armed, mark, timer, quiet>>
             /\ IF timer' = "expired" THEN over' = "reaped" /\ UNCHANGED wakers
                ELSE wakers' = wakers \cup {Timer} /\ UNCHANGED over
        /\ pc' = "idle" /\ UNCHANGED <<progressed, woken>>
  /\ UNCHANGED <<streams, halves, parked, cycles, start>>

Task ==
  \/ PollStart \/ Check
  \/ \E d \in Dirs : Skip(d) \/ Idle(d) \/ Fill(d) \/ Resume(d) \/ Close(d)

Next ==
  \/ Task \/ TimerExpires
  \/ \E d \in Dirs : Fail(d) \/ Arrive(d) \/ Transmit(d)

Spec == Init /\ [][Next]_vars

\* The runtime polls a woken task and its timers fire
TaskSpec == Spec /\ WF_vars(Task) /\ WF_vars(TimerExpires)

\* A writer may hold bytes back until it is flushed, shut down or full
Due(d) == <<d, "write">> \in wakers \/ Len(staged[d]) = Room

\* The peers also keep reading
FairSpec == TaskSpec /\ \A d \in Dirs : WF_vars(Due(d) /\ Transmit(d))

---------------------------------------------------------------------------
\* Every byte arrives once and in order, through partial writes, parking and the
\* swap of the buffer (HalfCopy::poll_cycle).
InOrder ==
  \A d \in Dirs :
    /\ got[d] \o staged[d] \o buf[d] = [k \in 1..taken[d] |-> k]
    /\ amt[d] = Len(got[d] \o staged[d])
    /\ finished[d] => got[d] = [k \in 1..sent[d] |-> k]

\* A parked task is not forgotten: whatever it can still do, a waker is registered
\* for, and a direction with an idle reader leaves nothing unflushed behind (the
\* parking argument in copy_bidirectional_buf_tracked).
NoLostWakeup ==
  over = "no" /\ pc = "idle" /\ ~woken => \A d \in Dirs : ~finished[d] =>
    /\ Empty(d) => Avail(d) = 0 /\ ~eof[d] /\ <<d, "read">> \in wakers
    /\ ~Empty(d) => <<d, "write">> \in wakers
    /\ staged[d] # <<>> => <<d, "write">> \in wakers

\* The linger reaps only a connection that was silent for the whole window
ReapsOnlySilent == over = "reaped" => quiet

\* One poll does a bounded amount of work (RELAY_BYTES_PER_POLL): at most a cycle
\* of each direction past the bound.
PollBounded == pc # "idle" => amt["ab"] + amt["ba"] - start < BytesPerPoll + 2 * BulkBufSize

\* What a peer sent reaches the other peer although nothing more is sent, unless
\* the relay fails or is reaped (the flush before parking in poll_cycle).
Delivered ==
  \A d \in Dirs, n \in Bytes : sent[d] >= n ~> over # "no" \/ Len(got[d]) >= n
=============================================================================
