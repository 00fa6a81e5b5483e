----------------------------- MODULE MuxStreams -----------------------------
(* What a mux session of the pool (MuxPool) is made of, in four parts that share  *)
(* no variable:                                                                   *)
(*  - the smux client session: a reader task, a writer task, a map of streams, a  *)
(*    receive budget, and streams opened, read, written, flushed, shut down and   *)
(*    dropped by their callers (mux/smux.rs), read through the status byte that    *)
(*    precedes the data (mux/client.rs);                                          *)
(*  - the mux.cool client session: one driver that parks an event whose queue is   *)
(*    full and is woken by the reader of that queue (mux/muxcool.rs);             *)
(*  - the datagram framing over a stream, cancellable at every await              *)
(*    (mux/packet.rs);                                                            *)
(*  - the hand-over of open requests to the yamux driver (mux/yamux.rs).          *)
(* The frame codecs are pure operators at the end.                                *)
EXTENDS Integers, Sequences, FiniteSets, SequencesExt, FiniteSetsExt

CONSTANTS
  Sids,        \* 1..n, the ids a session can give
  StreamQueue, \* STREAM_QUEUE
  Outbound,    \* OUTBOUND_QUEUE
  Budget,      \* MAX_RECEIVE_BUFFER
  MaxServed,   \* bound per stream on the bytes the server sends
  MaxWrites,   \* bound per stream on the writes
  Requests,    \* callers of the yamux driver
  MaxLine      \* bound on the bytes of datagrams written

VARIABLES dead, cancel, wpc, rpc, rcur, budget, streams, lane, wire, unflushed, served, status, over, later, str
smuxVars == <<dead, cancel, wpc, rpc, rcur, budget, streams, lane, wire, unflushed, served, status, over, later, str>>

VARIABLES closed, retired, nextSid, done, space, dpc, rd, parked, wbuf, table, queue, out, sent, jobs, st
coolVars == <<closed, retired, nextSid, done, space, dpc, rd, parked, wbuf, table, queue, out, sent,
              jobs, st>>

VARIABLES pending, call, line, acked, hdr, payload, got
packetVars == <<pending, call, line, acked, hdr, payload, got>>

VARIABLES ydriver, yreq
yamuxVars == <<ydriver, yreq>>

Frame(k, s) == [k |-> k, s |-> s]
NoFrame == Frame("none", 0)
Chunk(lo, hi) == [lo |-> lo, hi |-> hi, size |-> hi - lo + 1]
NoChunk == Chunk(1, 0)
Arrived(f, c) == [k |-> f.k, s |-> f.s, c |-> c]

---------------------------------------------------------------------------
(* smux                                                                           *)

SmuxInit ==
  /\ dead = FALSE /\ cancel = FALSE
  /\ wpc = "run" /\ rpc = "header" /\ rcur = Arrived(NoFrame, NoChunk)
  /\ budget = Budget
  /\ streams = {} /\ lane = <<>>
  /\ wire = [s \in Sids |-> "none"] /\ unflushed = {}
  /\ served = [s \in Sids |-> 0] /\ status = [s \in Sids |-> "none"]
  /\ over = {} /\ later = {}
  /\ str = [s \in Sids |->
              [pc |-> "none", late |-> FALSE, q |-> <<>>, pend |-> NoChunk, read |-> 0, end |-> "open",
               resp |-> "pending", fin |-> FALSE, writes |-> 0, dirty |-> FALSE, ack |-> "none",
               flushed |-> FALSE]]

WriterGone == wpc = "ended"
Room == Len(lane) < Outbound
Post(f) == lane' = Append(lane, f)
At(s, pcs) == str[s].pc \in pcs

\* open_stream up to the insertion: a dead session refuses.  Ids are given in order
OpenStart(s) ==
  /\ ~dead
  /\ At(s, {"none"}) /\ \A t \in Sids : t < s => ~At(t, {"none"})
  /\ str' = [str EXCEPT ![s].pc = "insert"]
  /\ UNCHANGED <<dead, cancel, wpc, rpc, rcur, budget, streams, lane, wire, unflushed, served, status, over, later>>

\* late records that the session was dead by now, which nothing in the code looks at
OpenInsert(s) ==
  /\ At(s, {"insert"})
  /\ streams' = streams \cup {s}
  /\ str' = [str EXCEPT ![s].pc = "syn", ![s].late = dead]
  /\ UNCHANGED <<dead, cancel, wpc, rpc, rcur, budget, lane, wire, unflushed, served, status, over, later>>

\* The SYN enters the queue, or the writer has gone and the guard removes the entry
OpenSyn(s) ==
  /\ At(s, {"syn"})
  /\ \/ ~WriterGone /\ Room /\ Post(Frame("SYN", s)) /\ str' = [str EXCEPT ![s].pc = "open"]
     \/ WriterGone /\ str' = [str EXCEPT ![s].pc = "unwind"] /\ UNCHANGED lane
  /\ UNCHANGED <<dead, cancel, wpc, rpc, rcur, budget, streams, wire, unflushed, served, status, over, later>>

\* The caller's future is dropped while it waits for the map or the queue
OpenCancel(s) ==
  /\ At(s, {"insert", "syn"})
  /\ str' = [str EXCEPT ![s].pc = IF @ = "insert" THEN "gone" ELSE "unwind"]
  /\ UNCHANGED <<dead, cancel, wpc, rpc, rcur, budget, streams, lane, wire, unflushed, served, status, over, later>>

\* The spawned removal of the guard, and of a dropped stream
RemoveEntry(s) ==
  /\ At(s, {"unwind"})
  /\ streams' = streams \ {s}
  /\ str' = [str EXCEPT ![s].pc = "gone"]
  /\ UNCHANGED <<dead, cancel, wpc, rpc, rcur, budget, lane, wire, unflushed, served, status, over, later>>

\* The sender of s is gone: no entry in the map and no copy in the reader's hand
Hung(s) == s \notin streams /\ ~(rpc = "send" /\ rcur.s = s)

\* One byte of the chunk in hand, or of the next one; its permits return with its last byte
TakeByte(s, c) ==
  /\ str' = [str EXCEPT
       ![s].pend = IF c.lo = c.hi THEN NoChunk ELSE [c EXCEPT !.lo = @ + 1],
       ![s].q = IF str[s].pend = NoChunk THEN Tail(@) ELSE @,
       ![s].read = @ + 1,
       ![s].resp = IF @ = "pending" THEN status[s] ELSE @]
  /\ budget' = IF c.lo = c.hi THEN budget + c.size ELSE budget

\* poll_read behind poll_response: the first byte is the status, and a refused stream
\* reads no further
Read(s) ==
  /\ At(s, {"open"}) /\ str[s].resp # "failed"
  /\ \/ str[s].pend # NoChunk /\ TakeByte(s, str[s].pend)
     \/ str[s].pend = NoChunk /\ str[s].end = "open" /\ str[s].q # <<>> /\ TakeByte(s, Head(str[s].q))
     \/ /\ str[s].pend = NoChunk /\ str[s].end = "open" /\ str[s].q = <<>> /\ Hung(s)
        /\ str' = [str EXCEPT ![s].end = IF dead THEN "broken" ELSE "eof"]
        /\ UNCHANGED budget
  /\ UNCHANGED <<dead, cancel, wpc, rpc, rcur, streams, lane, wire, unflushed, served, status, over, later>>

\* poll_write, by a caller that does not write once it has shut down
Write(s) ==
  /\ At(s, {"open"}) /\ ~str[s].fin /\ ~dead /\ str[s].writes < MaxWrites[s]
  /\ ~WriterGone /\ Room /\ Post(Frame("PSH", s))
  /\ str' = [str EXCEPT ![s].writes = @ + 1, ![s].dirty = TRUE, ![s].flushed = FALSE]
  /\ UNCHANGED <<dead, cancel, wpc, rpc, rcur, budget, streams, wire, unflushed, served, status, over, later>>

\* Faulty: an earlier flush answers for what was written since
FlushTrusting(s) ==
  /\ At(s, {"open"}) /\ str[s].ack # "sent"
  /\ \/ /\ str[s].ack = "acked"
        /\ str' = [str EXCEPT ![s].ack = "none", ![s].flushed = TRUE]
        /\ UNCHANGED lane
     \/ /\ str[s].ack = "lost"
        /\ str' = [str EXCEPT ![s].ack = "none"]
        /\ UNCHANGED lane
     \/ /\ str[s].ack = "none"
        /\ ~str[s].flushed /\ str[s].writes > 0
        /\ ~WriterGone /\ Room /\ Post(Frame("FLUSH", s))
        /\ str' = [str EXCEPT ![s].dirty = FALSE, ![s].ack = "sent"]
  /\ UNCHANGED <<dead, cancel, wpc, rpc, rcur, budget, streams, wire, unflushed, served, status, over, later>>

\* poll_flush: an earlier flush is awaited first, and is enough unless something was written
\* since.  The caller may drop its future between two polls, and write.  A flush with nothing to
\* flush is left out
Flush(s) ==
  /\ At(s, {"open"}) /\ str[s].ack # "sent"
  /\ \/ /\ str[s].ack = "acked" /\ ~str[s].dirty
        /\ str' = [str EXCEPT ![s].ack = "none", ![s].flushed = TRUE]
        /\ UNCHANGED lane
     \/ /\ str[s].ack = "lost"
        /\ str' = [str EXCEPT ![s].ack = "none"]
        /\ UNCHANGED lane
     \/ /\ str[s].ack = "none" \/ (str[s].ack = "acked" /\ str[s].dirty)
        /\ ~str[s].flushed /\ str[s].writes > 0
        /\ ~WriterGone /\ Room /\ Post(Frame("FLUSH", s))
        /\ str' = [str EXCEPT ![s].dirty = FALSE, ![s].ack = "sent"]
  /\ UNCHANGED <<dead, cancel, wpc, rpc, rcur, budget, streams, wire, unflushed, served, status, over, later>>

Shutdown(s) ==
  /\ At(s, {"open"}) /\ ~str[s].fin
  /\ ~WriterGone /\ Room /\ Post(Frame("FIN", s))
  /\ str' = [str EXCEPT ![s].fin = TRUE]
  /\ UNCHANGED <<dead, cancel, wpc, rpc, rcur, budget, streams, wire, unflushed, served, status, over, later>>

Held(s) == FoldSeq(LAMBDA c, n : n + c.size, 0, str[s].q)
             + IF str[s].pend = NoChunk THEN 0 ELSE str[s].pend.size

\* A dropped stream sends its FIN now, or from a task of its own when the queue is full, frees
\* what it had not read, and leaves its entry to a spawned removal
DropStream(s) ==
  /\ At(s, {"open"})
  /\ LET owed == ~str[s].fin /\ ~WriterGone IN
       /\ IF owed /\ Room THEN Post(Frame("FIN", s)) ELSE UNCHANGED lane
       /\ later' = IF owed /\ ~Room THEN later \cup {s} ELSE later
  /\ budget' = budget + Held(s)
  /\ str' = [str EXCEPT ![s].pc = "unwind", ![s].q = <<>>, ![s].pend = NoChunk, ![s].fin = TRUE,
                        ![s].ack = "none", ![s].flushed = FALSE]
  /\ UNCHANGED <<dead, cancel, wpc, rpc, rcur, streams, wire, unflushed, served, status, over>>

DeferredFin(s) ==
  /\ s \in later
  /\ later' = later \ {s}
  /\ IF WriterGone THEN UNCHANGED lane ELSE Room /\ Post(Frame("FIN", s))
  /\ UNCHANGED <<dead, cancel, wpc, rpc, rcur, budget, streams, wire, unflushed, served, status, over, str>>

\* The last handle of the session goes: no stream is left, no caller is opening one
DropSession ==
  /\ ~cancel /\ \A s \in Sids : At(s, {"none", "unwind", "gone"})
  /\ dead' = TRUE /\ cancel' = TRUE
  /\ UNCHANGED <<wpc, rpc, rcur, budget, streams, lane, wire, unflushed, served, status, over, later, str>>

\* What the server has seen of a stream: nothing, a SYN and data, a FIN, or an illegal sequence
Seen(was, k) ==
  CASE was = "none" /\ k \in {"SYN", "NEW"} -> "syn"
    [] was = "syn" /\ k \in {"PSH", "KEEP"} -> "syn"
    [] was = "syn" /\ k \in {"FIN", "END"} -> "fin"
    [] OTHER -> "illegal"

\* The writer: a frame to the wire, or a flush and its acknowledgement; a failed write, or the
\* cancellation, ends it
WriterStep ==
  /\ wpc = "run" /\ lane # <<>>
  /\ LET f == Head(lane) IN
       /\ lane' = Tail(lane)
       /\ wire' = IF f.k = "FLUSH" THEN wire ELSE [wire EXCEPT ![f.s] = Seen(@, f.k)]
       /\ unflushed' = IF f.k = "FLUSH" THEN {} ELSE IF f.k = "PSH" THEN unflushed \cup {f.s} ELSE unflushed
       /\ str' = IF f.k = "FLUSH" /\ str[f.s].ack = "sent"
                 THEN [str EXCEPT ![f.s].ack = "acked"] ELSE str
  /\ UNCHANGED <<dead, cancel, wpc, rpc, rcur, budget, streams, served, status, over, later>>

WriterBreaks ==
  /\ wpc = "run" /\ (cancel \/ lane # <<>>)
  /\ wpc' = "mark"
  /\ UNCHANGED <<dead, cancel, rpc, rcur, budget, streams, lane, wire, unflushed, served, status, over, later, str>>

\* mark_dead, then cancel: the first to find the session alive clears the map
DeadTo(p) == IF dead THEN "cancel" ELSE p

WriterEnds ==
  /\ \/ wpc = "mark" /\ dead' = TRUE /\ wpc' = DeadTo("clear") /\ UNCHANGED <<cancel, streams, lane, str>>
     \/ wpc = "clear" /\ streams' = {} /\ wpc' = "cancel" /\ UNCHANGED <<dead, cancel, lane, str>>
     \/ /\ wpc = "cancel" /\ cancel' = TRUE /\ wpc' = "ended" /\ lane' = <<>>
        /\ str' = [s \in Sids |-> IF str[s].ack = "sent" THEN [str[s] EXCEPT !.ack = "lost"] ELSE str[s]]
        /\ UNCHANGED <<dead, streams>>
  /\ UNCHANGED <<rpc, rcur, budget, wire, unflushed, served, status, over, later>>

\* The reader: a header.  The server speaks on streams it has heard of, and may send nonsense
Known(s) == wire[s] # "none"
ReadHeader ==
  /\ rpc = "header"
  /\ \E s \in {t \in Sids : Known(t) /\ t \notin over} :
       \/ \E n \in 1..Budget :
            /\ served[s] + n <= MaxServed[s]
            /\ served' = [served EXCEPT ![s] = @ + n]
            /\ IF served[s] = 0 THEN \E r \in {"ok", "failed"} : status' = [status EXCEPT ![s] = r]
                                ELSE UNCHANGED status
            /\ rcur' = Arrived(Frame("PSH", s), Chunk(served[s] + 1, served[s] + n))
            /\ rpc' = "budget" /\ UNCHANGED over
       \/ /\ rcur' = Arrived(Frame("FIN", s), NoChunk) /\ rpc' = "handle"
          /\ over' = over \cup {s} /\ UNCHANGED <<served, status>>
  /\ UNCHANGED <<dead, cancel, wpc, budget, streams, lane, wire, unflushed, later, str>>

\* The permits of the payload are taken before it is read
TakePermits ==
  /\ rpc = "budget" /\ budget >= rcur.c.size
  /\ budget' = budget - rcur.c.size
  /\ rpc' = "handle"
  /\ UNCHANGED <<dead, cancel, wpc, rcur, streams, lane, wire, unflushed, served, status, over, later, str>>

\* handle_frame: data of an unknown stream is dropped, a FIN removes the entry
HandleFrame ==
  /\ rpc = "handle"
  /\ IF rcur.k = "FIN"
     THEN streams' = streams \ {rcur.s} /\ rpc' = "header" /\ UNCHANGED budget
     ELSE /\ rpc' = IF rcur.s \in streams THEN "send" ELSE "header"
          /\ budget' = IF rcur.s \in streams THEN budget ELSE budget + rcur.c.size
          /\ UNCHANGED streams
  /\ UNCHANGED <<dead, cancel, wpc, rcur, lane, wire, unflushed, served, status, over, later, str>>

\* tx.send waits for room, and fails once the stream was dropped
SendChunk ==
  /\ rpc = "send" /\ rpc' = "header"
  /\ LET s == rcur.s IN
       \/ /\ At(s, {"syn", "open"}) /\ Len(str[s].q) < StreamQueue
          /\ str' = [str EXCEPT ![s].q = Append(@, rcur.c)] /\ UNCHANGED budget
       \/ /\ ~At(s, {"syn", "open"})
          /\ budget' = budget + rcur.c.size /\ UNCHANGED str
  /\ UNCHANGED <<dead, cancel, wpc, rcur, streams, lane, wire, unflushed, served, status, over, later>>

\* A broken connection or a frame no server may send ends the reader between frames, the
\* cancellation wherever it waits; the frame in hand and its permits go
ReaderBreaks ==
  /\ rpc \in {"header", "handle"} \/ (cancel /\ rpc \in {"budget", "send"})
  /\ budget' = IF rpc \in {"handle", "send"} THEN budget + rcur.c.size ELSE budget
  /\ rpc' = "mark"
  /\ UNCHANGED <<dead, cancel, wpc, rcur, streams, lane, wire, unflushed, served, status, over, later, str>>

ReaderEnds ==
  /\ \/ rpc = "mark" /\ dead' = TRUE /\ rpc' = DeadTo("clear") /\ UNCHANGED <<cancel, streams>>
     \/ rpc = "clear" /\ streams' = {} /\ rpc' = "cancel" /\ UNCHANGED <<dead, cancel>>
     \/ rpc = "cancel" /\ cancel' = TRUE /\ rpc' = "ended" /\ UNCHANGED <<dead, streams>>
  /\ UNCHANGED <<wpc, rcur, budget, lane, wire, unflushed, served, status, over, later, str>>

SmuxNext ==
  \/ \E s \in Sids :
       \/ OpenStart(s) \/ OpenInsert(s) \/ OpenSyn(s) \/ OpenCancel(s) \/ RemoveEntry(s)
       \/ Read(s) \/ Write(s) \/ Flush(s) \/ Shutdown(s) \/ DropStream(s) \/ DeferredFin(s)
  \/ DropSession
  \/ WriterStep \/ WriterBreaks \/ WriterEnds
  \/ ReadHeader \/ TakePermits \/ HandleFrame \/ SendChunk \/ ReaderBreaks \/ ReaderEnds

\* The frames of a stream leave as one SYN, its data, and at most one FIN that ends them, however its
\* open, shutdown, drop and deferred FIN interleave with the other stream's (smux.rs:290-300,
\* 433-461, 629-653)
SmuxWire == \A s \in Sids : wire[s] # "illegal"

\* What a stream has read is a prefix of what the server sent on it: the chunk in hand, the
\* queued ones and the reader's follow one another without gap or repetition (smux.rs:221-261,
\* 377-391, 482-541)
Follows(s) ==
  LET mine == (IF str[s].pend = NoChunk THEN <<>> ELSE <<str[s].pend>>) \o str[s].q
                \o (IF rpc = "send" /\ rcur.s = s THEN <<rcur.c>> ELSE <<>>)
  IN \A i \in 1..Len(mine) : mine[i].lo = (IF i = 1 THEN str[s].read ELSE mine[i - 1].hi) + 1
SmuxInOrder == \A s \in Sids : At(s, {"open"}) => Follows(s)

\* The permits of the receive budget are those of the chunks still held, through reads, drops,
\* unknown streams and the cancellation of the reader (smux.rs:101-106, 221-232)
SmuxBudget ==
  budget + MapThenSumSet(Held, Sids)
         + (IF rpc \in {"handle", "send"} /\ rcur.k = "PSH" THEN rcur.c.size ELSE 0) = Budget

\* A flush that returned means that everything the stream had written went to the connection
\* and was flushed, although an abandoned flush may answer for an older one
\* (smux.rs:580-600).  A FIN is not covered: nothing flushes it
SmuxFlushed ==
  \A s \in Sids : str[s].flushed =>
    Frame("PSH", s) \notin ToSet(lane) /\ s \notin unflushed

\* Once both tasks have ended no reader waits for ever, except that of a stream whose entry was made
\* after the session was found dead (smux.rs:272-301, 355-361)
SmuxNoneWaits ==
  wpc = "ended" /\ rpc = "ended" =>
    \A s \in Sids : At(s, {"open"}) /\ ~str[s].late => Hung(s)

\* A stream reads a clean end only after the server's FIN: a session that died under it is an error
SmuxNoTruncation ==
  \A s \in Sids : str[s].end = "eof" => s \in over /\ str[s].read = served[s]

---------------------------------------------------------------------------
(* mux.cool.  The driver's read and write steps keep their progress outside the    *)
(* select, so a step that another branch interrupts goes on where it was; a length *)
(* field is read with what follows it.                                             *)

NoEvent == [k |-> "none", s |-> 0, c |-> NoChunk]
CoolInit ==
  /\ closed = FALSE /\ retired = FALSE /\ nextSid = 1
  /\ done = FALSE /\ space = FALSE
  /\ dpc = "top" /\ rd = NoEvent /\ parked = NoEvent
  /\ wbuf = [todo |-> <<>>, flush |-> FALSE]
  /\ table = {} /\ queue = <<>> /\ out = [s \in Sids |-> "none"]
  /\ sent = [s \in Sids |-> [n |-> 0, over |-> FALSE]]
  /\ jobs = {}
  /\ st = [s \in Sids |-> [pc |-> "none", udp |-> FALSE, q |-> <<>>, pend |-> NoChunk, read |-> 0,
                            end |-> "open", ended |-> FALSE, writes |-> 0]]

driverVars == <<dpc, rd, parked, wbuf>>
flagVars == <<closed, retired, done>>
CoolAt(s, pcs) == st[s].pc \in pcs
CoolRoom == Len(queue) < Outbound
Queue(f) == queue' = Append(queue, f)
DriverGone == dpc = "ended"
\* send_frame looks at closed once, then waits for room
MaySend == ~closed /\ ~DriverGone /\ CoolRoom

\* open_stream_parts up to the insertion; alloc_sid retires a session whose ids are used up
CoolOpen(udp) ==
  /\ ~closed
  /\ IF nextSid > Max(Sids)
     THEN retired' = TRUE /\ UNCHANGED <<nextSid, st>>
     ELSE /\ nextSid' = nextSid + 1
          /\ st' = [st EXCEPT ![nextSid].pc = "insert", ![nextSid].udp = udp]
          /\ UNCHANGED retired
  /\ UNCHANGED <<closed, done, space, driverVars, table, queue, out, sent, jobs>>

CoolInsert(s) ==
  /\ CoolAt(s, {"insert"})
  /\ table' = table \cup {s}
  /\ st' = [st EXCEPT ![s].pc = "check"]
  /\ UNCHANGED <<flagVars, nextSid, space, driverVars, queue, out, sent, jobs>>

\* send_frame of the New frame: closed is looked at again, behind the insertion
CoolCheck(s) ==
  /\ CoolAt(s, {"check"})
  /\ st' = [st EXCEPT ![s].pc = IF closed THEN "gone" ELSE "new"]
  /\ jobs' = IF closed THEN jobs \cup {<<"remove", s>>} ELSE jobs
  /\ UNCHANGED <<flagVars, nextSid, space, driverVars, table, queue, out, sent>>

CoolNew(s) ==
  /\ CoolAt(s, {"new"})
  /\ IF DriverGone
     THEN /\ st' = [st EXCEPT ![s].pc = "gone"] /\ jobs' = jobs \cup {<<"remove", s>>}
          /\ UNCHANGED queue
     ELSE /\ CoolRoom /\ Queue(Frame("NEW", s))
          /\ st' = [st EXCEPT ![s].pc = "open"] /\ UNCHANGED jobs
  /\ UNCHANGED <<flagVars, nextSid, space, driverVars, table, out, sent>>

\* The opener is dropped while it waits; the StreamMapGuard removes an entry that was made
CoolCancel(s) ==
  /\ CoolAt(s, {"insert", "new"})
  /\ st' = [st EXCEPT ![s].pc = "gone"]
  /\ jobs' = IF CoolAt(s, {"new"}) THEN jobs \cup {<<"remove", s>>} ELSE jobs
  /\ UNCHANGED <<flagVars, nextSid, space, driverVars, table, queue, out, sent>>

\* The spawned tasks: a removal, or a removal and then an End frame
Job(s) ==
  /\ \/ /\ <<"remove", s>> \in jobs
        /\ table' = table \ {s} /\ jobs' = jobs \ {<<"remove", s>>} /\ UNCHANGED queue
     \/ /\ <<"end", s>> \in jobs
        /\ table' = table \ {s} /\ jobs' = (jobs \ {<<"end", s>>}) \cup {<<"send", s>>}
        /\ UNCHANGED queue
     \/ /\ <<"send", s>> \in jobs
        /\ IF closed \/ DriverGone THEN UNCHANGED queue ELSE CoolRoom /\ Queue(Frame("END", s))
        /\ jobs' = jobs \ {<<"send", s>>} /\ UNCHANGED table
  /\ UNCHANGED <<flagVars, nextSid, space, driverVars, out, sent, st>>

Unparked(s) == parked = NoEvent \/ parked.s # s
CoolHung(s) == s \notin table /\ Unparked(s)

\* Faulty variant of TakeEvent: the driver is not told of the room
TakeEventSilent(s) ==
  LET e == Head(st[s].q)
      whole == st[s].udp \/ e.c.lo >= e.c.hi
  IN /\ st' = [st EXCEPT
          ![s].q = Tail(@),
          ![s].pend = IF whole THEN NoChunk ELSE [e.c EXCEPT !.lo = @ + 1],
          ![s].read = IF e.k = "data" THEN IF whole THEN e.c.hi ELSE e.c.lo ELSE @,
          ![s].end = IF e.k = "eof" THEN "eof" ELSE @]
     /\ UNCHANGED space

\* An event leaves the queue: the driver is told of the room.  A packet is taken whole
TakeEvent(s) ==
  LET e == Head(st[s].q)
      whole == st[s].udp \/ e.c.lo >= e.c.hi
  IN /\ st' = [st EXCEPT
          ![s].q = Tail(@),
          ![s].pend = IF whole THEN NoChunk ELSE [e.c EXCEPT !.lo = @ + 1],
          ![s].read = IF e.k = "data" THEN IF whole THEN e.c.hi ELSE e.c.lo ELSE @,
          ![s].end = IF e.k = "eof" THEN "eof" ELSE @]
     /\ space' = TRUE

\* poll_read: what is left of an event, the next event, or the end of the channel
CoolRead(s) ==
  /\ CoolAt(s, {"open"}) /\ st[s].end = "open"
  /\ \/ /\ st[s].pend # NoChunk
        /\ st' = [st EXCEPT ![s].pend = IF @.lo = @.hi THEN NoChunk ELSE [@ EXCEPT !.lo = @ + 1],
                            ![s].read = @ + 1]
        /\ UNCHANGED space
     \/ st[s].pend = NoChunk /\ st[s].q # <<>> /\ TakeEvent(s)
     \/ /\ st[s].pend = NoChunk /\ st[s].q = <<>> /\ CoolHung(s)
        /\ st' = [st EXCEPT ![s].end = IF closed \/ st[s].udp THEN "broken" ELSE "eof"]
        /\ space' = IF st[s].udp THEN space ELSE TRUE
  /\ UNCHANGED <<flagVars, nextSid, driverVars, table, queue, out, sent, jobs>>

\* poll_write and write_packet
CoolWrite(s) ==
  /\ CoolAt(s, {"open"}) /\ ~st[s].ended /\ st[s].writes < MaxWrites[s]
  /\ MaySend /\ Queue(Frame("KEEP", s))
  /\ st' = [st EXCEPT ![s].writes = @ + 1]
  /\ UNCHANGED <<flagVars, nextSid, space, driverVars, table, out, sent, jobs>>

\* poll_shutdown is a full close: the End frame, then a spawned removal
CoolShutdown(s) ==
  /\ CoolAt(s, {"open"}) /\ ~st[s].udp /\ ~st[s].ended
  /\ ~DriverGone /\ CoolRoom /\ Queue(Frame("END", s))
  /\ st' = [st EXCEPT ![s].ended = TRUE]
  /\ jobs' = jobs \cup {<<"remove", s>>}
  /\ UNCHANGED <<flagVars, nextSid, space, driverVars, table, out, sent>>

\* A drop closes the channel and lets the EndGuard close the stream, and only then wakes
CoolDrop(s) ==
  /\ CoolAt(s, {"open"})
  /\ st' = [st EXCEPT ![s].pc = "wake", ![s].q = <<>>, ![s].pend = NoChunk]
  /\ jobs' = IF st[s].ended \/ closed THEN jobs ELSE jobs \cup {<<"end", s>>}
  /\ UNCHANGED <<flagVars, nextSid, space, driverVars, table, queue, out, sent>>

SpaceWake(s) ==
  /\ CoolAt(s, {"wake"})
  /\ st' = [st EXCEPT ![s].pc = "gone"]
  /\ space' = TRUE
  /\ UNCHANGED <<flagVars, nextSid, driverVars, table, queue, out, sent, jobs>>

\* The last handle goes: the spawned removals of a guard do not hold one, the others do
CoolDropSession ==
  /\ ~done /\ ~DriverGone /\ \A s \in Sids : CoolAt(s, {"none", "gone"})
  /\ \A j \in jobs : j[1] = "remove" /\ ~st[j[2]].ended
  /\ closed' = TRUE /\ done' = TRUE
  /\ UNCHANGED <<retired, nextSid, space, driverVars, table, queue, out, sent, jobs, st>>

\* A stream whose receiver exists
HasRx == {"check", "new", "open"}
Full(s) == CoolAt(s, HasRx) /\ Len(st[s].q) >= StreamQueue
Enter(e) == IF CoolAt(e.s, HasRx)
            THEN st' = [st EXCEPT ![e.s].q = Append(@, [k |-> e.k, c |-> e.c])] ELSE UNCHANGED st

\* The top of the driver's loop: a parked event is tried again
Retry ==
  /\ dpc = "top" /\ dpc' = "select"
  /\ IF parked = NoEvent \/ Full(parked.s) THEN UNCHANGED <<parked, st>>
     ELSE parked' = NoEvent /\ Enter(parked)
  /\ UNCHANGED <<flagVars, nextSid, space, rd, wbuf, table, queue, out, sent, jobs>>

\* deliver_now: to a stream that is known; a full queue parks the event
Deliver(known, e) ==
  /\ dpc' = "top"
  /\ IF ~known THEN UNCHANGED <<parked, st>>
     ELSE IF Full(e.s) THEN parked' = e /\ UNCHANGED st
     ELSE Enter(e) /\ UNCHANGED parked

\* A frame without payload: End, with or without an error, removes the entry and tells the stream;
\* Keep may report an error; KeepAlive is nothing.  With a payload, the payload is read next
ReadMeta ==
  /\ dpc = "select" /\ parked = NoEvent /\ rd = NoEvent
  /\ \/ \E s \in {t \in Sids : out[t] # "none" /\ ~sent[t].over} :
          \/ \E k \in {"eof", "error"} :
               /\ Deliver(s \in table, [k |-> k, s |-> s, c |-> NoChunk])
               /\ table' = table \ {s} /\ sent' = [sent EXCEPT ![s].over = TRUE]
               /\ UNCHANGED rd
          \/ /\ Deliver(s \in table, [k |-> "error", s |-> s, c |-> NoChunk])
             /\ UNCHANGED <<rd, table, sent>>
          \/ \E n \in 1..2 :
               /\ sent[s].n + n <= MaxServed[s]
               /\ rd' = [k |-> "data", s |-> s, c |-> Chunk(sent[s].n + 1, sent[s].n + n)]
               /\ sent' = [sent EXCEPT ![s].n = @ + n]
               /\ dpc' = "top" /\ UNCHANGED <<parked, st, table>>
     \/ dpc' = "top" /\ UNCHANGED <<rd, parked, st, table, sent>>
  /\ UNCHANGED <<flagVars, nextSid, space, wbuf, queue, out, jobs>>

ReadData ==
  /\ dpc = "select" /\ parked = NoEvent /\ rd # NoEvent
  /\ Deliver(rd.s \in table, rd) /\ rd' = NoEvent
  /\ UNCHANGED <<flagVars, nextSid, space, wbuf, table, queue, out, sent, jobs>>

SpaceBranch ==
  /\ dpc = "select" /\ parked # NoEvent /\ space
  /\ space' = FALSE /\ dpc' = "top"
  /\ UNCHANGED <<flagVars, nextSid, rd, parked, wbuf, table, queue, out, sent, jobs, st>>

\* write_step: everything queued is taken at once, written in parts, then flushed
Fetch ==
  /\ dpc = "select" /\ wbuf.todo = <<>> /\ ~wbuf.flush /\ queue # <<>>
  /\ wbuf' = [todo |-> queue, flush |-> TRUE] /\ queue' = <<>>
  /\ UNCHANGED <<flagVars, nextSid, space, dpc, rd, parked, table, out, sent, jobs, st>>

WritePart ==
  /\ dpc = "select" /\ wbuf.todo # <<>>
  /\ LET f == Head(wbuf.todo)
     IN out' = IF f.s = 0 THEN out ELSE [out EXCEPT ![f.s] = Seen(@, f.k)]
  /\ wbuf' = [wbuf EXCEPT !.todo = Tail(@)] /\ dpc' = "top"
  /\ UNCHANGED <<flagVars, nextSid, space, rd, parked, table, queue, sent, jobs, st>>

FlushPart ==
  /\ dpc = "select" /\ wbuf.flush /\ wbuf.todo = <<>>
  /\ wbuf' = [wbuf EXCEPT !.flush = FALSE] /\ dpc' = "top"
  /\ UNCHANGED <<flagVars, nextSid, space, rd, parked, table, queue, out, sent, jobs, st>>

\* done, an error of the connection or a frame no server may send ends the loop
DriverBreaks ==
  /\ dpc = "select"
  /\ dpc' = "close"
  /\ UNCHANGED <<flagVars, nextSid, space, rd, parked, wbuf, table, queue, out, sent, jobs, st>>

\* closed is set, then every stream told as far as its queue has room, and the map cleared
DriverEnds ==
  /\ \/ dpc = "close" /\ dpc' = "clear" /\ closed' = TRUE /\ UNCHANGED <<parked, table, queue, st>>
     \/ /\ dpc = "clear" /\ dpc' = "ended" /\ table' = {} /\ queue' = <<>> /\ parked' = NoEvent
        /\ st' = [s \in Sids |->
                    IF s \in table /\ CoolAt(s, HasRx) /\ ~Full(s)
                    THEN [st[s] EXCEPT !.q = Append(@, [k |-> "error", c |-> NoChunk])] ELSE st[s]]
        /\ UNCHANGED closed
  /\ UNCHANGED <<retired, done, nextSid, space, rd, wbuf, out, sent, jobs>>

\* keepalive_loop, one frame queued at a time
Keepalive ==
  /\ MaySend /\ Frame("ALIVE", 0) \notin ToSet(queue) /\ Queue(Frame("ALIVE", 0))
  /\ UNCHANGED <<flagVars, nextSid, space, driverVars, table, out, sent, jobs, st>>

CoolNext ==
  \/ \E udp \in BOOLEAN : CoolOpen(udp)
  \/ \E s \in Sids :
       \/ CoolInsert(s) \/ CoolCheck(s) \/ CoolNew(s) \/ CoolCancel(s) \/ Job(s)
       \/ CoolRead(s) \/ CoolWrite(s) \/ CoolShutdown(s) \/ CoolDrop(s) \/ SpaceWake(s)
  \/ CoolDropSession \/ Keepalive
  \/ Retry \/ ReadMeta \/ ReadData \/ SpaceBranch \/ Fetch \/ WritePart \/ FlushPart
  \/ DriverBreaks \/ DriverEnds

\* A New frame opens a stream on the wire, at most one End frame closes it, and nothing follows:
\* the driver batches frames of streams whose guards, shutdowns and openers race
\* (muxcool.rs:476-508, 632-660, 1185-1237)
CoolWire == \A s \in Sids : out[s] # "illegal"

\* A driver that waits with a parked event has been woken, or is about to be, once that event's
\* queue has room or lost its reader: the wake-up follows the room (muxcool.rs:600-612, 977-987, 1104)
CoolNoLostWakeup ==
  dpc = "select" /\ parked # NoEvent /\ ~Full(parked.s) => space \/ CoolAt(parked.s, {"wake"})

\* The chunks of a stream follow one another from the reader to the parked event (muxcool.rs:734-761,
\* 857-889, 1087-1130)
CoolInOrder ==
  \A s \in Sids : CoolAt(s, {"open"}) =>
    LET data == SelectSeq(st[s].q, LAMBDA e : e.k = "data")
        mine == (IF st[s].pend = NoChunk THEN <<>> ELSE <<st[s].pend>>) \o [i \in DOMAIN data |-> data[i].c]
                  \o (IF parked.s = s /\ parked.k = "data" THEN <<parked.c>> ELSE <<>>)
    IN \A i \in DOMAIN mine : mine[i].lo = (IF i = 1 THEN st[s].read ELSE mine[i - 1].hi) + 1

\* A clean end was sent by the server, after all its data, or asked for by the caller; and no reader
\* outlives the driver without hearing of it (muxcool.rs:447, 497, 999-1013, 1124-1130)
CoolEndsTrue ==
  /\ \A s \in Sids : st[s].end = "eof" => st[s].ended \/ (sent[s].over /\ st[s].read = sent[s].n)
  /\ DriverGone => \A s \in Sids : CoolAt(s, {"open"}) => CoolHung(s)

---------------------------------------------------------------------------
(* Datagrams over a stream.  A datagram is a sequence of bytes, its frame the two   *)
(* bytes of its length and then itself; `line` is what the stream took.             *)

Datagrams == {<<>>, <<1>>, <<0, 1>>}
FrameOf(d) == <<0, Len(d)>> \o d
NoPending == [frame |-> <<>>, off |-> 0]
IdleCall == [pc |-> "idle", d |-> <<>>]

PacketInit ==
  /\ pending = NoPending /\ call = IdleCall /\ line = <<>> /\ acked = {}
  /\ hdr = <<>> /\ payload = <<>> /\ got = <<>>

Pend(d) == pending' = [frame |-> FrameOf(d), off |-> 0]

\* A call with other data than the pending frame discards it if none of it was written
DropsOldAlways == TRUE
DropsOld == pending.off = 0

\* write_datagram up to its first write: what is pending is resumed by a call with the same data,
\* dropped or finished first by a call with other data
WriteDatagram(d) ==
  /\ call.pc = "idle" /\ Len(line) + Len(d) < MaxLine
  /\ LET other == pending # NoPending /\ SubSeq(pending.frame, 3, Len(pending.frame)) # d
     IN IF other /\ ~DropsOld THEN call' = [pc |-> "old", d |-> d] /\ UNCHANGED pending
        ELSE /\ call' = [pc |-> "new", d |-> d]
             /\ IF pending = NoPending \/ other THEN Pend(d) ELSE UNCHANGED pending
  /\ UNCHANGED <<line, acked, hdr, payload, got>>

\* One write of drain_pending: some bytes, and the frame is done with its last byte
DrainPart(n) ==
  /\ call.pc \in {"old", "new"} /\ n <= Len(pending.frame) - pending.off
  /\ line' = line \o SubSeq(pending.frame, pending.off + 1, pending.off + n)
  /\ IF pending.off + n < Len(pending.frame) THEN pending' = [pending EXCEPT !.off = @ + n] /\ UNCHANGED call
     ELSE IF call.pc = "old" THEN Pend(call.d) /\ call' = [call EXCEPT !.pc = "new"]
     ELSE pending' = NoPending /\ call' = [call EXCEPT !.pc = "flush"]
  /\ UNCHANGED <<acked, hdr, payload, got>>

\* The flush succeeds; or the call is dropped at an await, or fails: what is pending stays
WriteReturns ==
  /\ call.pc # "idle" /\ call' = IdleCall
  /\ \/ call.pc = "flush" /\ acked' = acked \cup {[d |-> call.d, at |-> Len(line)]}
     \/ UNCHANGED acked
  /\ UNCHANGED <<pending, line, hdr, payload, got>>

\* read_datagram: partial headers and payloads survive a dropped call.  `got` counts what was taken
\* off the stream, a datagram too large for its caller's buffer included
Consumed == FoldSeq(LAMBDA d, n : n + 2 + Len(d), 0, got) + Len(hdr) + Len(payload)
ReadDatagram(n) ==
  /\ Consumed + n <= Len(line)
  /\ LET bytes == SubSeq(line, Consumed + 1, Consumed + n)
         h == IF Len(hdr) < 2 THEN hdr \o bytes ELSE hdr
         p == IF Len(hdr) < 2 THEN payload ELSE payload \o bytes
     IN /\ IF Len(hdr) < 2 THEN Len(hdr) + n <= 2 ELSE Len(payload) + n <= hdr[2]
        /\ IF Len(h) = 2 /\ Len(p) = h[2]
           THEN hdr' = <<>> /\ payload' = <<>> /\ got' = Append(got, p)
           ELSE hdr' = h /\ payload' = p /\ UNCHANGED got
  /\ UNCHANGED <<pending, call, line, acked>>

PacketNext ==
  \/ \E d \in Datagrams : WriteDatagram(d)
  \/ \E n \in 1..4 : DrainPart(n)
  \/ WriteReturns
  \/ \E n \in 1..2 : ReadDatagram(n)

\* What a reader of the framing makes of a sequence of bytes
Framed(bytes) ==
  LET from[i \in 1..Len(bytes) + 1] ==
        IF i + 1 > Len(bytes) \/ i + 1 + bytes[i + 1] > Len(bytes)
        THEN [ds |-> <<>>, rest |-> SubSeq(bytes, i, Len(bytes))]
        ELSE LET after == from[i + 2 + bytes[i + 1]]
             IN [after EXCEPT !.ds = <<SubSeq(bytes, i + 2, i + 1 + bytes[i + 1])>> \o @]
  IN from[1]

\* Wherever calls are dropped, the stream carries whole frames and then exactly the written part of
\* the pending one; a datagram whose write returned is the frame that ended there; and the reader
\* takes the datagrams off in order (packet.rs:105-151, 172-246)
PacketsIntact ==
  LET whole == Framed(line)
  IN /\ whole.rest = SubSeq(pending.frame, 1, pending.off)
     /\ \A a \in acked : LET w == Framed(SubSeq(line, 1, a.at)) IN w.rest = <<>> /\ Last(w.ds) = a.d
     /\ IsPrefix(got, whole.ds)

---------------------------------------------------------------------------
(* The yamux driver: requests go through a channel to a queue in the driver, and    *)
(* are answered in order.  h2mux has no queue: its opener waits under a timeout.     *)

YamuxInit == ydriver = "run" /\ yreq = [channel |-> <<>>, queue |-> <<>>, answered |-> <<>>,
                                        failed |-> {}, session |-> TRUE]

Asked == ToSet(yreq.channel) \cup ToSet(yreq.queue) \cup ToSet(yreq.answered) \cup yreq.failed
\* open_stream: an error at once when the driver has dropped its end
YamuxOpen(r) ==
  /\ r \notin Asked /\ yreq.session
  /\ yreq' = IF ydriver = "gone" THEN [yreq EXCEPT !.failed = @ \cup {r}]
             ELSE [yreq EXCEPT !.channel = Append(@, r)]
  /\ UNCHANGED ydriver
\* One poll of the driver drains the channel, then answers as many as the connection allows
YamuxPoll ==
  /\ ydriver = "run"
  /\ \E n \in 0..Len(yreq.queue \o yreq.channel) :
       LET all == yreq.queue \o yreq.channel
       IN yreq' = [yreq EXCEPT !.channel = <<>>, !.answered = @ \o SubSeq(all, 1, n),
                               !.queue = SubSeq(all, n + 1, Len(all))]
  /\ UNCHANGED ydriver
\* The connection ends, or the session is dropped and aborts the task: what the task held goes
YamuxEnds ==
  \/ ydriver = "run" /\ ydriver' = "store" /\ UNCHANGED yreq
  \/ /\ ydriver \in {"run", "store"} /\ ydriver' = "gone"
     /\ \E drops \in BOOLEAN :
          /\ drops \/ ydriver = "store"
          /\ yreq' = [yreq EXCEPT !.failed = @ \cup ToSet(yreq.channel \o yreq.queue),
                                  !.channel = <<>>, !.queue = <<>>, !.session = ~drops /\ @]

YamuxNext == YamuxEnds \/ YamuxPoll \/ \E r \in Requests : YamuxOpen(r)

\* Every request accepted is answered or fails once the driver is gone, and none twice
\* (yamux.rs:53-97, 105-115)
YamuxAnswers ==
  /\ ydriver = "gone" => yreq.channel = <<>> /\ yreq.queue = <<>>
  /\ ToSet(yreq.answered) \cap yreq.failed = {}
  /\ Cardinality(ToSet(yreq.answered)) = Len(yreq.answered)

---------------------------------------------------------------------------
(* Frames as bytes.  A host is a v4 or v6 address or a name, each a sequence of       *)
(* bytes; what cannot be encoded or decoded is Err.                                  *)

Host(kind, b) == [kind |-> kind, b |-> b]
NoHost == Host("none", <<>>)
BE(n) == <<n \div 256, n % 256>>
LE(n) == <<n % 256, n \div 256>>
FromBE(b) == b[1] * 256 + b[2]
Drop(b, n) == SubSeq(b, n + 1, Len(b))
Take(b, n) == SubSeq(b, 1, n)
Err == <<>>
Repeat(n) == [i \in 1..n |-> i % 256]
AddressType == [v4 |-> 1, name |-> 2, v6 |-> 3]
AddressBytes == [v4 |-> 4, v6 |-> 16]

put_address(h, port) ==
  IF h.kind = "name" /\ Len(h.b) > 255 THEN Err
  ELSE BE(port) \o <<AddressType[h.kind]>> \o (IF h.kind = "name" THEN <<Len(h.b)>> ELSE <<>>) \o h.b

Statuses == [new |-> 1, keep |-> 2, end |-> 3, alive |-> 4]
TCP == 1
UDP == 2
DataOption == 1
ErrorOption == 2
Meta(m) == BE(Len(m)) \o m

encode_new_frame(sid, udp, h, port) ==
  IF put_address(h, port) = Err THEN Err
  ELSE Meta(BE(sid) \o <<Statuses.new, 0, IF udp THEN UDP ELSE TCP>> \o put_address(h, port))
encode_data_frame(sid, data, h, port) ==
  IF h # NoHost /\ put_address(h, port) = Err THEN Err
  ELSE Meta(BE(sid) \o <<Statuses.keep, DataOption>>
              \o (IF h = NoHost THEN <<>> ELSE <<UDP>> \o put_address(h, port)))
         \o BE(Len(data)) \o data
encode_udp_data_frame(sid, data, ip, port) ==
  Meta(BE(sid) \o <<Statuses.keep, DataOption, UDP>> \o BE(port) \o <<AddressType[ip.kind]>> \o ip.b)
    \o BE(Len(data)) \o data
encode_end_frame(sid, failed) == BE(4) \o BE(sid) \o <<Statuses.end, IF failed THEN ErrorOption ELSE 0>>
encode_keepalive_frame == BE(4) \o BE(0) \o <<Statuses.alive, 0>>

parse_address(b) ==
  IF Len(b) < 3 THEN Err
  ELSE LET kinds == {k \in DOMAIN AddressType : AddressType[k] = b[3]}
           port == FromBE(b)
       IN IF kinds = {} THEN Err
          ELSE IF b[3] # AddressType.name
          THEN LET k == CHOOSE k \in kinds : TRUE
               IN IF Len(b) < 3 + AddressBytes[k] THEN Err ELSE <<Host(k, SubSeq(b, 4, 3 + AddressBytes[k])), port>>
          ELSE IF Len(b) < 4 \/ Len(b) < 4 + b[4] THEN Err
          ELSE <<Host("name", SubSeq(b, 5, 4 + b[4])), port>>

decode_meta(m) ==
  IF Len(m) < 4 THEN Err
  ELSE LET rest == Drop(m, 4)
           withDest == m[3] = Statuses.new \/ (m[3] = Statuses.keep /\ rest # <<>> /\ rest[1] = UDP)
           dest == IF rest = <<>> \/ rest[1] \notin {TCP, UDP} THEN Err ELSE parse_address(Drop(rest, 1))
       IN IF m[3] = Statuses.end /\ m[4] % 2 = DataOption THEN Err
          ELSE IF ~withDest THEN <<FromBE(m), m[3], m[4], <<NoHost, 0>>>>
          ELSE IF dest = Err THEN Err ELSE <<FromBE(m), m[3], m[4], dest>>

\* The request that opens a sing-mux session: random padding follows only when both sides know of it
encode_request(r, pad) ==
  <<r.version, r.protocol>>
    \o (IF r.version # 1 THEN <<>>
        ELSE IF r.padding THEN <<1>> \o BE(pad) \o Repeat(pad) ELSE <<0>>)
decode_request(b) ==
  IF Len(b) < 2 \/ b[1] \notin 0..1 \/ b[2] > 2 \/ (b[1] = 1 /\ Len(b) < 3) THEN Err
  ELSE LET padded == b[1] = 1 /\ b[3] # 0
           head == IF b[1] = 1 THEN 3 ELSE 2
       IN IF padded /\ (Len(b) < head + 2 \/ Len(b) < head + 2 + FromBE(Drop(b, head))) THEN Err
          ELSE <<[version |-> b[1], protocol |-> b[2], padding |-> padded],
                 IF padded THEN head + 2 + FromBE(Drop(b, head)) ELSE head>>

\* The destination written as the first bytes of a stream
encode_address(h, port) ==
  IF h.kind = "name" /\ Len(h.b) > 255 THEN Err
  ELSE <<[v4 |-> 1, v6 |-> 4, name |-> 3][h.kind]>> \o (IF h.kind = "name" THEN <<Len(h.b)>> ELSE <<>>)
         \o h.b \o BE(port)
encode_stream_request_with_flags(h, port, udp) ==
  IF encode_address(h, port) = Err THEN Err ELSE BE(IF udp THEN 1 ELSE 0) \o encode_address(h, port)

encode_frame(cmd, sid, data) == <<1, cmd>> \o LE(Len(data)) \o LE(sid) \o <<0, 0>> \o data
decode_header(b) ==
  IF Len(b) < 8 \/ b[1] # 1 THEN Err ELSE <<b[2], b[3] + 256 * b[4], b[5] + 256 * b[6]>>

\* Samples with every boundary of the encodings
SomeHosts == {Host("v4", Repeat(4)), Host("v6", Repeat(16))}
                \cup {Host("name", Repeat(n)) : n \in {0, 1, 255, 256}}
SomeNumbers == {0, 258, 65535}
Encodable(h) == Len(h.b) < 256
StrictPrefixes(b) == {Take(b, n) : n \in 0..Len(b) - 1}

\* Each frame decodes to what was encoded and no shorter input decodes at all; names over 255 bytes are
\* refused rather than truncated; the two encoders of a UDP frame agree; the session request tells
\* exactly how long it is (muxcool.rs:94-360, request.rs:28-108, smux.rs:65-99)
CodecsExact ==
  /\ \A h \in SomeHosts, port, sid \in SomeNumbers, udp \in BOOLEAN :
       LET new == encode_new_frame(sid, udp, h, port)
           keep == encode_data_frame(sid, <<7, 7>>, h, port)
       IN IF ~Encodable(h) THEN new = Err /\ keep = Err /\ encode_address(h, port) = Err
          ELSE /\ FromBE(new) = Len(new) - 2
               /\ decode_meta(Drop(new, 2)) = <<sid, Statuses.new, 0, <<h, port>>>>
               /\ decode_meta(Take(Drop(keep, 2), FromBE(keep)))
                    = <<sid, Statuses.keep, DataOption, <<h, port>>>>
               /\ Drop(keep, FromBE(keep) + 2) = <<0, 2, 7, 7>>
               /\ h.kind # "name" => encode_udp_data_frame(sid, <<7, 7>>, h, port) = keep
               /\ Last(encode_stream_request_with_flags(h, port, udp)) = port % 256
  /\ \A h \in SomeHosts : Encodable(h) =>
       \A b \in StrictPrefixes(Drop(encode_new_frame(258, FALSE, h, 258), 2)) : decode_meta(b) = Err
  /\ \A sid \in SomeNumbers, failed \in BOOLEAN :
       decode_meta(Drop(encode_end_frame(sid, failed), 2))
         = <<sid, Statuses.end, IF failed THEN ErrorOption ELSE 0, <<NoHost, 0>>>>
  /\ \A r \in [version : 0..1, protocol : 0..2, padding : BOOLEAN], pad \in {256, 767} :
       LET b == encode_request(r, pad)
           known == [r EXCEPT !.padding = @ /\ r.version = 1]
       IN /\ decode_request(b \o <<9>>) = <<known, Len(b)>>
          /\ \A short \in StrictPrefixes(b) : decode_request(short) = Err
  /\ \A cmd \in 0..3, sid \in SomeNumbers, n \in {0, 1, 300} :
       decode_header(encode_frame(cmd, sid, Repeat(n))) = <<cmd, n, sid>>
=============================================================================
