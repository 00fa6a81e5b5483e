--------------------------- MODULE AnyTlsSession ---------------------------
(* One AnyTLS client session (meow-anytls: session/session.rs, stream.rs,      *)
(* writer.rs, stream_reader.rs, and create_proxy_stream of client/client.rs).  *)
(* Callers open streams and write to them; one task owns the wire and takes    *)
(* frames from a queue whose length a semaphore bounds; another handles the    *)
(* server's frames; a third sends heartbeats.  Any of them, and the pool, may  *)
(* close the session at any time, and a caller may be dropped where it awaits. *)
(* A caller has one stream, which bears its name.  What a frame holds, and the *)
(* padding around it (AnyTlsWire), is left out.                                *)
EXTENDS Integers, Sequences, FiniteSets, SequencesExt

CONSTANTS Callers, None,
          QueuedFrames,   \* permits of the writer's budget
          MaxExtra        \* bound: data frames written and received, flushes and heartbeats

VARIABLES
  closing,    \* is_closed and the rest of close: "no", "draining" or "done"
  table,      \* streams
  rx,         \* stream_receive_tx: the streams whose reader has a sender
  inbox,      \* data frames a stream's reader has not taken
  pc,         \* each caller
  comp,       \* the completion it awaits of the frame it queued
  ack,        \* its SYNACK: not yet, "ok" or "err"
  shut, fin,  \* closed and fin_sent of its stream
  queue, free,   \* the writer's queue and the permits left
  wpc, cur,   \* the writer task and its request
  buffering, buffer,
  wire,       \* history: the frames of each stream on the wire
  first,      \* history: the first frame on the wire
  torn,       \* history: a stream whose eviction was cut in two by the close
  extra       \* frames counted against MaxExtra

mapVars == <<table, rx, inbox>>
streamVars == <<pc, comp, ack, shut, fin>>
queueVars == <<queue, free>>
wireVars == <<wpc, cur, buffering, buffer, wire, first, torn>>
Extra == extra < MaxExtra /\ extra' = extra + 1
vars == <<closing, mapVars, streamVars, queueVars, wireVars, extra>>

Closed == closing # "no"
Commands == {"SYN", "ADDR", "PSH", "FIN", "HEART", "FLUSH"}
Request(cmd, c, permit) == [cmd |-> cmd, id |-> c, permit |-> permit]
Waiting == {"syn", "synWait", "addr", "addrWait", "ack"}

\* Types; a registered stream can be read, except in the course of its eviction.
TypeOK ==
  /\ closing \in {"no", "draining", "done"}
  /\ table \subseteq Callers /\ rx \subseteq Callers /\ table \subseteq rx
  /\ inbox \in [Callers -> 0..MaxExtra]
  /\ pc \in [Callers -> {"new", "register", "open", "shut", "gone"} \cup Waiting]
  /\ comp \in [Callers -> {"none", "ok", "err"}] /\ ack \in [Callers -> {"none", "ok", "err"}]
  /\ shut \in [Callers -> BOOLEAN] /\ fin \in [Callers -> BOOLEAN]
  /\ free \in 0..QueuedFrames
  /\ wpc \in {"wait", "write", "evict", "stopped"}
  /\ buffering \in BOOLEAN /\ torn \subseteq Callers
  /\ extra \in 0..MaxExtra

\* start_client: the settings are in the buffer before the tasks are spawned
Init ==
  /\ closing = "no" /\ table = {} /\ rx = {} /\ inbox = [c \in Callers |-> 0]
  /\ pc = [c \in Callers |-> "new"] /\ comp = [c \in Callers |-> "none"]
  /\ ack = [c \in Callers |-> "none"]
  /\ shut = [c \in Callers |-> FALSE] /\ fin = [c \in Callers |-> FALSE]
  /\ queue = <<>> /\ free = QueuedFrames
  /\ wpc = "wait" /\ cur = None
  /\ buffering = TRUE /\ buffer = <<Request("SETTINGS", None, FALSE)>>
  /\ wire = [c \in Callers |-> <<>>] /\ first = None /\ torn = {}
  /\ extra = 0

Goto(c, l) == pc' = [pc EXCEPT ![c] = l]
\* The channels of the completion and of the SYNACK are dropped
Forget(c) == comp' = [comp EXCEPT ![c] = "none"] /\ ack' = [ack EXCEPT ![c] = "none"]

---------------------------------------------------------------------------
(* The writer's queue                                                          *)

\* enqueue, of a frame that needs a permit: refused once the budget is closed
Enqueue(cmd, c) ==
  /\ ~Closed /\ free > 0
  /\ queue' = Append(queue, Request(cmd, c, TRUE)) /\ free' = free - 1

\* Faulty variant of Finish: each end of the stream queues a FIN
FinishAgain(c) ==
  /\ shut' = [shut EXCEPT ![c] = TRUE] /\ fin' = [fin EXCEPT ![c] = TRUE]
  /\ queue' = IF Closed THEN queue ELSE Append(queue, Request("FIN", c, FALSE))
  /\ UNCHANGED free

\* mark_closed(true): the stream is closed and, once, its FIN is queued behind the frames
\* accepted before; on a closed session the queue refuses it
Finish(c) ==
  /\ shut' = [shut EXCEPT ![c] = TRUE] /\ fin' = [fin EXCEPT ![c] = TRUE]
  /\ queue' = IF fin[c] \/ Closed THEN queue ELSE Append(queue, Request("FIN", c, FALSE))
  /\ UNCHANGED free

---------------------------------------------------------------------------
(* create_proxy_stream                                                         *)

\* open_stream: the session is live and a stream is made
OpenStream(c) ==
  /\ pc[c] = "new"
  /\ Goto(c, IF Closed THEN "gone" ELSE "register")
  /\ UNCHANGED <<closing, mapVars, comp, ack, shut, fin, queueVars, wireVars, extra>>

\* Faulty variant of Register: is_closed is not checked again under the locks
RegisterLate(c) ==
  /\ pc[c] = "register"
  /\ Goto(c, "syn") /\ table' = table \cup {c} /\ rx' = rx \cup {c}
  /\ UNCHANGED <<closing, inbox, comp, ack, shut, fin, queueVars, wireVars, extra>>

\* Both maps are updated under their locks, unless the session was closed meanwhile
Register(c) ==
  /\ pc[c] = "register"
  /\ IF Closed THEN Goto(c, "gone") /\ UNCHANGED <<table, rx>>
     ELSE Goto(c, "syn") /\ table' = table \cup {c} /\ rx' = rx \cup {c}
  /\ UNCHANGED <<closing, inbox, comp, ack, shut, fin, queueVars, wireVars, extra>>

\* write_frame of the SYN, and of the address after it
QueueOpening(c) ==
  /\ \/ pc[c] = "syn" /\ Enqueue("SYN", c) /\ Goto(c, "synWait")
     \/ pc[c] = "addr" /\ Enqueue("ADDR", c) /\ Goto(c, "addrWait")
  /\ comp' = [comp EXCEPT ![c] = "none"]
  /\ UNCHANGED <<closing, mapVars, ack, shut, fin, wireVars, extra>>

\* The frame was written: the buffer is no longer held back for the first data
SynWritten(c) ==
  /\ pc[c] = "synWait" /\ comp[c] = "ok"
  /\ buffering' = FALSE
  /\ Goto(c, "addr")
  /\ UNCHANGED <<closing, mapVars, comp, ack, shut, fin, queueVars, wpc, cur, buffer, wire,
                 first, torn, extra>>

AddrWritten(c) ==
  /\ pc[c] = "addrWait" /\ comp[c] = "ok"
  /\ Goto(c, "ack")
  /\ UNCHANGED <<closing, mapVars, comp, ack, shut, fin, queueVars, wireVars, extra>>

Acknowledged(c) ==
  /\ pc[c] = "ack" /\ ack[c] = "ok"
  /\ Goto(c, "open") /\ Forget(c)
  /\ UNCHANGED <<closing, mapVars, shut, fin, queueVars, wireVars, extra>>

\* A failed write, a refused SYNACK, the timeout, an address that cannot be sent, or the
\* caller is dropped: the guard retires the stream
OpeningFails(c) ==
  /\ pc[c] \in Waiting
  /\ Finish(c) /\ Goto(c, "gone") /\ Forget(c)
  /\ UNCHANGED <<closing, mapVars, wireVars, extra>>

---------------------------------------------------------------------------
(* Stream                                                                      *)

\* Faulty variant of SendData: closed is checked before the permit is awaited only
SendDataLate(c) ==
  /\ pc[c] \in {"open", "shut"}
  /\ Enqueue("PSH", c) /\ Extra
  /\ UNCHANGED <<closing, mapVars, streamVars, wireVars>>

\* send_data and poll_write_data: with a permit, under the lock that close takes
SendData(c) ==
  /\ pc[c] \in {"open", "shut"} /\ ~shut[c]
  /\ Enqueue("PSH", c) /\ Extra
  /\ UNCHANGED <<closing, mapVars, streamVars, wireVars>>

\* poll_flush_data: the marker needs no permit
Flush(c) ==
  /\ pc[c] \in {"open", "shut"} /\ ~Closed
  /\ queue' = Append(queue, Request("FLUSH", c, FALSE)) /\ Extra
  /\ UNCHANGED <<closing, mapVars, streamVars, free, wireVars>>

\* poll_shutdown_data, then drop of the connection; either may come alone
Shutdown(c) ==
  /\ pc[c] = "open"
  /\ Finish(c) /\ Goto(c, "shut")
  /\ UNCHANGED <<closing, mapVars, comp, ack, wireVars, extra>>

Drop(c) ==
  /\ pc[c] \in {"open", "shut"}
  /\ Finish(c) /\ Goto(c, "gone") /\ inbox' = [inbox EXCEPT ![c] = 0]
  /\ UNCHANGED <<closing, table, rx, comp, ack, wireVars, extra>>

\* StreamReader::read: what was received is read also after the sender is gone
Read(c) ==
  /\ pc[c] \in {"open", "shut"} /\ inbox[c] > 0
  /\ inbox' = [inbox EXCEPT ![c] = @ - 1]
  /\ UNCHANGED <<closing, table, rx, streamVars, queueVars, wireVars, extra>>

---------------------------------------------------------------------------
(* close                                                                       *)

\* The flag is set, the budget closed and the writer woken, by whoever comes first
Close ==
  /\ closing = "no" /\ closing' = "draining"
  /\ UNCHANGED <<mapVars, streamVars, queueVars, wireVars, extra>>

\* Faulty variant of Drain: callers that wait for a SYNACK are not told
DrainSilently ==
  /\ closing = "draining" /\ closing' = "done"
  /\ shut' = [c \in Callers |-> shut[c] \/ c \in table]
  /\ rx' = rx \ table /\ table' = {}
  /\ UNCHANGED <<inbox, pc, comp, ack, fin, queueVars, wireVars, extra>>

\* recv_loop ends, on the end of the connection, an error of it or of the codec, or an alert
RecvEnds == Close

\* The heartbeat task: nothing was heard for too long, or its request cannot be queued
HeartbeatEnds == Close

\* Every registered stream is closed without a FIN, its opener told and its reader ended
Drain ==
  /\ closing = "draining" /\ closing' = "done"
  /\ shut' = [c \in Callers |-> shut[c] \/ c \in table]
  /\ ack' = [c \in Callers |->
               IF c \in table /\ pc[c] \in Waiting /\ ack[c] = "none" THEN "err" ELSE ack[c]]
  /\ rx' = rx \ table /\ table' = {}
  /\ UNCHANGED <<inbox, pc, comp, fin, queueVars, wireVars, extra>>

---------------------------------------------------------------------------
(* process_stream_data                                                         *)

Take ==
  /\ wpc = "wait" /\ ~Closed /\ queue # <<>>
  /\ cur' = Head(queue) /\ queue' = Tail(queue) /\ wpc' = "write"
  /\ UNCHANGED <<closing, mapVars, streamVars, free, buffering, buffer, wire, first, torn,
                 extra>>

\* The frames put on the wire by this request: a flush marker is none
Written == IF cur.cmd = "FLUSH" THEN buffer ELSE Append(buffer, cur)
Hold == buffering /\ cur.cmd \notin {"FIN", "FLUSH"}

\* write_frame_inner and flush_inner: while buffering, frames are kept; a FIN or a flush ends
\* it, and what was kept goes first
Write ==
  /\ wpc = "write"
  /\ buffering' = Hold
  /\ buffer' = IF Hold THEN Written ELSE <<>>
  /\ IF Hold THEN UNCHANGED <<wire, first>>
     ELSE /\ wire' = [c \in Callers |-> wire[c] \o
                        SelectSeq(Written, LAMBDA r : r.id = c)]
          /\ first' = IF first = None /\ Written # <<>> THEN Head(Written).cmd ELSE first
  /\ IF cur.cmd = "FIN"
     THEN wpc' = "evict" /\ table' = table \ {cur.id} /\ UNCHANGED <<comp, free, cur>>
     ELSE /\ wpc' = "wait" /\ cur' = None
          /\ free' = IF cur.permit THEN free + 1 ELSE free
          /\ comp' = [c \in Callers |->
               IF cur.id = c /\ cur.cmd \in {"SYN", "ADDR"} /\ pc[c] \in {"synWait", "addrWait"}
               THEN "ok" ELSE comp[c]]
          /\ UNCHANGED table
  /\ UNCHANGED <<closing, rx, inbox, pc, ack, shut, fin, queue, torn, extra>>

\* The stream of a written FIN leaves the second map too
Evict ==
  /\ wpc = "evict"
  /\ rx' = rx \ {cur.id}
  /\ wpc' = "wait" /\ cur' = None
  /\ UNCHANGED <<closing, table, inbox, streamVars, queueVars, buffering, buffer, wire, first,
                 torn, extra>>

\* The frames that are dropped with the queue fail their callers
Dropped == [c \in Callers |->
  IF /\ pc[c] \in {"synWait", "addrWait"}
     /\ (cur # None /\ cur.id = c) \/ \E i \in DOMAIN queue : queue[i].id = c
  THEN "err" ELSE comp[c]]

\* The write fails: the caller is told, and the session closed
WriteFails ==
  /\ wpc = "write" /\ closing = "no" /\ closing' = "draining"
  /\ wpc' = "stopped" /\ comp' = Dropped
  /\ queue' = <<>> /\ cur' = None
  /\ UNCHANGED <<mapVars, pc, ack, shut, fin, free, buffering, buffer, wire, first, torn,
                 extra>>

\* The close stops the writer wherever it awaits
Stop ==
  /\ wpc # "stopped" /\ Closed
  /\ wpc' = "stopped" /\ comp' = Dropped
  /\ torn' = IF wpc = "evict" THEN torn \cup {cur.id} ELSE torn
  /\ queue' = <<>> /\ cur' = None
  /\ UNCHANGED <<closing, mapVars, pc, ack, shut, fin, free, buffering, buffer, wire, first,
                 extra>>

---------------------------------------------------------------------------
(* handle_frame, for a frame that was read, possibly just before the close.    *)
(* SYN, the settings and padding do not change the client's tables; an alert   *)
(* is RecvEnds.                                                                *)

\* Data of an unknown stream, or one nobody reads, is dropped
ReceivePush(c) ==
  /\ "SYN" \in {wire[c][i].cmd : i \in DOMAIN wire[c]}
  /\ c \in rx /\ pc[c] # "gone"
  /\ inbox' = [inbox EXCEPT ![c] = @ + 1] /\ Extra
  /\ UNCHANGED <<closing, table, rx, streamVars, queueVars, wireVars>>

\* The first SYNACK of a registered stream is passed on
ReceiveSynAck(c) ==
  /\ c \in table /\ pc[c] \in Waiting /\ ack[c] = "none" /\ "ADDR" \in {wire[c][i].cmd : i \in DOMAIN wire[c]}
  /\ \E r \in {"ok", "err"} : ack' = [ack EXCEPT ![c] = r]
  /\ UNCHANGED <<closing, mapVars, pc, comp, shut, fin, queueVars, wireVars, extra>>

ReceiveFin(c) ==
  /\ c \in rx /\ "SYN" \in {wire[c][i].cmd : i \in DOMAIN wire[c]}
  /\ table' = table \ {c} /\ rx' = rx \ {c}
  /\ UNCHANGED <<closing, inbox, streamVars, queueVars, wireVars, extra>>

\* The answer to a heartbeat waits for a permit like any frame
AnswerHeartbeat ==
  /\ Enqueue("HEART", None) /\ Extra
  /\ UNCHANGED <<closing, mapVars, streamVars, wireVars>>

\* The heartbeat task: the first request goes out at once
Heartbeat ==
  /\ Enqueue("HEART", None) /\ Extra
  /\ UNCHANGED <<closing, mapVars, streamVars, wireVars>>

---------------------------------------------------------------------------
(* write_with_padding: the records n bytes are cut into.  A record is its      *)
(* payload and the length of the padding frame behind it, or -1.               *)

Header == 7
Check == -1

\* PaddingFactory::new: a range of sizes is refused when a bound is no positive 16-bit
\* number, and a packet when its sizes add up to more than 1 MiB
SchemeValid(ranges) ==
  /\ \A i \in DOMAIN ranges : ranges[i] = Check \/ ranges[i] \in 1..65535
  /\ FoldLeft(LAMBDA t, r : IF r = Check THEN t ELSE t + r + Header, 0, ranges) <= 1048576

\* Faulty variant of PadStep: the header of the padding is not counted
PadStepLong(s, size) ==
  CASE s.stop -> s
    [] ~s.stop /\ size = Check -> [s EXCEPT !.stop = s.left = 0]
    [] ~s.stop /\ size # Check /\ s.left > size ->
         [s EXCEPT !.left = @ - size, !.out = Append(@, [data |-> size, waste |-> -1])]
    [] ~s.stop /\ size # Check /\ s.left <= size /\ s.left > 0 ->
         [s EXCEPT !.left = 0, !.out = Append(@, [data |-> s.left,
           waste |-> IF size > s.left THEN size - s.left ELSE -1])]
    [] OTHER -> [s EXCEPT !.out = Append(@, [data |-> 0, waste |-> size])]

\* A size takes that much payload; the last of the payload is filled up, if a padding frame
\* fits; behind it only padding goes out, up to the next check
PadStep(s, size) ==
  CASE s.stop -> s
    [] ~s.stop /\ size = Check -> [s EXCEPT !.stop = s.left = 0]
    [] ~s.stop /\ size # Check /\ s.left > size ->
         [s EXCEPT !.left = @ - size, !.out = Append(@, [data |-> size, waste |-> -1])]
    [] ~s.stop /\ size # Check /\ s.left <= size /\ s.left > 0 ->
         [s EXCEPT !.left = 0, !.out = Append(@, [data |-> s.left,
           waste |-> IF size > s.left + Header THEN size - s.left - Header ELSE -1])]
    [] OTHER -> [s EXCEPT !.out = Append(@, [data |-> 0, waste |-> size])]

Records(n, sizes) ==
  LET s == FoldLeft(PadStep, [left |-> n, stop |-> FALSE, out |-> <<>>], sizes)
  IN IF s.left = 0 THEN s.out ELSE Append(s.out, [data |-> s.left, waste |-> -1])

---------------------------------------------------------------------------
Caller(c) ==
  \/ OpenStream(c) \/ Register(c) \/ QueueOpening(c) \/ SynWritten(c) \/ AddrWritten(c)
  \/ Acknowledged(c) \/ OpeningFails(c)
  \/ SendData(c) \/ Flush(c) \/ Shutdown(c) \/ Drop(c) \/ Read(c)
Writer == Take \/ Write \/ Evict \/ WriteFails \/ Stop
Receive(c) == ReceivePush(c) \/ ReceiveSynAck(c) \/ ReceiveFin(c)

Next ==
  \/ \E c \in Callers : Caller(c) \/ Receive(c)
  \/ Writer \/ Close \/ RecvEnds \/ HeartbeatEnds \/ Drain \/ Heartbeat \/ AnswerHeartbeat

Spec == Init /\ [][Next]_vars

---------------------------------------------------------------------------
Sent(c) == [i \in DOMAIN wire[c] |-> wire[c][i].cmd]

\* The frames of a stream go out as SYN, address, data, FIN, with nothing after the FIN and
\* only one of it, wherever the opener was dropped and however often the stream is closed;
\* and the settings come before all of them, although other streams end the buffering.
WireOrder ==
  /\ first \in {None, "SETTINGS"}
  /\ \A c \in Callers :
       LET body == SelectSeq(Sent(c), LAMBDA m : m # "FIN") IN
       /\ IsPrefix(body, <<"SYN", "ADDR">> \o [i \in 1..Len(body) |-> "PSH"])
       /\ Sent(c) \in {body, Append(body, "FIN")}

\* Once a session is closed no caller waits for a SYNACK it cannot get but one whose stream
\* the server had finished before acknowledging it, no stream is registered any more, and
\* every reader has ended but for one the close caught between the two maps.
NoneLeftWaiting ==
  closing = "done" =>
    /\ table = {}
    /\ \A c \in Callers : pc[c] = "ack" /\ ack[c] = "none" => c \notin rx /\ ~shut[c]
    /\ wpc = "stopped" =>
         rx \subseteq torn /\ \A c \in Callers : pc[c] \in {"synWait", "addrWait"} => comp[c] # "none"

Length(r) == r.data + (IF r.waste = -1 THEN 0 ELSE r.waste + Header)

\* Padding neither loses nor reorders payload, whatever the scheme: the records hold it all,
\* a record with payload is not longer than the scheme asks, and shorter only by less than a
\* frame header, and only the payload that the scheme does not provide for exceeds it.
PaddingExact ==
  \A n \in 0..20, sizes \in UNION {[1..k -> {Check, 1, 8, 9, 17}] : k \in 0..3} :
    LET out == Records(n, sizes)
        asked == SelectSeq(sizes, LAMBDA z : z # Check)
    IN /\ SchemeValid(sizes)
       /\ FoldLeft(LAMBDA t, r : t + r.data, 0, out) = n
       /\ \A i \in DOMAIN out : i <= Len(asked) /\ out[i].data > 0 =>
            Length(out[i]) <= asked[i] /\ asked[i] - Length(out[i]) <= Header
       /\ Len(out) <= Len(asked) + 1

Permits == Len(SelectSeq(queue, LAMBDA r : r.permit))
           + (IF cur # None /\ cur.permit THEN 1 ELSE 0)

\* The budget is exact: a permit is free or belongs to a frame that is not written yet; no
\* cancellation loses one.
BudgetBalances == ~Closed => free + Permits = QueuedFrames

\* A stream its caller has left does not stay in the table of a live session: its FIN is
\* on the way.
NoStreamLeaks ==
  ~Closed => \A c \in table : pc[c] = "gone" =>
    \/ cur # None /\ cur.cmd = "FIN" /\ cur.id = c
    \/ \E i \in DOMAIN queue : queue[i].cmd = "FIN" /\ queue[i].id = c
=============================================================================
