---------------------------- MODULE StreamLayers ----------------------------
(* The stream adapters a flow is wrapped in on its way to a proxy server: the    *)
(* simple-obfs HTTP and TLS disguises (client and server), the Reality record    *)
(* layer, VLESS with its deferred header, Vision, Snell v3 and v4, WebSocket,    *)
(* gRPC "gun" and plain h2 streams, and the datagrams VLESS and Snell carry in a *)
(* stream.  Each is an AsyncRead/AsyncWrite state machine; here the write half   *)
(* of one talks to the read half of its peer over a connection that takes and    *)
(* delivers any number of bytes at a time and may be cut.                        *)
(*                                                                               *)
(* A byte is a number.  The payload is 1, 2, 3, ... so that order and loss show; *)
(* sealed bytes are followed by a tag that names the nonce, and open only under  *)
(* it.  Sizes (headers, chunks, limits) are the small ones named below.          *)
EXTENDS Integers, Sequences, SequencesExt

CONSTANTS
  Layers,       \* the adapters explored
  Payload,      \* how many bytes the writer has to send
  MaxWrite,     \* the largest buffer a caller offers
  Rooms,        \* how many bytes the connection may take during one poll
  Pieces        \* how many may have arrived before one

VARIABLES
  layer,        \* the adapter
  kinds,        \* what Vision makes of each payload byte: "hello", "app", "other"
  todo,         \* payload the caller has not handed over
  call,         \* the buffer of a write that returned Pending
  wrote,        \* what was accepted so far: the bytes, or the datagrams
  w, r,         \* the write half and the read half
  got,          \* what the reader's caller was given, likewise
  said,         \* how reading ended: "", "eof" or "err"
  flushed,      \* a flush completed since the last write
  cut           \* the connection was cut

vars == <<layer, kinds, todo, call, wrote, w, r, got, said, flushed, cut>>

---------------------------------------------------------------------------
Pending == -1
Refused == -2

Least(a, b) == IF a < b THEN a ELSE b
First(s, k) == SubSeq(s, 1, k)
Rest(s, k) == SubSeq(s, k + 1, Len(s))
Chunk(b, limit) == First(b, Least(Len(b), limit))

\* A write half: the room left in this poll, bytes on the way to the peer, framed bytes
\* that have not left and the input they stand for, and what the adapters remember
NewWriter ==
  [room |-> 0, net |-> <<>>, out |-> <<>>, owed |-> 0, first |-> TRUE, nonce |-> 0,
   limit |-> 0, header |-> <<>>, toFlush |-> FALSE, frame |-> <<>>, frameOwed |-> 0, after |-> 0,
   padding |-> TRUE, sawTls |-> FALSE, direct |-> FALSE, sentUuid |-> FALSE,
   raw |-> FALSE, ws |-> "pending", extra |-> FALSE, closing |-> FALSE,
   shut |-> FALSE]

\* A read half: bytes that arrived and whether the stream ended (both during a poll only),
\* and the adapters' state
NewReader ==
  [sock |-> <<>>, fin |-> FALSE, first |-> TRUE, phase |-> "start", acc |-> <<>>,
   left |-> <<>>, count |-> 0, pad |-> 0, command |-> 0, nonce |-> 0, reply |-> <<>>,
   replied |-> FALSE, record |-> <<>>, plain |-> <<>>, raw |-> FALSE, closed |-> FALSE]

---------------------------------------------------------------------------
(* The connection under the adapters *)

\* poll_write of the socket: some bytes, or Pending
SocketWrite(x, b) ==
  LET k == Least(x.room, Len(b)) IN
  IF k = 0 THEN <<x, IF b = <<>> THEN 0 ELSE Pending>>
  ELSE <<[x EXCEPT !.room = @ - k, !.net = @ \o First(b, k)], k>>

\* poll_read of the socket: <<the reader, the bytes, "ok" or "pending">>; "ok" without a
\* byte is the end of the stream
SocketRead(x, want) ==
  LET k == Least(want, Len(x.sock)) IN
  <<[x EXCEPT !.sock = Rest(@, k)], First(x.sock, k),
    IF k > 0 \/ x.fin THEN "ok" ELSE "pending">>

Give(x, bytes) == <<x, bytes, "ok">>
End(x) == <<x, <<>>, "ok">>
Fail(x) == <<x, <<>>, "err">>
Wait(x) == <<x, <<>>, "pending">>

\* Hand out what is buffered
GiveLeft(x, cap) ==
  LET k == Least(cap, Len(x.left)) IN Give([x EXCEPT !.left = Rest(@, k)], First(x.left, k))

\* poll_drain_write_buf: push the framed bytes until they are gone or the socket is full
Drain(x) ==
  LET k == Least(x.room, Len(x.out)) IN
  [x EXCEPT !.room = @ - k, !.net = @ \o First(x.out, k), !.out = Rest(@, k)]

\* Drain, and only then report the input the frame stands for
Ack(d) == IF d.out # <<>> THEN <<d, Pending>> ELSE <<[d EXCEPT !.owed = 0], d.owed>>
DrainThenAck(x) == Ack(Drain(x))

Stage(x, bytes, n) == DrainThenAck([x EXCEPT !.out = bytes, !.owed = n])

---------------------------------------------------------------------------
(* simple-obfs: an HTTP exchange around the first bytes of each direction *)

Crlf == 100
Filler == 101
Terminator == <<Crlf, Crlf>>
MaxHeader == 8

build_http_request(b) == <<Filler, Crlf, Filler>> \o Terminator \o b

HttpObfsWrite(x, b) ==
  IF x.out # <<>> THEN DrainThenAck(x)
  ELSE IF x.first THEN Stage([x EXCEPT !.first = FALSE], build_http_request(b), Len(b))
  ELSE SocketWrite(x, b)

http_response_header == <<Filler>> \o Terminator

HttpObfsServerWrite(x, b) ==
  IF x.out # <<>> THEN DrainThenAck(x)
  ELSE IF x.first THEN Stage([x EXCEPT !.first = FALSE], http_response_header \o b, Len(b))
  ELSE SocketWrite(x, b)

\* The first terminator's place, 0 when there is none
find_double_crlf(s) ==
  LET at == {i \in 1..(Len(s) - 1) : SubSeq(s, i, i + 1) = Terminator}
  IN IF at = {} THEN 0 ELSE CHOOSE i \in at : \A j \in at : i <= j

\* Collect until the header ends, then hand over what follows it.  The read that completes
\* the header returns even when nothing follows it: a read without a byte
StripHeader(x, cap) ==
  LET t == SocketRead(x, Len(x.sock))
      all == x.acc \o t[2]
      at == find_double_crlf(all)
      body == Rest(all, at + 1)
  IN IF x.left # <<>> THEN GiveLeft(x, cap)
     ELSE IF ~x.first THEN SocketRead(x, cap)
     ELSE IF t[3] = "pending" THEN Wait(x)
     ELSE IF t[2] = <<>> THEN End(x)
     ELSE IF at > 0 THEN GiveLeft([t[1] EXCEPT !.first = FALSE, !.acc = <<>>, !.left = body], cap)
     ELSE IF Len(all) > MaxHeader THEN Fail([t[1] EXCEPT !.acc = all])
     ELSE IF x.fin THEN End([t[1] EXCEPT !.acc = all]) ELSE Wait([t[1] EXCEPT !.acc = all])

HttpObfsRead(x, cap) == StripHeader(x, cap)
HttpObfsServerRead(x, cap) == StripHeader(x, cap)

---------------------------------------------------------------------------
(* simple-obfs: TLS records, the first payload of the client inside its hello *)

ChunkSize == 2             \* TLS_CHUNK_SIZE
RecordDiscard == 1         \* TLS_RECORD_HEADER_DISCARD: type and version
FirstDiscard == 3          \* TLS_FIRST_RESPONSE_DISCARD
TicketOffset == 1          \* TLS_SESSION_TICKET_LEN_OFF
Handshake == 22
ApplicationData == 23
Alert == 21

\* A length is two bytes, the high one first
Two(n) == <<n \div 256, n % 256>>
Length(s) == s[1] * 256 + s[2]

TlsRecord(b) == <<ApplicationData>> \o Two(Len(b)) \o b

\* The record header, what precedes the session ticket, the ticket, the other extensions
build_client_hello(b) ==
  LET body == <<Filler>> \o Two(Len(b)) \o b \o <<Filler>>
  IN <<Handshake>> \o Two(Len(body)) \o body

TlsObfsWrite(x, b) ==
  LET c == Chunk(b, ChunkSize) IN
  IF x.out # <<>> THEN DrainThenAck(x)
  ELSE Stage([x EXCEPT !.first = FALSE],
             IF x.first THEN build_client_hello(c) ELSE TlsRecord(c), Len(c))

TLS_FAKE_RESPONSE_PREFIX == <<Filler, Filler, ApplicationData>>

TlsObfsServerWrite(x, b) ==
  LET c == Chunk(b, ChunkSize) IN
  IF x.out # <<>> THEN DrainThenAck(x)
  ELSE Stage([x EXCEPT !.first = FALSE],
             IF x.first THEN TLS_FAKE_RESPONSE_PREFIX \o Two(Len(c)) \o c ELSE TlsRecord(c),
             Len(c))

\* Drop a record's header, take its length, hand over its payload; the end of the stream is
\* reported wherever it comes
RECURSIVE TlsRecords(_, _)
TlsRecords(x, cap) ==
  LET want == CASE x.phase = "discard" -> x.count [] x.phase = "length" -> 2 - Len(x.acc)
                [] OTHER -> Least(cap, x.count)
      t == SocketRead(x, want)
  IN IF x.phase = "discard" /\ x.count = 0 THEN TlsRecords([x EXCEPT !.phase = "length"], cap)
     ELSE IF x.phase = "length" /\ Len(x.acc) = 2
       THEN TlsRecords([x EXCEPT !.phase = "payload", !.count = Length(x.acc), !.acc = <<>>], cap)
     ELSE IF x.phase = "payload" /\ x.count = 0
       THEN TlsRecords([x EXCEPT !.phase = "discard", !.count = RecordDiscard], cap)
     ELSE IF t[2] = <<>> THEN t
     ELSE CASE x.phase = "discard" -> TlsRecords([t[1] EXCEPT !.count = @ - Len(t[2])], cap)
            [] x.phase = "length" -> TlsRecords([t[1] EXCEPT !.acc = @ \o t[2]], cap)
            [] x.phase = "payload" -> Give([t[1] EXCEPT !.count = @ - Len(t[2])], t[2])

TlsObfsRead(x, cap) ==
  TlsRecords(IF x.phase = "start" THEN [x EXCEPT !.phase = "discard", !.count = FirstDiscard]
             ELSE x, cap)

\* The hello is collected whole before its ticket is handed over, then come records
RECURSIVE TlsObfsServerRead(_, _)
TlsObfsServerRead(x, cap) ==
  LET need == IF Len(x.acc) < 3 THEN 3 ELSE 3 + Length(Rest(x.acc, 1))
      t == SocketRead(x, need - Len(x.acc))
      body == Rest(x.acc, 3)
      start == TicketOffset + 2
      length == Length(Rest(body, TicketOffset))
  IN IF x.left # <<>> THEN GiveLeft(x, cap)
     ELSE IF x.phase # "start" THEN TlsRecords(x, cap)
     ELSE IF Len(x.acc) < need
       THEN IF t[2] = <<>> THEN t
            ELSE TlsObfsServerRead([t[1] EXCEPT !.acc = @ \o t[2]], cap)
     ELSE IF x.acc[1] # Handshake \/ Len(body) < start \/ Len(body) < start + length
       THEN Fail(x)
     ELSE GiveLeft([x EXCEPT !.phase = "discard", !.count = RecordDiscard, !.acc = <<>>,
                             !.left = SubSeq(body, start + 1, start + length)], cap)

---------------------------------------------------------------------------
(* The Reality record layer *)

RealityChunk == 8          \* the 16 KiB a record carries at most
Tag(nonce) == 1000 + nonce

\* seal: the plaintext and its inner type under the write nonce
seal(type, b, nonce) ==
  LET sealed == b \o <<type, Tag(nonce)>> IN <<ApplicationData>> \o Two(Len(sealed)) \o sealed

RealityTake(d, b, c) ==
  IF d.out # <<>> THEN <<d, Pending>>
  ELSE IF b = <<>> THEN <<d, 0>>
  ELSE IF d.raw THEN SocketWrite(d, b)
  ELSE <<Drain([d EXCEPT !.out = seal(ApplicationData, c, d.nonce), !.nonce = @ + 1]), Len(c)>>

\* RealityWrite that reports the buffer only when the record has left
RealityWriteLate(x, b) ==
  LET late(p) == IF p[1].out # <<>> THEN <<p[1], Pending>> ELSE p
  IN late(RealityTake(Drain(x), b, Chunk(b, RealityChunk)))

\* A buffer is accepted as soon as it is sealed: what the socket does not take stays in
\* `out`, and is drained before anything else is taken
RealityWrite(x, b) == RealityTake(Drain(x), b, Chunk(b, RealityChunk))

\* A record's header and payload are read exactly, so that nothing after it is taken;
\* records that are no application data are skipped, and an alert ends the stream
RECURSIVE RealityRead(_, _)
RealityRead(x, cap) ==
  LET need == IF Len(x.record) < 3 THEN 3 ELSE 3 + Length(Rest(x.record, 1))
      t == SocketRead(x, need - Len(x.record))
      k == Least(cap, Len(x.plain))
      n == Len(x.record)
      opened == [x EXCEPT !.record = <<>>, !.nonce = @ + 1]
  IN IF x.raw THEN SocketRead(x, cap)
     ELSE IF x.plain # <<>> THEN Give([x EXCEPT !.plain = Rest(@, k)], First(x.plain, k))
     ELSE IF n < need
       THEN IF t[2] = <<>> THEN t ELSE RealityRead([t[1] EXCEPT !.record = @ \o t[2]], cap)
     ELSE IF x.record[1] # ApplicationData THEN RealityRead([x EXCEPT !.record = <<>>], cap)
     ELSE IF x.record[n] # Tag(x.nonce) THEN Fail(x)
     ELSE CASE x.record[n - 1] = ApplicationData ->
                 RealityRead([opened EXCEPT !.plain = SubSeq(x.record, 4, n - 2)], cap)
            [] x.record[n - 1] = Alert -> End(opened)
            [] OTHER -> RealityRead(opened, cap)

---------------------------------------------------------------------------
(* VLESS: the request header leaves with the first write, the response header   *)
(* is stripped from the first read                                              *)

\* The stream VLESS runs on: a Reality stream, or one that sends bytes as they are
InnerWrite(x, b) == IF layer = "vless" THEN SocketWrite(x, b) ELSE RealityWrite(x, b)
InnerRead(x, cap) == IF layer = "vless" THEN SocketRead(x, cap) ELSE RealityRead(x, cap)

\* A version byte, the length of the addon, the addon
encode_request == <<0, 1, Filler>>

\* poll_write_deferred that takes a partial write for a whole one
DeferredWhole(x, b) ==
  LET whole(p) == IF p[2] = Pending THEN p
                  ELSE <<[p[1] EXCEPT !.header = <<>>, !.toFlush = TRUE], Len(b)>>
  IN whole(InnerWrite(x, x.header \o b))

\* Header and payload go out in one write; whatever part of the header did not leave is
\* kept, and the payload is reported without it
RECURSIVE poll_write_deferred(_, _)
HeaderSent(p, h, b) ==
  LET sent == [p[1] EXCEPT !.header = Rest(@, p[2])]
  IN IF p[2] = Pending THEN p
     ELSE IF p[2] < h THEN poll_write_deferred(sent, b)
     ELSE IF p[2] > h \/ b = <<>> THEN <<[sent EXCEPT !.toFlush = TRUE], p[2] - h>>
     ELSE poll_write_deferred([sent EXCEPT !.toFlush = TRUE], b)
poll_write_deferred(x, b) ==
  IF x.header = <<>> THEN InnerWrite(x, b)
  ELSE HeaderSent(InnerWrite(x, x.header \o b), Len(x.header), b)

\* Send a header no write has carried yet: before a flush, a shutdown and every read
FlushOnce(d) == IF d.out # <<>> THEN <<d, Pending>> ELSE <<[d EXCEPT !.toFlush = FALSE], 0>>
FlushHeader(p) == IF p[2] = Pending \/ ~p[1].toFlush THEN p ELSE FlushOnce(Drain(p[1]))
poll_flush_deferred_header(x) ==
  FlushHeader(IF x.header = <<>> THEN <<x, 0>> ELSE poll_write_deferred(x, <<>>))

RECURSIVE VlessRead(_, _)
ReplyRead(t, cap) ==
  IF t[3] # "ok" THEN t
  ELSE IF t[2] = <<>> THEN Fail(t[1])
  ELSE VlessRead([t[1] EXCEPT !.reply = @ \o t[2]], cap)
VlessRead(x, cap) ==
  LET need == IF Len(x.reply) < 2 THEN 2 ELSE 2 + x.reply[2]
  IN IF x.replied THEN InnerRead(x, cap)
     ELSE IF Len(x.reply) >= 2 /\ x.reply[1] # 0 THEN Fail(x)
     ELSE IF Len(x.reply) < need THEN ReplyRead(InnerRead(x, need - Len(x.reply)), cap)
     ELSE VlessRead([x EXCEPT !.replied = TRUE], cap)

---------------------------------------------------------------------------
(* Vision: padded frames over VLESS while the inner TLS shakes hands, then      *)
(* nothing (END), or not even the outer records (DIRECT)                        *)

Continue == 0              \* COMMAND_PADDING_CONTINUE
EndPadding == 1            \* COMMAND_PADDING_END
Direct == 2                \* COMMAND_PADDING_DIRECT
Uuid == 102
VisionChunk == 2           \* the 16 KiB of content a frame carries at most

contains_tls_client_hello(b) == \E i \in 1..Len(b) : kinds[b[i]] = "hello"
StartsTlsAppData(b) == kinds[b[1]] = "app"

\* The padding is shorter the longer the content is
build_padding_frame(command, first, b) ==
  LET pad == ChunkSize - Len(b)
  IN (IF first THEN <<Uuid>> ELSE <<>>) \o <<command>> \o Two(Len(b)) \o Two(pad)
       \o b \o [i \in 1..pad |-> 0]

\* Padding goes on through the handshake and stops with the first application data, or
\* at once when the stream does not begin with a TLS hello
build_write_frame(x, b) ==
  LET saw == x.sawTls \/ contains_tls_client_hello(b)
      ends == StartsTlsAppData(b) \/ ~saw
      command == IF ~ends THEN Continue
                 ELSE IF saw /\ x.direct THEN Direct ELSE EndPadding
  IN [x EXCEPT !.sawTls = saw, !.sentUuid = TRUE, !.frameOwed = Len(b), !.after = command,
               !.frame = build_padding_frame(command, ~x.sentUuid, b)]

\* drain_pending_write: <<the writer, Pending or the input the frame stood for>>.  The frame
\* that ends the padding changes the stream under it only when all of it has left
RECURSIVE VisionDrain(_)
FrameSent(p) ==
  IF p[2] = Pending THEN p ELSE VisionDrain([p[1] EXCEPT !.frame = Rest(@, p[2])])
VisionDrain(x) ==
  LET gone == [x EXCEPT !.frameOwed = 0, !.after = Continue, !.padding = x.after = Continue,
                        !.raw = x.after = Direct]
  IN IF x.frame = <<>> THEN <<gone, x.frameOwed>>
     ELSE FrameSent(poll_write_deferred(x, x.frame))

VisionWrite(x, b) ==
  IF x.frame = <<>> /\ ~x.padding THEN poll_write_deferred(x, b)
  ELSE VisionDrain(IF x.frame # <<>> THEN x ELSE build_write_frame(x, Chunk(b, VisionChunk)))

\* What the stream still has to send before a flush or a shutdown is done
VisionFlush(x) ==
  LET then(p) == IF p[2] = Pending THEN p ELSE poll_flush_deferred_header(p[1])
  IN then(IF x.frame = <<>> THEN <<x, 0>> ELSE VisionDrain(x))

\* AfterPadding that leaves the records of the stream under it on
AfterPaddingSealed(x) ==
  [x EXCEPT !.phase = IF x.command = Continue THEN "header" ELSE "through"]

\* The command of a frame takes effect when its padding was read
AfterPadding(x) ==
  [x EXCEPT !.phase = IF x.command = Continue THEN "header" ELSE "through",
            !.raw = x.command = Direct]

\* A frame's header, its content, its padding; an end of the stream inside the padded part
\* is an error
RECURSIVE VisionRead(_, _)
FrameRead(phase, t, cap) ==
  IF phase = "through" \/ t[3] # "ok" THEN t
  ELSE IF t[2] = <<>> THEN Fail(t[1])
  ELSE CASE phase = "content" -> Give([t[1] EXCEPT !.count = @ - Len(t[2])], t[2])
         [] phase = "padding" -> VisionRead([t[1] EXCEPT !.pad = @ - Len(t[2])], cap)
         [] OTHER -> VisionRead([t[1] EXCEPT !.acc = @ \o t[2]], cap)
VisionRead(x, cap) ==
  LET skip == IF x.first THEN 1 ELSE 0
      header == Rest(x.acc, skip)
      want == CASE x.phase \in {"start", "header"} -> 5 + skip - Len(x.acc)
                [] x.phase = "content" -> Least(cap, x.count)
                [] x.phase = "padding" -> x.pad
                [] OTHER -> cap
  IN IF want = 0 /\ x.phase # "through"
       THEN CASE x.phase = "content" -> VisionRead([x EXCEPT !.phase = "padding"], cap)
              [] x.phase = "padding" ->
                   IF x.command > Direct THEN Fail(x) ELSE VisionRead(AfterPadding(x), cap)
              [] x.first /\ x.acc[1] # Uuid -> Fail(x)
              [] OTHER -> VisionRead(
                   [x EXCEPT !.phase = "content", !.first = FALSE, !.acc = <<>>,
                             !.command = header[1], !.count = Length(Rest(header, 1)),
                             !.pad = Length(Rest(header, 3))], cap)
     ELSE FrameRead(x.phase, VlessRead(x, want), cap)

---------------------------------------------------------------------------
(* Snell: a salt, then frames of a sealed header and a sealed payload; a frame   *)
(* without payload (the zero chunk) ends one direction                           *)

Salt == 103
FrameLimit == 1            \* what a frame carries at first (V4_FRAME_SIZE less its overhead)
PayloadLimit == 2          \* MAX_PAYLOAD_LENGTH

Sealed(b, nonce) == b \o <<Tag(nonce)>>

\* Every other byte of the padding changes places with the payload's
swap_padding(pad, body) ==
  LET limit == Least(Len(pad), Len(body))
      odd(i) == i <= limit /\ i % 2 = 1
  IN <<[i \in 1..Len(pad) |-> IF odd(i) THEN body[i] ELSE pad[i]],
       [i \in 1..Len(body) |-> IF odd(i) THEN pad[i] ELSE body[i]]>>

\* The limit grows with every frame and falls back after a pause
next_payload_limit(x, paused) ==
  IF x.first \/ paused THEN FrameLimit ELSE x.limit

next_frame_padding_length(x, b) == IF x.first /\ b # <<>> THEN 1 ELSE 0

SaltOnce(x) == IF x.first THEN <<Salt>> ELSE <<>>
Nonces(b) == IF b = <<>> THEN 1 ELSE 2

stage_frame(x, b) ==
  LET pad == next_frame_padding_length(x, b)
      body == IF b = <<>> THEN <<>> ELSE Sealed(b, x.nonce + 1)
      swapped == swap_padding([i \in 1..pad |-> Filler], body)
  IN Stage([x EXCEPT !.first = FALSE, !.nonce = @ + Nonces(b)],
           SaltOnce(x) \o Sealed(<<pad, Len(b)>>, x.nonce) \o swapped[1] \o swapped[2], Len(b))

SnellV4Write(x, b, paused) ==
  LET limit == next_payload_limit(x, paused)
      next == Least(limit + FrameLimit, PayloadLimit)
  IN IF x.out # <<>> THEN DrainThenAck(x)
     ELSE IF b = <<>> THEN stage_frame(x, b)
     ELSE stage_frame([x EXCEPT !.limit = next], Chunk(b, limit))

stage_record(x, b) ==
  LET body == IF b = <<>> THEN <<>> ELSE Sealed(b, x.nonce + 1)
  IN Stage([x EXCEPT !.first = FALSE, !.nonce = @ + Nonces(b)],
           SaltOnce(x) \o Sealed(<<Len(b)>>, x.nonce) \o body, Len(b))

SnellV3Write(x, b) ==
  IF x.out # <<>> THEN DrainThenAck(x) ELSE stage_record(x, Chunk(b, PayloadLimit))

\* The reader both versions share; `size` is the length of a sealed header, whose last plain
\* byte is the payload's length and whose other one the padding's
RECURSIVE SnellFrames(_, _, _)
SnellFrames(x, cap, size) ==
  LET want == CASE x.phase = "start" -> 1 [] x.phase = "header" -> size - Len(x.acc)
                [] OTHER -> x.count - Len(x.acc)
      t == SocketRead(x, want)
      open == x.acc[Len(x.acc)] = Tag(x.nonce)
      pad == IF size = 3 THEN x.acc[1] ELSE 0
      length == x.acc[size - 1]
      unswapped == swap_padding(First(x.acc, x.pad), Rest(x.acc, x.pad))[2]
  IN IF x.phase = "drain" /\ x.left # <<>> THEN GiveLeft(x, cap)
     ELSE IF x.phase = "drain" THEN SnellFrames([x EXCEPT !.phase = "header"], cap, size)
     ELSE IF want = 0
       THEN CASE x.phase = "header" /\ ~open -> Fail(x)
              [] x.phase = "header" /\ length = 0 ->
                   IF pad # 0 THEN Fail(x)
                   ELSE <<[x EXCEPT !.acc = <<>>, !.nonce = @ + 1], <<>>, "zero">>
              [] x.phase = "header" -> SnellFrames(
                   [x EXCEPT !.phase = "body", !.acc = <<>>, !.nonce = @ + 1, !.pad = pad,
                             !.count = pad + length + 1], cap, size)
              [] unswapped[Len(unswapped)] # Tag(x.nonce) -> Fail(x)
              [] OTHER -> SnellFrames(
                   [x EXCEPT !.phase = "drain", !.acc = <<>>, !.nonce = @ + 1,
                             !.left = First(unswapped, Len(unswapped) - 1)], cap, size)
     ELSE IF t[3] = "pending" THEN t
     ELSE IF t[2] = <<>>
       THEN IF x.phase = "header" /\ x.acc = <<>> THEN End(x) ELSE Fail(x)
     ELSE IF x.phase = "start" THEN SnellFrames([t[1] EXCEPT !.phase = "header"], cap, size)
     ELSE SnellFrames([t[1] EXCEPT !.acc = @ \o t[2]], cap, size)

SnellV4Read(x, cap) == SnellFrames(x, cap, 3)
SnellV3Read(x, cap) == SnellFrames(x, cap, 2)

\* Snell::poll_read: the server's reply byte comes before its data, the zero chunk is the end
SnellRead(x, cap) ==
  LET Inner(y, n) == IF layer = "snell-v3" THEN SnellV3Read(y, n) ELSE SnellV4Read(y, n)
      data(t) == IF t[3] = "zero" THEN End([t[1] EXCEPT !.closed = TRUE]) ELSE t
      reply(a) == IF a[3] = "pending" THEN a
                  ELSE IF a[3] # "ok" \/ a[2] # <<0>> THEN Fail(a[1])
                  ELSE data(Inner([a[1] EXCEPT !.replied = TRUE], cap))
  IN IF x.closed THEN End(x)
     ELSE IF x.replied THEN data(Inner(x, cap)) ELSE reply(Inner(x, 1))

\* PooledConn::poll_shutdown: an unfinished frame leaves first, then the zero chunk
RECURSIVE SnellShutdown(_)
SnellShutdown(x) ==
  LET again(p) == IF p[2] > 0 THEN SnellShutdown(p[1]) ELSE p
  IN again(IF layer = "snell-v3" THEN SnellV3Write(x, <<>>) ELSE SnellV4Write(x, <<>>, FALSE))

\* A datagram is one frame, whatever the limit; a poll that finds it staged drains it
poll_write_packet_frame(x, b) ==
  IF x.out # <<>> THEN DrainThenAck(x) ELSE stage_frame(x, b)

---------------------------------------------------------------------------
(* gRPC "gun" and plain h2: the h2 library queues what it is given and grants    *)
(* capacity, here the room of a poll; bytes arrive in pieces of its choice       *)

StashCap == 2              \* WRITE_STASH_CAP
MaxGunFrame == 50          \* MAX_GUN_FRAME_LEN
GunHeader == 3             \* the compression flag and a length

\* A length in groups of seven bits, the low ones first
RECURSIVE encode_varint(_)
encode_varint(n) == IF n < 128 THEN <<n>> ELSE <<128 + (n % 128)>> \o encode_varint(n \div 128)

\* <<the value, the bytes it took>>, or <<>> when it does not end
RECURSIVE decode_varint(_)
decode_varint(s) ==
  LET rest == decode_varint(Tail(s)) IN
  IF s = <<>> THEN <<>>
  ELSE IF s[1] < 128 THEN <<s[1], 1>>
  ELSE IF rest = <<>> THEN <<>> ELSE <<s[1] - 128 + 128 * rest[1], 1 + rest[2]>>

encode_gun_frame(b) ==
  LET inner == <<10>> \o encode_varint(Len(b)) \o b IN <<0>> \o Two(Len(inner)) \o inner

\* The payload of a frame, as the set of it: empty when the frame does not decode
decode_gun_frame(f) ==
  LET n == Length(Rest(f, 1))
      inner == SubSeq(f, GunHeader + 1, GunHeader + n)
      length == decode_varint(Tail(inner))
      start == 1 + length[2]
  IN IF \/ Len(f) < GunHeader \/ f[1] # 0 \/ Len(f) < GunHeader + n
        \/ inner = <<>> \/ inner[1] # 10 \/ length = <<>>
        \/ Len(inner) < start + length[1]
     THEN {}
     ELSE {SubSeq(inner, start + 1, start + length[1])}

\* The frame is made once and kept until there is capacity, then queued whole
GunWrite(x, b) ==
  LET f == IF x.out = <<>> THEN encode_gun_frame(b) ELSE x.out
  IN IF decode_gun_frame(f) # {b} THEN <<[x EXCEPT !.out = <<>>], Refused>>
     ELSE IF x.room = 0 THEN <<[x EXCEPT !.out = f], Pending>>
     ELSE <<[x EXCEPT !.out = <<>>, !.net = @ \o f], Len(b)>>

\* Bytes collect until a frame is whole
RECURSIVE GunRead(_, _)
GunRead(x, cap) ==
  LET n == Length(Rest(x.acc, 1))
      whole == Len(x.acc) >= GunHeader /\ Len(x.acc) >= GunHeader + n
      payload == decode_gun_frame(First(x.acc, GunHeader + n))
      t == SocketRead(x, Len(x.sock))
  IN IF x.left # <<>> THEN GiveLeft(x, cap)
     ELSE IF Len(x.acc) >= GunHeader /\ n > MaxGunFrame THEN Fail(x)
     ELSE IF whole
       THEN IF payload = {} THEN Fail([x EXCEPT !.acc = Rest(@, GunHeader + n)])
            ELSE GunRead([x EXCEPT !.acc = Rest(@, GunHeader + n),
                                   !.left = CHOOSE b \in payload : TRUE], cap)
     ELSE IF t[2] = <<>> THEN t
     ELSE GunRead([t[1] EXCEPT !.acc = @ \o t[2]], cap)

\* A copy of the buffer waits for capacity; what the grant allows is queued and reported
H2Write(x, b) ==
  LET stash == IF x.out = <<>> THEN Chunk(b, StashCap) ELSE x.out
      k == Least(x.room, Len(stash))
  IN IF ~IsPrefix(stash, b) THEN <<[x EXCEPT !.out = <<>>], Refused>>
     ELSE IF k = 0 THEN <<[x EXCEPT !.out = stash], Pending>>
     ELSE <<[x EXCEPT !.out = <<>>, !.net = @ \o First(stash, k)], k>>

H2Read(x, cap) ==
  LET t == SocketRead(x, Len(x.sock)) IN
  IF x.left # <<>> THEN GiveLeft(x, cap)
  ELSE IF t[2] = <<>> THEN t
  ELSE GiveLeft([t[1] EXCEPT !.left = t[2]], cap)

\* best_effort_eos, and GunStream's shutdown: what a write left waiting goes with the end
SendEos(x) == <<[x EXCEPT !.net = @ \o x.out, !.out = <<>>], 0>>

---------------------------------------------------------------------------
(* WebSocket: the first bytes may travel in the upgrade request                  *)

MaxEarlyData == 1
Binary == 2
Close == 8
Ping == 9
Pong == 10
Text == 1

Message(kind, b) == <<kind, Len(b)>> \o b

\* The request with its early data; the task that waits for the answer is WsAnswered
begin_upgrade(x) ==
  [x EXCEPT !.ws = "upgrading", !.net = @ \o Message(Text, x.out), !.out = <<>>]

WsWrite(x, b) ==
  LET take == Least(MaxEarlyData - Len(x.out), Len(b))
      early == [x EXCEPT !.out = @ \o First(b, take)]
      d == Drain(x)
  IN CASE x.ws = "pending" ->
            <<IF Len(early.out) >= MaxEarlyData THEN begin_upgrade(early) ELSE early, take>>
       [] x.ws = "upgrading" -> <<x, Pending>>
       [] OTHER -> IF d.out # <<>> THEN <<d, Pending>>
                   ELSE <<Drain([d EXCEPT !.out = Message(Binary, b)]), Len(b)>>

\* A flush or a shutdown sends the request if nothing has, and waits for the answer
WsFlush(x) ==
  LET d == Drain(x) IN
  CASE x.ws = "pending" -> <<begin_upgrade(x), Pending>>
    [] x.ws = "upgrading" -> <<x, Pending>>
    [] OTHER -> IF d.out # <<>> THEN <<d, Pending>> ELSE <<d, 0>>

\* The messages of the peer; the library collects one before it hands it over.  Its first
\* message here is the request with the early data
RECURSIVE WsRead(_, _)
WsRead(x, cap) ==
  LET need == IF Len(x.acc) < 2 THEN 2 ELSE 2 + x.acc[2]
      t == SocketRead(x, need - Len(x.acc))
      next == [x EXCEPT !.acc = <<>>]
  IN IF x.left # <<>> THEN GiveLeft(x, cap)
     ELSE IF Len(x.acc) < need
       THEN IF t[2] = <<>> THEN t ELSE WsRead([t[1] EXCEPT !.acc = @ \o t[2]], cap)
     ELSE IF x.first
       THEN WsRead([next EXCEPT !.first = FALSE, !.left = Rest(x.acc, 2)], cap)
     ELSE CASE x.acc[1] = Binary -> WsRead([next EXCEPT !.left = Rest(x.acc, 2)], cap)
            [] x.acc[1] = Close -> End(next)
            [] x.acc[1] = Text -> Fail(next)
            [] OTHER -> WsRead(next, cap)

---------------------------------------------------------------------------
(* VLESS datagrams: a length and a payload each                                  *)

VlessPacketWrite(x, b) ==
  IF x.out # <<>> THEN DrainThenAck(x) ELSE Stage(x, Two(Len(b)) \o b, Len(b))

\* read_packet keeps its place in the header, the length and the payload outside the future,
\* so that one that is dropped at an await loses nothing
RECURSIVE read_packet(_, _)
read_packet(x, cap) ==
  LET header == IF Len(x.reply) < 2 THEN 2 ELSE 2 + x.reply[2]
      need == IF Len(x.acc) < 2 THEN 2 ELSE 2 + Length(x.acc)
      t == SocketRead(x, IF x.replied THEN need - Len(x.acc) ELSE header - Len(x.reply))
      done == [x EXCEPT !.acc = <<>>]
  IN IF ~x.replied /\ Len(x.reply) >= 2 /\ x.reply[1] # 0 THEN Fail(x)
     ELSE IF ~x.replied /\ Len(x.reply) = header THEN read_packet([x EXCEPT !.replied = TRUE], cap)
     ELSE IF x.replied /\ Len(x.acc) = need
       THEN IF need - 2 > cap THEN Fail(done) ELSE Give(done, Rest(x.acc, 2))
     ELSE IF t[3] = "pending" THEN t
     ELSE IF t[2] = <<>> THEN Fail(x)
     ELSE IF x.replied THEN read_packet([t[1] EXCEPT !.acc = @ \o t[2]], cap)
     ELSE read_packet([t[1] EXCEPT !.reply = @ \o t[2]], cap)

---------------------------------------------------------------------------
(* The two callers and the connection                                            *)

Datagrams == {"vless-udp", "snell-udp"}

PollWrite(x, b, paused) ==
  CASE layer = "http" -> HttpObfsWrite(x, b)
    [] layer = "http-server" -> HttpObfsServerWrite(x, b)
    [] layer = "tls" -> TlsObfsWrite(x, b)
    [] layer = "tls-server" -> TlsObfsServerWrite(x, b)
    [] layer = "reality" -> RealityWrite(x, b)
    [] layer = "vless" -> poll_write_deferred(x, b)
    [] layer = "vision" -> VisionWrite(x, b)
    [] layer = "snell-v3" -> SnellV3Write(x, b)
    [] layer = "snell-v4" -> SnellV4Write(x, b, paused)
    [] layer = "snell-udp" -> poll_write_packet_frame(x, b)
    [] layer = "gun" -> GunWrite(x, b)
    [] layer = "h2" -> H2Write(x, b)
    [] layer = "ws" -> WsWrite(x, b)
    [] layer = "vless-udp" -> VlessPacketWrite(x, b)

Drained(d) == <<d, IF d.out = <<>> THEN 0 ELSE Pending>>
ThenDrain(p) == IF p[2] = Pending THEN p ELSE Drained(Drain(p[1]))

PollFlush(x) ==
  CASE layer \in {"gun", "h2"} -> <<x, 0>>
    [] layer = "ws" -> WsFlush(x)
    [] OTHER -> ThenDrain(CASE layer = "vless" -> poll_flush_deferred_header(x)
                            [] layer = "vision" -> VisionFlush(x)
                            [] OTHER -> <<x, 0>>)

PollShutdown(x) ==
  CASE layer \in {"gun", "h2"} -> SendEos(x)
    [] layer \in {"snell-v3", "snell-v4"} -> SnellShutdown(x)
    [] OTHER -> PollFlush(x)

PollRead(x, cap) ==
  CASE layer = "http" -> HttpObfsServerRead(x, cap)
    [] layer = "http-server" -> HttpObfsRead(x, cap)
    [] layer = "tls" -> TlsObfsServerRead(x, cap)
    [] layer = "tls-server" -> TlsObfsRead(x, cap)
    [] layer = "reality" -> RealityRead(x, cap)
    [] layer = "vless" -> VlessRead(x, cap)
    [] layer = "vision" -> VisionRead(x, cap)
    [] layer \in {"snell-v3", "snell-v4", "snell-udp"} -> SnellRead(x, cap)
    [] layer = "gun" -> GunRead(x, cap)
    [] layer = "h2" -> H2Read(x, cap)
    [] layer = "ws" -> WsRead(x, cap)
    [] layer = "vless-udp" -> read_packet(x, cap)

Join(chunks, b) == IF layer \in Datagrams THEN Append(chunks, b) ELSE <<FlattenSeq(chunks) \o b>>

With(x, room) == [x EXCEPT !.room = room]

Init ==
  /\ layer \in Layers
  /\ kinds \in [1..Payload -> {"hello", "app", "other"}]
  /\ layer # "vision" => \A i \in 1..Payload : kinds[i] = "other"
  /\ layer = "vision" => /\ \A i \in 2..Payload : kinds[i] # "hello"
                         /\ kinds[1] # "hello" => \A i \in 2..Payload : kinds[i] = "other"
  /\ todo = (IF layer \in {"snell-v3", "snell-v4"} THEN <<0>> ELSE <<>>) \o
            [i \in 1..Payload |-> i]
  /\ w = [NewWriter EXCEPT
            !.header = IF layer \in {"vless", "vision"} THEN encode_request ELSE <<>>,
            !.net = IF layer = "vless-udp" THEN encode_request ELSE <<>>]
  /\ r = [NewReader EXCEPT !.replied = layer = "snell-udp"]
  /\ call = <<>> /\ wrote = <<>> /\ got = <<>> /\ said = ""
  /\ flushed = FALSE /\ cut = FALSE

\* A write is retried with the buffer it was given until it is accepted
Write ==
  /\ ~w.closing /\ ~cut /\ todo # <<>>
  /\ \E room \in Rooms, paused \in BOOLEAN, n \in 1..Least(MaxWrite, Len(todo)) :
       \E b \in {IF call = <<>> THEN First(todo, n) ELSE call} :
       \E p \in {PollWrite(With(w, room), b, paused)} :
          /\ paused => layer = "snell-v4"
          /\ w' = With(p[1], 0)
          /\ call' = IF p[2] = Pending THEN b ELSE <<>>
          /\ wrote' = IF p[2] > 0 THEN Join(wrote, First(b, p[2])) ELSE wrote
          /\ todo' = IF p[2] > 0 THEN Rest(todo, p[2]) ELSE todo
          /\ said' = IF p[2] = Refused THEN "err" ELSE said
  /\ flushed' = FALSE
  /\ UNCHANGED <<layer, kinds, r, got, cut>>

\* Between writes, not between a write and its retry
Flush ==
  /\ ~w.closing /\ ~cut /\ call = <<>> /\ ~flushed
  /\ \E room \in Rooms :
       \E p \in {PollFlush(With(w, room))} :
       w' = With(p[1], 0) /\ flushed' = (p[2] # Pending)
  /\ UNCHANGED <<layer, kinds, todo, call, wrote, r, got, said, cut>>

\* At any time: a write that was given up may be unfinished
Shutdown ==
  /\ ~w.shut /\ ~cut /\ layer \notin Datagrams
  /\ \E room \in Rooms :
       \E p \in {PollShutdown(With(w, room))} :
       w' = [With(p[1], 0) EXCEPT !.closing = TRUE, !.shut = p[2] # Pending]
  /\ UNCHANGED <<layer, kinds, todo, call, wrote, r, got, said, flushed, cut>>

\* poll_read of the writing side sends the deferred header; what it reads may show that the
\* inner session is TLS 1.3 (filter_server_tls)
ReadSide ==
  /\ layer \in {"vless", "vision"} /\ ~w.shut /\ ~cut
  /\ \/ \E room \in Rooms : w' = With(poll_flush_deferred_header(With(w, room))[1], 0)
     \/ layer = "vision" /\ w' = [w EXCEPT !.direct = TRUE]
  /\ UNCHANGED <<layer, kinds, todo, call, wrote, r, got, said, flushed, cut>>

\* The server answered the upgrade request
WsAnswered ==
  /\ w.ws = "upgrading" /\ ~r.first
  /\ w' = [w EXCEPT !.ws = "connected"]
  /\ UNCHANGED <<layer, kinds, todo, call, wrote, r, got, said, flushed, cut>>

\* What a peer may put between: a handshake record after the handshake, a record that is not
\* sealed; a ping, a pong, an empty message
PeerExtra ==
  /\ ~w.extra /\ w.out = <<>> /\ ~w.shut /\ ~cut
  /\ \/ /\ layer = "reality"
        /\ w' = [w EXCEPT !.extra = TRUE, !.nonce = @ + 1,
                          !.net = @ \o seal(Handshake, <<>>, w.nonce)]
     \/ /\ layer = "reality"
        /\ w' = [w EXCEPT !.extra = TRUE, !.net = @ \o <<20>> \o Two(1) \o <<1>>]
     \/ /\ layer = "ws" /\ w.ws = "connected"
        /\ \E kind \in {Ping, Pong, Binary} :
             w' = [w EXCEPT !.extra = TRUE, !.net = @ \o Message(kind, <<>>)]
  /\ UNCHANGED <<layer, kinds, todo, call, wrote, r, got, said, flushed, cut>>

\* The connection dies; what has not arrived is lost
Cut ==
  /\ ~cut /\ ~w.shut
  /\ cut' = TRUE
  /\ \E k \in {Least(n, Len(w.net)) : n \in Pieces} : w' = [w EXCEPT !.net = First(@, k)]
  /\ UNCHANGED <<layer, kinds, todo, call, wrote, r, got, said, flushed>>

Caps == IF layer \in Datagrams THEN {MaxWrite} ELSE 1..MaxWrite

\* A poll finds that some of what is on the way has arrived, and with all of it the end
Arrived(k) ==
  [r EXCEPT !.sock = First(w.net, k), !.fin = (w.shut \/ cut) /\ k = Len(w.net)]

Read ==
  /\ said = ""
  /\ \E cap \in Caps, k \in {Least(n, Len(w.net)) : n \in Pieces} :
       \E t \in {PollRead(Arrived(k), cap)} :
       /\ r' = [t[1] EXCEPT !.sock = <<>>, !.fin = FALSE]
       /\ w' = [w EXCEPT !.net = t[1].sock \o Rest(@, k)]
       /\ got' = IF t[2] # <<>> THEN Join(got, t[2]) ELSE got
       /\ said' = IF t[3] = "err" THEN "err"
                  ELSE IF t[3] = "ok" /\ t[2] = <<>> THEN "eof" ELSE ""
  /\ UNCHANGED <<layer, kinds, todo, call, wrote, flushed, cut>>

Next ==
  \/ Write \/ Flush \/ Shutdown \/ ReadSide \/ WsAnswered \/ PeerExtra
  \/ Cut \/ Read

Spec == Init /\ [][Next]_vars

---------------------------------------------------------------------------
Data(chunks) == SelectSeq(FlattenSeq(chunks), LAMBDA b : b # 0)

\* Bytes come out as they went in: what the reader was given is a prefix of what the writer
\* accepted, followed at most by the buffer of a write that was not reported yet; datagrams
\* keep their boundaries (poll_write and poll_read of every adapter).
InOrder ==
  /\ IsPrefix(Data(got), Data(Append(wrote, call)))
  /\ layer \in Datagrams => IsPrefix(got, Append(wrote, call))

\* Framing never gets out of step: a reader fails only when the connection was cut, when the
\* stream ends before Snell's reply byte, or when it ends where Vision still expects a frame
\* (vision.rs reports UnexpectedEof there).
InStep ==
  said = "err" =>
    \/ cut
    \/ layer \in {"snell-v3", "snell-v4"} /\ ~r.replied
    \/ layer = "vision" /\ w.shut /\ r.phase \in {"start", "header"} /\ r.acc = <<>>

\* An end of the stream is the end: without a cut the reader is told so only when the writer
\* shut down and everything arrived - but for the empty read in which the HTTP disguise
\* completes its header (client.rs, server.rs: StripHeader).
EndIsEnd ==
  said = "eof" /\ ~cut =>
    \/ w.shut /\ Len(Data(got)) >= Len(Data(wrote))
    \/ layer \in {"http", "http-server"} /\ got = <<>>

\* A stream that was cut inside a frame does not look finished where the adapter can tell:
\* Snell, Vision while it pads, and datagrams.
CutIsSeen ==
  said = "eof" /\ cut =>
    /\ layer \in {"snell-v3", "snell-v4", "snell-udp"} => r.acc = <<>> /\ r.phase = "header"
    /\ layer = "vision" => r.phase = "through"
    /\ layer # "vless-udp"

\* A completed flush leaves nothing behind: once the connection has delivered everything and
\* the reader waits for more, it has been given all that was accepted.
FlushSends ==
  flushed /\ ~cut /\ said = "" /\ w.net = <<>> /\ PollRead(r, 1)[3] = "pending"
    => Data(got) = Data(wrote)
=============================================================================
