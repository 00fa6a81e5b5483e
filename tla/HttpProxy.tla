----------------------------- MODULE HttpProxy -----------------------------
(***************************************************************************)
(* A plain request at the HTTP inbound (meow-listener: http_proxy.rs).     *)
(* The head is checked and rewritten; then one request body goes to the    *)
(* origin and one response comes back, between a client that may pipeline, *)
(* upgrade or close at any time and an origin that may answer early.  The  *)
(* wrapper SingleRequestClient is polled by the relay, whose task sleeps   *)
(* once both directions are parked.                                        *)
(*                                                                         *)
(* The bytes of the client are numbered from the end of the head.  The     *)
(* response is a queue of items: an interim, final or switching (101)      *)
(* head, a head that is rejected, and data.                                *)
(*                                                                         *)
(* The second half of the module is what happens to the text of messages:  *)
(* the head is found and checked piece by piece, the length of the body is *)
(* taken from it, a chunked body is followed byte by byte, and the heads   *)
(* of the request and of the response are rewritten.  A byte is one of a   *)
(* few classes: CR, LF, a digit (0 or 1), ";", other text ("x") and a      *)
(* control character ("c").  A header is a record of its name in lower     *)
(* case and its value: a list of lengths for content-length (-1 for one    *)
(* that does not parse), of codings for transfer-encoding, of names for    *)
(* connection, of protocols for upgrade.                                   *)
(***************************************************************************)
EXTENDS Integers, Sequences, FiniteSets, SequencesExt, FiniteSetsExt

CONSTANTS
  MaxBytes,     \* bytes the client sends after the head
  MaxItems,     \* items the origin sends
  Limit,        \* MAX_DISCARDED_CLIENT_BYTES and MAX_HELD_UPGRADE_BYTES
  MaxHead,      \* MAX_HEADERS
  MaxLine,      \* MAX_CHUNK_LINE
  MaxTrailers,  \* MAX_TRAILERS
  MaxSize,      \* the largest u64
  None, Error

VARIABLES
  req,          \* [upgrade, body, left]: upgrade_requested, the length of the body, of leftover
  csent, ceof,  \* bytes the client has sent; has it sent a FIN
  bufPos, sock, \* bytes taken of leftover; position reached in the socket
  rem,          \* what the body decoder still expects
  clientEof, held, heldPos, disc,
  fwd, fin,     \* what the origin got: bytes, FIN
  items, rq, ueof,   \* of the origin: items sent, those not yet read, its FIN
  rstate,       \* response_state
  pending,      \* the head in response_buf
  declined, responseDone, gate, sentResp,
  cgot, room,   \* what the client got; can the socket take more
  up, dn,       \* the directions of the relay: run, parked, done
  awake, again, \* is the task polled; was it woken meanwhile
  over          \* how the relay ended

vars == <<req, csent, ceof, bufPos, sock, rem, clientEof, held, heldPos, disc, fwd, fin, items, rq,
          ueof, rstate, pending, declined, responseDone, gate, sentResp, cgot, room, up, dn, awake,
          again, over>>
peers == <<csent, ceof, items, ueof>>
upload == <<bufPos, sock, rem, clientEof, held, heldPos, disc, fwd, fin>>
download == <<rq, rstate, pending, declined, responseDone, gate, sentResp, cgot, room>>

Init ==
  /\ req \in {r \in [upgrade : BOOLEAN, body : 0 .. 2, left : 0 .. 2] : r.upgrade => r.body = 0}
  /\ csent = req.left /\ ceof = FALSE
  /\ bufPos = 0 /\ sock = req.left /\ rem = req.body
  /\ clientEof = FALSE /\ held = 0 /\ heldPos = 0 /\ disc = 0 /\ fwd = <<>> /\ fin = FALSE
  /\ items = 0 /\ rq = <<>> /\ ueof = FALSE
  /\ rstate = "Head" /\ pending = None /\ declined = FALSE /\ responseDone = FALSE
  /\ gate = FALSE /\ sentResp = FALSE /\ cgot = <<>> /\ room = TRUE
  /\ up = "run" /\ dn = "run" /\ awake = TRUE /\ again = FALSE /\ over = "no"

---------------------------------------------------------------------------
(* The peers; an event that a parked direction waits for wakes the task    *)

Wake(parked) == awake' = (awake \/ parked) /\ again' = (again \/ (awake /\ parked))
Rouse(parked) == /\ Wake(parked)
                 /\ IF ~awake /\ parked
                    THEN up' = (IF up = "parked" THEN "run" ELSE up) /\ dn' = (IF dn = "parked" THEN "run" ELSE dn)
                    ELSE UNCHANGED <<up, dn>>

ClientSends ==
  /\ over = "no" /\ csent < MaxBytes /\ ~ceof /\ csent' = csent + 1
  /\ Rouse(up = "parked")
  /\ UNCHANGED <<req, ceof, upload, items, rq, ueof, rstate, pending, declined, responseDone, gate, sentResp, cgot, room, over>>

ClientCloses ==
  /\ over = "no" /\ ~ceof /\ ceof' = TRUE /\ Rouse(up = "parked")
  /\ UNCHANGED <<req, csent, upload, items, rq, ueof, rstate, pending, declined, responseDone, gate, sentResp, cgot, room, over>>

ClientReads ==
  /\ over = "no" /\ ~room /\ room' = TRUE /\ Rouse(dn = "parked")
  /\ UNCHANGED <<req, peers, upload, rq, rstate, pending, declined, responseDone, gate, sentResp, cgot, over>>

OriginSends ==
  /\ over = "no" /\ items < MaxItems /\ ~ueof /\ items' = items + 1
  /\ \E i \in {"interim", "final", "switch", "rejected", "data"} : rq' = Append(rq, i)
  /\ Rouse(dn = "parked")
  /\ UNCHANGED <<req, csent, ceof, upload, ueof, rstate, pending, declined, responseDone, gate, sentResp, cgot, room, over>>

OriginCloses ==
  /\ over = "no" /\ ~ueof /\ ueof' = TRUE /\ Rouse(dn = "parked")
  /\ UNCHANGED <<req, csent, ceof, upload, items, download, over>>

---------------------------------------------------------------------------
(* poll_read of SingleRequestClient, and what the relay makes of it        *)

Run(d) == over = "no" /\ awake /\ d = "run"
Unread == csent - sock
Span(a, b) == [i \in 1 .. b - a |-> a + i]

\* The relay fails: a 502, unless bytes of the response have gone out already
Fails ==
  /\ over' = "failed"
  /\ cgot' = IF sentResp THEN cgot ELSE Append(cgot, "502")

\* Data for the origin
Forward(n) == fwd' = fwd \o Span(n[1], n[2])

\* The reader is at its end: poll_shutdown of ShutdownGate closes the origin only past the gate
UpEnds == up' = "done" /\ fin' = gate

Park == up' = "parked" /\ UNCHANGED fin
WakeSelf == up' = "parked" /\ again' = TRUE /\ UNCHANGED fin

\* After the 101: leftover, what was held, and then the socket
UpTunnel ==
  /\ rstate = "Upgraded"
  /\ CASE bufPos < req.left ->
            Forward(<<bufPos, req.left>>) /\ bufPos' = req.left /\ UNCHANGED <<heldPos, sock, clientEof, up, fin>>
       [] bufPos = req.left /\ heldPos < held ->
            /\ Forward(<<req.left + heldPos, req.left + held>>) /\ heldPos' = held
            /\ UNCHANGED <<bufPos, sock, clientEof, up, fin>>
       [] bufPos = req.left /\ heldPos = held /\ Unread > 0 ->
            Forward(<<sock, csent>>) /\ sock' = csent /\ UNCHANGED <<bufPos, heldPos, clientEof, up, fin>>
       [] OTHER -> (IF ceof THEN UpEnds ELSE Park) /\ UNCHANGED <<fwd, bufPos, heldPos, sock, clientEof>>
  /\ UNCHANGED <<rem, held, disc, again, over, cgot>>

\* A declined upgrade, or a response that ended before the request body did
UpStops ==
  /\ rstate # "Upgraded"
  /\ (declined /\ rstate = "Streaming") \/ (responseDone /\ rem > 0)
  /\ UpEnds /\ UNCHANGED <<fwd, bufPos, heldPos, sock, clientEof, rem, held, disc, again, over, cgot>>

Reading == /\ rstate # "Upgraded" /\ ~(declined /\ rstate = "Streaming")
           /\ ~(responseDone /\ rem > 0)

\* poll_hold_before_upgrade
Holding == Reading /\ rem = 0 /\ req.upgrade /\ rstate \in {"Head", "InterimPending", "UpgradePending"}
UpHold ==
  /\ Holding
  /\ CASE clientEof -> UpEnds /\ UNCHANGED <<sock, clientEof, held, again, over, cgot>>
       [] ~clientEof /\ held = Limit -> Fails /\ UNCHANGED <<up, fin, sock, clientEof, held, again>>
       [] ~clientEof /\ held < Limit /\ Unread > 0 ->
            \E k \in 1 .. Unread : /\ held + k <= Limit /\ held' = held + k /\ sock' = sock + k /\ WakeSelf
                                   /\ UNCHANGED <<clientEof, over, cgot>>
       [] OTHER -> /\ IF ceof THEN UpEnds /\ clientEof' = TRUE ELSE Park /\ UNCHANGED clientEof
                   /\ UNCHANGED <<sock, held, again, over, cgot>>
  /\ UNCHANGED <<fwd, bufPos, heldPos, rem, disc>>

\* poll_discard_after_body
UpDiscard ==
  /\ Reading /\ rem = 0 /\ ~Holding
  /\ CASE bufPos < req.left ->
            IF disc + req.left - bufPos > Limit
            THEN Fails /\ UNCHANGED <<up, fin, bufPos, sock, clientEof, disc, again>>
            ELSE /\ disc' = disc + req.left - bufPos /\ bufPos' = req.left /\ WakeSelf
                 /\ UNCHANGED <<sock, clientEof, over, cgot>>
       [] bufPos = req.left /\ clientEof -> UpEnds /\ UNCHANGED <<bufPos, sock, clientEof, disc, again, over, cgot>>
       [] bufPos = req.left /\ ~clientEof /\ disc = Limit ->
            Fails /\ UNCHANGED <<up, fin, bufPos, sock, clientEof, disc, again>>
       [] bufPos = req.left /\ ~clientEof /\ disc < Limit /\ Unread > 0 ->
            \E k \in 1 .. Unread : /\ disc + k <= Limit /\ disc' = disc + k /\ sock' = sock + k /\ WakeSelf
                                   /\ UNCHANGED <<bufPos, clientEof, over, cgot>>
       [] OTHER -> /\ IF ceof THEN UpEnds /\ clientEof' = TRUE
                      ELSE UNCHANGED clientEof /\ IF responseDone THEN UpEnds ELSE Park
                   /\ UNCHANGED <<bufPos, sock, disc, again, over, cgot>>
  /\ UNCHANGED <<fwd, heldPos, rem, held>>

\* Faulty variant of UpBody: what a read brings past the end of the body goes along
UpBodyAll ==
  /\ Reading /\ rem > 0 /\ bufPos = req.left /\ Unread > 0
  /\ Forward(<<sock, csent>>) /\ sock' = csent /\ rem' = IF rem > Unread THEN rem - Unread ELSE 0
  /\ UNCHANGED <<bufPos, heldPos, clientEof, held, disc, up, fin, again, over, cgot>>

\* The body: from leftover, then from the socket; what a read brings past its end is discarded
UpBody ==
  /\ Reading /\ rem > 0
  /\ LET n == IF bufPos < req.left THEN req.left - bufPos ELSE Unread
         used == IF n < rem THEN n ELSE rem
     IN CASE bufPos < req.left ->
               /\ Forward(<<bufPos, bufPos + used>>) /\ bufPos' = bufPos + used /\ rem' = rem - used
               /\ UNCHANGED <<sock, disc, up, fin, over, cgot>>
          [] bufPos = req.left /\ Unread > 0 ->
               IF disc + n - used > Limit
               THEN Fails /\ sock' = sock + n /\ rem' = rem - used /\ UNCHANGED <<up, fin, fwd, bufPos, disc>>
               ELSE /\ Forward(<<sock, sock + used>>) /\ sock' = sock + n /\ rem' = rem - used
                    /\ disc' = disc + n - used /\ UNCHANGED <<bufPos, up, fin, over, cgot>>
          [] OTHER -> /\ IF ceof THEN Fails /\ UNCHANGED <<up, fin>> ELSE Park /\ UNCHANGED <<over, cgot>>
                      /\ UNCHANGED <<fwd, bufPos, sock, rem, disc>>
  /\ UNCHANGED <<heldPos, clientEof, held, again>>

UpPoll ==
  /\ Run(up) /\ (UpTunnel \/ UpStops \/ UpHold \/ UpDiscard \/ UpBody)
  /\ UNCHANGED <<req, peers, rq, rstate, pending, declined, responseDone, gate, sentResp, room, dn, awake>>

---------------------------------------------------------------------------
(* poll_write, poll_flush and poll_shutdown                                *)

Pending == rstate \in {"InterimPending", "FinalPending", "UpgradePending"}

\* poll_drain_response: the head goes out whole, or the socket is full
Drain ==
  /\ Pending
  /\ IF ~room THEN dn' = "parked" /\ UNCHANGED <<rstate, pending, gate, sentResp, cgot, room, again>>
     ELSE /\ cgot' = Append(cgot, pending) /\ sentResp' = TRUE /\ pending' = None /\ room' \in BOOLEAN
          /\ rstate' = CASE rstate = "InterimPending" -> "Head"
                         [] rstate = "FinalPending" -> "Streaming"
                         [] OTHER -> "Upgraded"
          /\ LET opens == rstate = "UpgradePending" \/ (rstate = "FinalPending" /\ declined)
             IN gate' = (gate \/ opens) /\ again' = (again \/ opens)
          /\ UNCHANGED dn
  /\ UNCHANGED <<rq, declined, responseDone, over>>

\* A piece of the response, by the state of the writer: prepare_response_head or plain data
Write ==
  /\ ~Pending /\ rq # <<>>
  /\ LET i == Head(rq)
     IN CASE rstate \in {"Streaming", "Upgraded"} ->
               /\ IF room THEN /\ rq' = Tail(rq) /\ cgot' = Append(cgot, "data") /\ room' \in BOOLEAN
                               /\ sentResp' = sentResp /\ UNCHANGED dn
                  ELSE dn' = "parked" /\ UNCHANGED <<rq, cgot, room, sentResp>>
               /\ UNCHANGED <<rstate, pending, declined, over>>
          [] rstate = "Head" /\ (i \in {"rejected", "data"} \/ (i = "switch" /\ (~req.upgrade \/ rem > 0))) ->
               Fails /\ UNCHANGED <<rq, rstate, pending, declined, room, sentResp, dn>>
          [] OTHER -> /\ rq' = Tail(rq) /\ pending' = i
                      /\ rstate' = CASE i = "interim" -> "InterimPending"
                                     [] i = "final" -> "FinalPending"
                                     [] OTHER -> "UpgradePending"
                      /\ declined' = IF i = "final" THEN req.upgrade ELSE declined
                      /\ UNCHANGED <<room, sentResp, cgot, dn, over>>
  /\ UNCHANGED <<responseDone, gate, again>>

\* Faulty variant of Shutdown: the other direction is not told that the response is over
ShutdownQuiet ==
  /\ ~Pending /\ rq = <<>> /\ ueof
  /\ IF rstate = "Head" THEN Fails /\ UNCHANGED <<responseDone, again, dn>>
     ELSE responseDone' = TRUE /\ dn' = "done" /\ UNCHANGED <<again, cgot, over>>
  /\ UNCHANGED <<rq, rstate, pending, declined, gate, sentResp, room>>

\* poll_shutdown at the end of the response
Shutdown ==
  /\ ~Pending /\ rq = <<>> /\ ueof
  /\ IF rstate = "Head" THEN Fails /\ UNCHANGED <<responseDone, again, dn>>
     ELSE responseDone' = TRUE /\ again' = TRUE /\ dn' = "done" /\ UNCHANGED <<cgot, over>>
  /\ UNCHANGED <<rq, rstate, pending, declined, gate, sentResp, room>>

DownIdle ==
  /\ ~Pending /\ rq = <<>> /\ ~ueof /\ dn' = "parked"
  /\ UNCHANGED <<rq, rstate, pending, declined, responseDone, gate, sentResp, cgot, room, again, over>>

DownPoll ==
  /\ Run(dn) /\ (Drain \/ Write \/ Shutdown \/ DownIdle)
  /\ UNCHANGED <<req, peers, upload, up, awake>>

---------------------------------------------------------------------------
(* The relay                                                               *)

\* Both directions have been polled: the task ends, is polled again, or sleeps
EndPoll ==
  /\ over = "no" /\ awake /\ up # "run" /\ dn # "run"
  /\ over' = IF up = "done" /\ dn = "done" THEN "closed" ELSE "no"
  /\ awake' = again /\ again' = FALSE
  /\ up' = (IF again /\ up = "parked" THEN "run" ELSE up)
  /\ dn' = (IF again /\ dn = "parked" THEN "run" ELSE dn)
  /\ UNCHANGED <<req, peers, upload, download>>

\* RELAY_HALF_CLOSE_LINGER: one direction is done and the other silent
Linger ==
  /\ over = "no" /\ ~awake /\ "done" \in {up, dn} /\ over' = "reaped"
  /\ UNCHANGED <<req, peers, upload, download, up, dn, awake, again>>

Next ==
  \/ ClientSends \/ ClientCloses \/ ClientReads \/ OriginSends \/ OriginCloses
  \/ UpPoll \/ DownPoll \/ EndPoll \/ Linger

Spec == Init /\ [][Next]_vars

---------------------------------------------------------------------------

\* The origin gets the body of this one request and nothing that the client sent after it.
\* Once it has switched protocols it gets the bytes of the client from the first one on,
\* without a gap; and it gets a FIN only past the gate (SingleRequestClient, ShutdownGate).
OneRequest ==
  /\ fwd = Span(0, Len(fwd))
  /\ rstate # "Upgraded" => Len(fwd) <= req.body - rem /\ (over = "no" => Len(fwd) = req.body - rem)
  /\ rstate = "Upgraded" => Len(fwd) = bufPos + heldPos + (sock - req.left - held)
  /\ fin => gate

\* The client gets one response: interim heads, one head that is final, then its data; the
\* 502 of the proxy only when no byte of a response has gone before it.
OneResponse ==
  LET heads == {i \in DOMAIN cgot : cgot[i] \in {"final", "switch", "502"}}
  IN /\ Cardinality(heads) <= 1
     /\ \A i \in DOMAIN cgot : cgot[i] = "data" => \E h \in heads : h < i
     /\ \A i \in DOMAIN cgot : cgot[i] = "interim" => \A h \in heads : i < h
     /\ \A i \in DOMAIN cgot : cgot[i] = "502" => i = 1 /\ Len(cgot) = 1

\* A sleeping task has nothing to do: whatever lets a parked direction go on has woken it
\* (the wake_by_ref calls of the wrapper).
NeverStuck ==
  over = "no" /\ ~awake =>
    /\ up = "parked" => /\ Unread = 0 /\ ~ceof
                        /\ ~(declined /\ rstate = "Streaming") /\ ~(responseDone /\ rstate # "Upgraded")
                        /\ ~(rem = 0 /\ ~req.upgrade /\ bufPos < req.left)
                        /\ ~(rstate = "Upgraded" /\ (bufPos < req.left \/ heldPos < held))
    /\ dn = "parked" => (rq = <<>> /\ ~ueof /\ ~Pending) \/ ~room
---------------------------------------------------------------------------
(* The text of messages                                                    *)

Seqs(S, n) == UNION {[1 .. k -> S] : k \in 0 .. n}

---------------------------------------------------------------------------
(* Reading the head                                                        *)

\* The end of the first blank line from position `start` (from 0) on, or 0
find_crlf_crlf(buf, start) ==
  LET at == {i \in start + 1 .. Len(buf) - 3 : SubSeq(buf, i, i + 3) = <<"CR", "LF", "CR", "LF">>}
  IN IF at = {} THEN 0 ELSE Min(at) + 3

bare_line_ending_from(buf, start) ==
  \E i \in start + 1 .. Len(buf) :
    \/ buf[i] = "LF" /\ (i = 1 \/ buf[i - 1] # "CR")
    \/ buf[i] = "CR" /\ i < Len(buf) /\ buf[i + 1] # "LF"

\* Faulty variant of Reads: what was validated is not looked at again
ReadsOnce(s, piece) ==
  IF s.end # 0 THEN s
  ELSE LET buf == s.buf \o piece
           found == find_crlf_crlf(buf, IF Len(s.buf) < 3 THEN 0 ELSE Len(s.buf) - 3)
           seen == IF found = 0 THEN Len(buf) ELSE found
           bad == bare_line_ending_from(SubSeq(buf, 1, seen), s.validated)
       IN [buf |-> buf, validated |-> seen,
           end |-> IF bad \/ seen > MaxHead THEN Error ELSE found]

\* One round of the loop in handle_http_inner
Reads(s, piece) ==
  IF s.end # 0 THEN s
  ELSE LET buf == s.buf \o piece
           found == find_crlf_crlf(buf, IF Len(s.buf) < 3 THEN 0 ELSE Len(s.buf) - 3)
           seen == IF found = 0 THEN Len(buf) ELSE found
           bad == bare_line_ending_from(SubSeq(buf, 1, seen), IF s.validated = 0 THEN 0 ELSE s.validated - 1)
       IN [buf |-> buf, validated |-> seen,
           end |-> IF bad \/ seen > MaxHead THEN Error ELSE found]

\* The ways of cutting a sequence: after which positions
Pieces(w, cuts) ==
  LET ends == SetToSortSeq(cuts \union {Len(w)}, <)
  IN [i \in DOMAIN ends |-> SubSeq(w, (IF i = 1 THEN 0 ELSE ends[i - 1]) + 1, ends[i])]

ReadHead(pieces) == FoldLeft(Reads, [buf |-> <<>>, validated |-> 0, end |-> 0], pieces).end

---------------------------------------------------------------------------
(* The chunked body                                                        *)

SizeLine == [k |-> "size", n |-> 0, digits |-> 0, ext |-> FALSE, cr |-> FALSE, line |-> 0]
Chunk(k, n) == [SizeLine EXCEPT !.k = k, !.n = n]
Field(b) == b \in {"0", "1", ";", "x"}
Failed == Chunk("error", 0)

ConsumeSize(s, b) ==
  LET t == [s EXCEPT !.line = @ + 1]
      n == s.n * 2 + (IF b = "1" THEN 1 ELSE 0)
  IN CASE t.line > MaxLine -> Failed
       [] t.line <= MaxLine /\ s.cr ->
            IF b # "LF" \/ s.digits = 0 THEN Failed
            ELSE IF s.n = 0 THEN Chunk("trailers", 0) ELSE Chunk("data", s.n)
       [] t.line <= MaxLine /\ ~s.cr /\ b = "CR" -> [t EXCEPT !.cr = TRUE]
       [] t.line <= MaxLine /\ ~s.cr /\ b # "CR" /\ ~s.ext /\ b \in {"0", "1"} ->
            IF n > MaxSize THEN Failed ELSE [t EXCEPT !.digits = @ + 1, !.n = n]
       [] t.line <= MaxLine /\ ~s.cr /\ b = ";" /\ ~s.ext /\ s.digits # 0 -> [t EXCEPT !.ext = TRUE]
       [] t.line <= MaxLine /\ ~s.cr /\ s.ext /\ Field(b) -> t
       [] OTHER -> Failed

ConsumeTrailer(s, b) ==
  LET t == [s EXCEPT !.n = @ + 1]
  IN CASE t.n > MaxTrailers -> Failed
       [] t.n <= MaxTrailers /\ s.cr ->
            IF b # "LF" THEN Failed
            ELSE IF s.line = 0 THEN Chunk("done", 0) ELSE [t EXCEPT !.line = 0, !.cr = FALSE]
       [] t.n <= MaxTrailers /\ ~s.cr /\ b = "CR" -> [t EXCEPT !.cr = TRUE]
       [] t.n <= MaxTrailers /\ ~s.cr /\ Field(b) -> [t EXCEPT !.line = @ + 1]
       [] OTHER -> Failed

\* ChunkState::consume: the state after one byte; sizes are in base 2
ConsumeChunk(s, b) ==
  CASE s.k = "size" -> ConsumeSize(s, b)
    [] s.k = "data" -> IF s.n = 1 THEN Chunk("cr", 0) ELSE [s EXCEPT !.n = @ - 1]
    [] s.k = "cr" -> IF b = "CR" THEN Chunk("lf", 0) ELSE Failed
    [] s.k = "lf" -> IF b = "LF" THEN SizeLine ELSE Failed
    [] s.k = "trailers" -> ConsumeTrailer(s, b)
    [] OTHER -> s

\* RequestBodyDecoder::consume_slice on a whole wire: how many bytes belong to the body
BodyEnd(w) ==
  LET step(s, b) == IF s.st.k \in {"done", "error"} THEN s
                    ELSE [st |-> ConsumeChunk(s.st, b), at |-> s.at + 1]
      end == FoldLeft(step, [st |-> SizeLine, at |-> 0], w)
  IN CASE end.st.k = "done" -> end.at
       [] end.st.k = "error" -> Error
       [] OTHER -> 0

---------------------------------------------------------------------------
(* The headers                                                             *)

H(name, value) == [name |-> name, value |-> value]
Values(hs, name) == FlattenSeq([i \in DOMAIN hs |-> IF hs[i].name = name THEN hs[i].value ELSE <<>>])
Has(hs, name) == \E i \in DOMAIN hs : hs[i].name = name
Nominates(hs, name) == name \in ToSet(Values(hs, "connection"))

Body(kind, n) == [kind |-> kind, n |-> n]

\* Faulty variant of validate_message_framing: the last Content-Length counts
FramingLast(hs, version) ==
  LET lengths == Values(hs, "content-length")
  IN IF Has(hs, "transfer-encoding") THEN Body("chunked", 0)
     ELSE IF lengths = <<>> THEN Body("none", 0) ELSE Body("length", Last(lengths))

\* Lengths that agree, or one last coding "chunked" without parameters on HTTP/1.1, never both
validate_message_framing(hs, version) ==
  LET lengths == Values(hs, "content-length")
      codings == Values(hs, "transfer-encoding")
      chunked == {i \in DOMAIN codings : codings[i] \in {"chunked", "chunked;p"}}
  IN CASE -1 \in ToSet(lengths) \/ Cardinality(ToSet(lengths)) > 1 -> Body("error", 0)
       [] lengths # <<>> /\ codings # <<>> -> Body("error", 0)
       [] lengths = <<>> /\ codings # <<>> ->
            IF version = 10 \/ Cardinality(chunked) # 1 \/ Last(codings) # "chunked" THEN Body("error", 0)
            ELSE Body("chunked", 0)
       [] OTHER -> IF lengths = <<>> THEN Body("none", 0) ELSE Body("length", lengths[1])

FramingNames == {"content-length", "transfer-encoding", "host"}
validate_connection_options(hs, names) == ToSet(Values(hs, "connection")) \cap (names \union {"bad token"}) = {}

\* validate_upgrade_request: no, yes or an error
validate_upgrade_request(hs, body, version) ==
  CASE ~Nominates(hs, "upgrade") -> "no"
    [] Nominates(hs, "upgrade") /\ version = 11 /\ (body.kind = "none" \/ body = Body("length", 0))
         /\ Values(hs, "upgrade") # <<>> /\ "bad protocol" \notin ToSet(Values(hs, "upgrade")) -> "yes"
    [] OTHER -> "error"

\* parse_request_head, from the fields on
parse_request_head(hs, version) ==
  LET body == validate_message_framing(hs, version)
      upgrade == validate_upgrade_request(hs, body, version)
  IN [ok |-> body.kind # "error" /\ validate_connection_options(hs, FramingNames) /\ upgrade # "error",
      body |-> body, upgrade |-> upgrade = "yes"]

Hop == {"proxy-connection", "proxy-authorization", "connection", "keep-alive"}

\* rewrite_plain_request: the lengths become one, what is for this hop goes, the hop is closed or upgraded
rewrite_plain_request(hs, r) ==
  LET goes(h) == \/ h.name \in Hop \union {"content-length"}
                 \/ h.name = "upgrade" /\ ~r.upgrade
                 \/ Nominates(hs, h.name) /\ ~(r.upgrade /\ h.name = "upgrade")
  IN SelectSeq(hs, LAMBDA h : ~goes(h))
     \o (IF r.body.kind = "length" THEN <<H("content-length", <<r.body.n>>)>> ELSE <<>>)
     \o <<H("connection", <<IF r.upgrade THEN "upgrade" ELSE "close">>)>>

\* prepare_response_head: which of the three kinds of connection a status stands for, or Error
ResponseKind(hs, status, upgrade) ==
  CASE status = 101 ->
         IF upgrade /\ Nominates(hs, "upgrade") /\ Values(hs, "upgrade") # <<>>
            /\ "bad protocol" \notin ToSet(Values(hs, "upgrade"))
         THEN "upgrade" ELSE "error"
    [] status = 100 -> "interim"
    [] OTHER -> "close"

\* rewrite_response_head_in_place
rewrite_response_head(hs, kind) ==
  LET keep(h) == kind = "upgrade" /\ h.name = "upgrade"
      goes(h) == \/ h.name \in {"connection", "proxy-connection", "keep-alive"}
                 \/ h.name = "upgrade" /\ ~keep(h)
                 \/ kind = "upgrade" /\ h.name \in {"content-length", "transfer-encoding"}
                 \/ Nominates(hs, h.name) /\ ~keep(h)
  IN SelectSeq(hs, LAMBDA h : ~goes(h))
     \o (IF kind = "interim" THEN <<>> ELSE <<H("connection", <<kind>>)>>)

---------------------------------------------------------------------------
(* The handler up to the relay                                             *)

\* handle_http_inner: what the client is sent first, and whether a dial was tried.  f says how
\* each check turns out.
handle_http_inner(f) ==
  CASE f.head = "silent" -> [status |-> 0, dials |-> FALSE]
    [] f.head = "malformed" -> [status |-> 400, dials |-> FALSE]
    [] f.head = "fine" /\ f.auth = "refused" -> [status |-> 407, dials |-> FALSE]
    [] f.head = "fine" /\ f.auth # "refused" /\ f.connect -> [status |-> 200, dials |-> f.rule /\ f.tracked]
    [] OTHER -> [status |-> IF ~f.rule \/ (f.tracked /\ ~f.dial) THEN 502 ELSE 0, dials |-> f.rule /\ f.tracked]

---------------------------------------------------------------------------
(* Reference definitions and properties                                    *)

\* However the head arrives in pieces, it is found, refused or awaited as if it had come at once.
PiecesAgree ==
  \A w \in Seqs({"CR", "LF", "x"}, 6) : \A cuts \in SUBSET (1 .. Len(w) - 1) :
    w # <<>> => LET cut == ReadHead(Pieces(w, cuts)) whole == ReadHead(<<w>>)
                IN cut = whole

\* The wires of the grammar: chunks, the last chunk, trailer lines
Ext == {<<>>, <<";">>, <<";", "x">>}
CrLf == <<"CR", "LF">>
Chunks == {<<"1">> \o e \o CrLf \o <<d>> \o CrLf : e \in Ext, d \in {"x", "CR", "LF", "0", "c"}}
          \union {<<"1", "0">> \o CrLf \o d \o CrLf : d \in {<<"0", "CR">>, <<"CR", "LF">>}}
LastChunks == {z \o e \o CrLf : z \in {<<"0">>, <<"0", "0">>}, e \in Ext}
Trailers == {<<>>} \union {l \o CrLf : l \in {<<"x">>, <<"1">>, <<"0", ";">>}}
Wires == {c \o z \o t \o CrLf : c \in {<<>>} \union Chunks, z \in LastChunks, t \in Trailers}

\* The decoder ends a chunked body exactly where the grammar ends it, whatever follows on the
\* connection; and no short string of bytes passes for a body unless it is one.
BodyExact ==
  /\ \A w \in Wires : \A more \in Seqs({"0", "CR", "LF"}, 2) : BodyEnd(w \o more) = Len(w)
  /\ \A w \in Seqs({"0", "1", "CR", "LF", ";", "x"}, 6) :
       BodyEnd(w) = Len(w) /\ w # <<>> => w \in Wires \union {<<"0", "0">> \o CrLf \o CrLf}

Lines == {H("content-length", <<1>>), H("content-length", <<2>>), H("content-length", <<0>>), H("content-length", <<-1>>),
          H("content-length", <<1, 1>>), H("transfer-encoding", <<"chunked">>),
          H("transfer-encoding", <<"gzip">>), H("transfer-encoding", <<"chunked;p">>),
          H("connection", <<"x-own">>), H("connection", <<"close">>), H("connection", <<"upgrade">>),
          H("connection", <<"content-length">>), H("upgrade", <<"ws">>), H("x-own", <<>>),
          H("keep-alive", <<>>), H("proxy-authorization", <<>>)}

\* A request that is let through leaves with one framing, the one the proxy follows; parsed
\* again it means the same, and nothing that concerned the first hop only is left in it.
RequestsRewritten ==
  \A hs \in Seqs(Lines, 3), version \in {10, 11} :
    LET r == parse_request_head(hs, version)
        out == rewrite_plain_request(hs, r)
        next == parse_request_head(out, version)
    IN r.ok => /\ r.body.kind = "length" => ToSet(Values(hs, "content-length")) = {r.body.n}
               /\ next.ok /\ next.body = r.body /\ next.upgrade = r.upgrade
               /\ Len(Values(out, "content-length")) = (IF r.body.kind = "length" THEN 1 ELSE 0)
               /\ ~(Has(out, "content-length") /\ Has(out, "transfer-encoding"))
               /\ ~Has(out, "keep-alive") /\ ~Has(out, "proxy-authorization")
               /\ \A n \in ToSet(Values(hs, "connection")) \ {"upgrade"} : ~Has(out, n)
               /\ Has(out, "upgrade") => r.upgrade

\* A response leaves with its framing untouched, except that a 101 has none, and with nothing
\* that concerned the hop to the origin.
ResponsesRewritten ==
  \A hs \in Seqs(Lines, 2), status \in {100, 101, 200}, upgrade \in BOOLEAN :
    LET kind == ResponseKind(hs, status, upgrade)
        out == rewrite_response_head(hs, kind)
    IN kind # "error" /\ validate_connection_options(hs, {"content-length", "transfer-encoding"}) =>
         /\ kind # "upgrade" => \A n \in {"content-length", "transfer-encoding"} : Values(out, n) = Values(hs, n)
         /\ kind = "upgrade" => ~Has(out, "content-length") /\ ~Has(out, "transfer-encoding")
         /\ Has(out, "upgrade") <=> kind = "upgrade"
         /\ ~Has(out, "keep-alive") /\ (Has(hs, "x-own") /\ Nominates(hs, "x-own") => ~Has(out, "x-own"))
         /\ Len(Values(out, "connection")) = (IF kind = "interim" THEN 0 ELSE 1)

\* Nothing is dialled for a client that was refused, and every refusal but a silent close is
\* one status line.
RefusedNeverDials ==
  \A f \in [head : {"silent", "malformed", "fine"}, auth : {"none", "passed", "refused"},
            connect : BOOLEAN, rule : BOOLEAN, tracked : BOOLEAN, dial : BOOLEAN] :
    LET r == handle_http_inner(f)
    IN /\ r.status \in {400, 407} => ~r.dials
       /\ r.dials => f.head = "fine" /\ f.auth # "refused"

MessagesExact == PiecesAgree /\ BodyExact /\ RequestsRewritten /\ ResponsesRewritten /\ RefusedNeverDials
============================================================================
