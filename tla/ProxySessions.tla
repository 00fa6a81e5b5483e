---------------------------- MODULE ProxySessions ----------------------------
(* What an outbound keeps across the streams it opens, and how a session with a  *)
(* proxy server begins: the pool of Snell connections, which carry one request   *)
(* after another; the VLESS encryption client with its cached ticket and the     *)
(* tasks that seal and open its records, and the VMess relay, built alike; the   *)
(* Hysteria2 driver and the streams it serves; the flight of a Reality server,   *)
(* an HTTP upgrade, the ServerHello filter and Hysteria2's replies and datagrams *)
(* as functions of what arrives.                                                 *)
EXTENDS Integers, Sequences, FiniteSets, SequencesExt

CONSTANTS
  Callers,      \* dial_tcp's callers
  MaxConns,     \* the connections they may dial
  MaxRequests,  \* the requests they may make
  MaxSize,      \* Pool::max_size
  MaxUses,      \* Pool::max_uses_per_conn
  MaxAge,       \* Pool::max_age
  MaxNow,       \* where the clock stops
  Flows,        \* the sessions of the encryption client
  Protocols,    \* what they may speak: "vless", "vmess"
  MaxRecords,   \* the records each side sends in one
  MaxNonce,     \* MAX_NONCE
  Life,         \* how long a ticket lasts
  Tickets       \* the tickets a server may issue

VARIABLES
  conns,        \* the connections, in the order they were dialled
  pool,         \* Pool::items: <<connection, when it expires>>
  clock,        \* Instant::now()
  caller,       \* what each caller is doing
  requests,     \* how many requests were made
  odd,          \* a server met something a request does not allow
  flow,         \* the sessions of the encryption client and of VMess
  cache,        \* TicketCache: <<when it expires, the ticket, the key it goes with>>
  time,         \* Instant::now()
  issued,       \* how many tickets the server issued
  known,        \* those it remembers
  rejected,     \* those it was seen not to
  hy,           \* the driver of a Hysteria2 connection
  hs            \* a stream of it: its handle, the driver's StreamState, QUIC and the server

encVars == <<flow, cache, time, issued, known, rejected>>
snellVars == <<conns, pool, clock, caller, requests, odd>>
hyVars == <<hy, hs>>

---------------------------------------------------------------------------
(* Snell connections.  A token <<kind, request>> is a frame: the header of a     *)
(* request, data, the zero chunk that ends a direction, the server's reply byte. *)

\* A PoolStream with the PooledConn around it, and the server at its other end
NewConn ==
  [place |-> "caller", uses |-> 0, tag |-> 0, half |-> "open", failed |-> FALSE, replied |-> FALSE,
   peerClosed |-> FALSE, staged |-> <<>>, sent |-> <<>>, back |-> <<>>, dead |-> FALSE,
   request |-> 0, reading |-> FALSE, answer |-> "none"]

NewCaller == [pc |-> "idle", conn |-> 0, request |-> 0, tries |-> 0, wrote |-> FALSE, got |-> {}]

SnellInit ==
  /\ conns = <<>> /\ pool = <<>> /\ clock = 0
  /\ caller = [c \in Callers |-> NewCaller]
  /\ requests = 0 /\ odd = FALSE

\* dial_tcp tries the pool twice before it dials
StartDial(c) ==
  /\ caller[c].pc = "idle" /\ requests < MaxRequests
  /\ requests' = requests + 1
  /\ caller' = [caller EXCEPT ![c] = [NewCaller EXCEPT !.pc = "take", !.request = requests + 1]]
  /\ UNCHANGED <<conns, pool, clock, odd>>

reset_reply_state(k) == [k EXCEPT !.replied = FALSE, !.peerClosed = FALSE]

\* The connections `ids` are closed
Without(ids) ==
  [i \in 1..Len(conns) |-> IF i \in ids THEN [NewConn EXCEPT !.place = "gone"] ELSE conns[i]]

\* take_idle pops until it finds a connection that has not expired
take_idle(c) ==
  LET live == {i \in 1..Len(pool) : clock < pool[i][2]}
      top == CHOOSE i \in live : \A j \in live : j <= i
      found == caller[c].tries < 2 /\ live # {}
      popped == IF caller[c].tries = 2 THEN {}
                ELSE {pool[i][1] : i \in {j \in 1..Len(pool) : live = {} \/ j > top}}
      id == pool[top][1]
  IN /\ caller[c].pc = "take"
     /\ IF found
        THEN /\ conns' = [Without(popped) EXCEPT
                            ![id] = [reset_reply_state(@) EXCEPT !.place = "caller"]]
             /\ pool' = SubSeq(pool, 1, top - 1)
             /\ caller' = [caller EXCEPT ![c].pc = "reuse", ![c].conn = id]
        ELSE /\ conns' = Without(popped)
             /\ pool' = IF caller[c].tries = 2 THEN pool ELSE <<>>
             /\ caller' = [caller EXCEPT ![c].pc = "dial"]
     /\ UNCHANGED <<clock, requests, odd>>

dial_fresh(c) ==
  /\ caller[c].pc = "dial"
  /\ \/ /\ Len(conns) < MaxConns
        /\ conns' = Append(conns, NewConn)
        /\ caller' = [caller EXCEPT ![c].pc = "fresh", ![c].conn = Len(conns) + 1]
     \/ caller' = [caller EXCEPT ![c] = NewCaller] /\ UNCHANGED conns
  /\ UNCHANGED <<pool, clock, requests, odd>>

\* A dead connection may take the header, and may refuse it: then the next one is tried
write_header(c) ==
  LET k == conns[caller[c].conn]
      header == <<"header", caller[c].request>>
  IN /\ caller[c].pc \in {"reuse", "fresh"}
     /\ \/ /\ conns' = [conns EXCEPT ![caller[c].conn] =
                          [@ EXCEPT !.uses = @ + 1, !.tag = caller[c].request, !.half = "open",
                                    !.sent = IF k.dead THEN @ ELSE Append(@, header)]]
           /\ caller' = [caller EXCEPT ![c].pc = "open"]
        \/ /\ k.dead
           /\ conns' = Without({caller[c].conn})
           /\ caller' = [caller EXCEPT
                ![c] = IF @.pc = "reuse" THEN [@ EXCEPT !.pc = "take", !.tries = @ + 1]
                       ELSE NewCaller]
     /\ UNCHANGED <<pool, clock, requests, odd>>

\* The future of the dial is dropped, and the connection it holds with it
CancelDial(c) ==
  /\ caller[c].pc \in {"take", "dial", "reuse", "fresh"}
  /\ conns' = IF caller[c].pc \in {"reuse", "fresh"} THEN Without({caller[c].conn}) ELSE conns
  /\ caller' = [caller EXCEPT ![c] = NewCaller]
  /\ UNCHANGED <<pool, clock, requests, odd>>

Mine(c) == conns[caller[c].conn]
Opened(c) == caller[c].pc = "open"

\* A frame is staged; it leaves when the socket takes it
WriteConn(c) ==
  /\ Opened(c) /\ Mine(c).half = "open" /\ ~caller[c].wrote
  /\ conns' = [conns EXCEPT ![caller[c].conn].staged = <<<<"data", caller[c].request>>>>]
  /\ caller' = [caller EXCEPT ![c].wrote = TRUE]
  /\ UNCHANGED <<pool, clock, requests, odd>>

Push(k) ==
  [k EXCEPT !.staged = <<>>, !.sent = IF k.dead THEN @ ELSE @ \o k.staged]

FlushConn(c) ==
  /\ Opened(c) /\ Mine(c).half = "open" /\ Mine(c).staged # <<>>
  /\ conns' = [conns EXCEPT ![caller[c].conn] = IF Mine(c).dead THEN [@ EXCEPT !.failed = TRUE]
                                                ELSE Push(@)]
  /\ UNCHANGED <<pool, clock, caller, requests, odd>>

\* poll_write of nothing, repeated while it reports input: a frame an earlier write left goes
\* first, then the zero chunk is staged and sent; `room` frames fit
RECURSIVE WriteZero(_, _)
WriteZero(k, room) ==
  IF k.staged = <<>>
    THEN WriteZero([k EXCEPT !.half = "writing", !.staged = <<<<"zero", k.tag>>>>], room)
  ELSE IF room = 0 THEN [k EXCEPT !.half = "writing"]
  ELSE IF k.staged[1][1] = "zero" THEN [Push(k) EXCEPT !.half = "flushing"]
  ELSE WriteZero(Push(k), room - 1)

\* One poll of the half-close, for poll_shutdown and for finish_local_half_close
HalfClose(k, room) ==
  CASE k.half \in {"open", "writing"} -> WriteZero(k, room)
    [] k.half = "flushing" -> [k EXCEPT !.half = "sent"]
    [] OTHER -> k

ShutdownConn(c) ==
  /\ Opened(c) /\ Mine(c).half \in {"open", "writing", "flushing"}
  /\ \/ \E room \in {0, 2} : conns' = [conns EXCEPT ![caller[c].conn] = HalfClose(@, room)]
     \/ Mine(c).dead /\ conns' = [conns EXCEPT ![caller[c].conn].half = "failed"]
  /\ UNCHANGED <<pool, clock, caller, requests, odd>>

\* The reply byte comes first; the zero chunk is the end, and an error before the reply
ReadConn(c) ==
  LET k == Mine(c)
      t == Head(k.back)
      rest == [k EXCEPT !.back = Tail(@)]
  IN /\ Opened(c) /\ ~k.peerClosed /\ ~k.failed
     /\ \/ /\ k.back # <<>>
           /\ conns' = [conns EXCEPT ![caller[c].conn] =
                CASE ~k.replied /\ t[1] = "reply" -> [rest EXCEPT !.replied = TRUE]
                  [] ~k.replied -> [rest EXCEPT !.failed = TRUE]
                  [] t[1] = "zero" -> [rest EXCEPT !.peerClosed = TRUE]
                  [] OTHER -> rest]
           /\ caller' = [caller EXCEPT ![c].got = @ \cup {t[2]}]
        \/ /\ k.back = <<>> /\ k.dead
           /\ conns' = [conns EXCEPT ![caller[c].conn].failed = TRUE]
           /\ UNCHANGED caller
  /\ UNCHANGED <<pool, clock, requests, odd>>

\* put: refused when the connection was used often enough, or the pool is full
put(id) ==
  LET full == conns[id].uses >= MaxUses \/ Len(pool) >= MaxSize
      k == reset_reply_state(conns[id])
  IN /\ pool' = IF full THEN pool ELSE Append(pool, <<id, clock + MaxAge>>)
     /\ conns' = IF full THEN Without({id}) ELSE [conns EXCEPT ![id] = [k EXCEPT !.place = "pool"]]

\* PooledConn::drop that trusts the caller to have read everything
DropUnread(c) ==
  LET id == caller[c].conn
      k == conns[id]
  IN /\ Opened(c)
     /\ IF k.failed \/ k.half = "failed" THEN conns' = Without({id}) /\ UNCHANGED pool
        ELSE IF k.half = "sent" THEN put(id)
        ELSE conns' = [conns EXCEPT ![id].place = "task"] /\ UNCHANGED pool
     /\ caller' = [caller EXCEPT ![c] = NewCaller]
     /\ UNCHANGED <<clock, requests, odd>>

\* PooledConn::drop: only a connection whose answer was read to its end is kept; one whose own
\* direction is not closed yet is given to a task that closes it first
DropConn(c) ==
  LET id == caller[c].conn
      k == conns[id]
  IN /\ Opened(c)
     /\ IF k.failed \/ ~k.peerClosed \/ k.half = "failed"
        THEN conns' = Without({id}) /\ UNCHANGED pool
        ELSE IF k.half = "sent" THEN put(id)
        ELSE conns' = [conns EXCEPT ![id].place = "task"] /\ UNCHANGED pool
     /\ caller' = [caller EXCEPT ![c] = NewCaller]
     /\ UNCHANGED <<clock, requests, odd>>

finish_local_half_close(id) ==
  LET k == conns[id] IN
  /\ k.place = "task"
  /\ \/ /\ k.half # "sent"
        /\ \E room \in {0, 2} : conns' = [conns EXCEPT ![id] = HalfClose(@, room)]
        /\ UNCHANGED pool
     \/ k.half = "sent" /\ put(id)
     \/ k.half # "sent" /\ k.dead /\ conns' = Without({id}) /\ UNCHANGED pool
  /\ UNCHANGED <<clock, caller, requests, odd>>

\* The server reads a header, data and a zero chunk, in this order, of one request at a time
ServerReads(id) ==
  LET k == conns[id]
      t == Head(k.sent)
      fits == CASE t[1] = "header" -> ~k.reading /\ k.answer \in {"none", "done"}
                [] OTHER -> k.reading /\ t[2] = k.request
  IN /\ ~k.dead /\ k.place # "gone" /\ k.sent # <<>>
     /\ conns' = [conns EXCEPT ![id] =
          IF t[1] = "header"
          THEN [@ EXCEPT !.sent = Tail(@), !.reading = TRUE, !.request = t[2], !.answer = "reply"]
          ELSE [@ EXCEPT !.sent = Tail(@), !.reading = t[1] = "data"]]
     /\ odd' = (odd \/ ~fits)
     /\ UNCHANGED <<pool, clock, caller, requests>>

\* Its answer is a reply byte or an error, data, and a zero chunk
ServerAnswers(id) ==
  LET k == conns[id]
      Say(kind, next) == conns' = [conns EXCEPT ![id] =
        [@ EXCEPT !.back = Append(@, <<kind, k.request>>), !.answer = next]]
  IN /\ ~k.dead /\ k.place # "gone"
     /\ \/ k.answer = "reply" /\ (Say("reply", "data") \/ Say("error", "done"))
        \/ k.answer = "data" /\ Say("data", "end")
        \/ k.answer = "end" /\ Say("zero", "done")
     /\ UNCHANGED <<pool, clock, caller, requests, odd>>

Dies(id) ==
  /\ ~conns[id].dead /\ conns[id].place # "gone"
  /\ conns' = [conns EXCEPT ![id].dead = TRUE, ![id].sent = <<>>]
  /\ UNCHANGED <<pool, clock, caller, requests, odd>>

Tick ==
  /\ clock < MaxNow
  /\ clock' = clock + 1
  /\ UNCHANGED <<conns, pool, caller, requests, odd>>

SnellNext ==
  \/ \E c \in Callers :
       \/ StartDial(c) \/ take_idle(c) \/ dial_fresh(c) \/ write_header(c) \/ CancelDial(c)
       \/ WriteConn(c) \/ FlushConn(c) \/ ShutdownConn(c) \/ ReadConn(c) \/ DropConn(c)
  \/ \E id \in 1..Len(conns) :
       finish_local_half_close(id) \/ ServerReads(id) \/ ServerAnswers(id) \/ Dies(id)
  \/ Tick

SnellSpec == SnellInit /\ [][SnellNext]_snellVars

\* Requests that share a connection never meet: a caller reads answers to its own request only,
\* and the server finds each header where a request may begin, after the end of the one before
\* (PooledConn::drop, finish_local_half_close, Snell::reset_reply_state).
RequestsApart == ~odd /\ \A c \in Callers : caller[c].got \subseteq {caller[c].request}

\* What waits in the pool can carry another request: both directions of the last one are over,
\* nothing of it is buffered or under way, and the limits hold (Pool::put, PooledConn::drop).
PoolIsClean ==
  /\ Len(pool) <= MaxSize
  /\ \A i \in 1..Len(pool) :
       LET k == conns[pool[i][1]] IN
       /\ k.place = "pool" /\ k.half = "sent" /\ k.staged = <<>> /\ k.back = <<>>
       /\ k.answer = "done" /\ k.uses < MaxUses
       /\ ~k.dead => ~k.reading \/ (k.sent # <<>> /\ Last(k.sent)[1] = "zero")
  /\ \A i \in 1..Len(conns) : conns[i].uses <= MaxUses

---------------------------------------------------------------------------
(* VLESS encryption, and the VMess relay.  A token <<kind, key, nonce, n>> is    *)
(* what travels: a hello, the server's random, padding, a record with its number *)
(* n.  A key is a number: ten times its ticket, plus the random, plus a hundred  *)
(* for every rekey.                                                              *)

NoCache == <<-1, 0>>

\* Aead: the key, and the nonce last used; sealing and opening advance it first
Aead(key) == [key |-> key, nonce |-> 0]
increment_nonce(a) == [a EXCEPT !.nonce = (@ + 1) % (MaxNonce + 1)]
is_exhausted(a) == a.nonce = MaxNonce

\* Mutant: whether the nonces are used up is asked after the record
NextRecordLate(a) ==
  IF is_exhausted(increment_nonce(a)) THEN Aead(a.key + 100) ELSE increment_nonce(a)

\* The state after one record: a new key when the last nonce was the largest
NextRecord(a) ==
  IF is_exhausted(a) THEN Aead(a.key + 100) ELSE increment_nonce(a)

\* BodyCipher: a counter that wraps, used before it is advanced
SealedWith(x, a) ==
  IF x.protocol = "vmess" THEN <<a.key, a.nonce>> ELSE <<a.key, increment_nonce(a).nonce>>
After(x, a) == IF x.protocol = "vmess" THEN increment_nonce(a) ELSE NextRecord(a)
read_record(x, t) == t[1] = "record" /\ <<t[2], t[3]>> = SealedWith(x, x.peer)
write_record(x) == <<"record", SealedWith(x, x.aead)[1], SealedWith(x, x.aead)[2], x.asked + 1>>

\* One session: the two tasks between the caller and the connection, and the server
NewFlow(protocol) ==
  [protocol |-> protocol, pc |-> "idle", rd |-> "none", wr |-> "none", told |-> FALSE,
   united |-> 0, zeroRtt |-> FALSE, pre |-> FALSE, aead |-> Aead(0), peer |-> Aead(0),
   first |-> FALSE, asked |-> 0, got |-> 0, used |-> {}, broken |-> FALSE,
   up |-> <<>>, down |-> <<>>, upEnd |-> FALSE, downEnd |-> FALSE,
   srv |-> "hello", sread |-> Aead(0), swrite |-> Aead(0), taken |-> 0, answered |-> 0]

EncInit ==
  /\ flow \in [Flows -> {NewFlow(p) : p \in Protocols}]
  /\ cache = NoCache /\ time = 0 /\ issued = 0 /\ known = {} /\ rejected = {}

KeyOf(ticket) == 10 * ticket
Start(x) == [x EXCEPT !.pc = "relay", !.wr = "loop"]
Hello == <<"hello", 0, 0, 0>>

\* dial_vmess sends its header and starts the relay, which does not wait for the reply
dial_vmess(x) == [Start(x) EXCEPT !.rd = "reply", !.up = <<Hello>>]

\* handshake with a ticket that has not expired sends nothing yet: the hello goes with the
\* first record.  Without one the hello leaves now, and the answer is awaited
handshake(f) ==
  LET x == flow[f]
      live == time < cache[1]
  IN /\ x.pc = "idle"
     /\ flow' = [flow EXCEPT ![f] =
          CASE x.protocol = "vmess" -> dial_vmess(x)
            [] x.protocol = "vless" /\ live ->
                 [Start(x) EXCEPT !.rd = "random", !.zeroRtt = TRUE, !.pre = TRUE,
                                  !.united = KeyOf(cache[2]), !.aead = Aead(KeyOf(cache[2]))]
            [] OTHER -> [x EXCEPT !.pc = "await", !.up = <<Hello>>]]
     /\ UNCHANGED <<cache, time, issued, known, rejected>>

\* The server's hello: the ticket and the length of the padding are opened with the key of
\* the answer; the padding itself is left to the read task
ServerHello(f) ==
  LET x == flow[f]
      t == Head(x.down)
      key == KeyOf(t[4])
  IN /\ x.pc = "await"
     /\ \/ /\ x.down # <<>>
           /\ cache' = IF t[3] > 0 THEN <<time + t[3], t[4]>> ELSE cache
           /\ flow' = [flow EXCEPT ![f] =
                [Start(x) EXCEPT !.rd = IF t[1] = "bare" THEN "records" ELSE "padding",
                                 !.down = Tail(@), !.united = key, !.aead = Aead(key),
                                 !.peer = increment_nonce(increment_nonce(Aead(key)))]]
        \/ /\ x.down = <<>> /\ x.downEnd
           /\ flow' = [flow EXCEPT ![f].pc = "failed", ![f].upEnd = TRUE]
           /\ UNCHANGED cache
     /\ UNCHANGED <<time, issued, known, rejected>>

\* The read task breaks out of its loop and shuts the caller's side; with VMess the other
\* task is aborted then.  A return before the loop only drops its half of the pipe, and the
\* caller is told when the other task drops the second half
EndRead(x) ==
  [x EXCEPT !.rd = "end", !.told = TRUE,
            !.wr = IF x.protocol = "vmess" THEN "end" ELSE @,
            !.upEnd = x.upEnd \/ x.protocol = "vmess"]
LeaveRead(x) == [x EXCEPT !.rd = "end", !.told = x.wr = "end"]

\* Mutant: a ticket is dropped only when the connection ends
InvalidateNever(x) == cache' = cache /\ rejected' = rejected \cup {x.united}

\* A first record that does not decode or open drops the ticket
invalidate(x) == cache' = [cache EXCEPT ![1] = -1] /\ rejected' = rejected \cup {x.united}

\* The reply header opens, and repeats the byte of the request
read_aead_response_header(t) == t[1] = "reply"

\* One step of the read task: the reply header (VMess), the server's random (0-RTT) or its
\* padding (1-RTT), then records
read_loop(f) ==
  LET x == flow[f]
      t == Head(x.down)
      rest == [x EXCEPT !.down = Tail(@)]
      fails == [EndRead(rest) EXCEPT !.broken = TRUE]
      opens == read_record(x, t)
      opened == [rest EXCEPT !.peer = After(x, @), !.first = TRUE, !.got = t[4]]
      Becomes(y) == flow' = [flow EXCEPT ![f] = y]
  IN /\ x.rd \notin {"none", "end"}
     /\ \/ /\ x.down = <<>> /\ x.downEnd
           /\ Becomes(IF x.rd \in {"random", "padding"} THEN LeaveRead(x) ELSE EndRead(x))
           /\ UNCHANGED <<cache, rejected>>
        \/ /\ x.down # <<>> /\ x.rd # "records"
           /\ Becomes(CASE x.rd = "reply" ->
                             IF read_aead_response_header(t) THEN [rest EXCEPT !.rd = "records"]
                             ELSE EndRead(rest)
                        [] x.rd = "random" ->
                             [rest EXCEPT !.rd = "records", !.peer = Aead(x.united + t[3])]
                        [] x.rd = "padding" ->
                             IF t[3] = increment_nonce(x.peer).nonce
                             THEN [rest EXCEPT !.rd = "records", !.peer = increment_nonce(@)]
                             ELSE [LeaveRead(rest) EXCEPT !.broken = TRUE])
           /\ UNCHANGED <<cache, rejected>>
        \/ /\ x.down # <<>> /\ x.rd = "records"
           /\ Becomes(IF t[1] = "zero" THEN EndRead(rest) ELSE IF opens THEN opened ELSE fails)
           /\ IF ~opens /\ ~x.first /\ x.zeroRtt THEN invalidate(x)
              ELSE UNCHANGED <<cache, rejected>>
     /\ UNCHANGED <<time, issued, known>>

\* The caller writes; the write task seals it, after the hello it still owes
write_loop(f) ==
  LET x == flow[f]
      hello == IF x.pre THEN <<<<"zero", x.united, 0, 0>>>> ELSE <<>>
  IN /\ x.wr = "loop" /\ x.asked < MaxRecords
     /\ flow' = [flow EXCEPT ![f] =
          [x EXCEPT !.asked = @ + 1, !.pre = FALSE, !.aead = After(x, @),
                    !.used = @ \cup {SealedWith(x, x.aead)},
                    !.up = @ \o hello \o <<write_record(x)>>]]
     /\ UNCHANGED <<cache, time, issued, known, rejected>>

\* The caller shuts its side, or a write fails: the connection's write side is shut
EndWrite(f) ==
  /\ flow[f].wr = "loop"
  /\ flow' = [flow EXCEPT ![f].wr = "end", ![f].upEnd = TRUE,
                          ![f].told = @ \/ flow[f].rd = "end"]
  /\ UNCHANGED <<cache, time, issued, known, rejected>>

\* The peer keeps its own count of nonces and keys
PeerNext(x, a) ==
  IF x.protocol = "vless" /\ a.nonce = MaxNonce THEN [key |-> a.key + 100, nonce |-> 0]
  ELSE [a EXCEPT !.nonce = (@ + 1) % (MaxNonce + 1)]
PeerNonce(x, a) == IF x.protocol = "vmess" THEN a.nonce ELSE (a.nonce + 1) % (MaxNonce + 1)

\* The server reads: a hello gets a new ticket (here the one without padding
\* is good for no time); a ticket it remembers gets its random; one it
\* does not is answered with noise; records are opened in order
ServerTakes(f) ==
  LET x == flow[f]
      t == Head(x.up)
      rest == [x EXCEPT !.up = Tail(@)]
      key == KeyOf(issued + 1)
      Becomes(y) == flow' = [flow EXCEPT ![f] = y]
      Relays(from, to, said) ==
        [rest EXCEPT !.srv = "relay", !.sread = Aead(from), !.swrite = to, !.down = said]
  IN /\ x.up # <<>> /\ ~x.downEnd
     /\ \/ /\ t[1] = "hello" /\ x.protocol = "vmess"
           /\ Becomes(Relays(0, Aead(0), <<>>)) /\ UNCHANGED <<issued, known>>
        \/ /\ t[1] = "hello" /\ x.protocol = "vless" /\ issued < Tickets
           /\ \/ Becomes(Relays(key, [key |-> key, nonce |-> 2],
                                <<<<"bare", key, 0, issued + 1>>>>))
              \/ Becomes(Relays(key, [key |-> key, nonce |-> 3],
                                <<<<"padded", key, Life, issued + 1>>,
                                  <<"padding", key, 3, 0>>>>))
           /\ issued' = issued + 1 /\ known' = known \cup {key}
        \/ /\ t[1] = "zero" /\ t[2] \in known
           /\ Becomes(Relays(t[2], Aead(t[2] + 1), <<<<"random", 0, 1, 0>>>>))
           /\ UNCHANGED <<issued, known>>
        \/ /\ t[1] = "zero" /\ t[2] \notin known
           /\ \E n \in {0, 2} :
                Becomes([rest EXCEPT !.srv = "noise", !.downEnd = TRUE,
                                     !.down = [i \in 1..n |-> <<"noise", 0, 5, 0>>]])
           /\ UNCHANGED <<issued, known>>
        \/ /\ t[1] = "record"
           /\ Becomes(IF <<t[2], t[3]>> = <<x.sread.key, PeerNonce(x, x.sread)>>
                         /\ t[4] = x.taken + 1
                      THEN [rest EXCEPT !.sread = PeerNext(x, @), !.taken = @ + 1]
                      ELSE [rest EXCEPT !.broken = TRUE])
           /\ UNCHANGED <<issued, known>>
     /\ UNCHANGED <<cache, time, rejected>>

\* The server answers with records, once it has had one (VMess sends its header first), or
\* ends its direction
ServerSays(f) ==
  LET x == flow[f]
      record == <<"record", x.swrite.key, PeerNonce(x, x.swrite), x.answered + 1>>
      header == IF x.protocol = "vmess" /\ x.answered = 0 THEN <<<<"reply", 0, 0, 0>>>>
                ELSE <<>>
  IN /\ x.srv = "relay" /\ ~x.downEnd /\ x.taken > 0
     /\ \/ /\ x.answered < MaxRecords
           /\ flow' = [flow EXCEPT ![f] =
                [x EXCEPT !.answered = @ + 1, !.swrite = PeerNext(x, @),
                          !.down = @ \o header \o <<record>>]]
        \/ /\ x.protocol = "vmess" /\ x.answered = 0
           /\ flow' = [flow EXCEPT ![f] =
                [x EXCEPT !.downEnd = TRUE, !.down = <<<<"noise", 0, 5, 0>>>>]]
        \/ /\ x.protocol = "vmess" /\ x.answered > 0
           /\ flow' = [flow EXCEPT ![f] =
                [x EXCEPT !.downEnd = TRUE, !.down = Append(@, <<"zero", 0, 0, 0>>)]]
     /\ UNCHANGED <<cache, time, issued, known, rejected>>

\* The connection ends: what the server said before is the last of it
Ends(f) ==
  /\ flow[f].pc # "idle" /\ ~flow[f].downEnd
  /\ flow' = [flow EXCEPT ![f].downEnd = TRUE]
  /\ UNCHANGED <<cache, time, issued, known, rejected>>

\* The server restarts, or its tickets expire
Forget ==
  /\ known # {} /\ known' = {}
  /\ UNCHANGED <<flow, cache, time, issued, rejected>>

Passes == time < MaxNow /\ time' = time + 1 /\ UNCHANGED <<flow, cache, issued, known, rejected>>

\* A finished session is followed by another
Again(f) ==
  LET x == flow[f] IN
  /\ x.pc = "failed" \/ (x.rd = "end" /\ x.wr = "end")
  /\ flow' = [flow EXCEPT ![f] = NewFlow(x.protocol)]
  /\ UNCHANGED <<cache, time, issued, known, rejected>>

EncNext ==
  \/ \E f \in Flows : \/ handshake(f) \/ ServerHello(f) \/ read_loop(f) \/ write_loop(f)
                      \/ EndWrite(f) \/ ServerTakes(f) \/ ServerSays(f) \/ Ends(f) \/ Again(f)
  \/ Forget \/ Passes

EncSpec == EncInit /\ [][EncNext]_encVars

\* The two ends stay in step whatever the handshake was and however many keys were used up:
\* each opens what the other sealed, in order, and only a server that forgot the ticket makes
\* a session fail to open a record.  No key seals two records with one nonce.  (VMess's
\* counter wraps at 16 bits and reuses them: the last part is of VLESS encryption.)
SessionsInStep ==
  \A f \in Flows :
    LET x == flow[f] IN
    /\ x.broken => x.srv = "noise"
    /\ x.got <= x.answered /\ x.taken <= x.asked
    /\ x.protocol = "vless" => Cardinality(x.used) = x.asked

\* A ticket the server was seen not to know is never offered again: it is dropped from the
\* cache, and no session that began before brings it back
RejectedTicketsDropped == time < cache[1] => KeyOf(cache[2]) \notin rejected

---------------------------------------------------------------------------
(* Functions of what a server sends.  Chunks is every way a sequence of bytes    *)
(* may arrive.                                                                   *)

RECURSIVE Chunks(_)
Chunks(s) ==
  IF s = <<>> THEN {<<>>}
  ELSE UNION {{<<SubSeq(s, 1, n)>> \o rest : rest \in Chunks(SubSeq(s, n + 1, Len(s)))}
              : n \in 1..Len(s)}

\* Where p first occurs in s, counted from 0, or -1
Position(s, p) ==
  LET at == {i \in 0..(Len(s) - Len(p)) : SubSeq(s, i + 1, i + Len(p)) = p}
  IN IF at = {} THEN -1 ELSE CHOOSE i \in at : \A j \in at : i <= j

\* read_plain_handshake and parse_server_hello: the first record that is not a
\* change-cipher-spec is the whole ServerHello; of its extensions the last version counts
read_plain_handshake(records) ==
  LET hello == SelectSeq(records, LAMBDA r : r.typ # "ccs")
  IN IF hello = <<>> THEN [typ |-> "none"] ELSE Head(hello)
parse_server_hello(h) ==
  LET versions == SelectSeq(h.exts, LAMBDA e : e \in {"tls13", "tls12"})
  IN /\ versions # <<>> /\ Last(versions) = "tls13"
     /\ "x25519" \in ToSet(h.exts)
ServerHelloOk(records) ==
  LET h == read_plain_handshake(records)
  IN h.typ = "server_hello" /\ parse_server_hello(h) /\ h.echo

\* pop_handshake_message: the first message of the buffer, if it is whole
pop_handshake_message(buf) ==
  CASE buf = <<>> -> <<"none", <<>>>>
    [] buf # <<>> /\ Head(buf) = "Certificate(" ->
         IF Len(buf) > 1 /\ buf[2] = ")" THEN <<"Certificate", SubSeq(buf, 3, Len(buf))>>
         ELSE <<"none", buf>>
    [] OTHER -> <<Head(buf), Tail(buf)>>

\* Mutant: a message is refused only when it came before
AdmitOnce(seen, msg) == msg \notin ToSet(seen)

\* ServerFlightGuard::admit: each once, in order ("Huge" is a certificate past the limit)
admit(seen, msg) ==
  CASE msg = "EncryptedExtensions" -> seen = <<>>
    [] msg = "Certificate" -> seen = <<"EncryptedExtensions">>
    [] msg = "CertificateVerify" -> seen = <<"EncryptedExtensions", "Certificate">>
    [] OTHER -> FALSE

\* One turn of reality_handshake's loop: a record is read before a message is taken.  What is
\* not a handshake record is skipped, an alert ends it
FlightStep(st, record) ==
  LET popped == pop_handshake_message(st.buf \o record)
      msg == popped[1]
      next == [st EXCEPT !.buf = popped[2], !.seen = Append(@, msg)]
  IN CASE st.end # "reading" -> st
       [] st.end = "reading" /\ record = <<"other">> -> st
       [] st.end = "reading" /\ record # <<"other">> ->
            IF msg = "Finished" /\ Len(st.seen) = 3 THEN [next EXCEPT !.end = "verify"]
            ELSE IF admit(st.seen, msg) THEN next ELSE [st EXCEPT !.end = "error"]

\* The handshake succeeds when Finished verifies and the certificate carries the HMAC
reality_handshake(records, finishedOk, certificateOk) ==
  LET st == FoldLeft(FlightStep, [buf |-> <<>>, seen |-> <<>>, end |-> "reading"], records)
  IN [ok |-> st.end = "verify" /\ finishedOk /\ certificateOk, seen |-> st.seen]

Flight == <<"EncryptedExtensions", "Certificate", "CertificateVerify", "Finished">>
FlightRecords ==
  {<<m>> : m \in ToSet(Flight)} \cup
  {<<"other">>, <<"alert">>, <<"Huge">>, <<"EncryptedExtensions", "Certificate(">>,
   <<")", "CertificateVerify">>}

\* The comment of reality_tls.rs on the server's flight holds: a handshake succeeds only
\* after EncryptedExtensions, Certificate, CertificateVerify, each exactly once and in order,
\* then Finished, however they are spread over records; and that flight, one message to a
\* record, with other records between, always succeeds
FlightExact ==
  /\ \A n \in 0..5 : \A records \in [1..n -> FlightRecords] :
       LET r == reality_handshake(records, TRUE, TRUE)
           handshake_records == SelectSeq(records, LAMBDA x : x # <<"other">>)
           messages == SelectSeq(FlattenSeq(handshake_records), LAMBDA m : m # ")")
           Whole(m) == IF m = "Certificate(" THEN "Certificate" ELSE m
       IN /\ r.ok => /\ r.seen = Flight
                     /\ \A i \in 1..4 : Whole(messages[i]) = Flight[i]
          /\ IsPrefix([i \in 1..4 |-> <<Flight[i]>>], handshake_records) => r.ok
          /\ ~reality_handshake(records, TRUE, FALSE).ok
          /\ ~reality_handshake(records, FALSE, TRUE).ok
  /\ \A echo \in BOOLEAN, n \in 0..3 :
       \A exts \in [1..n -> {"tls13", "tls12", "x25519"}] :
         LET hello == [typ |-> "server_hello", echo |-> echo, exts |-> exts]
             ccs == [typ |-> "ccs", echo |-> FALSE, exts |-> <<>>]
         IN /\ ServerHelloOk(<<hello>>) = ServerHelloOk(<<ccs, hello>>)
            /\ ServerHelloOk(<<hello>>) => echo

\* HttpUpgradeLayer::connect.  Bytes are "r", "n" (carriage return, line feed), "/", " " and
\* "a" for any other; a request is its lines, each ended by <<"r", "n">>
HeaderLimit == 6                   \* 8192 in the code
Eol == <<"r", "n">>
Terminator == Eol \o Eol
validate_request_config(path, value) ==
  /\ path # <<>> /\ Head(path) = "/" /\ ToSet(path) \subseteq {"/", "a"}
  /\ ToSet(value) \cap {"r", "n"} = {}
request(path, value) == path \o Eol \o <<"a">> \o value \o Eol \o Eol

\* Mutant: the search starts where the new bytes do
ScanFromEnd(st, chunk) ==
  LET at == Position(chunk, Terminator)
      buf == st.buf \o chunk
  IN CASE st.end # -1 -> [st EXCEPT !.unread = @ \o chunk]
       [] st.end = -1 /\ at # -1 -> [st EXCEPT !.buf = buf, !.end = Len(st.buf) + at + 4]
       [] OTHER -> [st EXCEPT !.buf = buf]

\* One read of the response's header: the search starts three bytes before the new ones, and
\* is given up past the limit
HeaderRead(st, chunk) ==
  LET from == IF Len(st.buf) > 3 THEN Len(st.buf) - 3 ELSE 0
      buf == st.buf \o chunk
      at == Position(SubSeq(buf, from + 1, Len(buf)), Terminator)
  IN CASE st.end # -1 -> [st EXCEPT !.unread = @ \o chunk]
       [] st.end = -1 /\ at # -1 -> [st EXCEPT !.buf = buf, !.end = from + at + 4]
       [] st.end = -1 /\ at = -1 ->
            [st EXCEPT !.buf = buf, !.end = IF Len(buf) > HeaderLimit THEN -2 ELSE -1]

\* The response is taken when it says 101 with an Upgrade header
Upgraded(st, status, upgrade) == st.end >= 0 /\ status = 101 /\ upgrade

\* PrefixedStream: what was read past the header comes first, then the connection
PrefixedRead(st, room) ==
  LET take == IF Len(st.prefix) < room THEN Len(st.prefix) ELSE room
      inner == IF Len(st.inner) < room THEN Len(st.inner) ELSE room
  IN IF st.prefix # <<>>
     THEN [st EXCEPT !.prefix = SubSeq(@, take + 1, Len(@)),
                     !.out = @ \o SubSeq(st.prefix, 1, take)]
     ELSE [st EXCEPT !.inner = SubSeq(@, inner + 1, Len(@)),
                     !.out = @ \o SubSeq(st.inner, 1, inner)]

Responses ==
  {head \o Terminator \o tail : head \in {<<>>, <<"a">>, <<"r">>, <<"r", "n", "r", "a">>},
                                tail \in {<<>>, <<"n">>, <<"r", "n">>, <<"a", "a", "a">>}}

\* An upgrade does not depend on how the response arrives: the header ends at its first blank
\* line, what follows is read before anything else and nothing of it is lost; a response is
\* given up only when no blank line was in what was read.  A request that passes validation
\* has one blank line, at its end
UpgradeExact ==
  /\ \A response \in Responses : \A arrives \in Chunks(response) :
       LET st == FoldLeft(HeaderRead, [buf |-> <<>>, end |-> -1, unread |-> <<>>], arrives)
           at == Position(response, Terminator)
           rest == SubSeq(response, at + 5, Len(response))
           read == FoldLeft(PrefixedRead,
                            [prefix |-> SubSeq(st.buf, st.end + 1, Len(st.buf)),
                             inner |-> st.unread, out |-> <<>>], <<1, 2>>)
       IN IF ~Upgraded(st, 101, TRUE)
          THEN Position(st.buf, Terminator) = -1 /\ Len(st.buf) > HeaderLimit
          ELSE /\ st.end = at + 4
               /\ read.out \o read.prefix \o read.inner = rest
               /\ rest # <<>> => read.out # <<>>
  /\ \A path, value \in UNION {[1..n -> {"r", "n", "a", "/", " "}] : n \in 0..2} :
       validate_request_config(path, value) =>
         Position(request(path, value), Terminator) = Len(request(path, value)) - 4

\* ServerHelloFilter.  A hello is 22, 3, 3, its length in two bytes, 2, then the cipher (19 for
\* one of TLS 1.3) and its extensions (43 for the supported version)
FilterPackets == 8                 \* TLS_FILTER_PACKETS
find_tls_server_hello_start(buf) ==
  LET at == {i \in 0..(Len(buf) - 6) : SubSeq(buf, i + 1, i + 3) = <<22, 3, 3>> /\ buf[i + 6] = 2}
  IN IF at = {} THEN -1 ELSE CHOOSE i \in at : \A j \in at : i <= j

\* observe: bytes are gathered until a hello starts and is whole; it is judged once
observe(f, chunk) ==
  LET buf == f.buf \o chunk
      start == IF f.expected = -1 THEN find_tls_server_hello_start(buf) ELSE 0
      kept == SubSeq(buf, start + 1, Len(buf))
      expected == IF f.expected = -1 THEN 5 + kept[5] ELSE f.expected
      hello == SubSeq(kept, 1, expected)
      next == [f EXCEPT !.left = @ - 1]
  IN IF f.done \/ f.left = 0 \/ chunk = <<>> THEN f
     ELSE IF start = -1 THEN [next EXCEPT !.buf = buf]
     ELSE IF Len(kept) < expected THEN [next EXCEPT !.buf = kept, !.expected = expected]
     ELSE [next EXCEPT !.buf = kept, !.expected = expected, !.done = TRUE,
                       !.yes = Len(hello) > 6 /\ hello[7] = 19 /\ 43 \in ToSet(hello)]
NewFilter == [left |-> FilterPackets, expected |-> -1, buf |-> <<>>, done |-> FALSE, yes |-> FALSE]

\* The filter's verdict on a server's first bytes does not depend on how they are cut, as long
\* as the hello is whole within the packets it looks at, nor on what follows the hello
FilterExact ==
  \A before \in {<<>>, <<22, 3>>}, cipher \in {19, 9}, ext \in {43, 9}, after \in {<<>>, <<43>>} :
    LET bytes == before \o <<22, 3, 3, 0, 3, 2, cipher, ext>> \o after
    IN \A cuts \in Chunks(bytes) :
         LET f == FoldLeft(observe, NewFilter, cuts)
             seen == FlattenSeq(SubSeq(cuts, 1, IF Len(cuts) < FilterPackets THEN Len(cuts)
                                                ELSE FilterPackets))
         IN f.yes = (cipher = 19 /\ ext = 43 /\ Len(seen) >= Len(before) + 8)

\* rand_between: the least and the largest it gives
rand_between(from, to) == IF to <= from THEN <<from, from>> ELSE <<from, to - 1>>

\* parse_padding refuses a first length below 35 and a total above 65553.  An entry is
\* <<percent, from, to>>; the lengths are every other entry, the gaps between them the others
LensOf(entries) == [i \in 1..((Len(entries) + 1) \div 2) |-> entries[2 * i - 1]]
Longest(lens) == FoldLeft(LAMBDA n, y : n + (IF y[2] < y[3] THEN y[3] ELSE y[2]), 0, lens)
parse_padding(entries) ==
  /\ entries # <<>> => entries[1][1] >= 100 /\ entries[1][2] >= 35 /\ entries[1][3] >= 35
  /\ Longest(LensOf(entries)) <= 18 + 65535

\* create_padding: the least and the largest total; an entry below a hundred percent may not
\* be taken
create_padding(entries) ==
  LET spec == IF entries = <<>> THEN <<<<100, 111, 1111>>, <<50, 0, 3333>>>> ELSE LensOf(entries)
      Least(y) == IF y[1] >= 99 THEN rand_between(y[2], y[3])[1] ELSE 0
  IN <<FoldLeft(LAMBDA n, y : n + Least(y), 0, spec),
       FoldLeft(LAMBDA n, y : n + rand_between(y[2], y[3])[2], 0, spec)>>

\* parse_client_encryption: keys and padding entries may be mixed; some key is needed
Key == <<0, 0, 0>>
PaddingOf(parts) == SelectSeq(parts, LAMBDA x : x # Key)
parse_client_encryption(parts) == Key \in ToSet(parts) /\ parse_padding(PaddingOf(parts))
encode_length(l) == l % 65536
decode_header(l) == l \in 17..16640

\* Every padding that is accepted can be sent: its length covers the two lengths subtracted
\* from it and fits the two bytes that carry it; and every record the write task makes has a
\* header the other side accepts
PaddingFits ==
  /\ \A n \in 1..4 :
       \A parts \in [1..n -> {Key} \cup ({50, 100} \X {34, 35, 65518} \X {0, 35, 65519})] :
         parse_client_encryption(parts) =>
           \A length \in ToSet(create_padding(PaddingOf(parts))) :
             /\ length - 18 - 16 >= 0
             /\ encode_length(length - 18) = length - 18
  /\ \A n \in {1, 2, 8191, 8192} : decode_header(n + 16) /\ encode_length(n + 16) = n + 16

\* Snell datagrams: a family, an address and a port before the payload; the request has its
\* command and an empty host in front
AddrLen(family) == IF family = 4 THEN 4 ELSE 16
build_request_frame(family, ip, port, payload) == <<1, 0, family>> \o ip \o port \o payload
NoDatagram == [ok |-> FALSE, addr |-> <<>>, data |-> <<>>]
parse_response_frame(frame, room) ==
  LET head == 1 + AddrLen(frame[1]) + 2
      end == IF Len(frame) < head + room THEN Len(frame) ELSE head + room
  IN IF frame = <<>> THEN NoDatagram
     ELSE IF frame[1] \notin {4, 6} \/ Len(frame) < head THEN NoDatagram
     ELSE [ok |-> TRUE, addr |-> SubSeq(frame, 1, head), data |-> SubSeq(frame, head + 1, end)]

\* A frame laid out like a request's, without its first two bytes, is read back to the address
\* and to as much of the payload as the caller has room for; one cut inside its address, or of
\* another family, is an error
DatagramsExact ==
  \A family \in {4, 6}, n \in 0..2, room \in 0..3 :
    LET ip == [i \in 1..AddrLen(family) |-> i]
        frame == build_request_frame(family, ip, <<0, 53>>, [i \in 1..n |-> 100 + i])
        back == SubSeq(frame, 3, Len(frame))
        head == 3 + AddrLen(family)
        r == parse_response_frame(back, room)
    IN /\ r.ok /\ r.addr = <<family>> \o ip \o <<0, 53>>
       /\ r.data = [i \in 1..(IF n < room THEN n ELSE room) |-> 100 + i]
       /\ \A cut \in 0..(head - 1) : ~parse_response_frame(SubSeq(back, 1, cut), room).ok
       /\ ~parse_response_frame(<<5>> \o Tail(back), room).ok

---------------------------------------------------------------------------
(* Hysteria2: one task, the driver, owns the QUIC connection; a proxied stream   *)
(* is a handle that reaches it through a queue of commands, a channel of what    *)
(* was read, a count of free write bytes and a flag.  The payload of a stream is *)
(* 1, 2, ... one way and 11, 12, ... the other.                                  *)

ReadCap == 1               \* STREAM_READ_CHANNEL_CAP
CmdCap == 2                \* CMD_CHANNEL_CAP
WriteBuffer == 2           \* WRITE_BUFFER_BYTES, and WRITE_CHUNK_BYTES
HyBytes == 2               \* what the caller writes in all

\* put_varint, up to its second form, and read_varint: <<the value, its bytes>>, or <<>> when it
\* is not whole
put_varint(v) == IF v < 64 THEN <<v>> ELSE <<64 + v \div 256, v % 256>>
read_varint(s) ==
  IF s = <<>> THEN <<>>
  ELSE IF s[1] < 64 THEN <<s[1], 1>>
  ELSE IF Len(s) < 2 THEN <<>> ELSE <<(s[1] - 64) * 256 + s[2], 2>>

More == <<"more", 0>>
Bad == <<"bad", 0>>
MaxMessage == 65           \* MAX_MESSAGE_LENGTH
MaxPadding == 66           \* MAX_PADDING_LENGTH
Beyond(s, k) == SubSeq(s, k + 1, Len(s))

\* A length that may be at most `limit` and what it counts, from `at` on: where that ends
Counted(buf, at, limit, v) ==
  IF v = <<>> THEN More
  ELSE IF v[1] > limit THEN Bad
  ELSE IF Len(buf) < at + v[2] + v[1] THEN More ELSE <<"ok", at + v[2] + v[1]>>
Block(buf, at, limit) == Counted(buf, at, limit, read_varint(Beyond(buf, at)))

\* A status, a message and padding
PaddedResponse(status, p) ==
  IF p[1] # "ok" THEN p ELSE IF status = 0 THEN p ELSE Bad
AfterMessage(buf, m) ==
  IF m[1] # "ok" THEN m ELSE PaddedResponse(buf[1], Block(buf, m[2], MaxPadding))
parse_tcp_response(buf) ==
  IF buf = <<>> THEN More ELSE AfterMessage(buf, Block(buf, 1, MaxMessage))

\* What a server sends on a stream: it accepts, it refuses, it ends too early
Accepts == <<0, 0, 0, 11, 12>>
Scripts == {Accepts, <<1, 0, 0>>, <<0, 0>>}
PayloadOf(script) == Beyond(script, 3)

\* Cmd::OpenTcp: the first frame, which needs no permits; ReadItem::Eof and ReadItem::Err
OpenTcp == [data |-> <<0>>, permits |-> 0]
EofItem == <<0>>
ErrItem == <<-1>>

HyInit ==
  /\ hy = [pc |-> "select", cmds |-> <<>>, notify |-> FALSE, seen |-> FALSE, dead |-> FALSE]
  /\ \E script \in Scripts, fast \in BOOLEAN :
       (script # Accepts => ~fast) /\
       hs = [h |-> "start", conn |-> "none", cap |-> TRUE, rx |-> <<>>, rxClosed |-> FALSE,
             left |-> <<>>, said |-> "", got |-> <<>>, wrote |-> 0, shutSent |-> FALSE,
             table |-> FALSE, out |-> <<>>, fast |-> fast, failure |-> FALSE, shutdown |-> FALSE,
             finSent |-> FALSE, expect |-> TRUE, resp |-> <<>>, inbound |-> <<>>,
             eofPending |-> FALSE, eofSent |-> FALSE, readClosed |-> FALSE,
             script |-> script, at |-> 0, qin |-> <<>>, fin |-> FALSE, reset |-> FALSE,
             stop |-> FALSE, sent |-> <<>>, qfin |-> FALSE, qreset |-> FALSE]

\* Permits are held by the writes that wait in the queue or in the stream's out_buf; one comes
\* back when the last byte of its write has left
Held ==
  FoldLeft(LAMBDA n, c : n + c.permits, 0, hy.cmds \o hs.out)

\* tcp_connect: the command, the handle, then the server's answer, within a timeout
HyOpen ==
  /\ hs.h = "start" /\ hy.pc # "gone" /\ Len(hy.cmds) < CmdCap
  /\ hs' = [hs EXCEPT !.h = "opening"]
  /\ hy' = [hy EXCEPT !.cmds = Append(@, OpenTcp)]

\* Drop of the handle
Dropped(s) == [s EXCEPT !.h = "gone", !.rxClosed = TRUE]
HyDrop == hs' = Dropped(hs) /\ hy' = [hy EXCEPT !.notify = TRUE]

wait_connected ==
  /\ hs.h = "waiting"
  /\ \/ hs.conn = "ok" /\ hs' = [hs EXCEPT !.h = "open"] /\ UNCHANGED hy
     \/ hs.conn = "err" /\ HyDrop
ConnectTimeout ==
  \/ hs.h = "opening" /\ hs' = [hs EXCEPT !.h = "gone"] /\ UNCHANGED hy
  \/ hs.h = "waiting" /\ HyDrop

\* poll_write: permits for the bytes, then a place in the queue; a failed stream has no permits
HyWrite ==
  /\ hs.h = "open" /\ ~hs.shutSent /\ hs.cap
  /\ \E n \in 1..(HyBytes - hs.wrote) :
       /\ Held + n <= WriteBuffer /\ Len(hy.cmds) < CmdCap
       /\ hs' = [hs EXCEPT !.wrote = @ + n]
       /\ hy' = [hy EXCEPT !.cmds = Append(@, [data |-> [i \in 1..n |-> hs.wrote + i], permits |-> n])]

\* poll_shutdown that does not wait for the writes
HyShutdownAtOnce ==
  /\ hs.h = "open" /\ ~hs.shutSent /\ hs.cap
  /\ hs' = [hs EXCEPT !.shutdown = TRUE, !.shutSent = TRUE]
  /\ hy' = [hy EXCEPT !.notify = TRUE]

\* poll_shutdown: the flush has every permit back
HyShutdown ==
  /\ hs.h = "open" /\ ~hs.shutSent /\ hs.cap /\ Held = 0
  /\ hs' = [hs EXCEPT !.shutdown = TRUE, !.shutSent = TRUE]
  /\ hy' = [hy EXCEPT !.notify = TRUE]

\* poll_read of one byte
HyRead ==
  /\ hs.h = "open" /\ hs.said = ""
  /\ \/ /\ hs.left # <<>>
        /\ hs' = [hs EXCEPT !.got = Append(@, Head(hs.left)), !.left = Tail(@)]
        /\ UNCHANGED hy
     \/ /\ hs.left = <<>> /\ hs.rx # <<>> /\ Head(hs.rx) \notin {EofItem, ErrItem}
        /\ hs' = [hs EXCEPT !.rx = Tail(@), !.got = Append(@, Head(hs.rx)[1]), !.left = Tail(Head(hs.rx))]
        /\ hy' = [hy EXCEPT !.notify = TRUE]
     \/ /\ hs.left = <<>> /\ hs.rx # <<>> /\ Head(hs.rx) \in {EofItem, ErrItem}
        /\ hs' = [hs EXCEPT !.rx = Tail(@), !.said = IF Head(hs.rx) = EofItem THEN "eof" ELSE "err"]
        /\ UNCHANGED hy
     \/ /\ hs.left = <<>> /\ hs.rx = <<>> /\ ~hs.table
        /\ hs' = [hs EXCEPT !.said = "err"]
        /\ UNCHANGED hy

---------------------------------------------------------------------------
(* The driver's helpers: what they make of the stream                            *)

connected(s, result) == IF s.conn = "none" THEN [s EXCEPT !.conn = result] ELSE s

StreamFail(s) ==
  IF s.failure THEN s
  ELSE connected([s EXCEPT !.failure = TRUE, !.cap = FALSE, !.out = <<>>, !.finSent = TRUE,
                           !.eofPending = TRUE], "err")

\* flush_pending, and whether the channel took everything
Terminal(s) ==
  IF ~s.eofPending \/ s.eofSent \/ s.readClosed THEN <<s, TRUE>>
  ELSE IF s.rxClosed THEN <<[s EXCEPT !.readClosed = TRUE], TRUE>>
  ELSE IF Len(s.rx) >= ReadCap THEN <<s, FALSE>>
  ELSE <<[s EXCEPT !.rx = Append(@, IF s.failure THEN ErrItem ELSE EofItem), !.eofSent = TRUE], TRUE>>
flush_pending(s) ==
  LET k == IF Len(s.inbound) < ReadCap - Len(s.rx) THEN Len(s.inbound) ELSE ReadCap - Len(s.rx)
  IN IF s.inbound # <<>> /\ s.rxClosed THEN <<[s EXCEPT !.inbound = <<>>, !.readClosed = TRUE], TRUE>>
     ELSE IF k < Len(s.inbound)
       THEN <<[s EXCEPT !.rx = @ \o SubSeq(s.inbound, 1, k), !.inbound = Beyond(@, k)], FALSE>>
     ELSE Terminal([s EXCEPT !.rx = @ \o s.inbound, !.inbound = <<>>])

\* ingest: the response is taken off before anything is passed on
Ingested(s, buf, p) ==
  CASE p = More -> [s EXCEPT !.resp = buf]
    [] p = Bad -> StreamFail([s EXCEPT !.resp = buf, !.inbound = <<>>])
    [] OTHER -> connected([s EXCEPT !.resp = <<>>, !.expect = FALSE,
                                    !.inbound = IF Len(buf) > p[2] THEN Append(@, Beyond(buf, p[2])) ELSE @],
                          "ok")
ingest(s, bytes) ==
  IF bytes = <<>> THEN s
  ELSE IF s.expect THEN Ingested(s, s.resp \o bytes, parse_tcp_response(s.resp \o bytes))
  ELSE [s EXCEPT !.inbound = Append(@, bytes)]

\* pump_reads: what QUIC holds is taken only when the channel has room
Ended(s, fin) ==
  IF ~fin THEN s ELSE IF s.expect THEN StreamFail(s) ELSE [s EXCEPT !.eofPending = TRUE]
Received(s) == Ended(ingest([s EXCEPT !.qin = <<>>], s.qin), s.fin)
Readable(s) == s.qin # <<>> \/ s.reset \/ (s.fin /\ ~s.eofPending)
ReadsAfter(f) ==
  IF ~f[2] \/ f[1].failure \/ ~Readable(f[1]) THEN f[1]
  ELSE IF f[1].reset THEN flush_pending(StreamFail(f[1]))[1]
  ELSE flush_pending(Received(f[1]))[1]
pump_reads(s) == ReadsAfter(flush_pending(s))

\* pump_writes: QUIC takes up to k bytes, and any number of those when the stream is not stopped
TakeBytes(s, k) ==
  LET c == Head(s.out)
      n == IF k < Len(c.data) THEN k ELSE Len(c.data)
  IN [s EXCEPT !.sent = @ \o SubSeq(c.data, 1, n),
               !.out = IF n = Len(c.data) THEN Tail(@) ELSE [@ EXCEPT ![1].data = Beyond(c.data, n)]]
RECURSIVE SendChunks(_, _)
SendChunks(s, k) ==
  IF s.out = <<>> \/ k = 0 THEN s
  ELSE SendChunks(TakeBytes(s, k), IF k < Len(Head(s.out).data) THEN 0 ELSE k - Len(Head(s.out).data))

Stopped(s) == [StreamFail(s) EXCEPT !.qreset = TRUE]
Announce(s) == IF s.out = <<>> /\ s.fast /\ ~s.failure THEN connected(s, "ok") ELSE s
Finish(s) ==
  IF s.out # <<>> \/ ~s.shutdown \/ s.finSent THEN s
  ELSE IF s.stop THEN StreamFail(s) ELSE [s EXCEPT !.finSent = TRUE, !.qfin = TRUE]
pump_writes(s, k) ==
  flush_pending(Finish(Announce(IF s.stop /\ s.out # <<>> THEN Stopped(s) ELSE SendChunks(s, k))))[1]

\* cleanup_streams that removes every stream whose handle is gone
DoneAtOnce(s, seen) == seen \/ (s.finSent /\ (s.eofSent \/ s.readClosed))

\* cleanup_streams: `seen` is read_tx.is_closed(), looked at before the flag
DoneStream(s, seen) ==
  \/ s.finSent /\ (s.eofSent \/ s.readClosed)
  \/ seen /\ (~s.shutdown \/ s.finSent)
Removed(s) ==
  connected([s EXCEPT !.table = FALSE, !.cap = FALSE, !.out = <<>>, !.inbound = <<>>, !.qin = <<>>,
                      !.qreset = @ \/ ~s.shutdown \/ s.failure], "err")

---------------------------------------------------------------------------
(* The driver's loop.  Its helpers run between two awaits, but the handle, on    *)
(* another thread, may act between any two of them.                              *)

\* The branches of select!, and with each the first look of cleanup_streams
Turn(d) == [d EXCEPT !.pc = "clean1", !.seen = hs'.rxClosed]

handle_cmd ==
  /\ hy.pc = "select" /\ hy.cmds # <<>>
  /\ hs' = IF Head(hy.cmds) = OpenTcp
           THEN [hs EXCEPT !.table = TRUE, !.out = <<OpenTcp>>,
                           !.h = IF @ = "opening" THEN "waiting" ELSE @,
                           !.rxClosed = hs.h = "gone"]
           ELSE IF hs.table /\ ~hs.failure THEN [hs EXCEPT !.out = Append(@, Head(hy.cmds))] ELSE hs
  /\ hy' = Turn([hy EXCEPT !.cmds = Tail(@),
                           !.notify = @ \/ (Head(hy.cmds) = OpenTcp /\ hs.h = "gone")])

\* read_notify, a timer, a packet, the end of the connection.  A packet for a stream that is not in
\* the table is drained and dropped, and a timer finds nothing to do without one.
Woken == hy.pc = "select" /\ hy.notify /\ UNCHANGED hs /\ hy' = Turn([hy EXCEPT !.notify = FALSE])
Ticked ==
  hy.pc = "select" /\ hs.table /\ UNCHANGED hs /\ hy' = Turn(hy)
PacketCame ==
  /\ hy.pc = "select" /\ hs.table /\ hs.sent # <<>> /\ ~hs.reset /\ ~hs.fin
  /\ \/ \E k \in {2, Len(hs.script) - hs.at} \cap 1..(Len(hs.script) - hs.at) :
          hs' = [hs EXCEPT !.at = @ + k, !.qin = @ \o SubSeq(hs.script, hs.at + 1, hs.at + k)]
     \/ hs.at = Len(hs.script) /\ hs' = [hs EXCEPT !.fin = TRUE]
     \/ hs' = [hs EXCEPT !.reset = TRUE, !.qin = <<>>]
     \/ ~hs.stop /\ hs' = [hs EXCEPT !.stop = TRUE]
  /\ hy' = Turn(hy)
ConnectionDied == hy.pc = "select" /\ UNCHANGED hs /\ hy' = Turn([hy EXCEPT !.dead = TRUE])

Cleaned == IF hs.table /\ DoneStream(hs, hy.seen) THEN Removed(hs) ELSE hs
CleanFirst == hy.pc = "clean1" /\ hy' = [hy EXCEPT !.pc = "reads"] /\ hs' = Cleaned

PumpReads ==
  /\ hy.pc = "reads" /\ hy' = [hy EXCEPT !.pc = "writes"]
  /\ hs' = IF hs.table THEN pump_reads(hs) ELSE hs
PumpWrites ==
  /\ hy.pc = "writes" /\ hy' = [hy EXCEPT !.pc = "look"]
  /\ \E k \in {1, 9} : hs' = IF hs.table THEN pump_writes(hs, k) ELSE hs

LookAgain == hy.pc = "look" /\ hy' = [hy EXCEPT !.pc = "clean2", !.seen = hs.rxClosed] /\ UNCHANGED hs

\* The second cleanup, flush_send, and out of the loop when the connection is closed
Left(s) == [(IF s.table THEN Removed(s) ELSE s) EXCEPT !.h = IF @ = "opening" THEN "gone" ELSE @]
CleanLast ==
  /\ hy.pc = "clean2"
  /\ hs' = IF hy.dead THEN Left(Cleaned) ELSE Cleaned
  /\ hy' = [hy EXCEPT !.pc = IF hy.dead THEN "gone" ELSE "select", !.seen = FALSE,
                      !.cmds = IF hy.dead THEN <<>> ELSE @]

HyCaller ==
  \/ HyOpen \/ wait_connected \/ ConnectTimeout \/ HyWrite \/ HyShutdown \/ HyRead
  \/ hs.h = "open" /\ HyDrop
HyDriver ==
  \/ handle_cmd \/ Woken \/ Ticked \/ PacketCame \/ ConnectionDied
  \/ CleanFirst \/ PumpReads \/ PumpWrites \/ LookAgain \/ CleanLast
HyNext == HyCaller \/ HyDriver

\* Bytes pass in order both ways; the caller is told of an end only when the server finished the
\* stream and everything was read, and the server only when everything accepted was sent and the
\* caller shut the stream down (tcp.rs, driver.rs).
HyInOrder ==
  /\ IsPrefix(hs.got, PayloadOf(hs.script))
  /\ IsPrefix(hs.sent, [i \in 1..(hs.wrote + 1) |-> i - 1])
  /\ hs.said = "eof" => hs.fin /\ hs.got = PayloadOf(hs.script)
  /\ hs.qfin => hs.shutdown /\ Len(hs.sent) = hs.wrote + 1

\* A stream that was shut down is finished, also when its handle is gone by then; it is reset only
\* without that, or when it failed (cleanup_streams).
HyFinished ==
  hs.shutdown /\ ~hs.failure /\ ~hy.dead => ~hs.qreset /\ (~hs.table => hs.qfin)

\* A driver that waits has been woken for whatever it could do: pass on what it holds, read what
\* QUIC holds, finish or remove a stream (read_notify).
HyNoLostWakeup ==
  hy.pc = "select" /\ hs.table /\ hy.cmds = <<>> /\ ~hy.notify =>
    /\ (hs.inbound # <<>> \/ (hs.eofPending /\ ~hs.eofSent /\ ~hs.readClosed)) =>
         Len(hs.rx) = ReadCap /\ ~hs.rxClosed
    /\ Readable(hs) /\ ~hs.failure => hs.inbound # <<>>
    /\ ~(hs.shutdown /\ ~hs.finSent /\ hs.out = <<>>)
    /\ ~DoneStream(hs, hs.rxClosed)

\* Nobody waits for a stream the driver has let go of: a dial is answered, a writer is told, and
\* what was queued for a reader ends in an error or in the end (StreamState::drop, fail).
HyNoneWaits ==
  /\ hs.h = "waiting" /\ ~hs.table => hs.conn # "none"
  /\ hs.h = "open" /\ ~hs.table => ~hs.cap
  /\ hy.pc = "gone" => hs.h # "opening" /\ ~hs.table
---------------------------------------------------------------------------
(* Hysteria2's codecs, as functions                                              *)

\* Every proper part of a response asks for more, the whole is taken to its end and no further, an
\* error status is refused only when it is whole, and a length over its limit at once
\* (parse_tcp_response).
ResponseExact ==
  \A status \in {0, 1}, m \in {0, 1, 63, 64, 65}, p \in {0, 2, 64, 66} :
    LET whole == <<status>> \o put_varint(m) \o [i \in 1..m |-> 7] \o put_varint(p) \o [i \in 1..p |-> 8]
    IN /\ \A k \in 0..(Len(whole) - 1) : parse_tcp_response(SubSeq(whole, 1, k)) = More
       /\ \A rest \in {<<>>, <<9>>, <<0, 64>>} :
            parse_tcp_response(whole \o rest) = IF status = 0 THEN <<"ok", Len(whole)>> ELSE Bad
       /\ parse_tcp_response(<<status>> \o put_varint(MaxMessage + 1)) = Bad
       /\ parse_tcp_response(<<status>> \o put_varint(m) \o [i \in 1..m |-> 7] \o put_varint(MaxPadding + 1)) = Bad

MaxAddress == 65           \* MAX_ADDRESS_LENGTH
MaxUdp == 6                \* MAX_UDP_SIZE
MaxFragments == 3          \* u8::MAX

\* encode_udp_message: nothing for a message it refuses
encode_udp_message(m) ==
  IF m.addr = <<>> \/ Len(m.addr) > MaxAddress \/ Len(m.data) > MaxUdp THEN <<>>
  ELSE <<0, 0, 0, m.session, 0, m.packet, m.frag, m.count>>
         \o put_varint(Len(m.addr)) \o m.addr \o m.data
DecodedFrom(input, v) ==
  IF v = <<>> THEN <<>>
  ELSE IF v[1] = 0 \/ v[1] > MaxAddress \/ 8 + v[2] + v[1] > Len(input) THEN <<>>
  ELSE <<[session |-> input[4], packet |-> input[6], frag |-> input[7], count |-> input[8],
          addr |-> SubSeq(input, 9 + v[2], 8 + v[2] + v[1]), data |-> Beyond(input, 8 + v[2] + v[1])]>>
decode_udp_message(input) ==
  IF Len(input) < 9 THEN <<>> ELSE DecodedFrom(input, read_varint(Beyond(input, 8)))

\* A message comes back as it was, an address at either end of its range included, and a part of
\* its header does not pass for a message (encode_udp_message, decode_udp_message).
MessagesExact ==
  \A a \in {0, 1, 63, 64, 65, 66}, n \in {0, 2} :
    LET m == [session |-> 3, packet |-> 4, frag |-> 1, count |-> 2,
              addr |-> [i \in 1..a |-> 70], data |-> [i \in 1..n |-> i]]
        coded == encode_udp_message(m)
    IN IF a \in 1..MaxAddress
       THEN /\ decode_udp_message(coded) = <<m>>
            /\ \A k \in 0..(Len(coded) - n - 1) : decode_udp_message(SubSeq(coded, 1, k)) = <<>>
       ELSE coded = <<>>

\* send_udp: the datagrams for one packet, when QUIC takes `limit` bytes of payload in each
Chunk(data, limit, i) == SubSeq(data, (i - 1) * limit + 1, IF i * limit < Len(data) THEN i * limit ELSE Len(data))
Pieces(id, data, limit, n) ==
  IF n > MaxFragments THEN <<>>
  ELSE [i \in 1..n |-> [packet |-> id, frag |-> i - 1, count |-> n, data |-> Chunk(data, limit, i)]]
send_udp(id, data, limit) ==
  IF limit = 0 THEN <<>>
  ELSE IF Len(data) <= limit THEN Pieces(id, data, limit, 1)
  ELSE Pieces(id, data, limit, (Len(data) + limit - 1) \div limit)

\* UdpDefragger: per packet id its fragments, <<>> where one is missing, and how many it has;
\* `out` is what recv returned, a number where it failed
FragmentPacket(total) == [fragments |-> [i \in 1..total |-> <<>>], received |-> 0]
reassemble(item) ==
  IF \E i \in DOMAIN item.fragments : item.fragments[i] = <<>> THEN <<-1>>
  ELSE LET data == FoldLeft(LAMBDA all, f : all \o f[1].data, <<>>, item.fragments)
       IN IF Len(data) > MaxUdp THEN <<-2>> ELSE data
Placed(d, m, item) ==
  IF item.received = m.count
  THEN [packets |-> [id \in DOMAIN d.packets \ {m.packet} |-> d.packets[id]],
        out |-> Append(d.out, <<m.packet, reassemble(item)>>)]
  ELSE [d EXCEPT !.packets = (m.packet :> item) @@ @]
Entry(d, m) ==
  IF m.packet \in DOMAIN d.packets THEN d.packets[m.packet] ELSE FragmentPacket(m.count)

\* feed without the look at what is there already
FeedAgain(d, m) ==
  IF m.count <= 1 THEN [d EXCEPT !.out = Append(@, <<m.packet, m.data>>)]
  ELSE IF m.frag >= m.count THEN d
  ELSE Placed(d, m, [(IF Len(Entry(d, m).fragments) # m.count THEN FragmentPacket(m.count) ELSE Entry(d, m))
                       EXCEPT !.fragments[m.frag + 1] = <<m>>, !.received = @ + 1])

Inserted(d, m, item) ==
  IF item.fragments[m.frag + 1] # <<>> THEN [d EXCEPT !.packets = (m.packet :> item) @@ @]
  ELSE Placed(d, m, [item EXCEPT !.fragments[m.frag + 1] = <<m>>, !.received = @ + 1])
feed(d, m) ==
  IF m.count <= 1 THEN [d EXCEPT !.out = Append(@, <<m.packet, m.data>>)]
  ELSE IF m.frag >= m.count THEN d
  ELSE Inserted(d, m, IF Len(Entry(d, m).fragments) # m.count THEN FragmentPacket(m.count) ELSE Entry(d, m))

\* evict_stale, when the time has passed for every packet
evict_stale(d) == [d EXCEPT !.packets = <<>>]

Times(seq, x) == Cardinality({i \in DOMAIN seq : seq[i] = x})
Arrived(arrivals, fragments) ==
  FoldLeft(LAMBDA d, a : IF a = 0 THEN evict_stale(d) ELSE feed(d, fragments[a]),
           [packets |-> <<>>, out |-> <<>>], arrivals)

\* Datagrams are lost, repeated and reordered: what recv returns is a packet that was sent, no more
\* often than its rarest fragment came, and a packet whose fragments all came is returned, unless
\* it was given up after FRAGMENT_TTL.  Two packets of one id do not mix when their numbers of
\* fragments differ (send_udp, feed, reassemble).
DatagramsWhole ==
  \A n1 \in {1, 4, 6}, n2 \in {2, 4}, limit \in {2, 3}, same \in BOOLEAN :
    LET one == send_udp(1, [i \in 1..n1 |-> i], limit)
        two == send_udp(IF same THEN 1 ELSE 2, [i \in 1..n2 |-> 10 + i], limit)
        all == one \o two
    IN ~same \/ Len(one) # Len(two) =>
       \A k \in 0..4 : \A arrivals \in [1..k -> 0..Len(all)] :
         LET out == Arrived(arrivals, all).out
             Whole(pieces, from, sent) ==
               LET counts == {Times(arrivals, from + i) : i \in DOMAIN pieces}
                   times == Times(out, <<pieces[1].packet, sent>>)
               IN /\ \A c \in counts : times <= c
                  /\ ~same /\ 0 \notin counts /\ 0 \notin Range(arrivals) => times > 0
         IN /\ \A i \in DOMAIN out : out[i] \in {<<one[1].packet, [j \in 1..n1 |-> j]>>,
                                                <<two[1].packet, [j \in 1..n2 |-> 10 + j]>>}
            /\ Whole(one, 0, [j \in 1..n1 |-> j])
            /\ Whole(two, Len(one), [j \in 1..n2 |-> 10 + j])

\* decode_response over the frames of the reply, each a kind and, for HEADERS, what the block says;
\* a block that needs the dynamic table is <<"dynamic">>
Refused == [ok |-> FALSE, seen |-> FALSE, udp |-> FALSE]
Statuses(headers) == SelectSeq(headers, LAMBDA h : h \in {"233", "404"})
UdpSaid(headers, udp) == FoldLeft(LAMBDA u, h : IF h \in {"yes", "no"} THEN h = "yes" ELSE u, udp, headers)
Headers(r, headers) ==
  IF headers = <<"dynamic">> THEN Refused
  ELSE IF r.seen THEN IF Statuses(headers) # <<>> THEN Refused ELSE r
  ELSE IF Statuses(headers) # <<"233">> THEN Refused
  ELSE [r EXCEPT !.seen = TRUE, !.udp = UdpSaid(headers, @)]


Frame(r, f) ==
  IF ~r.ok THEN r
  ELSE IF f.kind = 1 THEN Headers(r, f.headers)
  ELSE IF f.kind = 0 /\ r.seen THEN r
  ELSE IF f.kind \in {0, 3, 4, 5, 7, 13} THEN Refused ELSE r
Decided(r) == IF r.ok /\ r.seen THEN r ELSE Refused
decode_response(frames) ==
  Decided(FoldLeft(LAMBDA r, f : Frame(r, f), [ok |-> TRUE, seen |-> FALSE, udp |-> FALSE], frames))

Blocks == {<<>>, <<"233">>, <<"404">>, <<"yes", "233">>, <<"233", "no">>, <<"yes">>, <<"233", "233">>,
           <<"no", "233", "yes">>, <<"dynamic">>}
Frames == {[kind |-> 1, headers |-> b] : b \in Blocks}
            \cup {[kind |-> k, headers |-> <<>>] : k \in {0, 2, 3, 13, 33}}

\* The server is let in by its first block of headers alone: that one says 233, once; nothing that
\* may not be there comes, no body before it, no status after it, and it decides whether UDP may
\* be used (decode_response).
AuthExact ==
  \A k \in 0..3 : \A frames \in [1..k -> Frames] :
    LET blocks == SelectSeq(frames, LAMBDA f : f.kind = 1)
        first == IF blocks = <<>> THEN 0 ELSE CHOOSE i \in 1..k : frames[i].kind = 1 /\ \A j \in 1..(i - 1) : frames[j].kind # 1
        accepted ==
          /\ first # 0 /\ Statuses(frames[first].headers) = <<"233">>
          /\ \A i \in 1..k : /\ frames[i].kind \notin {3, 13}
                             /\ frames[i].kind = 0 => i > first
                             /\ frames[i].headers # <<"dynamic">>
                             /\ i > first => Statuses(frames[i].headers) = <<>>
    IN decode_response(frames) =
         IF accepted THEN [ok |-> TRUE, seen |-> TRUE, udp |-> UdpSaid(frames[first].headers, FALSE)] ELSE Refused
=============================================================================
