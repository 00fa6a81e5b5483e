---------------------------- MODULE AnyTlsServer ----------------------------
(* One stream at an AnyTLS server, for TCP or for UDP over TCP, together with  *)
(* the client's ends of it (meow-anytls: server/server.rs, handler.rs,         *)
(* udp_proxy.rs, client/udp_client.rs, util/dns_cache.rs; meow-proxy:          *)
(* anytls_adapter.rs).  A destination is a record of a host and a port; the    *)
(* kind of a host decides how it is encoded.  What the stream carries is a     *)
(* sequence of tokens, one for each field that a reader takes apart, so that   *)
(* a reader that skips or mistakes one is out of step from there on.           *)
EXTENDS Integers, Sequences, FiniteSets, SequencesExt

CONSTANTS Ports,
          MaxSent         \* bound: what the client sends, and what the target does

Hosts == {"v4", "mapped", "v6", "name", "nowhere"}
Dest == [host : Hosts, port : Ports]
Magic == [host |-> "magic", port |-> 0]
Payloads == {"full", "empty"}

VARIABLES kind, version,   \* "tcp", or "bind" or "connect" for UDP; the client's version
          peer,            \* peer_version at the server
          hpc,             \* the connection, then the handler of the stream
          up, down,        \* tokens between client and server, not read yet
          fin, closed,     \* the client's FIN has arrived; the session is closed
          pending,         \* pending_request of the client
          acks,            \* SYNACKs sent
          target,          \* connect target of the server
          cache,           \* port kept with the cached address of "name", or 0
          wrote, sent,     \* history: packets the client wrote and the server sent on
          replied, read    \* history: packets the server received and the client read

vars == <<kind, version, peer, hpc, up, down, fin, closed, pending, acks, target, cache, wrote,
          sent, replied, read>>
wireVars == <<kind, version, peer, fin, closed>>
clientVars == <<pending, wrote, read>>

---------------------------------------------------------------------------
(* Encodings                                                                   *)

\* A host is sent as an IPv4 address, an IPv6 address or a name; a mapped one as IPv4
Family(h) == CASE h \in {"v4", "mapped"} -> "ip4" [] h = "v6" -> "ip6" [] OTHER -> "domain"

SocksCode == [ip4 |-> 1, domain |-> 3, ip6 |-> 4]
UotCode == [ip4 |-> 0, ip6 |-> 1, domain |-> 2]

\* encode_uot_request of the adapter, encode_initial_request of a connected client
EncodeRequest(d, isConnect) ==
  <<[k |-> "request", connect |-> isConnect, code |-> SocksCode[Family(d.host)], dest |-> d]>>

\* Faulty variant of EncodePacket: the family bytes of the request are used
EncodePacketSocks(d, p) ==
  <<[k |-> "address", code |-> SocksCode[Family(d.host)], dest |-> d], [k |-> "packet", body |-> p]>>

\* encode_uot_addr, then the length and the payload
EncodePacket(d, p) ==
  <<[k |-> "address", code |-> UotCode[Family(d.host)], dest |-> d], [k |-> "packet", body |-> p]>>

\* What a reader makes of an address: the family its table gives for the byte; the octets
\* of another family than the sender's are garbage
Decode(table, t) ==
  LET fams == {f \in DOMAIN table : table[f] = t.code}
  IN IF fams = {} THEN [ok |-> FALSE]
     ELSE [ok |-> TRUE, whole |-> Family(t.dest.host) \in fams, dest |-> t.dest]

---------------------------------------------------------------------------
(* dns_cache.rs: the address is kept with the port of the request that found it *)

\* resolve_host_with_cache: <<result, cache'>> of the answers it may give
Resolve(d) ==
  CASE d.host = "nowhere" -> {<<[ok |-> FALSE], cache>>}
    [] d.host = "name" -> {<<[ok |-> TRUE, host |-> "name", port |-> IF cache = 0 THEN d.port ELSE cache],
                             IF cache = 0 THEN d.port ELSE cache>>,
                           <<[ok |-> TRUE, host |-> "name", port |-> d.port], d.port>>}
    [] OTHER -> {<<[ok |-> TRUE, host |-> IF d.host = "mapped" THEN "v4" ELSE d.host,
                    port |-> d.port], cache>>}

Init ==
  /\ kind \in {"tcp", "bind", "connect"} /\ version \in {1, 2} /\ peer = 1
  /\ hpc = "accept" /\ down = <<>> /\ fin = FALSE /\ closed = FALSE
  /\ pending = (kind # "tcp") /\ acks = <<>> /\ target = [ok |-> FALSE] /\ cache = 0
  /\ up = <<>> /\ wrote = <<>> /\ sent = <<>> /\ replied = <<>> /\ read = <<>>

Goto(l) == hpc' = l
\* The handler returns; the stream stays in the session's tables until the client's FIN
Return == Goto("done") /\ target' = [ok |-> FALSE]
Ended == fin \/ closed

---------------------------------------------------------------------------
(* The client                                                                  *)

\* create_proxy_stream sent the destination, after authentication, in its first data frame
Open(d) ==
  /\ hpc = "serve" /\ up = <<>> /\ acks = <<>> /\ wrote = <<>> /\ ~Ended
  /\ (kind = "tcp") = (d # Magic)
  /\ Goto("addr") /\ up' = <<[k |-> "dest", dest |-> d]>>
  /\ UNCHANGED <<wireVars, down, clientVars, acks, target, cache, sent, replied>>

Live == hpc \notin {"accept", "auth", "settings", "serve"} /\ ~Ended

\* write_packet: the request, the address and the packet are one data frame; only when it
\* was sent is the request done.  With connect, create_udp_proxy sends the request alone
\* and the packets without an address.
Write(d, p) ==
  /\ Live /\ kind # "tcp" /\ Len(wrote) < MaxSent
  /\ acks = <<"ok">> \/ version = 1
  /\ kind = "connect" => d.host # "mapped" /\ (wrote # <<>> => d = wrote[1].dest)
  /\ LET packet == EncodePacket(d, p)
         request == IF pending THEN EncodeRequest(d, kind = "connect") ELSE <<>>
     IN up' = up \o request \o (IF kind = "connect" THEN Tail(packet) ELSE packet)
  /\ pending' = FALSE /\ wrote' = Append(wrote, [dest |-> d, body |-> p])
  /\ UNCHANGED <<wireVars, hpc, down, acks, target, cache, sent, replied, read>>

SendData ==
  /\ Live /\ kind = "tcp" /\ Len(wrote) < MaxSent
  /\ acks = <<"ok">> \/ version = 1
  /\ wrote' = Append(wrote, Len(wrote) + 1)
  /\ up' = Append(up, [k |-> "data", body |-> Len(wrote) + 1])
  /\ UNCHANGED <<wireVars, hpc, down, pending, acks, target, cache, sent, replied, read>>

\* read_packet: a name that is not an address reads as 0.0.0.0
ReadPacket ==
  /\ kind = "bind" /\ Len(down) >= 2
  /\ LET a == Decode(UotCode, down[1])
     IN read' = Append(read, IF a.ok /\ a.whole THEN <<a.dest, down[2].body>> ELSE <<"garbage">>)
  /\ down' = SubSeq(down, 3, Len(down))
  /\ UNCHANGED <<wireVars, hpc, up, pending, wrote, acks, target, cache, sent, replied>>

\* stream_to_udp of udp_client.rs, which needs no address, and the reader of a connection
ReadPlain ==
  /\ kind # "bind" /\ down # <<>>
  /\ read' = Append(read, Head(down).body) /\ down' = Tail(down)
  /\ UNCHANGED <<wireVars, hpc, up, pending, wrote, acks, target, cache, sent, replied>>

Fin == Live /\ fin' = TRUE
       /\ UNCHANGED <<kind, version, peer, closed, hpc, up, down, clientVars, acks, target, cache,
                      sent, replied>>
CloseSession ==
  /\ ~closed /\ hpc \notin {"accept", "auth"} /\ closed' = TRUE
  /\ UNCHANGED <<kind, version, peer, fin, hpc, up, down, clientVars, acks, target, cache, sent,
                 replied>>

---------------------------------------------------------------------------
(* The server                                                                  *)

\* handle_connection: TLS, the password, then the tasks of the session
Accept ==
  /\ \/ hpc = "accept" /\ Goto("auth") /\ UNCHANGED target
     \/ hpc = "auth" /\ Goto("settings") /\ UNCHANGED target
     \/ hpc \in {"accept", "auth"} /\ Return
  /\ UNCHANGED <<wireVars, up, down, clientVars, acks, cache, sent, replied>>

\* Settings come first on the wire (WireOrder of AnyTlsSession); they are answered with the
\* server's, and with its padding scheme when the client has another
ReceiveSettings ==
  /\ hpc = "settings" /\ Goto("serve")
  /\ peer' = IF version >= 2 THEN version ELSE peer
  /\ UNCHANGED <<kind, version, fin, closed, up, down, clientVars, acks, target, cache, sent,
                 replied>>

\* write_control_frame of a SYNACK, for a client that knows of it
Ack(r) == acks' = IF peer >= 2 THEN Append(acks, r) ELSE acks

\* handle_stream: the destination; the magic one is for UDP
ReadDest ==
  /\ hpc = "addr" /\ up # <<>>
  /\ LET d == Head(up).dest IN
     \/ (~closed \/ peer < 2) /\ d = Magic /\ Goto("request") /\ Ack("ok") /\ UNCHANGED <<target, cache>>
     \/ closed /\ peer >= 2 /\ d = Magic /\ Return /\ UNCHANGED <<acks, cache>>
     \/ /\ d # Magic /\ UNCHANGED acks
        /\ \E r \in Resolve(d) :
             /\ cache' = r[2]
             /\ IF r[1].ok THEN Goto("connect") /\ target' = r[1] ELSE Return
  /\ up' = Tail(up)
  /\ UNCHANGED <<wireVars, down, clientVars, sent, replied>>

\* The connection attempt, under its timeout; the client is told of either outcome
Connect ==
  /\ hpc = "connect"
  /\ \/ ~closed /\ Goto("forward") /\ Ack("ok") /\ UNCHANGED target
     \/ ~closed /\ Return /\ Ack("err")
     \/ closed /\ Return /\ UNCHANGED acks
  /\ UNCHANGED <<wireVars, up, down, clientVars, cache, sent, replied>>

\* One direction ends, by EOF or an error: the other is aborted and the target left
Finish ==
  /\ \/ hpc \in {"forward", "relay"}
     \/ hpc \in {"addr", "request"} /\ up = <<>> /\ Ended
  /\ Return
  /\ UNCHANGED <<wireVars, up, down, clientVars, acks, cache, sent, replied>>

\* task1: what the stream delivered is written to the target, also behind a FIN
ForwardUp ==
  /\ hpc = "forward" /\ up # <<>>
  /\ sent' = Append(sent, Head(up).body) /\ up' = Tail(up)
  /\ UNCHANGED <<wireVars, hpc, down, clientVars, acks, target, cache, replied>>

\* task2: with send_data, which fails on a closed session
ForwardDown ==
  /\ hpc = "forward" /\ ~closed /\ Len(replied) < MaxSent
  /\ replied' = Append(replied, Len(replied) + 1)
  /\ down' = Append(down, [k |-> "data", body |-> Len(replied) + 1])
  /\ UNCHANGED <<wireVars, hpc, up, clientVars, acks, target, cache, sent>>

\* read_initial_request; only a connect request is resolved; then the socket is bound
ReadRequest ==
  /\ hpc = "request" /\ up # <<>>
  /\ LET q == Head(up)
         a == Decode(SocksCode, q)
     IN IF ~a.ok THEN Return /\ UNCHANGED cache
        ELSE \E r \in IF q.connect THEN Resolve(q.dest) ELSE {<<[ok |-> FALSE], cache>>} :
               /\ cache' = r[2]
               /\ IF q.connect /\ ~r[1].ok THEN Return ELSE Goto("relay") /\ target' = r[1]
  /\ up' = Tail(up)
  /\ UNCHANGED <<wireVars, down, clientVars, acks, sent, replied>>

\* Faulty variant of RelayUp: a packet whose name does not resolve goes to the last destination
RelayUpStale ==
  /\ hpc = "relay" /\ up # <<>> /\ ~target.ok
  /\ LET a == Decode(UotCode, Head(up))
     IN \E r \in IF a.ok /\ a.whole THEN Resolve(a.dest) ELSE {<<[ok |-> FALSE], cache>>} :
          /\ cache' = r[2]
          /\ sent' = IF r[1].ok THEN Append(sent, r[1])
                     ELSE IF sent = <<>> THEN sent ELSE Append(sent, sent[Len(sent)])
  /\ up' = SubSeq(up, 3, Len(up))
  /\ UNCHANGED <<wireVars, hpc, target, down, clientVars, acks, replied>>

\* stream_to_udp: the address of the packet, unless there is a connect target, then the
\* packet.  An unknown family ends the relay, an address that does not resolve costs its
\* packet only; an empty packet ends it, as does a send the IPv4 socket refuses
RelayUp ==
  /\ hpc = "relay" /\ up # <<>>
  /\ LET body == IF target.ok THEN 1 ELSE 2
         a == IF target.ok THEN [ok |-> TRUE] ELSE Decode(UotCode, Head(up))
     IN /\ IF ~a.ok THEN Return /\ UNCHANGED <<sent, cache>>
           ELSE \E r \in IF target.ok THEN {<<target, cache>>}
                         ELSE IF a.whole THEN Resolve(a.dest) ELSE {<<[ok |-> FALSE], cache>>} :
                  /\ cache' = r[2]
                  /\ IF ~r[1].ok THEN UNCHANGED <<hpc, target, sent>>
                     ELSE IF up[body].body = "empty" \/ r[1].host = "v6"
                     THEN Return /\ UNCHANGED sent
                     ELSE sent' = Append(sent, r[1]) /\ UNCHANGED <<hpc, target>>
        /\ up' = SubSeq(up, body + 1, Len(up))
  /\ UNCHANGED <<wireVars, down, clientVars, acks, replied>>

\* udp_to_stream: with the source of the datagram unless connected
RelayDown(port) ==
  /\ hpc = "relay" /\ ~closed /\ Len(replied) < MaxSent
  /\ LET d == [host |-> "v4", port |-> port]
         packet == EncodePacket(d, "full")
     IN /\ replied' = Append(replied, IF target.ok THEN "full" ELSE <<d, "full">>)
        /\ down' = down \o (IF target.ok THEN Tail(packet) ELSE packet)
  /\ UNCHANGED <<wireVars, hpc, up, clientVars, acks, target, cache, sent>>

---------------------------------------------------------------------------
Client ==
  \/ \E d \in Dest \cup {Magic} : Open(d)
  \/ \E d \in Dest, p \in Payloads : Write(d, p)
  \/ SendData \/ ReadPacket \/ ReadPlain \/ Fin \/ CloseSession
Handler ==
  \/ Accept \/ ReceiveSettings \/ ReadDest \/ Connect \/ Finish \/ ForwardUp \/ ForwardDown
  \/ ReadRequest \/ RelayUp \/ \E port \in Ports : RelayDown(port)

Next == Client \/ Handler
Spec == Init /\ [][Next]_vars

---------------------------------------------------------------------------
\* What the target must get of the packets the client wrote: those whose host can be resolved,
\* before the first of them that is empty or IPv6, each for its own host
Deliverable ==
  LET ends == {i \in DOMAIN wrote : /\ wrote[i].dest.host # "nowhere"
                                    /\ wrote[i].body = "empty" \/ wrote[i].dest.host = "v6"}
      last == IF ends = {} THEN Len(wrote) ELSE (CHOOSE i \in ends : \A j \in ends : i <= j) - 1
      ok == SelectSeq(SubSeq(wrote, 1, last), LAMBDA w : w.dest.host # "nowhere")
  IN [i \in DOMAIN ok |-> IF ok[i].dest.host = "mapped" THEN "v4" ELSE ok[i].dest.host]

\* The stream and its framing stay in step: the target gets what the client wrote, in order
\* and each packet for its own host, up to where the relay ended, although a packet is
\* skipped when its name does not resolve; and the client reads every reply with its source.
\* A client of version 2 is told once, and gets no data before.
StreamInStep ==
  /\ IF kind = "tcp" THEN IsPrefix(sent, wrote)
     ELSE IsPrefix([i \in DOMAIN sent |-> sent[i].host], Deliverable)
  /\ IsPrefix(read, replied)
  /\ Len(acks) <= 1
  /\ replied # <<>> /\ version = 2 => acks = <<"ok">>
=============================================================================
