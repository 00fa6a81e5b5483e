------------------------------ MODULE Inbound ------------------------------
(***************************************************************************)
(* The inbounds other than HTTP (meow-listener): the bounded accept loops  *)
(* of the mixed, Shadowsocks and transparent listeners with the handshake  *)
(* each connection goes through before it is routed (mixed.rs, socks5.rs,  *)
(* shadowsocks.rs, tproxy/mod.rs, sniffer.rs), and the two datagram        *)
(* relays, of a SOCKS5 association (socks5_udp.rs) and of the Shadowsocks  *)
(* listener (shadowsocks.rs).  The two halves share no state.  The last    *)
(* part is the rule set the transparent listener loads (firewall.rs).      *)
(***************************************************************************)
EXTENDS Integers, Sequences, FiniteSets, SequencesExt, FiniteSetsExt

CONSTANTS
  Conns,        \* connections that may come in
  MaxConns,          \* max_connections, 0 for no limit
  Handshake,    \* DEFAULT_HANDSHAKE_TIMEOUT
  SniffTime,    \* SnifferConfig::timeout
  MaxNow,       \* bound of the clock
  Peers,        \* sources of datagrams; the first two share the address of the control connection
  Client, Sibling,
  Dsts,         \* resolved destinations
  MaxFlows,     \* max_flows of the Shadowsocks relay
  Idle,         \* DEFAULT_UDP_IDLE
  Width,        \* number of values of the activity clock
  None

VARIABLES
  setup,        \* [kind, auth, sniff] of the listener
  permits, loop, warned,
  conn,         \* of a connection: its step, deadline, time of birth, and whether it has authenticated
  now
VARIABLES
  relay,        \* [shared, wanted]: Shadowsocks or SOCKS5; the endpoint a SOCKS5 client announced
  open, endpoint,
  flows,        \* the table: [last, alive] by <<peer, destination>>
  at,           \* what the relay's loop is doing
  clock

acceptVars == <<setup, permits, loop, warned, conn, now>>
udpVars == <<relay, open, endpoint, flows, at, clock>>

---------------------------------------------------------------------------
(* Accept loop and handshakes                                              *)

Kinds == {"mixed", "shadowsocks", "tproxy"}
NoConn == [pc |-> "none", dl |-> 0, born |-> 0, user |-> FALSE]
Waiting == {"peek", "http", "greet", "credentials", "request", "sniff", "ss"}
Live(c) == conn[c].pc \notin {"none", "closed"}

\* mixed.rs new, with_sniffer, with_auth; shadowsocks.rs new; tproxy/mod.rs new: what a listener is
\* built from.  Only the mixed one authenticates here, and Shadowsocks does not sniff.
AcceptInit ==
  /\ setup \in {s \in [kind : Kinds, auth : BOOLEAN, sniff : BOOLEAN] :
                  (s.auth => s.kind = "mixed") /\ (s.sniff => s.kind # "shadowsocks")}
  /\ permits = MaxConns /\ loop = "acquire" /\ warned = FALSE
  /\ conn = [c \in Conns |-> NoConn] /\ now = 0

\* A permit comes before accept, so that a full listener leaves connections in the backlog
Acquire ==
  /\ loop = "acquire" /\ (MaxConns = 0 \/ permits > 0)
  /\ loop' = "accept" /\ permits' = (IF MaxConns = 0 THEN 0 ELSE permits - 1) /\ warned' = FALSE
  /\ UNCHANGED <<setup, conn, now>>

Saturated ==
  /\ loop = "acquire" /\ MaxConns > 0 /\ permits = 0 /\ ~warned /\ warned' = TRUE
  /\ UNCHANGED <<setup, permits, loop, conn, now>>

Release == permits' = IF MaxConns = 0 THEN 0 ELSE permits + 1

\* Faulty variant of AcceptFails: the permit of a failed accept is lost
AcceptFailsKeeping == loop = "accept" /\ loop' = "acquire" /\ UNCHANGED <<setup, permits, warned, conn, now>>

AcceptFails == loop = "accept" /\ loop' = "acquire" /\ Release /\ UNCHANGED <<setup, warned, conn, now>>

To(c, pc, dl) == conn' = [conn EXCEPT ![c].pc = pc, ![c].dl = dl]
Sniffs(c) == IF setup.sniff THEN To(c, "sniff", now + SniffTime) ELSE To(c, "routed", 0)

\* handle_connection peeks; handle_ss_conn starts the handshake; handle_tproxy_conn asks for the
\* original destination, which is the listener's own for a loop
Accept(c) ==
  /\ loop = "accept" /\ conn[c].pc = "none" /\ loop' = "acquire"
  /\ \/ /\ setup.kind # "tproxy"
        /\ conn' = [conn EXCEPT ![c] = [pc |-> IF setup.kind = "mixed" THEN "peek" ELSE "ss",
                                        dl |-> now + Handshake, born |-> now, user |-> FALSE]]
        /\ UNCHANGED permits
     \/ /\ setup.kind = "tproxy" /\ UNCHANGED permits
        /\ conn' = [conn EXCEPT ![c] = [pc |-> IF setup.sniff THEN "sniff" ELSE "routed",
                                        dl |-> now + SniffTime, born |-> now, user |-> FALSE]]
     \/ /\ setup.kind = "tproxy" /\ conn' = [conn EXCEPT ![c].pc = "closed"] /\ Release
  /\ UNCHANGED <<setup, warned, now>>

\* The handler returns; its permit goes with it
Close(c) == conn' = [conn EXCEPT ![c].pc = "closed"] /\ Release

Peek(c) ==
  /\ conn[c].pc = "peek"
  /\ \/ \E pc \in {"greet", "http"} : To(c, pc, now + Handshake) /\ UNCHANGED permits
     \/ Close(c)

\* Faulty variant of Greet: each message has the whole timeout
GreetRenewing(c) ==
  /\ conn[c].pc = "greet"
  /\ \/ To(c, IF setup.auth THEN "credentials" ELSE "request", now + Handshake) /\ UNCHANGED permits
     \/ Close(c)

\* Version and methods: username and password where they are required, else none; otherwise 0xFF
Greet(c) ==
  /\ conn[c].pc = "greet"
  /\ \/ To(c, IF setup.auth THEN "credentials" ELSE "request", conn[c].dl) /\ UNCHANGED permits
     \/ Close(c)

Credentials(c) ==
  /\ conn[c].pc = "credentials"
  /\ \/ conn' = [conn EXCEPT ![c].pc = "request", ![c].user = TRUE] /\ UNCHANGED permits
     \/ Close(c)

\* parse_socks5_address and the command: CONNECT, UDP ASSOCIATE or anything else
Request(c) ==
  /\ conn[c].pc = "request"
  /\ \/ Sniffs(c) /\ UNCHANGED permits
     \/ To(c, "associated", 0) /\ UNCHANGED permits
     \/ Close(c)

\* The head of an HTTP request, with its credentials; HttpProxy has the rest
Http(c) ==
  /\ conn[c].pc = "http"
  /\ \/ /\ conn' = [conn EXCEPT ![c].pc = "routed", ![c].user = setup.auth] /\ UNCHANGED permits
     \/ Close(c)

\* ProxyServerStream::handshake (external) yields the target
SsHandshake(c) == conn[c].pc = "ss" /\ ((To(c, "routed", 0) /\ UNCHANGED permits) \/ Close(c))

\* SnifferRuntime::sniff peeks; whether it finds a name or not, the connection is routed
Sniff(c) == conn[c].pc = "sniff" /\ To(c, "routed", 0) /\ UNCHANGED permits

Timeout(c) ==
  /\ conn[c].pc \in Waiting /\ now >= conn[c].dl
  /\ IF conn[c].pc = "sniff" THEN To(c, "routed", 0) /\ UNCHANGED permits ELSE Close(c)

\* The relay, or the association, is over
Ends(c) == conn[c].pc \in {"routed", "associated"} /\ Close(c)

Serve(c) ==
  /\ \/ Peek(c) \/ Greet(c) \/ Credentials(c) \/ Request(c) \/ Http(c) \/ SsHandshake(c) \/ Sniff(c)
     \/ Timeout(c) \/ Ends(c)
  /\ UNCHANGED <<setup, loop, warned, now>>

\* Timers are served before time moves on
TickAccept ==
  /\ now < MaxNow /\ \A c \in Conns : conn[c].pc \in Waiting => now < conn[c].dl
  /\ now' = now + 1 /\ UNCHANGED <<setup, permits, loop, warned, conn>>

AcceptNext == Acquire \/ Saturated \/ AcceptFails \/ TickAccept \/ \E c \in Conns : Accept(c) \/ Serve(c)

\* No permit is lost or made up, so that MaxConns handlers run and never more; a client that neither
\* speaks nor leaves gives its place up after at most two handshake timeouts, however it spreads
\* its bytes (read_exact_before has one deadline for the handshake); and only a user that has
\* authenticated gets past a listener that asks for it.
AdmissionSound ==
  /\ MaxConns > 0 => permits + Cardinality({c \in Conns : Live(c)}) + (IF loop = "accept" THEN 1 ELSE 0) = MaxConns
  /\ \A c \in Conns : conn[c].pc \in Waiting =>
       now - conn[c].born <= (IF setup.kind = "mixed" THEN 2 * Handshake ELSE Handshake)
                             + (IF conn[c].pc = "sniff" THEN SniffTime ELSE 0)
  /\ \A c \in Conns : conn[c].pc \in {"routed", "associated", "sniff"} /\ setup.auth => conn[c].user

---------------------------------------------------------------------------
(* Datagrams                                                               *)

Select == [at |-> "select", d |-> None, now |-> 0, todo |-> {}]
Put(f, k, v) == [x \in DOMAIN f \union {k} |-> IF x = k THEN v ELSE f[x]]
Drop(f, k) == [x \in DOMAIN f \ {k} |-> f[x]]

\* The endpoint the request names, when it is compatible with the control connection
UdpInit ==
  /\ relay \in {r \in [shared : BOOLEAN, wanted : {None, Client}] : r.shared => r.wanted = None}
  /\ open = TRUE /\ endpoint = relay.wanted /\ flows = <<>> /\ at = Select /\ clock = 0

\* recv_from: a SOCKS5 relay takes datagrams of its endpoint, which the first valid one fixes
Receive(p, dst) ==
  /\ at.at = "select" /\ open
  /\ relay.shared \/ (p \in {Client, Sibling} /\ endpoint \in {None, p})
  /\ endpoint' = IF relay.shared THEN None ELSE p
  /\ at' = [Select EXCEPT !.at = "resolve", !.d = <<p, dst>>]
  /\ UNCHANGED <<relay, open, flows, clock>>

\* After pre_resolve and resolve_ip_real: a known flow, a full table, no rule, or a dial
Resolve ==
  /\ at.at = "resolve"
  /\ \/ at.d \in DOMAIN flows /\ at' = [at EXCEPT !.at = "write"]
     \/ at.d \notin DOMAIN flows /\ ~(relay.shared /\ MaxFlows > 0 /\ Cardinality(DOMAIN flows) >= MaxFlows)
        /\ at' = [at EXCEPT !.at = "dial"]
     \/ at' = Select
  /\ UNCHANGED <<relay, open, endpoint, flows, clock>>

\* write_packet on the flow; activity is stored only when it succeeds
WriteFlow ==
  /\ at.at = "write" /\ at' = Select
  /\ \/ flows' = [flows EXCEPT ![at.d].last = clock % Width]
     \/ UNCHANGED flows
  /\ UNCHANGED <<relay, open, endpoint, clock>>

\* dial_udp and the first write; the reply task is spawned and the flow entered
DialFlow ==
  /\ at.at = "dial" /\ at' = Select
  /\ \/ flows' = Put(flows, at.d, [last |-> clock % Width, alive |-> TRUE])
     \/ UNCHANGED flows
  /\ UNCHANGED <<relay, open, endpoint, clock>>

\* The reply task: a datagram goes back and counts as activity, or reading or sending fails
Reply(k) ==
  /\ k \in DOMAIN flows /\ flows[k].alive
  /\ \/ flows' = [flows EXCEPT ![k].last = clock % Width]
     \/ flows' = [flows EXCEPT ![k].alive = FALSE]
  /\ UNCHANGED <<relay, open, endpoint, at, clock>>

\* The sweep: Shadowsocks reads the clock once, SOCKS5 anew for each session
Sweep ==
  /\ at.at = "select" /\ open /\ flows # <<>>
  /\ at' = [Select EXCEPT !.at = "sweep", !.now = clock, !.todo = DOMAIN flows]
  /\ UNCHANGED <<relay, open, endpoint, flows, clock>>

SweepNext(k) ==
  /\ at.at = "sweep" /\ k \in at.todo
  /\ at' = [at EXCEPT !.at = "check", !.d = k, !.now = IF relay.shared THEN @ ELSE clock]
  /\ UNCHANGED <<relay, open, endpoint, flows, clock>>

\* Faulty variant of Check: the flows that are still in use leave
CheckInverted ==
  /\ at.at = "check"
  /\ flows' = IF (at.now - flows[at.d].last) % Width >= Idle THEN flows ELSE Drop(flows, at.d)
  /\ at' = IF at.todo = {at.d} THEN Select ELSE [at EXCEPT !.at = "sweep", !.todo = @ \ {at.d}]
  /\ UNCHANGED <<relay, open, endpoint, clock>>

\* last_activity_ms is loaded after the clock was read; the difference wraps
Check ==
  /\ at.at = "check"
  /\ flows' = IF (at.now - flows[at.d].last) % Width < Idle THEN flows ELSE Drop(flows, at.d)
  /\ at' = IF at.todo = {at.d} THEN Select ELSE [at EXCEPT !.at = "sweep", !.todo = @ \ {at.d}]
  /\ UNCHANGED <<relay, open, endpoint, clock>>

\* The control connection of a SOCKS5 association ends: the sessions and their tasks with it
ControlCloses ==
  /\ ~relay.shared /\ at.at = "select" /\ open /\ open' = FALSE /\ flows' = <<>>
  /\ UNCHANGED <<relay, endpoint, at, clock>>

TickUdp == clock < MaxNow /\ clock' = clock + 1 /\ UNCHANGED <<relay, open, endpoint, flows, at>>

UdpNext ==
  \/ \E p \in Peers, d \in Dsts : Receive(p, d)
  \/ Resolve \/ WriteFlow \/ DialFlow \/ Sweep \/ Check \/ ControlCloses \/ TickUdp
  \/ \E k \in Peers \X Dsts : Reply(k) \/ SweepNext(k)

\* The flows of an association belong to the one endpoint it is for, and the table of the
\* Shadowsocks relay keeps to its limit.
FlowsBelong ==
  /\ ~relay.shared => \A k \in DOMAIN flows : k[1] = endpoint
  /\ relay.wanted # None => endpoint = relay.wanted
  /\ relay.shared /\ MaxFlows > 0 => Cardinality(DOMAIN flows) <= MaxFlows

\* While the relay lives a flow leaves only when it has been idle for the whole window, or when
\* it was touched after the sweep had read its clock, which makes the difference wrap
\* (socks5_udp.rs and shadowsocks.rs, the retain of the sweeper).
LeavesIdleOrRaced ==
  [][open' => \A k \in DOMAIN flows \ DOMAIN flows' :
       clock - flows[k].last >= Idle \/ flows[k].last > at.now]_udpVars

---------------------------------------------------------------------------
(* The rules of the transparent listener                                   *)

\* A rule is what it matches and what it does; a packet is [mark, dst]
\* build_nft_ruleset: the mark, loopback, the servers, then everything
build_nft_ruleset(mark, bypass) ==
  (IF mark # None THEN <<[by |-> "mark", v |-> mark, do |-> "accept"]>> ELSE <<>>)
  \o <<[by |-> "dst", v |-> "loopback", do |-> "accept"]>>
  \o [i \in DOMAIN bypass |-> [by |-> "dst", v |-> bypass[i], do |-> "accept"]]
  \o <<[by |-> "any", v |-> None, do |-> "redirect"]>>


\* collect_proxy_server_ips: every address of a proxy, resolved when it is a name
collect_proxy_server_ips(proxies) == SelectSeq(proxies, LAMBDA p : p # "")

Verdict(rules, packet) ==
  LET hit == {i \in DOMAIN rules : CASE rules[i].by = "mark" -> packet.mark = rules[i].v
                                     [] rules[i].by = "dst" -> packet.dst = rules[i].v
                                     [] OTHER -> TRUE}
  IN rules[Min(hit)].do

\* What the proxy itself sends is never redirected to it, whether it is told by its mark or by
\* the address of a server; any other connection is.
NoLoop ==
  \A mark \in {None, 1}, proxies \in UNION {[1 .. n -> {"", "1.1.1.1", "named"}] : n \in 0 .. 2},
     packet \in [mark : {0, 1}, dst : {"loopback", "1.1.1.1", "named", "elsewhere"}] :
    LET own == packet.mark = mark \/ (packet.dst \in ToSet(proxies)) \/ packet.dst = "loopback"
    IN Verdict(build_nft_ruleset(mark, collect_proxy_server_ips(proxies)), packet)
         = IF own THEN "accept" ELSE "redirect"
============================================================================
