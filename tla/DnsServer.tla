------------------------------ MODULE DnsServer -----------------------------
(* The DNS server and what it answers with: the decision between the hosts    *)
(* table, a fake address and an upstream for a query of any type; the         *)
(* messages it builds; the serve loop with its workers; the pool of TCP       *)
(* connections of a client; the nameserver URLs of the configuration and the  *)
(* bootstrap that turns them into clients.                                    *)
(* Left out: TLS, the records of an upstream's answer other than address      *)
(* hints, and the times to live (DnsCache has those).                         *)
EXTENDS Integers, Sequences, SequencesExt, FiniteSetsExt

CONSTANTS
  AliasHops,   \* 64 in lookup_hosts_entry
  WorkerIds,   \* N_WORKERS of BoundDnsServer::run, as 0..n-1
  Depth,       \* CHANNEL_DEPTH
  Asked,       \* datagrams that reach the listening socket
  PoolCap,     \* TCP_POOL_CAPACITY
  IdleTime,    \* TCP_POOL_IDLE_TIMEOUT, in ticks
  Queries,     \* calls of tcp_exchange_pooled
  MaxConns,    \* bound on connections opened
  MaxNow,      \* bound on the clock
  None

VARIABLES
  serving,     \* the future of run is alive: it owns the socket and the senders
  queue,       \* per worker, the datagrams of its channel
  rr,          \* the round robin counter
  worker,      \* per worker: <<"recv">>, <<"handle", q>>, <<"send", q>>, <<"gone">>
  left,        \* datagrams still to come
  replies,     \* the sequence of replies sent
  idle,        \* TcpPool.idle: sequence of <<connection, returned at>>
  now,         \* the clock
  call,        \* per call: <<state, connection>>
  line,        \* per connection, the replies it still owes, by query
  opened,      \* connections opened
  got          \* per call, the query whose answer it returned

serveVars == <<serving, queue, rr, worker, left, replies>>
poolVars == <<idle, now, call, line, opened, got>>

---------------------------------------------------------------------------
(* Which source answers.  A configuration c has the mode, use-hosts, ipv6,    *)
(* the pools installed, the names the skipper bypasses, the hosts table, and  *)
(* for each name what the upstreams say of each family.                       *)
Names == {"a", "b", "c"}
Families == {"v4", "v6"}

\* An entry of the hosts table: the families of its addresses, or another name
Addresses(fams) == [kind |-> "addresses", fams |-> fams, to |-> "a"]
Alias(n) == [kind |-> "alias", fams |-> {}, to |-> n]
NoHostsEntry == [kind |-> "none", fams |-> {}, to |-> "a"]

\* lookup_hosts_entry: aliases are followed AliasHops times; the last name without an entry of
\* its own is what an upstream is asked for
lookup_hosts_entry(c, host) ==
  LET step[n \in 0 .. AliasHops, cur \in Names, seen \in BOOLEAN] ==
        LET e == c.hosts[cur] IN
          CASE n = AliasHops -> NoHostsEntry
            [] n < AliasHops /\ e.kind = "addresses" -> e
            [] n < AliasHops /\ e.kind = "alias" -> step[n + 1, e.to, TRUE]
            [] n < AliasHops /\ e.kind = "none" -> IF seen THEN Alias(cur) ELSE NoHostsEntry
  IN step[0, host, FALSE]

Hosts(c, host) == IF c.useHosts THEN lookup_hosts_entry(c, host) ELSE NoHostsEntry

\* Answers: where the address is from, and whose it is
Answer(source, fam, n) == [kind |-> "answer", source |-> source, fam |-> fam, of |-> n]
Without(kind) == [kind |-> kind, source |-> "none", fam |-> "none", of |-> "none"]

\* lookup_real_with_ttl, whose tiers are DnsPipeline's
lookup_real(c, n, fam) ==
  IF c.real[fam] = "answer" THEN Answer("real", fam, n) ELSE Without(c.real[fam])

FromHosts(e, n, fam) ==
  IF fam \in e.fams THEN Answer("hosts", fam, n) ELSE Without("nodata")

\* Skipper: an empty list of patterns bypasses nothing, in either mode
should_skip(c, n) ==
  c.patterns # {} /\ (IF c.whitelist THEN n \notin c.patterns ELSE n \in c.patterns)
skipper_bypasses(c, n) == c.mode = "fake-ip" /\ should_skip(c, n)

lookup_ipv4_result(c, n) ==
  LET e == Hosts(c, n) IN
    CASE e.kind = "addresses" -> FromHosts(e, n, "v4")
      [] e.kind = "alias" -> lookup_real(c, e.to, "v4")
      [] e.kind = "none" ->
           IF c.mode = "fake-ip" /\ "v4" \in c.pools /\ ~skipper_bypasses(c, n)
           THEN Answer("fake", "v4", n) ELSE lookup_real(c, n, "v4")

\* With only an IPv4 pool, the IPv6 addresses of a name that gets a fake one are suppressed
lookup_ipv6_result(c, n) ==
  LET e == Hosts(c, n)
      faked == c.mode = "fake-ip" /\ ~skipper_bypasses(c, n) IN
    CASE ~c.ipv6 -> Without("nodata")
      [] c.ipv6 /\ e.kind = "addresses" -> FromHosts(e, n, "v6")
      [] c.ipv6 /\ e.kind = "alias" -> lookup_real(c, e.to, "v6")
      [] c.ipv6 /\ e.kind = "none" ->
           CASE faked /\ "v6" \in c.pools -> Answer("fake", "v6", n)
             [] faked /\ c.pools = {"v4"} -> Without("nodata")
             [] OTHER -> lookup_real(c, n, "v6")

lookup_hosts_all(c, n) == Hosts(c, n).kind = "addresses"

filter_enabled_ips(c, fams) == {f \in fams : c.ipv6 \/ f = "v4"}

\* resolve_ips_local: the hosts table, else what the cache holds of the name, without a query;
\* resolve_ips differs in that it then asks
resolve_ips_local(c, n, cached) ==
  LET e == Hosts(c, n)
      mine == filter_enabled_ips(c, e.fams)
      asked == IF e.kind = "alias" THEN e.to ELSE n IN
    IF e.kind = "addresses" /\ mine # {}
    THEN {Answer("hosts", f, n) : f \in mine}
    ELSE {Answer("real", f, asked) : f \in filter_enabled_ips(c, cached[asked])}

\* fake_ip_active_for: whether the A or the AAAA answer of a name is a fake one.  The table is
\* searched once, without following the alias.
fake_ip_active_for(c, n) ==
  /\ c.mode = "fake-ip"
  /\ ~(c.useHosts /\ c.hosts[n].kind # "none")
  /\ c.pools # {} /\ ~skipper_bypasses(c, n)

\* strip_svc_ip_hints: a service record is the set of its keys and the keys its mandatory list
\* names; the list goes when nothing is left of it
Hint(v4, v6) == {k \in {"ipv4hint", "ipv6hint"} : (k = "ipv4hint" /\ v4) \/ (k = "ipv6hint" /\ v6)}
\* Faulty variant: the mandatory list is kept as it is
strip_svc_keys_only(rec, v4, v6) ==
  [keys |-> rec.keys \ Hint(v4, v6), mandatory |-> rec.mandatory]

strip_svc_ip_hints(rec, v4, v6) ==
  LET kept == rec.mandatory \ Hint(v4, v6) IN
    [keys |-> (rec.keys \ Hint(v4, v6)) \ (IF kept = {} THEN {"mandatory"} ELSE {}),
     mandatory |-> kept]

\* handle_query for the types of an address: the hosts table is asked first, whatever ipv6 says
AddressReply(c, n, fam) ==
  IF lookup_hosts_all(c, n) THEN FromHosts(Hosts(c, n), n, fam)
  ELSE IF fam = "v6" /\ ~c.ipv6 THEN Without("nodata")
  ELSE IF fam = "v4" THEN lookup_ipv4_result(c, n) ELSE lookup_ipv6_result(c, n)

\* handle_generic_forward, for a type whose records carry hints
ServiceReply(c, n, rec) ==
  LET active == fake_ip_active_for(c, n) IN
    IF active \/ ~c.ipv6 THEN strip_svc_ip_hints(rec, active, active \/ ~c.ipv6) ELSE rec

\* The tables build_hosts_trie accepts: no chain of aliases comes back to a name of its own
Acyclic(hosts) ==
  LET ends[k \in 0 .. 3, m \in Names] ==
        hosts[m].kind # "alias" \/ (k < 3 /\ ends[k + 1, hosts[m].to])
  IN \A n \in Names : ends[0, n]

Tables ==
  LET Entry(n) == {NoHostsEntry, Addresses({"v4"}), Addresses({"v6"})}
                    \cup {Alias(m) : m \in Names \ {n}}
  IN {h \in [Names -> UNION {Entry(n) : n \in Names}] :
        (\A n \in Names : h[n] \in Entry(n)) /\ Acyclic(h)}

\* install_fakeip: the one pool is of the family of fake-ip-range; the other modes have none
install_fakeip(mode, range) == IF mode = "fake-ip" THEN {range} ELSE {}

Configurations ==
  {[mode |-> m, useHosts |-> u, ipv6 |-> s, pools |-> install_fakeip(m, f),
    patterns |-> p, whitelist |-> w, hosts |-> h, real |-> r] :
     m \in {"normal", "fake-ip"}, u \in BOOLEAN, s \in BOOLEAN, f \in Families,
     p \in {{}, {"a"}}, w \in BOOLEAN, h \in Tables,
     r \in [Families -> {"answer", "nxdomain"}]}

Records ==
  {r \in [keys : SUBSET {"alpn", "ipv4hint", "ipv6hint", "mandatory"},
          mandatory : SUBSET {"alpn", "ipv4hint", "ipv6hint"}] :
     r.mandatory \subseteq r.keys /\ ("mandatory" \in r.keys <=> r.mandatory # {})}

\* A client that is answered with a fake address, or denied one, never learns a real address
\* of that name from the hints of a service record; with IPv6 off no upstream's IPv6 address
\* gets out; a fake address never comes out of the resolution outbounds use; and what is left
\* of a record names no key that was taken out (server.rs handle_query, resolver.rs
\* fake_ip_active_for).
NoRealAddressLeaks ==
  \A c \in Configurations :
    LET v4 == AddressReply(c, "a", "v4")
        v6 == AddressReply(c, "a", "v6")
        fake == "fake" \in {v4.source, v6.source}
        entry == Hosts(c, "a")
        local == resolve_ips_local(c, "a", [m \in Names |-> Families]) IN
      /\ \A r \in Records :
           LET out == ServiceReply(c, "a", r) IN
             /\ fake => out.keys \cap Hint(TRUE, TRUE) = {}
             /\ ~c.ipv6 => "ipv6hint" \notin out.keys
             /\ c.mode # "fake-ip" /\ c.ipv6 => out = r
             /\ out.mandatory \subseteq out.keys
             /\ "mandatory" \in out.keys <=> out.mandatory # {}
      /\ ~c.ipv6 => v6.source \in {"none", "hosts"}
      /\ \A a \in {v4, v6} : a.source = "real" /\ a.of # "a" => c.hosts["a"].kind = "alias"
      /\ \A a \in local : a.source # "fake" /\ (a.fam = "v6" => c.ipv6)
      /\ "v4" \in entry.fams => v4.source = "hosts" /\ \A a \in local : a.source = "hosts"

---------------------------------------------------------------------------
(* The serve loop, BoundDnsServer::run: one task receives and deals the       *)
(* datagrams out round robin, workers answer them through a weak reference.   *)
ServeInit ==
  /\ serving = TRUE /\ queue = [w \in WorkerIds |-> <<>>] /\ rr = 0
  /\ worker = [w \in WorkerIds |-> <<"recv", None>>]
  /\ left = Asked /\ replies = <<>>

\* The socket lives while someone holds a strong reference: the loop, or a worker in send_to
Bound == serving \/ \E w \in WorkerIds : worker[w][1] = "send"

\* recv_from, then try_send to the next worker: a full or closed channel drops the datagram
Receive(q) ==
  LET w == rr % Cardinality(WorkerIds) IN
    /\ serving /\ q \in left
    /\ left' = left \ {q} /\ rr' = rr + 1
    /\ queue' = IF worker[w][1] # "gone" /\ Len(queue[w]) < Depth
                THEN [queue EXCEPT ![w] = Append(@, q)] ELSE queue
    /\ UNCHANGED <<serving, worker, replies>>

\* rx.recv: what is queued is still handled once the senders are gone
Recv(w) ==
  /\ worker[w][1] = "recv"
  /\ IF queue[w] # <<>>
     THEN /\ worker' = [worker EXCEPT ![w] = <<"handle", Head(queue[w])>>]
          /\ queue' = [queue EXCEPT ![w] = Tail(@)]
     ELSE /\ ~serving
          /\ worker' = [worker EXCEPT ![w] = <<"gone", None>>]
          /\ UNCHANGED queue
  /\ UNCHANGED <<serving, rr, left, replies>>

\* Faulty variant of Handled: a panic ends the worker
HandledUnwinding(w, ok) ==
  /\ worker[w][1] = "handle"
  /\ worker' = [worker EXCEPT ![w] =
       IF ok /\ Bound THEN <<"send", worker[w][2]>> ELSE <<"gone", None>>]
  /\ UNCHANGED <<serving, queue, rr, left, replies>>

\* handle_query returns: a response is sent if the socket is still there, and ends the worker
\* if not; an error or a panic only ends the query
Handled(w, ok) ==
  /\ worker[w][1] = "handle"
  /\ worker' = [worker EXCEPT ![w] =
       IF ~ok THEN <<"recv", None>>
       ELSE IF Bound THEN <<"send", worker[w][2]>> ELSE <<"gone", None>>]
  /\ UNCHANGED <<serving, queue, rr, left, replies>>

\* send_to returns, with or without an error, and the strong reference is dropped
Sent(w, ok) ==
  /\ worker[w][1] = "send"
  /\ replies' = IF ok THEN Append(replies, worker[w][2]) ELSE replies
  /\ worker' = [worker EXCEPT ![w] = <<"recv", None>>]
  /\ UNCHANGED <<serving, queue, rr, left>>

\* The future of run is dropped: by the TUN runtime, or with the runtime
DropServer ==
  /\ serving /\ serving' = FALSE
  /\ UNCHANGED <<queue, rr, worker, left, replies>>

ServeNext ==
  \/ \E q \in Asked : Receive(q)
  \/ \E w \in WorkerIds : Recv(w) \/ (\E ok \in BOOLEAN : Handled(w, ok) \/ Sent(w, ok))
  \/ DropServer

\* A query is answered at most once, one under way is in one place, no error or panic costs a
\* worker while the server runs, and after the loop is dropped the port is held by a send_to
\* under way and nothing else: a worker inside handle_query does not hold it (server.rs run).
ServeSound ==
  /\ \A i, j \in 1 .. Len(replies) : replies[i] = replies[j] => i = j
  /\ \A q \in Asked :
       Cardinality({w \in WorkerIds : worker[w][2] = q})
         + Cardinality({w \in WorkerIds : q \in ToSet(queue[w])})
         + Cardinality({i \in 1 .. Len(replies) : replies[i] = q})
         + (IF q \in left THEN 1 ELSE 0) <= 1
  /\ serving => \A w \in WorkerIds : worker[w][1] # "gone"
  /\ (\A w \in WorkerIds : worker[w][1] = "gone") => ~Bound

---------------------------------------------------------------------------
(* The idle connections of a DnsClient over TCP, and the calls that use them. *)
Conns == 1 .. MaxConns
PoolInit ==
  /\ idle = <<>> /\ now = 0 /\ call = [q \in Queries |-> <<"start", None>>]
  /\ line = [c \in Conns |-> <<>>] /\ opened = 0
  /\ got = [q \in Queries |-> None]

\* take_fresh: connections idle for too long are closed, the one returned last is taken
Fresh == SelectSeq(idle, LAMBDA e : now - e[2] < IdleTime)

\* The first lock of tcp_exchange_pooled, and the query on the wire
TakePooled(q) ==
  /\ call[q][1] = "start"
  /\ IF Fresh = <<>>
     THEN idle' = <<>> /\ call' = [call EXCEPT ![q] = <<"connect", None>>] /\ UNCHANGED line
     ELSE LET c == Last(Fresh)[1] IN
            /\ idle' = Front(Fresh)
            /\ call' = [call EXCEPT ![q] = <<"pooled", c>>]
            /\ line' = [line EXCEPT ![c] = Append(@, q)]
  /\ UNCHANGED <<now, opened, got>>

Connect(q) ==
  /\ call[q][1] = "connect" /\ opened < MaxConns
  /\ opened' = opened + 1
  /\ call' = [call EXCEPT ![q] = <<"fresh", opened'>>]
  /\ line' = [line EXCEPT ![opened'] = <<q>>]
  /\ UNCHANGED <<idle, now, got>>

\* read_lp: the next reply on the connection, which validate_response compares with the query
Answered(q) ==
  LET c == call[q][2] IN
    /\ call[q][1] \in {"pooled", "fresh"} /\ line[c] # <<>>
    /\ line' = [line EXCEPT ![c] = Tail(@)]
    /\ call' = [call EXCEPT ![q] =
         IF Head(line[c]) = q THEN <<"push", c>>
         ELSE IF call[q][1] = "pooled" THEN <<"connect", None>> ELSE <<"failed", None>>]
    /\ got' = [got EXCEPT ![q] = IF Head(line[c]) = q THEN q ELSE @]
    /\ UNCHANGED <<idle, now, opened>>

\* Faulty variant of PooledFails: the connection goes back to the pool
PooledFailsKept(q) ==
  /\ call[q][1] = "pooled"
  /\ idle' = Append(idle, <<call[q][2], now>>)
  /\ call' = [call EXCEPT ![q] = <<"connect", None>>]
  /\ UNCHANGED <<now, line, opened, got>>

\* The budget of the pooled attempt runs out or the connection fails: it is dropped and the
\* call connects; a fresh connection's failure is the call's.  A caller whose own timeout
\* fires drops whatever the call holds.
PooledFails(q) ==
  /\ call[q][1] = "pooled"
  /\ call' = [call EXCEPT ![q] = <<"connect", None>>]
  /\ UNCHANGED <<idle, now, line, opened, got>>

CallFails(q) ==
  /\ call[q][1] \in {"start", "pooled", "connect", "fresh", "push"}
  /\ call' = [call EXCEPT ![q] = <<"failed", None>>]
  /\ UNCHANGED <<idle, now, line, opened, got>>

\* push: beyond the capacity the connection is closed
Push(q) ==
  /\ call[q][1] = "push"
  /\ idle' = IF Len(idle) < PoolCap THEN Append(idle, <<call[q][2], now>>) ELSE idle
  /\ call' = [call EXCEPT ![q] = <<"done", None>>]
  /\ UNCHANGED <<now, line, opened, got>>

PoolTick ==
  /\ now < MaxNow /\ now' = now + 1
  /\ UNCHANGED <<idle, call, line, opened, got>>

PoolNext ==
  \/ \E q \in Queries :
       TakePooled(q) \/ Connect(q) \/ Answered(q) \/ PooledFails(q) \/ CallFails(q) \/ Push(q)
  \/ PoolTick

\* A connection in the pool owes no reply, so no call reads the answer to another one's query;
\* a connection is used by one call or is idle, never both; and the pool keeps to its capacity
\* (client.rs tcp_exchange_pooled).
PoolClean ==
  /\ \A i \in 1 .. Len(idle) : line[idle[i][1]] = <<>>
  /\ \A i, j \in 1 .. Len(idle) : i # j => idle[i][1] # idle[j][1]
  /\ \A q \in Queries : call[q][2] # None =>
       /\ \A i \in 1 .. Len(idle) : idle[i][1] # call[q][2]
       /\ \A r \in Queries \ {q} : call[r][2] # call[q][2]
       /\ ToSet(line[call[q][2]]) \subseteq {q}
  /\ Len(idle) <= PoolCap

---------------------------------------------------------------------------
(* The messages, as sequences of bytes.                                       *)
U16(n) == <<n \div 256, n % 256>>
Word(s, i) == s[i] * 256 + s[i + 1]
From(s, i) == SubSeq(s, i, Len(s))
OPT_RECORD == <<0, 0, 41, 2, 0, 0, 0, 0, 0, 0, 0>>
Bad == [ok |-> FALSE, domain |-> <<>>, qtype |-> 0, len |-> 0]

\* parse_question: the labels up to the root, then type and class; a domain is the sequence of
\* its labels
parse_question(data) ==
  LET root[p \in 0 .. Len(data)] ==
        IF p >= Len(data) THEN -1
        ELSE IF data[p + 1] = 0 THEN p + 1
        ELSE IF p + 1 + data[p + 1] > Len(data) THEN -1
        ELSE root[p + 1 + data[p + 1]]
      labels[p \in 0 .. Len(data)] ==
        IF data[p + 1] = 0 THEN <<>>
        ELSE <<SubSeq(data, p + 2, p + 1 + data[p + 1])>> \o labels[p + 1 + data[p + 1]]
      pos == root[0] IN
    IF pos = -1 \/ pos + 4 > Len(data) THEN Bad
    ELSE [ok |-> TRUE, domain |-> labels[0], qtype |-> Word(data, pos + 1), len |-> pos + 4]

\* response_flags: QR set, the opcode and RD copied; RA set and CD copied
response_flags(hi, lo) ==
  <<128 + ((hi \div 8) % 16) * 8 + (hi % 2), 128 + ((lo \div 16) % 2) * 16>>

\* Faulty variant of Reply: the additional count of the query is copied
ReplyCopiesCount(query, len, rcode, answers) ==
  LET flags == response_flags(query[3], query[4]) IN
    SubSeq(query, 1, 2) \o <<flags[1], (flags[2] \div 16) * 16 + rcode>>
      \o U16(1) \o U16(IF answers = <<>> THEN 0 ELSE 1) \o U16(0) \o SubSeq(query, 11, 12)
      \o SubSeq(query, 13, 12 + len) \o answers

\* The header and the question every reply starts with, and the OPT record that answers one
Reply(query, len, rcode, answers) ==
  LET flags == response_flags(query[3], query[4])
      opt == Word(query, 11) > 0 IN
    SubSeq(query, 1, 2) \o <<flags[1], (flags[2] \div 16) * 16 + rcode>>
      \o U16(1) \o U16(IF answers = <<>> THEN 0 ELSE 1) \o U16(0) \o U16(IF opt THEN 1 ELSE 0)
      \o SubSeq(query, 13, 12 + len) \o answers \o (IF opt THEN OPT_RECORD ELSE <<>>)

build_response(query, len, qtype, octets, ttl) ==
  Reply(query, len, 0,
        <<192, 12>> \o U16(qtype) \o U16(1) \o U16(0) \o U16(ttl)
          \o U16(Len(octets)) \o octets)
build_noerror_empty(query, len) == Reply(query, len, 0, <<>>)
build_servfail(query, len) == Reply(query, len, 2, <<>>)
build_nxdomain(query, len) == Reply(query, len, 3, <<>>)
build_formerr(query) ==
  LET flags == response_flags(query[3], query[4]) IN
    SubSeq(query, 1, 2) \o <<flags[1], (flags[2] \div 16) * 16 + 1, 0, 0, 0, 0, 0, 0, 0, 0>>

Octets == [v4 |-> <<192, 0, 2, 1>>, v6 |-> [i \in 1 .. 16 |-> i]]

\* handle_query on the wire, given what AddressReply says; <<>> stands for an error, which is
\* logged and not answered
handle_query(data, verdict) ==
  IF Len(data) < 12 \/ Word(data, 5) = 0 THEN <<>>
  ELSE IF Word(data, 5) # 1 THEN build_formerr(data)
  ELSE LET q == parse_question(From(data, 13)) IN
    CASE ~q.ok -> <<>>
      [] q.ok /\ verdict.kind = "answer" ->
           build_response(data, q.len, q.qtype, Octets[verdict.fam], 1)
      [] q.ok /\ verdict.kind = "nodata" -> build_noerror_empty(data, q.len)
      [] q.ok /\ verdict.kind = "nxdomain" -> build_nxdomain(data, q.len)
      [] q.ok /\ verdict.kind = "failed" -> build_servfail(data, q.len)

SomeQueries ==
  {<<1, 2, hi, lo>> \o U16(1) \o U16(0) \o U16(0) \o U16(IF opt THEN 1 ELSE 0)
     \o name \o U16(t) \o U16(1) \o (IF opt THEN OPT_RECORD ELSE <<>>) :
     hi \in {0, 1, 6, 120, 255}, lo \in {0, 16, 255}, opt \in BOOLEAN, t \in {1, 28},
     name \in {<<0>>, <<1, 97, 0>>, <<2, 97, 0, 1, 98, 0>>}}

Verdicts(t) ==
  {Answer("real", IF t = 1 THEN "v4" ELSE "v6", "a")}
    \cup {Without(k) : k \in {"nodata", "nxdomain", "failed"}}

\* The records after the question of a reply: <<the end reached, records walked>>; every record
\* here has a name of one pointer or of the root
Walk(m, at) ==
  LET go[p \in 1 .. Len(m) + 1, n \in 0 .. 2] ==
        IF p > Len(m) \/ n = 2 THEN <<p, n>>
        ELSE LET name == IF m[p] = 192 THEN 2 ELSE 1
                 next == p + name + 10 + Word(m, p + name + 8)
             IN go[next, n + 1]
  IN go[at, 0]

\* A reply keeps the id, the opcode, RD and CD of its query, repeats its question, says how
\* many records follow and ends after the last one; a datagram cut short anywhere before the end
\* of its question is not answered, whatever the upstreams say (server.rs handle_query).
RepliesWellFormed ==
  \A query \in SomeQueries : \A q \in {parse_question(From(query, 13))} :
      /\ \A v \in Verdicts(q.qtype) :
           \A m \in {handle_query(query, v)} :
           \A q2 \in {parse_question(From(m, 13))} :
             /\ SubSeq(m, 1, 2) = SubSeq(query, 1, 2) /\ m[3] >= 128 /\ m[4] >= 128
             /\ (m[3] \div 8) % 16 = (query[3] \div 8) % 16 /\ m[3] % 2 = query[3] % 2
             /\ (m[4] \div 16) % 2 = (query[4] \div 16) % 2 /\ (m[3] \div 2) % 4 = 0
             /\ m[4] % 16 = (CASE v.kind = "failed" -> 2 [] v.kind = "nxdomain" -> 3 [] OTHER -> 0)
             /\ q2 = q
             /\ Walk(m, 13 + q2.len) = <<Len(m) + 1, Word(m, 7) + Word(m, 9) + Word(m, 11)>>
             /\ Word(m, 7) = (IF v.kind = "answer" THEN 1 ELSE 0)
             /\ \A n \in 0 .. 11 + q.len : handle_query(SubSeq(query, 1, n), v) = <<>>
      /\ LET two == [query EXCEPT ![6] = 2] IN
           handle_query(two, Without("nodata")) = build_formerr(query)

\* One exchange with an upstream.  A message is [valid, truncated, id]: whether it answers the
\* query, its TC bit, and which one it is; the world has what each transport would bring.
NoMessage == [valid |-> FALSE, truncated |-> FALSE, id |-> 0]
Validated(m) == IF m.valid THEN m ELSE NoMessage

\* Faulty variant of udp_exchange: the first datagram is the answer
udp_exchange_first(world) ==
  IF world.datagrams = <<>> THEN NoMessage ELSE Head(world.datagrams)

\* udp_exchange: datagrams that do not answer the query are passed over; a truncated one sends
\* the query again over TCP
udp_exchange(world) ==
  LET i == SelectInSeq(world.datagrams, LAMBDA d : d.valid) IN
    CASE i = 0 -> NoMessage
      [] i > 0 /\ world.datagrams[i].truncated -> Validated(world.stream)
      [] i > 0 /\ ~world.datagrams[i].truncated -> world.datagrams[i]

\* doh_exchange: a bounded response, with the end of its header and the status 200
doh_exchange(world) ==
  IF world.http.bounded /\ world.http.terminated /\ world.http.status = 200
  THEN Validated(world.stream) ELSE NoMessage

\* exchange: through a proxy only the plain transports, as TCP
exchange(transport, proxied, world) ==
  CASE transport = "rcode" -> NoMessage
    [] transport # "rcode" /\ proxied ->
         IF transport \in {"udp", "tcp"} THEN Validated(world.stream) ELSE NoMessage
    [] ~proxied /\ transport = "udp" -> udp_exchange(world)
    [] ~proxied /\ transport \in {"tcp", "tls"} -> Validated(world.stream)
    [] ~proxied /\ transport = "https" -> doh_exchange(world)

\* What an exchange returns answers the query, whatever else arrives first, and it is not a
\* truncated datagram; and a valid datagram is not lost behind invalid ones (client.rs exchange).
ExchangesValid ==
  LET Messages == [valid : BOOLEAN, truncated : BOOLEAN, id : 1 .. 2]
      Worlds == [datagrams : {<<>>} \cup {<<d>> : d \in Messages} \cup (Messages \X Messages),
                 stream : [valid : BOOLEAN, truncated : {FALSE}, id : {3}],
                 http : [bounded : BOOLEAN, terminated : BOOLEAN, status : {200, 404}]]
  IN \A w \in Worlds, t \in {"udp", "tcp", "tls", "https"}, p \in BOOLEAN :
       LET m == exchange(t, p, w) IN
         /\ m # NoMessage => m.valid /\ ~m.truncated
         /\ t = "udp" /\ ~p /\ (\E i \in DOMAIN w.datagrams : w.datagrams[i].valid) /\ w.stream.valid
              => m # NoMessage

---------------------------------------------------------------------------
(* Nameserver URLs.  A text is a sequence of tokens; the digits of a port, a  *)
(* word and an IPv4 address are one token each, an IPv6 address is its        *)
(* colons and digits.                                                         *)
Ports == {"1", "53", "443", "853"}
Digits == Ports \cup {"0", "70000"}
V6Texts == {<<":", ":">>, <<":", ":", "1">>}
IsIp(s) == s = <<"9.9.9.9">> \/ s \in V6Texts
SchemeTokens == {"udp://", "tcp://", "tls://", "https://", "rcode://"}
NoUrl == [ok |-> FALSE, scheme |-> "none", addr |-> <<>>, port |-> "0", path |-> <<>>, sni |-> <<>>]
Index(s, t) == SelectInSeq(s, LAMBDA x : x = t)
LastIndex(s, t) == SelectLastInSeq(s, LAMBDA x : x = t)
Upto(s, i) == SubSeq(s, 1, i - 1)

parse_port(s) == IF Len(s) = 1 /\ s[1] \in Ports THEN s[1] ELSE "0"
parse_host_or_ip(s) == s # <<>> /\ (IsIp(s) \/ Index(s, "/") = 0)

\* parse_host_port: an address in brackets, or a split at the last colon if digits follow it;
\* <<>> is an error
parse_host_port(s, default) ==
  LET close == Index(s, "]")
      colon == LastIndex(s, ":")
      after == From(s, colon + 1)
      Made(addr, port) ==
        IF parse_host_or_ip(addr) /\ port # "0" THEN <<[addr |-> addr, port |-> port]>> ELSE <<>>
  IN CASE s # <<>> /\ s[1] = "[" ->
            IF close = 0 \/ ~IsIp(SubSeq(s, 2, close - 1)) THEN <<>>
            ELSE IF close = Len(s) THEN Made(SubSeq(s, 2, close - 1), default)
            ELSE IF s[close + 1] # ":" THEN <<>>
            ELSE Made(SubSeq(s, 2, close - 1), parse_port(From(s, close + 2)))
       [] (s = <<>> \/ s[1] # "[") /\ colon > 0 /\ ToSet(after) \subseteq Digits ->
            Made(Upto(s, colon), parse_port(after))
       [] OTHER -> Made(s, default)

DefaultPort == ("udp://" :> "53") @@ ("tcp://" :> "53") @@ ("tls://" :> "853") @@ ("https://" :> "443")
Name == ("udp://" :> "udp") @@ ("tcp://" :> "tcp") @@ ("tls://" :> "tls") @@ ("https://" :> "https")

\* What precedes a token, and what follows it
Before(s, t) == IF t \in ToSet(s) THEN Upto(s, Index(s, t)) ELSE s
After(s, t) == IF t \in ToSet(s) THEN From(s, Index(s, t) + 1) ELSE <<>>

Url(scheme, hp, path, sni) ==
  IF hp = <<>> THEN NoUrl
  ELSE [ok |-> TRUE, scheme |-> scheme, addr |-> hp[1].addr, port |-> hp[1].port, path |-> path,
        sni |-> IF scheme \notin {"tls", "https"} THEN <<>>
                ELSE IF sni # <<>> THEN sni ELSE hp[1].addr]

parse_scheme(scheme, rest, frag) ==
  IF scheme = "rcode://"
  THEN IF rest \in {<<"success">>, <<"refused">>}
       THEN [NoUrl EXCEPT !.ok = TRUE, !.scheme = "rcode", !.sni = rest] ELSE NoUrl
  ELSE Url(Name[scheme],
           parse_host_port(IF scheme = "https://" THEN Before(rest, "/") ELSE rest, DefaultPort[scheme]),
           CASE scheme # "https://" -> <<>>
             [] "/" \in ToSet(rest) -> <<"/">> \o After(rest, "/")
             [] OTHER -> <<"/", "dns-query">>,
           frag)

parse_body(body, frag) ==
  IF body # <<>> /\ body[1] \in {"quic://", "ftp://"} THEN NoUrl
  ELSE IF body # <<>> /\ body[1] \in SchemeTokens THEN parse_scheme(body[1], Tail(body), frag)
  ELSE parse_scheme("udp://", body, frag)

\* NameServerUrl::parse, with parse_tls, parse_https and parse_rcode
parse(s) == IF s = <<>> THEN NoUrl ELSE parse_body(Before(s, "#"), After(s, "#"))

\* NameServerEntry::parse: a fragment of a plain form is the proxy the server is reached through
NoProxy == <<>>
parse_entry(s) ==
  IF "#" \in ToSet(s) /\ s[1] \notin {"tls://", "https://"}
  THEN [url |-> IF After(s, "#") = <<>> THEN NoUrl ELSE parse(Before(s, "#")), proxy |-> After(s, "#")]
  ELSE [url |-> parse(s), proxy |-> NoProxy]

\* Display: the address without brackets, the port always
Display(u) ==
  CASE u.scheme = "udp" -> <<"udp://">> \o u.addr \o <<":", u.port>>
    [] u.scheme = "tcp" -> <<"tcp://">> \o u.addr \o <<":", u.port>>
    [] u.scheme = "tls" -> <<"tls://">> \o u.addr \o <<":", u.port, "#">> \o u.sni
    [] u.scheme = "https" -> <<"https://">> \o u.addr \o <<":", u.port>> \o u.path \o <<"#">> \o u.sni
    [] u.scheme = "rcode" -> <<"rcode://">> \o u.sni

\* Faulty variant: the address is not bracketed
authority_label_bare(addr, port, default) ==
  addr \o (IF port = default THEN <<>> ELSE <<":", port>>)

\* encrypted_upstream_label and authority_label: an IPv6 address in brackets, a default port and
\* a server name equal to the address left out
authority_label(addr, port, default) ==
  (IF addr \in V6Texts THEN <<"[">> \o addr \o <<"]">> ELSE addr)
    \o (IF port = default THEN <<>> ELSE <<":", port>>)
encrypted_upstream_label(u) ==
  (IF u.scheme = "tls" THEN <<"tls://">> \o authority_label(u.addr, u.port, "853")
   ELSE <<"https://">> \o authority_label(u.addr, u.port, "443") \o u.path)
    \o (IF u.sni # u.addr THEN <<"#">> \o u.sni ELSE <<>>)

Texts ==
  {sch \o host \o port \o path \o frag :
     sch \in {<<>>, <<"udp://">>, <<"tcp://">>, <<"tls://">>, <<"https://">>, <<"rcode://">>, <<"quic://">>},
     host \in {<<>>, <<"dns.example">>, <<"9.9.9.9">>, <<":", ":", "1">>, <<"[", ":", ":", "1", "]">>,
               <<"[", "dns.example", "]">>, <<"[", ":">>, <<"refused">>},
     port \in {<<>>, <<":">>, <<":", "53">>, <<":", "443">>, <<":", "0">>, <<":", "70000">>},
     path \in {<<>>, <<"/", "q">>}, frag \in {<<>>, <<"#">>, <<"#", "sni">>}}

\* An accepted nameserver reads back as itself from the text an error message or a log shows for
\* it, and an encrypted one from its upstream label too; every accepted address is an address or
\* a non-empty name with a port in range (upstream.rs parse, Display; resolver.rs
\* encrypted_upstream_label).
UrlsReadBack ==
  \A s \in Texts :
    \A e \in {parse_entry(s)} :
    \A u \in {e.url} :
      u.ok =>
        /\ parse(Display(u)) = u
        /\ u.scheme \in {"tls", "https"} => parse(encrypted_upstream_label(u)) = u /\ u.sni # <<>>
        /\ u.scheme # "rcode" => u.addr # <<>> /\ u.port \in Ports
        /\ e.proxy # NoProxy => u.scheme \notin {"tls", "https"}

---------------------------------------------------------------------------
(* Resolver::new_with_bootstrap_with_proxies.                                 *)
Encrypted(u) == u.scheme \in {"tls", "https"}
\* Faulty variant of needs_bootstrap: only encrypted servers are resolved
needs_bootstrap_encrypted(u) == Encrypted(u) /\ ~IsIp(u.addr)
needs_bootstrap(u) == u.scheme # "rcode" /\ ~IsIp(u.addr)

Panic == <<"panic">>

\* url_to_plain_socketaddr: the client a default nameserver becomes; an encrypted one is asked
\* over UDP on port 53
BootstrapClient(u) ==
  LET addr == IF IsIp(u.addr) THEN u.addr ELSE Panic IN
    CASE u.scheme = "rcode" -> [kind |-> "rcode", addr |-> <<>>, port |-> "0"]
      [] u.scheme \in {"udp", "tcp"} -> [kind |-> u.scheme, addr |-> addr, port |-> u.port]
      [] Encrypted(u) -> [kind |-> "udp", addr |-> addr, port |-> "53"]

\* host_or_ip_to_addr: "bootstrap must resolve all hostnames"
host_or_ip_to_addr(addr, resolved) ==
  IF IsIp(addr) THEN addr ELSE IF addr \in DOMAIN resolved THEN resolved[addr] ELSE Panic

\* build_single_resolver_with_proxy
build_single_resolver(e, resolved) ==
  IF e.url.scheme = "rcode" THEN [kind |-> "rcode", addr |-> <<>>, port |-> "0", proxy |-> e.proxy]
  ELSE [kind |-> e.url.scheme, port |-> e.url.port, proxy |-> e.proxy,
        addr |-> host_or_ip_to_addr(e.url.addr, resolved)]

Refused(why) == [ok |-> FALSE, why |-> why, asked |-> {}, main |-> <<>>, fallback |-> <<>>]

\* system_nameservers: /etc/resolv.conf, or the two built-in servers
system_nameservers == {[kind |-> "udp", addr |-> <<"9.9.9.9">>, port |-> "53"]}

\* known maps the names the bootstrap servers resolve to an address of each
new_with_bootstrap(main, fallback, defaults, registry, known) ==
  LET all == main \o fallback
      wrong == SelectInSeq(all, LAMBDA e : e.proxy # NoProxy
                                   /\ (Encrypted(e.url) \/ e.proxy \notin registry))
      hosts == {e.url.addr : e \in {x \in ToSet(all) : needs_bootstrap(x.url)}}
      servers == IF defaults = <<>> THEN system_nameservers
                 ELSE {BootstrapClient(e.url) : e \in ToSet(defaults)}
      resolved == [h \in hosts |-> known[h]]
      Build(entries) == [i \in DOMAIN entries |-> build_single_resolver(entries[i], resolved)]
  IN IF \E e \in ToSet(defaults) : e.proxy # NoProxy THEN Refused("default through proxy")
     ELSE IF wrong > 0
          THEN Refused(IF Encrypted(all[wrong].url) THEN "encrypted through proxy" ELSE "unknown proxy")
     ELSE IF \E e \in ToSet(defaults) : needs_bootstrap(e.url) THEN Refused("default is a name")
     ELSE IF hosts # {} /\ ({c \in servers : c.kind # "rcode"} = {} \/ ~(hosts \subseteq DOMAIN known))
          THEN Refused("cannot resolve")
     ELSE [ok |-> TRUE, why |-> "", asked |-> IF hosts = {} THEN {} ELSE servers,
           main |-> Build(main), fallback |-> Build(fallback)]

NoDns == [ok |-> FALSE, main |-> <<>>, mode |-> "normal", own |-> FALSE, proxyMain |-> <<>>]
Built(raw, servers, proxies) ==
  IF (raw.proxyServers # <<>> /\ ~proxies.ok) \/ ~servers.ok THEN NoDns
  ELSE [ok |-> TRUE, main |-> servers.main, mode |-> raw.mode,
        own |-> raw.proxyServers # <<>>, proxyMain |-> proxies.main]

parse_lists(raw, l, registry, known) ==
  IF \E k \in DOMAIN l : \E e \in ToSet(l[k]) : ~e.url.ok THEN NoDns
  ELSE Built(raw, new_with_bootstrap(l.nameserver, l.fallback, l.defaults, registry, known),
             new_with_bootstrap(l.proxyServers, <<>>, l.defaults, registry, known))

\* parse_dns: every list is parsed before anything is built; the servers for the names of
\* proxies get a resolver of their own, without fake addresses, policy or fallback
parse_dns(raw, registry, known) ==
  IF ~raw.enable THEN [NoDns EXCEPT !.ok = TRUE, !.main = <<system_nameservers>>]
  ELSE parse_lists(raw, [k \in {"nameserver", "fallback", "defaults", "proxyServers"} |->
                           [i \in DOMAIN raw[k] |-> parse_entry(raw[k][i])]], registry, known)

\* ResolverHostHook::active: who resolves the server names of outbounds
active(dns) == IF dns.own THEN dns.proxyMain ELSE dns.main

SomeTexts ==
  {<<"9.9.9.9">>, <<"dns.example">>, <<"tls://", "dns.example">>, <<"tls://", "9.9.9.9", ":", "443">>,
   <<"rcode://", "refused">>, <<"9.9.9.9", "#", "P">>, <<"https://", "9.9.9.9", "#", "P">>, <<"quic://", "x">>}

\* A configuration that is accepted has a client for every server, with the server's transport
\* and port and an address that was given or resolved: no step reaches a panic or an
\* unreachable!; a server with a proxy is plain and its proxy exists; names are looked up only
\* if there are any; and outbounds resolve their servers through proxy-server-nameserver alone
\* when it is set (resolver.rs new_with_bootstrap_with_proxies, dns_parser.rs parse_dns).
BootstrapTotal ==
  \A main \in {<<x>> : x \in SomeTexts} \cup (SomeTexts \X SomeTexts), fallback \in {<<>>, <<<<"dns.other">>>>},
     own \in {<<>>, <<<<"tls://", "dns.other">>>>}, defaults \in {<<>>} \cup {<<x>> : x \in SomeTexts},
     registry \in {{}, {<<"P">>}}, names \in {{}, {<<"dns.example">>, <<"dns.other">>}} :
    LET raw == [enable |-> TRUE, nameserver |-> main, fallback |-> fallback, defaults |-> defaults,
                proxyServers |-> own, mode |-> "fake-ip"]
        known == [h \in names |-> <<"9.9.9.9">>]
        Parsed(l) == [i \in DOMAIN l |-> parse_entry(l[i])]
    IN \A dns \in {parse_dns(raw, registry, known)} :
       \A all \in {new_with_bootstrap(Parsed(main), Parsed(fallback), Parsed(defaults), registry, known)} :
      /\ dns.ok =>
           /\ all.ok /\ Len(dns.main) = Len(main)
           /\ \A i \in DOMAIN main : \A u \in {parse_entry(main[i]).url}, c \in {dns.main[i]} :
                /\ c.kind = u.scheme /\ c.addr # Panic
                /\ u.scheme # "rcode" => c.port = u.port
                /\ c.proxy # NoProxy => c.proxy \in registry /\ ~Encrypted(u)
           /\ Len(active(dns)) = (IF own = <<>> THEN Len(main) ELSE 1)
      /\ \A c \in all.asked : c.addr # Panic
      /\ (\A s \in ToSet(main \o fallback) : IsIp(parse_entry(s).url.addr)) => all.asked = {}

---------------------------------------------------------------------------
(* NameserverPolicy: what an entry of nameserver-policy inserts, in any order. *)
NoPolicy == [exact |-> [n \in {"x", "sub.x"} |-> 0], wildcard |-> 0, matchers |-> <<>>]



\* "x", "+.x" and a matcher that takes every name.  A wildcard stands for its bare name too,
\* unless that has an entry of its own; an entry inserted later overrides that.
insert(p, kind, e) ==
  CASE kind = "exact" -> [p EXCEPT !.exact["x"] = e]
    [] kind = "wildcard" -> [p EXCEPT !.wildcard = e,
                                      !.exact["x"] = IF @ = 0 THEN e ELSE @]
    [] kind = "matcher" -> [p EXCEPT !.matchers = Append(@, e)]
policy_lookup(p, n) ==
  IF p.exact[n] # 0 THEN p.exact[n]
  ELSE IF n = "sub.x" /\ p.wildcard # 0 THEN p.wildcard
  ELSE IF p.matchers # <<>> THEN Head(p.matchers) ELSE 0

\* The policy of a name does not depend on the order the entries are inserted in, which is that
\* of a map: its own entry, then the wildcard over it, then a matcher (resolver.rs
\* NameserverPolicy).
PolicyOrderFree ==
  \A kinds \in SUBSET {"exact", "wildcard", "matcher"} :
    LET Value == [exact |-> 1, wildcard |-> 2, matcher |-> 3]
        Policy(order) == FoldLeft(LAMBDA p, k : insert(p, k, Value[k]), NoPolicy, order)
        Best(ks) == IF "exact" \in ks THEN 1 ELSE IF "wildcard" \in ks THEN 2
                    ELSE IF "matcher" \in ks THEN 3 ELSE 0
    IN \A order \in SetToSeqs(kinds) :
         /\ policy_lookup(Policy(order), "x") = Best(kinds)
         /\ policy_lookup(Policy(order), "sub.x") = Best(kinds \ {"exact"})
=============================================================================
