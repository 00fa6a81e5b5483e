----------------------------- MODULE MCOutbound -----------------------------
(* What goes out: the mux pool, limited by max-connections while the clock wraps *)
(* or by max-streams alone, and the mux sessions it holds; AnyTLS: its pool of   *)
(* sessions, one session, and the server; the pool of Snell connections, the     *)
(* sessions of VLESS encryption and VMess, and Hysteria2's driver.  They share   *)
(* no variable here, so only the one `part` names takes steps.                   *)
EXTENDS MuxPool, TLC

CONSTANTS c1, c2

VARIABLES part,
  tnow, tpool, tcreated, tunusable, tstreams, tlast, tidled, tlock, tpc, tses, ttries, tclock, tload,
  pnow, live, table, idle, since, ppc, pses, stamp, cpc, cnow, todo, used, doomed, orphans,
  closing, streamTable, rx, inbox, xpc, comp, ack, sshut, fin, queue, free, wpc, cur, buffering, buffer,
  wire, first, torn, extra,
  kind, version, peer, hpc, up, down, sfin, closed, pending, acks, target, cache, wrote, sent,
  replied, read,
  dead, cancel, writer, reader, rcur, budget, smap, lane, swire, unflushed, served, status, over, later, str,
  cclosed, retired, nextSid, done, space, dpc, rd, parked, wbuf, ctable, cqueue, out, csent, jobs, st,
  partial, call, line, acked, hdr, payload, got, ydriver, yreq,
  conns, parking, hour, caller, requests, odd, flow, ticket, time, issued, known, rejected, hy, hs

\* The mux pool of the constants has two callers and one connection, this one three callers and
\* two streams
S == INSTANCE MuxPool WITH
       Callers <- 1..3, MaxConnections <- 0, MinStreams <- 1, MaxStreams <- 2, MaxNow <- 0,
       now <- tnow, pool <- tpool, created <- tcreated, unusable <- tunusable, streams <- tstreams,
       lastUsed <- tlast, idled <- tidled, lock <- tlock, pc <- tpc, ses <- tses, tries <- ttries,
       clock <- tclock, load <- tload

\* Two callers and two sessions; either may expire, or both one after the other
A == INSTANCE AnyTlsPool WITH
       Callers <- {c1, c2}, Sessions <- 1..2, IdleTimeout <- 2, MinIdle <- 0, MaxNow <- 3,
       now <- pnow, pool <- idle, pc <- ppc, ses <- pses, active <- used, streams <- table
\* Two streams of a session whose writer has one permit
X == INSTANCE AnyTlsSession WITH
       Callers <- {c1, c2}, QueuedFrames <- 1, MaxExtra <- 2, table <- streamTable, shut <- sshut, pc <- xpc
\* One stream at the server, two packets or chunks each way
Y == INSTANCE AnyTlsServer WITH Ports <- {1}, MaxSent <- 2, fin <- sfin

\* One stream that reads a byte and writes twice, one that reads two bytes, or two streams of
\* which one reads a byte
R == INSTANCE MuxStreams WITH
       Sids <- 1..1, StreamQueue <- 1, Outbound <- 1, Budget <- 2, MaxServed <- <<1>>, MaxWrites <- <<2>>,
       Requests <- {c1, c2}, MaxLine <- 7, wpc <- writer, rpc <- reader, streams <- smap, wire <- swire,
       closed <- cclosed, table <- ctable, queue <- cqueue, sent <- csent, pending <- partial
V == INSTANCE MuxStreams WITH
       Sids <- 1..1, StreamQueue <- 1, Outbound <- 1, Budget <- 2, MaxServed <- <<2>>, MaxWrites <- <<0>>,
       Requests <- {c1, c2}, MaxLine <- 7, wpc <- writer, rpc <- reader, streams <- smap, wire <- swire,
       closed <- cclosed, table <- ctable, queue <- cqueue, sent <- csent, pending <- partial
W == INSTANCE MuxStreams WITH
       Sids <- 1..2, StreamQueue <- 1, Outbound <- 1, Budget <- 2, MaxServed <- <<1, 0>>,
       MaxWrites <- <<0, 0>>, Requests <- {c1, c2}, MaxLine <- 7, wpc <- writer, rpc <- reader,
       streams <- smap, wire <- swire, closed <- cclosed, table <- ctable, queue <- cqueue,
       sent <- csent, pending <- partial

\* Two callers of one Snell connection, or one of two; one session of either protocol that uses
\* up its nonces, or two that share a ticket
\* while no time passes
E == INSTANCE ProxySessions WITH
       Callers <- {c1, c2}, MaxConns <- 1, MaxRequests <- 3, MaxSize <- 1, MaxUses <- 2,
       MaxAge <- 1, MaxNow <- 1, Flows <- {c1}, Protocols <- {"vless", "vmess"}, MaxRecords <- 4,
       MaxNonce <- 3, Life <- 1, Tickets <- 2, pool <- parking, clock <- hour, cache <- ticket
F == INSTANCE ProxySessions WITH
       Callers <- {c1}, MaxConns <- 2, MaxRequests <- 3, MaxSize <- 2, MaxUses <- 2,
       MaxAge <- 1, MaxNow <- 0, Flows <- {c1, c2}, Protocols <- {"vless"}, MaxRecords <- 1,
       MaxNonce <- 4, Life <- 1, Tickets <- 2, pool <- parking, clock <- hour, cache <- ticket

ASSUME PartAssumptions == MuxAssumption /\ S!MuxAssumption

streamVars == <<tnow, tpool, tcreated, tunusable, tstreams, tlast, tidled, tlock, tpc, tses,
                ttries, tclock, tload>>
muxVars == <<vars, streamVars>>
poolVars == <<pnow, live, table, idle, since, ppc, pses, stamp, cpc, cnow, todo, used, doomed,
              orphans>>
tlsVars == <<closing, streamTable, rx, inbox, xpc, comp, ack, sshut, fin, queue, free, wpc, cur,
                 buffering, buffer, wire, first, torn, extra>>
serverVars == <<kind, version, peer, hpc, up, down, sfin, closed, pending, acks, target, cache, wrote,
                sent, replied, read>>
oldVars == <<muxVars, poolVars, tlsVars, serverVars>>
smuxVars == <<dead, cancel, writer, reader, rcur, budget, smap, lane, swire, unflushed, served, status,
              over, later, str>>
coolVars == <<cclosed, retired, nextSid, done, space, dpc, rd, parked, wbuf, ctable, cqueue, out, csent,
              jobs, st>>
packetVars == <<partial, call, line, acked, hdr, payload, got>>
yamuxVars == <<ydriver, yreq>>
snellVars == <<conns, parking, hour, caller, requests, odd>>
encVars == <<flow, ticket, time, issued, known, rejected>>
hyVars == <<hy, hs>>
proxyVars == <<snellVars, encVars, hyVars>>
muxedVars == <<smuxVars, coolVars, packetVars, yamuxVars>>
restVars == <<muxedVars, proxyVars>>
MCvars == <<part, oldVars, restVars>>

\* What a component that takes no step is pinned to
PinMux ==
  /\ tnow = 0 /\ tpool = 0 /\ tcreated = 0 /\ tunusable = 0 /\ tstreams = 0 /\ tlast = 0
  /\ tidled = 0 /\ tlock = 0 /\ tpc = 0 /\ tses = 0 /\ ttries = 0 /\ tclock = 0 /\ tload = 0
PinSession ==
  /\ closing = 0 /\ streamTable = 0 /\ rx = 0 /\ inbox = 0 /\ xpc = 0 /\ comp = 0 /\ ack = 0
  /\ sshut = 0 /\ fin = 0 /\ queue = 0 /\ free = 0 /\ wpc = 0 /\ cur = 0 /\ buffering = 0
  /\ buffer = 0 /\ wire = 0 /\ first = 0 /\ torn = 0 /\ extra = 0
PinServer ==
  /\ kind = 0 /\ version = 0 /\ peer = 0 /\ hpc = 0 /\ up = 0 /\ down = 0 /\ sfin = 0
  /\ closed = 0 /\ pending = 0 /\ acks = 0 /\ target = 0 /\ cache = 0 /\ wrote = 0 /\ sent = 0
  /\ replied = 0 /\ read = 0
PinSmux ==
  /\ dead = 0 /\ cancel = 0 /\ writer = 0 /\ reader = 0 /\ rcur = 0 /\ budget = 0 /\ smap = 0
  /\ lane = 0 /\ swire = 0 /\ unflushed = 0 /\ served = 0 /\ status = 0 /\ over = 0 /\ later = 0
  /\ str = 0
PinCool ==
  /\ cclosed = 0 /\ retired = 0 /\ nextSid = 0 /\ done = 0 /\ space = 0 /\ dpc = 0 /\ rd = 0
  /\ parked = 0 /\ wbuf = 0 /\ ctable = 0 /\ cqueue = 0 /\ out = 0 /\ csent = 0 /\ jobs = 0
  /\ st = 0
PinPacket ==
  /\ partial = 0 /\ call = 0 /\ line = 0 /\ acked = 0 /\ hdr = 0 /\ payload = 0 /\ got = 0
PinYamux ==
  /\ ydriver = 0 /\ yreq = 0
PinSnell ==
  /\ conns = 0 /\ parking = 0 /\ hour = 0 /\ caller = 0 /\ requests = 0 /\ odd = 0
PinEnc ==
  /\ flow = 0 /\ ticket = 0 /\ time = 0 /\ issued = 0 /\ known = 0 /\ rejected = 0

\* "pure" takes no step: in its one state the properties of pure functions are evaluated
MCInit ==
  /\ part \in {"connections", "streams", "pool", "session", "server", "smux", "smux2", "smux3",
              "muxcool", "packet", "yamux", "snell", "snell2", "records", "tickets", "hysteria2", "pure"}
  /\ Init /\ A!Init
  /\ IF part = "streams" THEN S!Init ELSE PinMux
  /\ IF part = "session" THEN X!Init ELSE PinSession
  /\ IF part = "server" THEN Y!Init ELSE PinServer
  /\ CASE part = "smux2" -> W!SmuxInit [] part \in {"smux", "smux3"} -> R!SmuxInit [] OTHER -> PinSmux
  /\ IF part = "muxcool" THEN R!CoolInit ELSE PinCool
  /\ IF part = "packet" THEN R!PacketInit ELSE PinPacket
  /\ IF part = "yamux" THEN R!YamuxInit ELSE PinYamux
  /\ CASE part = "snell" -> E!SnellInit [] part = "snell2" -> F!SnellInit [] OTHER -> PinSnell
  /\ CASE part = "records" -> E!EncInit [] part = "tickets" -> F!EncInit [] OTHER -> PinEnc
  /\ IF part = "hysteria2" THEN F!HyInit ELSE hy = 0 /\ hs = 0

In(name, others) == part = name /\ UNCHANGED <<part, others>>

MCNext ==
  \/ In("connections", <<streamVars, poolVars, tlsVars, serverVars, restVars>>) /\ Next
  \/ In("streams", <<vars, poolVars, tlsVars, serverVars, restVars>>) /\ S!Next
  \/ In("pool", <<muxVars, tlsVars, serverVars, restVars>>) /\ A!Next
  \/ In("session", <<muxVars, poolVars, serverVars, restVars>>) /\ X!Next
  \/ In("smux", <<oldVars, coolVars, packetVars, yamuxVars, proxyVars>>) /\ R!SmuxNext
  \/ In("smux2", <<oldVars, coolVars, packetVars, yamuxVars, proxyVars>>) /\ W!SmuxNext
  \/ In("smux3", <<oldVars, coolVars, packetVars, yamuxVars, proxyVars>>) /\ V!SmuxNext
  \/ In("muxcool", <<oldVars, smuxVars, packetVars, yamuxVars, proxyVars>>) /\ R!CoolNext
  \/ In("packet", <<oldVars, smuxVars, coolVars, yamuxVars, proxyVars>>) /\ R!PacketNext
  \/ In("yamux", <<oldVars, smuxVars, coolVars, packetVars, proxyVars>>) /\ R!YamuxNext
  \/ In("snell", <<oldVars, muxedVars, encVars, hyVars>>) /\ E!SnellNext
  \/ In("snell2", <<oldVars, muxedVars, encVars, hyVars>>) /\ F!SnellNext
  \/ In("records", <<oldVars, muxedVars, snellVars, hyVars>>) /\ E!EncNext
  \/ In("tickets", <<oldVars, muxedVars, snellVars, hyVars>>) /\ F!EncNext
  \/ In("hysteria2", <<oldVars, muxedVars, snellVars, encVars>>) /\ F!HyNext
  \/ In("server", <<muxVars, poolVars, tlsVars, restVars>>) /\ Y!Next

MCSpec == MCInit /\ [][MCNext]_MCvars

\* The callers of AnyTLS, of Snell and of the encryption client are interchangeable
Symmetry == Permutations({c1, c2})

---------------------------------------------------------------------------

\* A cleanup closes no session between its hand-out and its first stream, and a session that is
\* open is in use, in the pool, or on its way there (AnyTlsPool).
PoolRetires == [](part = "pool" => A!TypeOK /\ A!NoneForgotten) /\ A!RetiresOnlyUnused

=============================================================================
