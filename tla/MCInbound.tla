----------------------------- MODULE MCInbound -----------------------------
(* What comes in: the HTTP proxy, the accept loops and UDP relays of the       *)
(* listeners (Inbound), the TUN listener (TunStack), and the NAT table of the  *)
(* UDP flows they bring (UdpNat).  They share no variable here, so only the    *)
(* one `part` names takes steps.                                               *)
EXTENDS UdpNat

CONSTANTS Parts,      \* the components considered
  c1, c2, p1, p2, p3, d1, d2, Error

VARIABLES part,
  req, csent, ceof, bufPos, sock, rem, clientEof, held, heldPos, disc, fwd, fin, items, rq, ueof,
  rstate, pending, declined, responseDone, gate, sentResp, cgot, room, up, dn, awake, again, over,
  setup, permits, loop, warned, conn, lnow, relay, open, endpoint, flows, at, clock,
  pcb, ctx, dead, cmds, entry, wq, segs, readTx, app, wire, acked, client, owed, core, misuse,
  ctl, task, holds, pumps, overlap, iface, file, side, backup, torn, crashes,
  came, newest, queue, flow, upstream, dropped, reader

\* The smallest numbers for which every limit of the HTTP proxy is met
H == INSTANCE HttpProxy WITH
       MaxBytes <- 4, MaxItems <- 2, Limit <- 2, MaxHead <- 5, MaxLine <- 6, MaxTrailers <- 6,
       MaxSize <- 3
\* Two connections compete for one permit; two clients on one address and one elsewhere
L == INSTANCE Inbound WITH
       Conns <- {c1, c2}, MaxConns <- 1, Handshake <- 2, SniffTime <- 1, MaxNow <- 5,
       Peers <- {p1, p2, p3}, Client <- p1, Sibling <- p2, Dsts <- {d1, d2}, MaxFlows <- 1,
       Idle <- 2, Width <- 9, now <- lnow
\* One stream, two listeners after each other, four datagrams of an address pair
U == INSTANCE TunStack WITH
       Chunks <- 2, Room <- 3, WriteQueue <- 2, Segments <- 2, MaxKicks <- 3, MaxGens <- 2,
       MaxCrashes <- 1, MaxDatagrams <- 4, FlowQueue <- 2, rq <- segs

\* Of the NAT table: three datagrams of one flow (flows do not interact), three sessions
MCFlowOf == [p \in 1..3 |-> c1]

ASSUME NatAssumptions == FlowAssumption /\ NoneAssumption /\ TimeAssumption

httpVars == <<req, csent, ceof, bufPos, sock, rem, clientEof, held, heldPos, disc, fwd, fin, items,
              rq, ueof, rstate, pending, declined, responseDone, gate, sentResp, cgot, room, up, dn,
              awake, again, over>>
acceptVars == <<setup, permits, loop, warned, conn, lnow>>
relayVars == <<relay, open, endpoint, flows, at, clock>>
streamVars == <<pcb, ctx, dead, cmds, entry, wq, segs, readTx, app, wire, acked, client, owed, core,
                misuse>>
tunVars == <<ctl, task, holds, pumps, overlap, iface, file, side, backup, torn, crashes>>
flowVars == <<came, newest, queue, flow, upstream, dropped, reader>>
MCvars == <<part, httpVars, acceptVars, relayVars, streamVars, tunVars, flowVars, vars>>

\* "pure" takes no step: in its one state the properties of pure functions are evaluated
MCInit ==
  /\ part \in Parts
  /\ H!Init /\ L!AcceptInit /\ L!UdpInit /\ U!StreamInit /\ U!GenInit /\ U!UdpFlowInit /\ Init
  /\ part # "http" => req = [upgrade |-> FALSE, body |-> 0, left |-> 0]
  /\ part # "accept" => setup = [kind |-> "mixed", auth |-> TRUE, sniff |-> TRUE]
  /\ part # "relay" => relay = [shared |-> TRUE, wanted |-> None]

In(name, others) == part = name /\ UNCHANGED <<part, others>>
tun == <<streamVars, tunVars, flowVars, vars>>

MCNext ==
  \/ In("http", <<acceptVars, relayVars, tun>>) /\ H!Next
  \/ In("accept", <<httpVars, relayVars, tun>>) /\ L!AcceptNext
  \/ In("relay", <<httpVars, acceptVars, tun>>) /\ L!UdpNext
  \/ In("stream", <<httpVars, acceptVars, relayVars, tunVars, flowVars, vars>>) /\ U!StreamNext
  \/ In("tun", <<httpVars, acceptVars, relayVars, streamVars, flowVars, vars>>) /\ U!GenNext
  \/ In("flows", <<httpVars, acceptVars, relayVars, streamVars, tunVars, vars>>) /\ U!UdpFlowNext
  \/ In("nat", <<httpVars, acceptVars, relayVars, streamVars, tunVars, flowVars>>) /\ Next

MCSpec == MCInit /\ [][MCNext]_MCvars

---------------------------------------------------------------------------
\* The origin gets the body of one request and nothing behind it unless it agreed to an
\* upgrade, the client gets one final response, and the relay never waits for what it would
\* not be woken by.  Heads and chunked bodies are read alike in whatever pieces they arrive,
\* framing is decided without ambiguity, and what is rewritten keeps the message (HttpProxy).
HttpSound ==
  /\ part = "http" => H!OneRequest /\ H!OneResponse /\ H!NeverStuck
  /\ part = "pure" => H!MessagesExact


\* A sweep of a UDP relay evicts only a flow that is idle, or one that was used between the
\* sweep's reading of the clock and of the flow's mark (Inbound).
LeavesIdleOrRaced == L!LeavesIdleOrRaced

\* lwIP is never called on a connection that it has freed, what is written and read is whole
\* and in order, no write is forgotten, and nothing stays allocated (TunStack).
StreamSound ==
  part = "stream" =>
    U!NoUseAfterFree /\ U!WritesWhole /\ U!ReadsWhole /\ U!WritesPending /\ U!NothingLeaks


\* While a listener runs, its default routes stand only with the outbound interface bound,
\* which keeps the proxy's own connections out of the tunnel (TunStack).
DefaultRoutesBound == part = "tun" => U!DefaultRoutesBound
=============================================================================
