------------------------------ MODULE MCDatapath ------------------------------
(* What carries the traffic: the setup of TCP flows against reloads and closes   *)
(* (TcpAdmission, extended), their relay, with writers of two sizes, and the     *)
(* adapters their streams are wrapped in.  They share no variable here, so only  *)
(* the one `part` names takes steps.                                             *)
EXTENDS TcpAdmission, Sequences, TLC

VARIABLES part,
  sent, eof, taken, staged, got, buf, size, amt, readDone, needFlush, finished,
  rpc, parked, progressed, cycles, start, woken, wakers, timer, armed, mark, quiet, over,
  layer, kinds, unsent, call, wrote, w, r, given, said, flushed, cut

\* Writers that take two bytes at a time; that take one, so that more arrives while the
\* buffer is not empty
R == INSTANCE Relay WITH
       MaxBytes <- 3, BufSize <- 1, BulkBufSize <- 2, BulkUpgradeBytes <- 1,
       CyclesPerPoll <- 3, BytesPerPoll <- 2, Room <- 2, pc <- rpc
T == INSTANCE Relay WITH
       MaxBytes <- 3, BufSize <- 1, BulkBufSize <- 2, BulkUpgradeBytes <- 1,
       CyclesPerPoll <- 3, BytesPerPoll <- 2, Room <- 1, pc <- rpc

\* The adapters over a connection that takes and delivers a few bytes at a time; Vision, whose
\* stack is three adapters deep, over one that takes all or nothing
L == INSTANCE StreamLayers WITH
       Layers <- {"http", "http-server", "tls", "tls-server", "reality", "vless", "vless-udp",
                  "snell-v3", "snell-v4", "snell-udp", "gun", "h2", "ws"},
       Payload <- 3, MaxWrite <- 2, Rooms <- {0, 2, 40}, Pieces <- {1, 2, 40}, got <- given, todo <- unsent
V == INSTANCE StreamLayers WITH
       Layers <- {"vision"},
       Payload <- 3, MaxWrite <- 2, Rooms <- {0, 40}, Pieces <- {3, 40}, got <- given, todo <- unsent

ASSUME PartAssumptions == R!RelayAssumption /\ T!RelayAssumption

relayVars == <<sent, eof, taken, staged, got, buf, size, amt, readDone, needFlush, finished,
               rpc, parked, progressed, cycles, start, woken, wakers, timer, armed, mark,
               quiet, over>>
layerVars == <<layer, kinds, unsent, call, wrote, w, r, given, said, flushed, cut>>
MCvars == <<part, vars, relayVars, layerVars>>

MCInit ==
  /\ part \in {"admission", "relay", "stalled", "layers", "vision"}
  /\ Init /\ R!Init
  /\ CASE part = "vision" -> V!Init
       [] part = "layers" -> L!Init
       [] OTHER -> /\ layer = 0 /\ kinds = 0 /\ unsent = 0 /\ call = 0 /\ wrote = 0 /\ w = 0
                   /\ r = 0 /\ given = 0 /\ said = 0 /\ flushed = 0 /\ cut = 0
  /\ part # "admission" => needsIp = FALSE /\ mode = "rule"

\* Only TcpAdmission must never run out of steps
MCNext ==
  \/ part = "admission" /\ Next /\ UNCHANGED <<part, relayVars, layerVars>>
  \/ part = "relay" /\ R!Next /\ UNCHANGED <<part, vars, layerVars>>
  \/ part = "stalled" /\ T!Next /\ UNCHANGED <<part, vars, layerVars>>
  \/ part = "layers" /\ L!Next /\ UNCHANGED <<part, vars, relayVars>>
  \/ part = "vision" /\ V!Next /\ UNCHANGED <<part, vars, relayVars>>
  \/ part # "admission" /\ UNCHANGED MCvars

MCSpec == MCInit /\ [][MCNext]_MCvars

\* Connections are interchangeable, and so are API tasks
Symmetry == Permutations(Conns) \cup Permutations(Admins)

---------------------------------------------------------------------------
\* No byte is lost, invented or reordered on its way: not by the relay, in either direction
\* (Relay), and not by an adapter, which also stays in step with its peer, ends a stream
\* only when it ended, reports a cut inside a frame and flushes what it accepted
\* (StreamLayers).
InOrder ==
  /\ part \in {"relay", "stalled"} => R!InOrder
  /\ part = "layers" => L!InOrder /\ L!InStep /\ L!EndIsEnd /\ L!CutIsSeen /\ L!FlushSends
  /\ part = "vision" => V!InOrder /\ V!InStep /\ V!EndIsEnd /\ V!CutIsSeen /\ V!FlushSends

\* A parked relay has a waker for whatever it can still do, a poll does a bounded amount
\* of work, and the linger reaps only a silent connection (Relay).
RelayWatches ==
  /\ part = "relay" => R!NoLostWakeup /\ R!PollBounded /\ R!ReapsOnlySilent
  /\ part = "stalled" => T!NoLostWakeup /\ T!PollBounded /\ T!ReapsOnlySilent
=============================================================================
