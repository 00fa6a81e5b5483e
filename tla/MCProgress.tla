----------------------------- MODULE MCProgress -----------------------------
(* What must eventually happen, in every component for which the code's        *)
(* scheduling justifies fairness (TcpAdmission is extended).  The components   *)
(* share no variable here, so only the one `part` names takes steps, and each  *)
(* fairness condition is owed only in its own part.                            *)
EXTENDS TcpAdmission, Sequences, TLC

CONSTANTS Parts,      \* the components considered
          c2, m1, m2, h1, h2, NoSet, Open

VARIABLES part,
  \* Relay
  sent, eof, taken, staged, got, buf, size, amt, readDone, needFlush, finished,
  rpc, parked, progressed, cycles, start, woken, wakers, timer, armed, mark, quiet, over,
  \* MuxPool
  now, pool, created, unusable, streams, lastUsed, idled, lock, mpc, ses, tries, clock, load,
  \* DnsPipeline
  want, gatedName, tier, answer, done, timedOut, kept, graced, negative, result, sets,
  \* DnsFlight
  hit, flight, dpc, dwant, lead, box, dresult, evicted,
  \* FakeIpFile
  entries, savedOffset, savedCycle, reverse, dirty, permit, prefix, offset, cycle, flock,
  host, cand, victim, lpc, fpc, bpc, bsnap, xpc, tmp, disk, failures, restarts, allocs,
  \* GroupHealth
  alive, last, probe, current, gen, dialing, loop, seen, lastProbed, present, reloads, apis, used

R == INSTANCE Relay WITH
       MaxBytes <- 1, BufSize <- 1, BulkBufSize <- 2, BulkUpgradeBytes <- 1,
       CyclesPerPoll <- 2, BytesPerPoll <- 2, Room <- 2, pc <- rpc
M == INSTANCE MuxPool WITH
       Callers <- {1, 2}, Sessions <- {1, 2}, MaxConnections <- 2, MinStreams <- 1,
       MaxStreams <- 1, IdleTimeout <- 1, Width <- 2, MaxNow <- 0, pc <- mpc
P == INSTANCE DnsPipeline WITH
       Clients <- [policy |-> {}, main |-> {m1, m2}, fallback |-> {}], got <- answer,
       armed <- graced
F == INSTANCE DnsFlight WITH
       Callers <- Conns \cup {c2}, Kind <- [c \in Conns \cup {c2} |-> "A"], pc <- dpc,
       want <- dwant, result <- dresult
I == INSTANCE FakeIpFile WITH
       Lookers <- {c2}, Flushers <- {}, Hosts <- {h1, h2}, Networks <- {<<8, 8>>}, Word <- 16,
       MaxFailures <- 1, MaxRestarts <- 1, MaxAllocs <- 2, lock <- flock, pc <- lpc, dpc <- xpc
\* A lazy group, and one that is probed at every tick
L == INSTANCE GroupHealth WITH
       Members <- {m1, m2}, Works <- {m1}, GroupType <- "url-test", Lazy <- TRUE,
       Concurrency <- 1, Permits <- 1, MaxGen <- 2, MaxReloads <- 0, MaxApi <- 1
S == INSTANCE GroupHealth WITH
       Members <- {m1, m2}, Works <- {m1}, GroupType <- "url-test", Lazy <- FALSE,
       Concurrency <- 1, Permits <- 1, MaxGen <- 1, MaxReloads <- 0, MaxApi <- 0

relayVars == <<sent, eof, taken, staged, got, buf, size, amt, readDone, needFlush, finished,
               rpc, parked, progressed, cycles, start, woken, wakers, timer, armed, mark,
               quiet, over>>
muxVars == <<now, pool, created, unusable, streams, lastUsed, idled, lock, mpc, ses, tries,
             clock, load>>
pipelineVars == <<want, gatedName, tier, answer, done, timedOut, kept, graced, negative,
                  result, sets>>
flightVars == <<hit, flight, dpc, dwant, lead, box, dresult, evicted>>
fileVars == <<entries, savedOffset, savedCycle, reverse, dirty, permit, prefix, offset, cycle,
              flock, host, cand, victim, lpc, fpc, bpc, bsnap, xpc, tmp, disk, failures,
              restarts, allocs>>
healthVars == <<alive, last, probe, current, gen, dialing, loop, seen, lastProbed, present,
                reloads, apis, used>>
MCvars == <<part, vars, relayVars, muxVars, pipelineVars, flightVars, fileVars, healthVars>>

MCInit ==
  /\ part \in Parts
  /\ Init /\ R!Init /\ M!Init /\ P!Init /\ F!Init /\ I!Init
  /\ IF part = "sweep" THEN S!Init ELSE L!Init
  /\ part # "tcp" => ~needsIp /\ mode = "rule"
  /\ part # "pipeline" => want = {"v4"} /\ ~gatedName

In(name, others) == part = name /\ UNCHANGED <<part, others>>

MCNext ==
  \/ In("tcp", <<relayVars, muxVars, pipelineVars, flightVars, fileVars, healthVars>>) /\ Next
  \/ In("relay", <<vars, muxVars, pipelineVars, flightVars, fileVars, healthVars>>) /\ R!Next
  \/ In("mux", <<vars, relayVars, pipelineVars, flightVars, fileVars, healthVars>>) /\ M!Next
  \/ In("pipeline", <<vars, relayVars, muxVars, flightVars, fileVars, healthVars>>) /\ P!Next
  \/ In("flight", <<vars, relayVars, muxVars, pipelineVars, fileVars, healthVars>>) /\ F!Next
  \/ In("file", <<vars, relayVars, muxVars, pipelineVars, flightVars, healthVars>>) /\ I!Next
  \/ In("lazy", <<vars, relayVars, muxVars, pipelineVars, flightVars, fileVars>>) /\ L!Next
  \/ In("sweep", <<vars, relayVars, muxVars, pipelineVars, flightVars, fileVars>>) /\ S!Next

---------------------------------------------------------------------------
(* The fairness of the components.  MuxPool and GroupHealth ask for strong     *)
(* fairness of a mutex and of a semaphore; with the bounded numbers of callers *)
(* and delay tests here, weak fairness is enough.                              *)

TunnelFairness ==
  /\ \A c \in Conns : WF_vars(part = "tcp" /\ TaskStep(c))
  /\ \A a \in Admins : WF_vars(part = "tcp" /\ AdminStep(a))
  /\ WF_relayVars(part = "relay" /\ R!Task) /\ WF_relayVars(part = "relay" /\ R!TimerExpires)
  /\ \A d \in {"ab", "ba"} : WF_relayVars(part = "relay" /\ R!Due(d) /\ R!Transmit(d))
  /\ \A c \in {1, 2} : WF_muxVars(part = "mux" /\ M!Offer(c))

DnsFairness ==
  /\ WF_pipelineVars(part = "pipeline" /\ P!Race)
  /\ WF_pipelineVars(part = "pipeline" /\ P!PoolExhausted)
  /\ WF_pipelineVars(part = "pipeline" /\ P!GraceElapsed)
  /\ \A c \in Conns \cup {c2} : WF_flightVars(part = "flight" /\ F!Step(c))
  /\ WF_fileVars(part = "file" /\ lpc[c2] # "idle" /\ I!LookupStep(c2))
  /\ WF_fileVars(part = "file" /\ I!PersistStep)

HealthFairness ==
  /\ WF_healthVars(part = "lazy" /\ L!Tick) /\ WF_healthVars(part = "lazy" /\ L!Round)
  /\ WF_healthVars(part = "sweep" /\ S!Tick) /\ WF_healthVars(part = "sweep" /\ S!Round)
  /\ \A p \in {"loop", "api"}, m \in {m1, m2} : WF_healthVars(part = "lazy" /\ L!ProbeOf(p, m))
  /\ \A m \in {m1, m2} : WF_healthVars(part = "sweep" /\ S!ProbeOf("loop", m))

MCSpec == MCInit /\ [][MCNext]_MCvars /\ TunnelFairness /\ DnsFairness /\ HealthFairness

---------------------------------------------------------------------------
\* A flow made stale by a reload, or signalled by a close, ends (TcpAdmission).
FlowsEnd == StaleFlowsEnd /\ SignalledFlowsEnd
\* What a peer sent reaches the other although nothing more is sent (Relay).
Delivered == R!Delivered
\* A caller that waits in offer gets a session or an error (MuxPool).
OfferTerminates == M!OfferTerminates
\* Every lookup returns, whoever is cancelled, and a tier that holds a negative moves on
\* although its servers hang (DnsFlight, DnsPipeline).
LookupsReturn == F!LookupReturns /\ P!NegativeSettles
\* An allocation that lasts reaches the disk (FakeIpFile).
AllocationsReachDisk == I!AllocationsReachDisk
=============================================================================
