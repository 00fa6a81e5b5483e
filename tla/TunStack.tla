------------------------------ MODULE TunStack ------------------------------
(***************************************************************************)
(* The TUN inbound.                                                        *)
(*                                                                         *)
(* 1. One TCP stream of the userspace stack: the handle that a flow's task *)
(* uses (meow-lwip/rust/tcp_stream.rs), the command queue, the core task   *)
(* that alone calls lwIP (core.rs) and lwIP itself, which is external and  *)
(* reports data, acknowledgements, polls and failures through callbacks.   *)
(* Bytes are numbered in the order they were written; a chunk has two.     *)
(*                                                                         *)
(* 2. The listener's start and stop (meow-listener/src/tun/mod.rs), one    *)
(* generation per enabling of `tun`: device, interface binding, routes,    *)
(* resolver file (tun/dns.rs), pumps, on Linux with global routes.         *)
(*                                                                         *)
(* 3. The datagrams of one address pair (tun/udp.rs).                      *)
(***************************************************************************)
EXTENDS Integers, Sequences, FiniteSets, SequencesExt

CONSTANTS
  Chunks,       \* chunks that the flow's task writes
  Room,         \* lwIP's send buffer, in bytes
  WriteQueue,   \* WRITE_CHAN_CAP
  Segments,     \* segments that the client sends
  MaxKicks,     \* bound on commands that wait at the same time
  MaxGens,      \* times that the listener is started
  MaxCrashes,   \* times that the process is killed
  MaxDatagrams, \* datagrams of the address pair
  FlowQueue     \* FLOW_QUEUE

VARIABLES
  pcb,     \* lwIP's connection: "none", "open", "closed" (detached) or "freed"
  ctx,     \* the callback context: "none", "live" or "freed"
  dead,    \* the flag shared by the context and the core
  cmds,    \* commands waiting for the core
  entry,   \* the core's StreamState: [in, parked, shut]
  wq,      \* StreamCmds of the handle; an empty chunk is Shutdown
  rq,      \* segments for the handle; an empty one is the end of the stream
  readTx,  \* the context still has the sender of rq
  app,     \* the handle and its task: [wrote, shut, open, got, left, eof, failed]
  wire,    \* bytes that lwIP accepted
  acked,   \* how many of them the client acknowledged
  client,  \* [sent, fin]: segments that the client sent, and its FIN
  owed,    \* segments received and not credited to the window
  core,    \* "runs" or "done"
  misuse   \* a call was made on a freed connection or context

streamVars == <<pcb, ctx, dead, cmds, entry, wq, rq, readTx, app, wire, acked,
                client, owed, core, misuse>>

Chunk(i) == <<2 * i - 1, 2 * i>>
Shutdown == <<>>
Eof == <<>>

StreamInit ==
  /\ pcb = "none" /\ ctx = "none" /\ dead = FALSE /\ cmds = <<>>
  /\ entry = [in |-> FALSE, parked |-> <<>>, shut |-> FALSE]
  /\ wq = <<>> /\ rq = <<>> /\ readTx = FALSE
  /\ app = [wrote |-> 0, shut |-> FALSE, open |-> FALSE, got |-> <<>>, left |-> <<>>,
            eof |-> FALSE, failed |-> FALSE]
  /\ wire = <<>> /\ acked = 0 /\ client = [sent |-> 0, fin |-> FALSE] /\ owed = 0
  /\ core = "runs" /\ misuse = FALSE

Command(c) == cmds' = Append(cmds, c)

----------------------------------------------------------------------------
(* lwIP, inside the core's calls of input and sys_check_timeouts.  A        *)
(* callback is made only while the connection has its context.              *)

Attached == core = "runs" /\ pcb = "open"

tcp_accept_cb ==
  /\ core = "runs" /\ pcb = "none"
  /\ pcb' = "open" /\ ctx' = "live" /\ readTx' = TRUE
  /\ app' = [app EXCEPT !.open = TRUE]
  /\ Command("new")
  /\ UNCHANGED <<dead, entry, wq, rq, wire, acked, client, owed, core, misuse>>

\* A segment, or the client's FIN, after which the receive side is silent.
tcp_recv_cb ==
  /\ Attached /\ ~client.fin
  /\ \/ /\ client.sent < Segments
        /\ client' = [client EXCEPT !.sent = @ + 1]
        /\ owed' = owed + 1
        /\ rq' = IF readTx /\ app.open THEN Append(rq, Chunk(client.sent + 1)) ELSE rq
     \/ /\ client' = [client EXCEPT !.fin = TRUE]
        /\ rq' = IF readTx /\ app.open THEN Append(rq, Eof) ELSE rq
        /\ UNCHANGED owed
  /\ misuse' = (misuse \/ ctx = "freed")
  /\ UNCHANGED <<pcb, ctx, dead, cmds, entry, wq, readTx, app, wire, acked, core>>

\* The client acknowledges; the callback asks the core to try again.
tcp_sent_cb ==
  /\ core = "runs" /\ pcb \in {"open", "closed"} /\ acked < Len(wire)
  /\ acked' = Len(wire)
  /\ cmds' = IF pcb = "open" THEN Append(cmds, "sent") ELSE cmds
  /\ misuse' = (misuse \/ (pcb = "open" /\ ctx = "freed"))
  /\ UNCHANGED <<pcb, ctx, dead, entry, wq, rq, readTx, app, wire, client, owed, core>>

tcp_poll_cb ==
  /\ Attached /\ Len(cmds) < MaxKicks
  /\ Command("poll")
  /\ misuse' = (misuse \/ ctx = "freed")
  /\ UNCHANGED <<pcb, ctx, dead, entry, wq, rq, readTx, app, wire, acked, client, owed,
                 core>>

\* A reset or a timeout: lwIP has already freed the connection.
tcp_err_cb ==
  /\ core = "runs" /\ pcb \in {"open", "closed"}
  /\ pcb' = "freed"
  /\ IF pcb = "open"
     THEN dead' = TRUE /\ readTx' = FALSE /\ Command("err")
     ELSE UNCHANGED <<dead, readTx, cmds>>
  /\ misuse' = (misuse \/ (pcb = "open" /\ ctx = "freed"))
  /\ UNCHANGED <<ctx, entry, wq, rq, app, wire, acked, client, owed, core>>

----------------------------------------------------------------------------
(* The core task: one command at a time.                                    *)

pcb_alive == ~dead

\* finish_stream and abort_stream: detach, then close or abort; the entry
\* leaves the map and the context is freed.
Finish(graceful) ==
  /\ entry' = [in |-> FALSE, parked |-> <<>>, shut |-> FALSE]
  /\ pcb' = IF pcb_alive THEN IF graceful THEN "closed" ELSE "freed" ELSE pcb
  /\ ctx' = "freed"
  /\ readTx' = FALSE
  /\ wq' = <<>>
  /\ misuse' = (misuse \/ ctx = "freed" \/ (pcb_alive /\ pcb = "freed"))

\* drain_writes tries the parked rest and then what the handle queued.
\* `n` is what lwIP takes now: no more than its buffer holds, less when it is
\* out of segments (ERR_MEM).
Queued == FlattenSeq(<<entry.parked>> \o wq)
ShutIn(q) == \E i \in DOMAIN q : q[i] = Shutdown

\* Everything was taken.  A Shutdown in the queue is done or refused; when the
\* handle is gone too, the stream is finished.
DrainAll ==
  /\ Len(Queued) <= Room - (Len(wire) - acked)
  /\ wire' = wire \o Queued
  /\ \E ok \in IF ShutIn(wq) THEN BOOLEAN ELSE {FALSE} :
       LET shut == entry.shut \/ ok
       IN IF app.open
          THEN /\ entry' = [entry EXCEPT !.parked = <<>>, !.shut = shut]
               /\ wq' = <<>>
               /\ misuse' = (misuse \/ pcb = "freed")
               /\ UNCHANGED <<pcb, ctx, readTx>>
          ELSE \E closes \in BOOLEAN : Finish(shut /\ closes)

\* lwIP's buffer is full: the chunk it was given is parked with its offset.
DrainSome ==
  /\ Queued # <<>>
  /\ \E n \in 0 .. Len(Queued) - 1 :
       /\ n <= Room - (Len(wire) - acked)
       /\ wire' = wire \o SubSeq(Queued, 1, n)
       /\ LET parked == Len(entry.parked)
              k == IF n < parked THEN 0 ELSE (n - parked) \div 2 + 1
          IN /\ entry' = [entry EXCEPT !.parked = IF n < parked
                                                  THEN SubSeq(entry.parked, n + 1, parked)
                                                  ELSE SubSeq(wq[k], ((n - parked) % 2) + 1, 2)]
             /\ wq' = SubSeq(wq, k + 1, Len(wq))
  /\ misuse' = (misuse \/ pcb = "freed")
  /\ UNCHANGED <<pcb, ctx, readTx>>

\* tcp_write fails for good: the stream is aborted.
DrainFails ==
  /\ \E n \in 0 .. Len(Queued) - 1 :
       /\ n <= Room - (Len(wire) - acked)
       /\ wire' = wire \o SubSeq(Queued, 1, n)
  /\ Finish(FALSE)

drain_writes ==
  IF entry.in /\ pcb_alive
  THEN DrainAll \/ DrainSome \/ DrainFails
  ELSE UNCHANGED <<entry, pcb, ctx, readTx, wq, wire, misuse>>

HandleNew ==
  /\ entry' = [in |-> TRUE, parked |-> <<>>, shut |-> FALSE]
  /\ UNCHANGED <<pcb, ctx, readTx, wq, wire, owed, misuse>>

\* Faulty variant: the window is credited without asking whether lwIP still
\* has the connection.
HandleRecvedUnchecked ==
  /\ owed' = IF entry.in THEN owed - 1 ELSE owed
  /\ misuse' = (misuse \/ (entry.in /\ pcb = "freed"))
  /\ UNCHANGED <<entry, pcb, ctx, readTx, wq, wire>>

HandleRecved ==
  /\ owed' = IF entry.in /\ pcb_alive THEN owed - 1 ELSE owed
  /\ misuse' = (misuse \/ (entry.in /\ pcb_alive /\ pcb = "freed"))
  /\ UNCHANGED <<entry, pcb, ctx, readTx, wq, wire>>

HandleErr ==
  /\ IF entry.in
     THEN /\ entry' = [in |-> FALSE, parked |-> <<>>, shut |-> FALSE]
          /\ ctx' = "freed" /\ wq' = <<>>
          /\ misuse' = (misuse \/ ctx = "freed")
     ELSE UNCHANGED <<entry, ctx, wq, misuse>>
  /\ UNCHANGED <<pcb, readTx, wire, owed>>

handle_cmd ==
  /\ core = "runs" /\ cmds # <<>>
  /\ cmds' = Tail(cmds)
  /\ CASE Head(cmds) = "new" -> HandleNew
       [] Head(cmds) = "recved" -> HandleRecved
       [] Head(cmds) = "err" -> HandleErr
       [] OTHER -> drain_writes /\ UNCHANGED owed
  /\ UNCHANGED <<dead, rq, app, acked, client, core>>

\* The ingress channel closed: every stream in the map is finished, and the
\* commands that are still queued go with the core.
teardown ==
  /\ core = "runs" /\ core' = "done"
  /\ IF entry.in
     THEN \E closes \in BOOLEAN : Finish(entry.shut /\ closes)
     ELSE UNCHANGED <<entry, pcb, ctx, readTx, wq, misuse>>
  /\ cmds' = <<>>
  /\ UNCHANGED <<dead, rq, app, wire, acked, client, owed>>

----------------------------------------------------------------------------
(* The handle, on another thread.                                           *)

\* The core still has the receiver of wq, in its map or in a queued command.
Receiving == entry.in \/ (core = "runs" /\ \E i \in DOMAIN cmds : cmds[i] = "new")

poll_write ==
  /\ app.open /\ ~app.shut /\ app.wrote < Chunks
  /\ IF Receiving
     THEN /\ Len(wq) < WriteQueue /\ Len(cmds) < MaxKicks
          /\ wq' = Append(wq, Chunk(app.wrote + 1))
          /\ app' = [app EXCEPT !.wrote = @ + 1]
          /\ Command("kick")
     ELSE app' = [app EXCEPT !.failed = TRUE] /\ UNCHANGED <<wq, cmds>>
  /\ UNCHANGED <<pcb, ctx, dead, entry, rq, readTx, wire, acked, client, owed, core,
                 misuse>>

poll_shutdown ==
  /\ app.open /\ ~app.shut
  /\ IF Receiving
     THEN /\ Len(wq) < WriteQueue /\ Len(cmds) < MaxKicks
          /\ wq' = Append(wq, Shutdown)
          /\ app' = [app EXCEPT !.shut = TRUE]
          /\ Command("kick")
     ELSE app' = [app EXCEPT !.failed = TRUE] /\ UNCHANGED <<wq, cmds>>
  /\ UNCHANGED <<pcb, ctx, dead, entry, rq, readTx, wire, acked, client, owed, core,
                 misuse>>

\* What one poll_read takes from rq with a buffer of `room` bytes: every
\* segment that is there, up to the end of the stream or the first that does
\* not fit; each is credited as it is taken.  An error behind the segments
\* hides them.
Fitting(room) ==
  LET ends == {i \in DOMAIN rq : rq[i] = Eof \/ 2 * i > room}
  IN IF ends = {} THEN Len(rq) ELSE CHOOSE i \in ends : \A j \in ends : i <= j

poll_read ==
  \E room \in {1, 2, 4} :
    /\ app.open /\ ~app.failed
    /\ IF app.left # <<>>
       THEN /\ app' = [app EXCEPT !.got = @ \o app.left, !.left = <<>>]
            /\ UNCHANGED <<rq, cmds>>
       ELSE /\ ~app.eof
            /\ rq # <<>> \/ ~readTx
            /\ LET k == Fitting(room)
                   taken == SelectSeq(SubSeq(rq, 1, k), LAMBDA s : s # Eof)
                   bytes == FlattenSeq(taken)
                   ended == k > 0 /\ rq[k] = Eof
                   stops == ended \/ Len(bytes) > room
                   fit == IF Len(bytes) > room THEN room ELSE Len(bytes)
               IN /\ Len(cmds) + Len(taken) <= MaxKicks
                  /\ rq' = SubSeq(rq, k + 1, Len(rq))
                  /\ cmds' = IF core = "runs"
                             THEN cmds \o [i \in DOMAIN taken |-> "recved"] ELSE cmds
                  /\ app' = IF ~stops /\ ~readTx /\ k = Len(rq)
                            THEN [app EXCEPT !.failed = TRUE]
                            ELSE [app EXCEPT !.got = @ \o SubSeq(bytes, 1, fit),
                                             !.left = SubSeq(bytes, fit + 1, Len(bytes)),
                                             !.eof = ended]
    /\ UNCHANGED <<pcb, ctx, dead, entry, wq, readTx, wire, acked, client, owed, core,
                   misuse>>

\* Drop of the handle: both channels close and the core is kicked.
DropHandle ==
  /\ app.open /\ Len(cmds) < MaxKicks
  /\ app' = [app EXCEPT !.open = FALSE]
  /\ rq' = <<>>
  /\ cmds' = IF core = "runs" THEN Append(cmds, "kick") ELSE cmds
  /\ UNCHANGED <<pcb, ctx, dead, entry, wq, readTx, wire, acked, client, owed, core,
                 misuse>>

StreamNext ==
  \/ tcp_accept_cb \/ tcp_recv_cb \/ tcp_sent_cb \/ tcp_poll_cb \/ tcp_err_cb
  \/ handle_cmd \/ teardown
  \/ poll_write \/ poll_shutdown \/ poll_read \/ DropHandle

\* Commands queued before a failure never reach lwIP with the connection it
\* has freed, no callback runs with a freed context, and nothing is freed
\* twice (core.rs: the `dead` flag and StreamState::pcb_alive).
NoUseAfterFree == ~misuse

\* What lwIP accepted is a prefix of what the handle wrote, in order; a stream
\* is closed gracefully only after its Shutdown and with every byte before it.
Written == FlattenSeq([i \in 1 .. app.wrote |-> Chunk(i)])
WritesWhole ==
  /\ IsPrefix(wire, Written)
  /\ pcb = "closed" => app.shut /\ wire = Written

\* The handle's task reads the client's bytes in order and without a gap, and
\* sees the end of the stream only after the last of them; the window owes
\* exactly what the task has not taken, while the connection lives.
Sent == FlattenSeq([i \in 1 .. client.sent |-> Chunk(i)])
ReadsWhole ==
  /\ IsPrefix(app.got, Sent)
  /\ app.eof => client.fin /\ app.got \o app.left = Sent
  /\ (app.open /\ entry.in /\ pcb_alive)
     => owed = Cardinality({i \in DOMAIN rq : rq[i] # Eof})
               + Cardinality({i \in DOMAIN cmds : cmds[i] = "recved"})

\* Bytes that wait are never forgotten: while the handle is dropped, or has
\* queued something, either a command that drains them is waiting or lwIP has
\* to report on this connection again.
WritesPending ==
  (core = "runs" /\ entry.in /\ pcb_alive /\ wq # <<>> /\ entry.parked = <<>>)
  => \E i \in DOMAIN cmds : cmds[i] \in {"kick", "sent", "poll", "err"}

\* Nothing is left of a stream once its handle is dropped and the core has
\* worked off its commands.
NothingLeaks ==
  (pcb # "none" /\ ~app.open /\ cmds = <<>> /\ core = "runs" /\ entry.parked = <<>>)
  => ctx = "freed" /\ pcb # "open"

----------------------------------------------------------------------------
(* 2. Generations of the listener.                                          *)

Gens == 1 .. MaxGens

VARIABLES
  ctl,     \* the config lane: [st |-> "off", "starting" or "on", g]
  task,    \* task[g]: how far run_inner of generation g has come
  holds,   \* holds[g]: what the generation has of "device", "iface",
           \* "routes", "dns" and "stack"
  pumps,   \* pumps[g]: "none", "run", "abort" or "gone"
  overlap, \* overlap[g]: an older generation still held something at its start
  iface,   \* the process-wide outbound interface is set
  file,    \* /etc/resolv.conf: "original", "own", "public" or "torn"
  side,    \* its sidecar: "none" or what was saved
  backup,  \* backup[g]: what generation g restores
  torn,    \* a crash fell into a write of the resolver file
  crashes

genVars == <<ctl, task, holds, pumps, overlap, iface, file, side, backup, torn, crashes>>
diskVars == <<file, side, torn>>

GenInit ==
  /\ ctl = [st |-> "off", g |-> 0]
  /\ task = [g \in Gens |-> "new"]
  /\ holds = [g \in Gens |-> {}]
  /\ pumps = [g \in Gens |-> "none"]
  /\ overlap = [g \in Gens |-> FALSE]
  /\ iface = FALSE
  /\ file = "original" /\ side = "none" /\ torn = FALSE
  /\ backup = [g \in Gens |-> "none"]
  /\ crashes = 0

To(g, at) == task' = [task EXCEPT ![g] = at]
Take(g, r) == holds' = [holds EXCEPT ![g] = @ \cup {r}]
Drops(g, r) == holds' = [holds EXCEPT ![g] = @ \ {r}]

\* swap_config_and_reconcile_tun, off to on: spawn_tun_from_raw.
StartTun ==
  /\ ctl.st = "off" /\ ctl.g < MaxGens
  /\ LET g == ctl.g + 1
     IN /\ ctl' = [st |-> "starting", g |-> g]
        /\ To(g, "device")
        /\ overlap' = [overlap EXCEPT ![g] = \E h \in Gens : holds[h] # {}]
  /\ UNCHANGED <<holds, pumps, iface, backup, crashes, diskVars>>

\* The readiness signal: Ready stores the handle; Failed comes when run_inner
\* has returned.  At the startup timeout the task, which waits for the device,
\* is aborted.  Both roll `tun.enable` back.
TunReady ==
  /\ ctl.st = "starting"
  /\ \/ task[ctl.g] = "up" /\ ctl' = [ctl EXCEPT !.st = "on"] /\ UNCHANGED task
     \/ task[ctl.g] = "ended" /\ ctl' = [ctl EXCEPT !.st = "off"] /\ UNCHANGED task
     \/ /\ task[ctl.g] = "device"
        /\ ctl' = [ctl EXCEPT !.st = "off"]
        /\ To(ctl.g, "unwind")
  /\ UNCHANGED <<holds, pumps, overlap, iface, backup, crashes, diskVars>>

\* Tunnel::stop_tun aborts the listener's task and awaits it: the future is
\* dropped, but the aborts of its children complete later.
StopTun ==
  /\ ctl.st = "on" /\ task[ctl.g] = "up"
  /\ To(ctl.g, "unwind") /\ ctl' = [ctl EXCEPT !.st = "stopping"]
  /\ UNCHANGED <<holds, pumps, overlap, iface, backup, crashes, diskVars>>
StopDone ==
  /\ ctl.st \in {"stopping", "on"} /\ task[ctl.g] = "ended"
  /\ ctl' = [ctl EXCEPT !.st = "off"]
  /\ UNCHANGED <<task, holds, pumps, overlap, iface, backup, crashes, diskVars>>

\* run_inner, up to the device: five attempts under other names and addresses.
CreateDevice(g) ==
  /\ task[g] = "device"
  /\ \/ To(g, "iface") /\ Take(g, "device")
     \/ To(g, "unwind") /\ UNCHANGED holds
  /\ UNCHANGED <<ctl, pumps, overlap, iface, backup, crashes, diskVars>>

\* Global routes: no interface, no routes.
BindIface(g) ==
  /\ task[g] = "iface"
  /\ \/ To(g, "routes") /\ Take(g, "iface") /\ iface' = TRUE
     \/ To(g, "unwind") /\ UNCHANGED <<holds, iface>>
  /\ UNCHANGED <<ctl, pumps, overlap, backup, crashes, diskVars>>

InstallRoutes(g) ==
  /\ task[g] = "routes"
  /\ \/ To(g, "dns") /\ Take(g, "routes")
     \/ To(g, "unwind") /\ UNCHANGED holds
  /\ UNCHANGED <<ctl, pumps, overlap, iface, backup, crashes, diskVars>>

\* DnsGuard::setup: the original is kept in a sidecar before the file is
\* replaced; a file of our own, left by a crash, is not an original.
BackupDns(g) ==
  /\ task[g] = "dns"
  /\ IF file = "own"
     THEN /\ backup' = [backup EXCEPT ![g] = IF side = "none" THEN "public" ELSE side]
          /\ UNCHANGED side
     ELSE side' = file /\ backup' = [backup EXCEPT ![g] = file]
  /\ To(g, "set")
  /\ UNCHANGED <<ctl, holds, pumps, overlap, iface, crashes, file, torn>>

SetDns(g) ==
  /\ task[g] = "set"
  /\ file' = "own" /\ Take(g, "dns") /\ To(g, "stack")
  /\ UNCHANGED <<ctl, pumps, overlap, iface, backup, crashes, side, torn>>

\* The netstack, the pumps (which own the device from here on) and the signal.
StartPumps(g) ==
  /\ task[g] = "stack"
  /\ \/ /\ To(g, "up") /\ Take(g, "stack")
        /\ pumps' = [pumps EXCEPT ![g] = "run"]
     \/ To(g, "unwind") /\ UNCHANGED <<holds, pumps>>
  /\ UNCHANGED <<ctl, overlap, iface, backup, crashes, diskVars>>

\* A pump or the netstack ends: the listener fails.
PumpFails(g) ==
  /\ task[g] = "up" /\ To(g, "unwind")
  /\ UNCHANGED <<ctl, holds, pumps, overlap, iface, backup, crashes, diskVars>>

\* The future of run_inner is dropped, last local first: the TaskGroup asks
\* the pumps to abort, the guard restores the resolver file and removes the
\* sidecar, and a device that no pump holds goes with its guards.
AbortChildren(g) ==
  /\ task[g] = "unwind"
  /\ pumps' = [pumps EXCEPT ![g] = IF @ = "run" THEN "abort" ELSE @]
  /\ To(g, IF "dns" \in holds[g] THEN "restore" ELSE "locals")
  /\ UNCHANGED <<ctl, holds, overlap, iface, backup, crashes, diskVars>>

RestoreDns(g) ==
  /\ task[g] = "restore"
  /\ file' = backup[g] /\ To(g, "forget")
  /\ UNCHANGED <<ctl, holds, pumps, overlap, iface, backup, crashes, side, torn>>

ForgetSidecar(g) ==
  /\ task[g] = "forget"
  /\ side' = "none" /\ Drops(g, "dns") /\ To(g, "locals")
  /\ UNCHANGED <<ctl, pumps, overlap, iface, backup, crashes, file, torn>>

EndTask(g) ==
  /\ task[g] = "locals" /\ (pumps[g] = "none" => holds[g] = {})
  /\ To(g, "ended")
  /\ UNCHANGED <<ctl, holds, pumps, overlap, iface, backup, crashes, diskVars>>

\* The runtime completes the abort of the pumps; the last of them drops the
\* TunDevice, its fields in order: routes, interface binding, device.
PumpsEnd(g) ==
  /\ pumps[g] = "abort"
  /\ pumps' = [pumps EXCEPT ![g] = "gone"]
  /\ UNCHANGED <<ctl, task, holds, overlap, iface, backup, crashes, diskVars>>

Unheld(g) == pumps[g] = "gone" \/ (pumps[g] = "none" /\ task[g] = "locals")

\* Faulty variant: the binding is cleared before the routes are removed.
FreeIfaceFirst(g) ==
  /\ Unheld(g)
  /\ \/ "iface" \in holds[g] /\ Drops(g, "iface") /\ iface' = FALSE
     \/ /\ "iface" \notin holds[g]
        /\ \E r \in holds[g] \ {"dns"} : Drops(g, r)
        /\ UNCHANGED iface
  /\ UNCHANGED <<ctl, task, pumps, overlap, backup, crashes, diskVars>>

Free(g) ==
  /\ Unheld(g)
  /\ \/ "routes" \in holds[g] /\ Drops(g, "routes") /\ UNCHANGED iface
     \/ /\ "routes" \notin holds[g] /\ "iface" \in holds[g]
        /\ Drops(g, "iface") /\ iface' = FALSE
     \/ /\ holds[g] \cap {"routes", "iface"} = {}
        /\ \E r \in holds[g] \ {"dns"} : Drops(g, r)
        /\ UNCHANGED iface
  /\ UNCHANGED <<ctl, task, pumps, overlap, backup, crashes, diskVars>>

\* The process is killed, perhaps while it writes the resolver file; the
\* kernel removes device and routes.  Another process starts the next
\* generation.
Crash ==
  /\ crashes < MaxCrashes /\ crashes' = crashes + 1
  /\ LET writing == \E g \in Gens : task[g] \in {"set", "restore"}
     IN \E tears \in IF writing THEN BOOLEAN ELSE {FALSE} :
          /\ file' = IF tears THEN "torn" ELSE file
          /\ torn' = (torn \/ tears)
  /\ ctl' = [ctl EXCEPT !.st = "off"]
  /\ task' = [g \in Gens |-> IF task[g] = "new" THEN "new" ELSE "ended"]
  /\ holds' = [g \in Gens |-> {}]
  /\ pumps' = [g \in Gens |-> IF task[g] = "new" THEN "none" ELSE "gone"]
  /\ iface' = FALSE
  /\ UNCHANGED <<overlap, side, backup>>

GenNext ==
  \/ StartTun \/ TunReady \/ StopTun \/ StopDone \/ Crash
  \/ \E g \in Gens :
       \/ CreateDevice(g) \/ BindIface(g) \/ InstallRoutes(g) \/ BackupDns(g) \/ SetDns(g)
       \/ StartPumps(g) \/ PumpFails(g) \/ AbortChildren(g) \/ RestoreDns(g)
       \/ ForgetSidecar(g) \/ EndTask(g) \/ PumpsEnd(g) \/ Free(g)

\* While the listener runs, its default routes never stand without the
\* outbound binding that keeps our own sockets out of the device ("refusing
\* to install default routes without loop avoidance", tun/mod.rs:444).
Bound(g) == "routes" \in holds[g] => iface
DefaultRoutesBound == \A g \in Gens : task[g] = "up" => Bound(g)

\* As long as no generation overlaps an older one, routes are never without
\* the binding, not even while they are undone.  Once everything has ended,
\* nothing of it is left; and the user's resolver file is back, unless a
\* crash tore a write of it.  Until then the original is in the file, in the
\* sidecar or with the guard, whatever step a crash follows.
TunUndone ==
  /\ (\A g \in Gens : ~overlap[g]) => \A g \in Gens : Bound(g)
  /\ (\A g \in Gens : holds[g] = {}) => ~iface
  /\ ~torn /\ crashes = 0 /\ (\A g \in Gens : task[g] \in {"new", "ended"})
     => file = "original"
  /\ ~torn => "original" \in {file, side}
  /\ ~torn => \A g \in Gens : task[g] \in {"set", "stack", "up", "restore"}
                              => backup[g] = "original"

----------------------------------------------------------------------------
(* 3. The datagrams of one address pair.                                    *)

VARIABLES
  came,     \* datagrams that the reader loop took from the stack
  newest,   \* the flow in the map; 0 when there is none
  queue,    \* queue[f]: datagrams that wait for flow f
  flow,     \* flow[f]: "none", "dial", "relay", "closing" or "gone"
  upstream, \* upstream[f]: datagrams that flow f wrote
  dropped,  \* datagrams lost to a full queue or a failed write
  reader    \* the reader loop runs

udpFlowVars == <<came, newest, queue, flow, upstream, dropped, reader>>
FlowIds == 1 .. MaxDatagrams

UdpFlowInit ==
  /\ came = 0 /\ newest = 0 /\ dropped = {} /\ reader = TRUE
  /\ queue = [f \in FlowIds |-> <<>>]
  /\ flow = [f \in FlowIds |-> "none"]
  /\ upstream = [f \in FlowIds |-> <<>>]


\* run_udp: to the flow's queue, dropped when that is full; a flow whose task
\* has ended is replaced, and the new one starts with the datagram.
Offer ==
  /\ reader /\ came < MaxDatagrams
  /\ came' = came + 1
  /\ IF newest # 0 /\ flow[newest] # "gone"
     THEN /\ IF Len(queue[newest]) < FlowQueue
             THEN queue' = [queue EXCEPT ![newest] = Append(@, came + 1)] /\ UNCHANGED dropped
             ELSE dropped' = dropped \cup {came + 1} /\ UNCHANGED queue
          /\ UNCHANGED <<newest, flow>>
     ELSE /\ newest' = newest + 1
          /\ flow' = [flow EXCEPT ![newest + 1] = "dial"]
          /\ queue' = [queue EXCEPT ![newest + 1] = <<came + 1>>]
          /\ UNCHANGED dropped
  /\ UNCHANGED <<upstream, reader>>

\* relay_flow: resolve, match and dial; then queued datagrams go upstream
\* until an error, the idle timeout, or the end of the reader with an empty
\* queue.  The receiver is dropped only after the connection is closed.
DialFlow(f) ==
  /\ flow[f] = "dial"
  /\ \E r \in {"relay", "gone"} : flow' = [flow EXCEPT ![f] = r]
  /\ UNCHANGED <<came, newest, queue, upstream, dropped, reader>>
Forward(f) ==
  /\ flow[f] = "relay" /\ queue[f] # <<>>
  /\ queue' = [queue EXCEPT ![f] = Tail(@)]
  /\ \/ upstream' = [upstream EXCEPT ![f] = Append(@, Head(queue[f]))] /\ UNCHANGED flow
        /\ UNCHANGED dropped
     \/ /\ flow' = [flow EXCEPT ![f] = "closing"]
        /\ dropped' = dropped \cup {Head(queue[f])}
        /\ UNCHANGED upstream
  /\ UNCHANGED <<came, newest, reader>>
EndRelay(f) ==
  /\ flow[f] = "relay"
  /\ flow' = [flow EXCEPT ![f] = "closing"]
  /\ UNCHANGED <<came, newest, queue, upstream, dropped, reader>>
CloseFlow(f) ==
  /\ flow[f] = "closing"
  /\ flow' = [flow EXCEPT ![f] = "gone"]
  /\ UNCHANGED <<came, newest, queue, upstream, dropped, reader>>

\* The listener stops: the map is dropped with the reader's future.
ReaderStops ==
  /\ reader /\ reader' = FALSE
  /\ UNCHANGED <<came, newest, queue, flow, upstream, dropped>>

UdpFlowNext ==
  \/ Offer \/ ReaderStops
  \/ \E f \in FlowIds : DialFlow(f) \/ Forward(f) \/ EndRelay(f) \/ CloseFlow(f)

\* At most one flow of an address pair takes datagrams.  Every datagram was
\* dropped or belongs to exactly one flow, whose writes and queue hold its
\* datagrams in the order they came; of two flows the later one has the later
\* datagrams (tun/udp.rs: run_udp and relay_flow).
FlowsPartition ==
  LET s == FlattenSeq([f \in FlowIds |-> upstream[f] \o queue[f]])
  IN /\ Cardinality({f \in FlowIds : flow[f] \in {"dial", "relay", "closing"}}) <= 1
     /\ \A i, j \in DOMAIN s : i < j => s[i] < s[j]
     /\ ToSet(s) \cap dropped = {}
     /\ ToSet(s) \cup dropped = 1 .. came

=============================================================================
