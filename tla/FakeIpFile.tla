----------------------------- MODULE FakeIpFile -----------------------------
(***************************************************************************)
(* A fake-IP Pool over a FileStore (meow-dns: fakeip.rs): lookups and      *)
(* flushes, the debounced background persist, the flush of Drop, crashes   *)
(* and restarts.  The two directions of the store are guarded by two       *)
(* mutexes, one store call takes them one after the other, and the dirty   *)
(* flag is set after the data mutex is released.                           *)
(***************************************************************************)
EXTENDS FakeIpRange, FiniteSets

CONSTANTS Lookers, Flushers,   \* tasks that call lookup, tasks that call flush
          Hosts, None,
          Networks,            \* networks the configuration may name
          MaxFailures,         \* bound on failing writes of the snapshot
          MaxRestarts,         \* bound on restarts of the process
          MaxAllocs            \* bound on allocations

Callers == Lookers \cup Flushers
Addrs == UNION {Allocatable(p) : p \in Networks}

FilePrefixAssumption == Networks # {} /\ \A p \in Networks : Usable(p)
FileNoneAssumption == None \notin Hosts /\ None \notin Callers /\ None \notin 0..Word

VARIABLES
  entries, savedOffset, savedCycle,   \* the PersistedSnapshot in memory
  reverse,                            \* the other direction, not persisted
  dirty, permit,                      \* the flag, and the stored notification
  prefix, offset, cycle,              \* the Pool
  lock, host, cand, victim,           \* the pool mutex and its holder's locals
  pc,                                 \* what each task is doing
  fpc,                                \* the background flush task
  bpc, bsnap,                         \* its blocking write, and what it writes
  dpc,                                \* Drop of the store
  tmp, disk,                          \* the two files
  failures, restarts, allocs          \* history: failed writes, restarts, allocations

memVars == <<entries, savedOffset, savedCycle>>
poolVars == <<prefix, offset, cycle>>
jobVars == <<lock, host, cand, victim>>
flagVars == <<dirty, permit>>
ioVars == <<fpc, bpc, bsnap, dpc, tmp, disk, failures, restarts>>
vars == <<memVars, reverse, flagVars, poolVars, jobVars, pc, ioVars, allocs>>

Snapshots == [entries : [Hosts -> Addrs \cup {None}],
              offset : 0..(Word - 1) \cup {None}, cycle : BOOLEAN]
Empty == [entries |-> [h \in Hosts |-> None], offset |-> None, cycle |-> FALSE]

\* serialise
Memory == [entries |-> entries, offset |-> savedOffset, cycle |-> savedCycle]

\* Types; the cursor stays in the range of the network that the configuration names.
TypeOK ==
  /\ Memory \in Snapshots
  /\ reverse \in [Addrs -> Hosts \cup {None}]
  /\ dirty \in BOOLEAN /\ permit \in BOOLEAN
  /\ prefix \in Networks
  /\ offset \in Allocatable(prefix) \cup {PrevAddr(FirstAddr(prefix))}
  /\ cycle \in BOOLEAN
  /\ lock \in Callers \cup {None}
  /\ host \in Hosts \cup {None} /\ victim \in Hosts \cup {None}
  /\ cand \in Addrs \cup {None}
  /\ pc \in [Callers -> {"idle", "exists", "delReverse", "delEntries", "markDel",
                       "putReverse", "putEntries", "markPut", "putState", "markState",
                       "flushState", "markFlush", "flushCursor", "markCursor"}]
  /\ fpc \in {"wait", "sleep", "serialise", "persist"}
  /\ bpc \in {"none", "queued", "written"} /\ bsnap \in Snapshots
  /\ dpc \in {"up", "swap", "write", "rename", "down"}
  /\ tmp \in Snapshots \cup {None} /\ disk \in Snapshots
  /\ failures \in 0..MaxFailures /\ restarts \in 0..MaxRestarts
  /\ allocs \in 0..MaxAllocs

\* The reverse maps that loading may rebuild: of hosts that share an address,
\* the one that the hash map yields last stays
Inversions(f) ==
  LET held == {f[h] : h \in Hosts} \ {None}
      choices == {r \in [held -> Hosts] : \A a \in held : f[r[a]] = a} IN
    {[a \in Addrs |-> IF a \in held THEN r[a] ELSE None] : r \in choices}

\* Pool::new over FileStore::open, from the snapshot on disk
Opened(snap, p) ==
  /\ entries' = snap.entries
  /\ savedOffset' = snap.offset /\ savedCycle' = snap.cycle
  /\ reverse' \in Inversions(snap.entries)
  /\ dirty' = FALSE /\ permit' = FALSE
  /\ prefix' = p
  /\ LET restored == snap.offset # None /\ ContainedInRange(snap.offset, p) IN
       /\ offset' = IF restored THEN snap.offset ELSE PrevAddr(FirstAddr(p))
       /\ cycle' = (restored /\ snap.cycle)
  /\ lock' = None /\ host' = None /\ cand' = None /\ victim' = None
  /\ pc' = [t \in Callers |-> "idle"]
  /\ fpc' = "wait" /\ bpc' = "none" /\ bsnap' = Empty
  /\ dpc' = "up"

Init ==
  /\ entries = Empty.entries /\ savedOffset = None /\ savedCycle = FALSE
  /\ reverse = [a \in Addrs |-> None]
  /\ dirty = FALSE /\ permit = FALSE
  /\ prefix \in Networks
  /\ offset = PrevAddr(FirstAddr(prefix)) /\ cycle = FALSE
  /\ lock = None /\ host = None /\ cand = None /\ victim = None
  /\ pc = [t \in Callers |-> "idle"]
  /\ fpc = "wait" /\ bpc = "none" /\ bsnap = Empty
  /\ dpc = "up"
  /\ tmp = None /\ disk = Empty /\ failures = 0 /\ restarts = 0 /\ allocs = 0

Goto(t, l) == pc' = [pc EXCEPT ![t] = l]

---------------------------------------------------------------------------
(* lookup, over the store calls of a FileStore                             *)

\* A hit changes nothing; a miss keeps the pool mutex for allocate
Lookup(t, h) ==
  /\ dpc = "up" /\ pc[t] = "idle" /\ lock = None
  /\ entries[h] = None
  /\ allocs < MaxAllocs /\ allocs' = allocs + 1
  /\ lock' = t /\ host' = h
  /\ Goto(t, "exists")
  /\ UNCHANGED <<memVars, reverse, flagVars, poolVars, cand, victim, ioVars>>

\* allocate: the cursor advances; exists reads the reverse map
Allocate(t) ==
  LET c == Candidate(offset, prefix) IN
    /\ pc[t] = "exists"
    /\ cand' = c
    /\ cycle' = (cycle \/ Wraps(offset, prefix))
    /\ Goto(t, IF cycle' \/ reverse[c] # None THEN "delReverse" ELSE "putReverse")
    /\ UNCHANGED <<memVars, reverse, flagVars, prefix, offset, lock, host, victim, ioVars, allocs>>

\* del_by_ip: the reverse map first ...
DelReverse(t) ==
  /\ pc[t] = "delReverse"
  /\ victim' = reverse[cand]
  /\ reverse' = [reverse EXCEPT ![cand] = None]
  /\ Goto(t, IF victim' = None THEN "putReverse" ELSE "delEntries")
  /\ UNCHANGED <<memVars, flagVars, poolVars, lock, host, cand, ioVars, allocs>>


\* ... then, compare-and-delete, the entries
DelEntries(t) ==
  /\ pc[t] = "delEntries"
  /\ IF entries[victim] = cand
     THEN entries' = [entries EXCEPT ![victim] = None] /\ Goto(t, "markDel")
     ELSE UNCHANGED entries /\ Goto(t, "putReverse")
  /\ victim' = None
  /\ UNCHANGED <<savedOffset, savedCycle, reverse, flagVars, poolVars, lock, host, cand, ioVars, allocs>>

\* mark_dirty: the flag, then the notification
MarkDirty(t, from, to) ==
  /\ pc[t] = from
  /\ dirty' = TRUE /\ permit' = TRUE
  /\ Goto(t, to)
  /\ UNCHANGED <<memVars, reverse, poolVars, jobVars, ioVars, allocs>>

\* put: the reverse map first ...
PutReverse(t) ==
  /\ pc[t] = "putReverse"
  /\ reverse' = [reverse EXCEPT ![cand] = host]
  /\ Goto(t, "putEntries")
  /\ UNCHANGED <<memVars, flagVars, poolVars, jobVars, ioVars, allocs>>

\* ... then the entries
PutEntries(t) ==
  /\ pc[t] = "putEntries"
  /\ entries' = [entries EXCEPT ![host] = cand]
  /\ Goto(t, "markPut")
  /\ UNCHANGED <<savedOffset, savedCycle, reverse, flagVars, poolVars, jobVars, ioVars, allocs>>

\* The cursor, in the pool and in the store
PutState(t) ==
  /\ pc[t] = "putState"
  /\ offset' = cand
  /\ savedOffset' = cand /\ savedCycle' = cycle
  /\ Goto(t, "markState")
  /\ UNCHANGED <<entries, reverse, flagVars, prefix, cycle, jobVars, ioVars, allocs>>

\* lookup returns; the pool mutex is released by the last mark_dirty
Return(t) ==
  /\ pc[t] \in {"markState", "markCursor"}
  /\ dirty' = TRUE /\ permit' = TRUE
  /\ lock' = None /\ host' = None /\ cand' = None
  /\ Goto(t, "idle")
  /\ UNCHANGED <<memVars, reverse, poolVars, victim, ioVars, allocs>>

---------------------------------------------------------------------------
(* flush                                                                   *)

\* The store is cleared first, without the pool mutex: the reverse map ...
FlushReverse(t) ==
  /\ dpc = "up" /\ pc[t] = "idle"
  /\ reverse' = [a \in Addrs |-> None]
  /\ Goto(t, "flushState")
  /\ UNCHANGED <<memVars, flagVars, poolVars, jobVars, ioVars, allocs>>

\* ... then the snapshot
FlushState(t) ==
  /\ pc[t] = "flushState"
  /\ entries' = Empty.entries /\ savedOffset' = None /\ savedCycle' = FALSE
  /\ Goto(t, "markFlush")
  /\ UNCHANGED <<reverse, flagVars, poolVars, jobVars, ioVars, allocs>>

\* The cursor is reset under the pool mutex, and stored
FlushCursor(t) ==
  /\ pc[t] = "flushCursor" /\ lock = None
  /\ lock' = t
  /\ offset' = PrevAddr(FirstAddr(prefix)) /\ cycle' = FALSE
  /\ savedOffset' = offset' /\ savedCycle' = FALSE
  /\ Goto(t, "markCursor")
  /\ UNCHANGED <<entries, reverse, flagVars, prefix, host, cand, victim, ioVars, allocs>>

---------------------------------------------------------------------------
(* Persistence                                                             *)

\* notified().await consumes the stored permit
FlushTaskWakes ==
  /\ dpc = "up" /\ fpc = "wait" /\ permit
  /\ permit' = FALSE /\ fpc' = "sleep"
  /\ UNCHANGED <<memVars, reverse, dirty, poolVars, jobVars, pc,
                 bpc, bsnap, dpc, tmp, disk, failures, restarts, allocs>>

\* After the debounce, the flag is swapped ...
FlushTaskSwaps ==
  /\ dpc = "up" /\ fpc = "sleep"
  /\ fpc' = IF dirty THEN "serialise" ELSE "wait"
  /\ dirty' = FALSE
  /\ UNCHANGED <<memVars, reverse, permit, poolVars, jobVars, pc,
                 bpc, bsnap, dpc, tmp, disk, failures, restarts, allocs>>

\* Faulty variant of FlushTaskSerialises: the snapshot is the one on disk
SerialiseStale ==
  /\ fpc = "serialise"
  /\ fpc' = "persist" /\ bpc' = "queued" /\ bsnap' = disk
  /\ UNCHANGED <<memVars, reverse, flagVars, poolVars, jobVars, pc,
                 dpc, tmp, disk, failures, restarts, allocs>>

\* ... and, with no await in between where abort could stop the task, the
\* snapshot taken and handed to the blocking pool
FlushTaskSerialises ==
  /\ fpc = "serialise"
  /\ fpc' = "persist" /\ bpc' = "queued" /\ bsnap' = Memory
  /\ UNCHANGED <<memVars, reverse, flagVars, poolVars, jobVars, pc,
                 dpc, tmp, disk, failures, restarts, allocs>>

\* persist_to_file on the blocking pool: the temporary file is written ...
WriteTmp ==
  /\ bpc = "queued"
  /\ tmp' = bsnap /\ bpc' = "written"
  /\ UNCHANGED <<memVars, reverse, flagVars, poolVars, jobVars, pc,
                 fpc, bsnap, dpc, disk, failures, restarts, allocs>>

\* ... and renamed over the snapshot, if it is still there
Rename ==
  /\ bpc = "written"
  /\ disk' = IF tmp = None THEN disk ELSE tmp
  /\ tmp' = None
  /\ bpc' = "none" /\ bsnap' = Empty
  /\ fpc' = IF fpc = "persist" THEN "wait" ELSE fpc
  /\ UNCHANGED <<memVars, reverse, flagVars, poolVars, jobVars, pc,
                 dpc, failures, restarts, allocs>>

\* A step of persist_to_file fails: a warning, and nothing is retried
PersistFails ==
  /\ bpc # "none" /\ failures < MaxFailures
  /\ failures' = failures + 1
  /\ bpc' = "none" /\ bsnap' = Empty
  /\ fpc' = IF fpc = "persist" THEN "wait" ELSE fpc
  /\ UNCHANGED <<memVars, reverse, flagVars, poolVars, jobVars, pc,
                 dpc, tmp, disk, restarts, allocs>>

\* Drop, once no task holds the store: the flag is swapped ...
DropSwap ==
  /\ dpc = "up" /\ \A t \in Callers : pc[t] = "idle"
  /\ dpc' = IF dirty THEN "write" ELSE "down"
  /\ dirty' = FALSE
  /\ UNCHANGED <<memVars, reverse, permit, poolVars, jobVars, pc,
                 fpc, bpc, bsnap, tmp, disk, failures, restarts, allocs>>

\* ... the snapshot is written through the same temporary file ...
DropWrite ==
  /\ dpc = "write"
  /\ tmp' = Memory /\ dpc' = "rename"
  /\ UNCHANGED <<memVars, reverse, flagVars, poolVars, jobVars, pc,
                 fpc, bpc, bsnap, disk, failures, restarts, allocs>>

\* ... and renamed; the flush task is aborted, its blocking write is not
DropRename ==
  /\ dpc = "rename"
  /\ disk' = IF tmp = None THEN disk ELSE tmp
  /\ tmp' = None /\ dpc' = "down"
  /\ UNCHANGED <<memVars, reverse, flagVars, poolVars, jobVars, pc,
                 fpc, bpc, bsnap, failures, restarts, allocs>>

\* Drop is done, and so is the runtime's last blocking write
Stopped == dpc = "down" /\ bpc = "none" /\ fpc # "serialise"

\* The process starts again, after Drop (whose runtime waits for the blocking
\* pool) or after a crash; an unreadable snapshot counts as an empty one
Restart ==
  /\ dpc = "up" \/ Stopped
  /\ restarts < MaxRestarts /\ restarts' = restarts + 1
  /\ \E snap \in {disk, Empty}, p \in Networks : Opened(snap, p) /\ disk' = snap
  /\ tmp' = None      \* a leftover file is truncated before it is used again
  /\ UNCHANGED <<failures, allocs>>

LookupStep(t) ==
  \/ \E h \in Hosts : Lookup(t, h)
  \/ Allocate(t) \/ DelReverse(t) \/ DelEntries(t) \/ MarkDirty(t, "markDel", "putReverse")
  \/ PutReverse(t) \/ PutEntries(t) \/ MarkDirty(t, "markPut", "putState")
  \/ PutState(t) \/ Return(t)

FlushStep(t) ==
  \/ FlushReverse(t) \/ FlushState(t) \/ MarkDirty(t, "markFlush", "flushCursor")
  \/ FlushCursor(t) \/ Return(t)

PersistStep == FlushTaskWakes \/ FlushTaskSwaps \/ FlushTaskSerialises \/ WriteTmp \/ Rename

Persist ==
  \/ PersistStep \/ PersistFails
  \/ DropSwap \/ DropWrite \/ DropRename

Next ==
  \/ \E t \in Lookers : LookupStep(t)
  \/ \E t \in Flushers : FlushStep(t)
  \/ Persist
  \/ Restart

Spec == Init /\ [][Next]_vars

\* A call that has begun runs on, and the runtime polls the flush task when it
\* is notified and its sleep is over, and runs what the blocking pool holds.
FairSpec ==
  /\ Spec
  /\ \A t \in Lookers : WF_vars(LookupStep(t) /\ pc[t] # "idle")
  /\ WF_vars(PersistStep)

---------------------------------------------------------------------------
\* No two hosts are ever answered with the same address: the entries are
\* injective at every moment, across evictions, crashes and restarts.
NoSharedAddress ==
  \A g, h \in Hosts : entries[g] # None /\ entries[g] = entries[h] => g = h

\* While no call is under way, the two directions of the store are each
\* other's inverse, so that every answer given can be looked back.
DirectionsAgree ==
  (\A t \in Callers : pc[t] = "idle") =>
    /\ \A h \in Hosts : entries[h] # None => reverse[entries[h]] = h
    /\ \A a \in Addrs : reverse[a] # None => entries[reverse[a]] = a

\* The dirty protocol loses no update: while the store is up, what the disk
\* does not hold yet is on its way: marked and notified, about to be marked,
\* about to be serialised or being written (unless a write failed).
NoLostUpdate ==
  dpc = "up" /\ failures = 0 /\ disk # Memory =>
    \/ dirty /\ (permit \/ fpc # "wait")
    \/ \E t \in Callers : pc[t] \in {"markDel", "markPut", "markState", "markFlush", "markCursor"}
    \/ fpc = "serialise"
    \/ bpc # "none" /\ bsnap = Memory

\* An allocation reaches the disk, unless it is recycled, a write fails, or
\* the store is closed or the process restarted first (the debounced flush).
AllocationsReachDisk ==
  \A h \in Hosts, a \in Addrs :
    entries[h] = a ~>
      disk.entries[h] = a \/ entries[h] # a \/ failures > 0 \/ dpc # "up"
=============================================================================
