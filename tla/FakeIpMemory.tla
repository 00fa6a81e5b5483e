---------------------------- MODULE FakeIpMemory ----------------------------
(***************************************************************************)
(* A fake-IP Pool over a MemoryStore (meow-dns: fakeip.rs): tasks that     *)
(* look hosts up, look addresses back and flush, concurrently.  Every      *)
(* store call is one step, under the store's own mutex; lookup holds the   *)
(* pool mutex across several of them, while flush clears the store before  *)
(* it takes that mutex and look_back never takes it.                       *)
(***************************************************************************)
EXTENDS FakeIpRange, SequencesExt

CONSTANTS Tasks, Names, Hosts, None,
          Lower,     \* to_ascii_lowercase: the host a name stands for
          Prefix,    \* the pool's network
          Cap        \* MemoryInner::cap

Addrs == Allocatable(Prefix)

ASSUME PrefixAssumption == Usable(Prefix)
ASSUME HostAssumption ==
  /\ Lower \in [Names -> Hosts]
  /\ None \notin Hosts /\ None \notin Tasks /\ None \notin Addrs
ASSUME CapAssumption == Cap \in Nat \ {0}

VARIABLES
  byHost, byIp,        \* the two directions of the store
  hostLru, ipLru,      \* their recency, least recently used first
  offset, cycle,       \* PoolInner
  lock,                \* the pool mutex: its holder, or None
  host, cand,          \* the holder's host and candidate address
  pc,                  \* what each task is doing
  age,                 \* history: live addresses, oldest allocation first
  rewound              \* history: a flush reset the cursor under live addresses

storeVars == <<byHost, byIp, hostLru, ipLru, age>>
poolVars == <<offset, cycle>>
jobVars == <<lock, host, cand>>
vars == <<storeVars, poolVars, jobVars, pc, rewound>>

\* Types; the cursor stays on an address of the range or just before the first.
TypeOK ==
  /\ byHost \in [Hosts -> Addrs \cup {None}]
  /\ byIp \in [Addrs -> Hosts \cup {None}]
  /\ hostLru \in Seq(Hosts) /\ ipLru \in Seq(Addrs)
  /\ age \in Seq(Addrs)
  /\ offset \in Addrs \cup {PrevAddr(FirstAddr(Prefix))}
  /\ cycle \in BOOLEAN /\ rewound \in BOOLEAN
  /\ lock \in Tasks \cup {None}
  /\ host \in Hosts \cup {None} /\ cand \in Addrs \cup {None}
  /\ pc \in [Tasks -> {"idle", "alloc", "evict", "put", "reset"}]

Init ==
  /\ byHost = [h \in Hosts |-> None] /\ byIp = [a \in Addrs |-> None]
  /\ hostLru = <<>> /\ ipLru = <<>> /\ age = <<>>
  /\ offset = PrevAddr(FirstAddr(Prefix)) /\ cycle = FALSE /\ rewound = FALSE
  /\ lock = None /\ host = None /\ cand = None
  /\ pc = [t \in Tasks |-> "idle"]

---------------------------------------------------------------------------
(* MemoryStore                                                             *)

\* LruCache::pop: the others keep their order
Drop(lru, x) ==
  IF \E i \in DOMAIN lru : lru[i] = x
  THEN RemoveAt(lru, CHOOSE i \in DOMAIN lru : lru[i] = x) ELSE lru

\* LruCache::get and LruCache::put make an entry the most recent one
Touch(lru, x) == Append(Drop(lru, x), x)

\* Faulty variant of Get: the reverse side is not touched
GetForward(h, ip) ==
  /\ hostLru' = Touch(hostLru, h)
  /\ UNCHANGED <<byHost, byIp, ipLru, age>>

\* get_by_host and get_by_ip touch both sides
Get(h, ip) ==
  /\ hostLru' = Touch(hostLru, h) /\ ipLru' = Touch(ipLru, ip)
  /\ UNCHANGED <<byHost, byIp, age>>

\* Faulty variant of DelByIp: only the reverse direction is dropped
DelReverseOnly(ip) ==
  /\ byIp' = [byIp EXCEPT ![ip] = None]
  /\ ipLru' = Drop(ipLru, ip) /\ age' = Drop(age, ip)
  /\ UNCHANGED <<byHost, hostLru>>

\* Compare-and-delete of a pair, if the address has one
DelByIp(ip) ==
  LET h == byIp[ip]
      live == h # None /\ byHost[h] = ip IN
    /\ byIp' = [byIp EXCEPT ![ip] = None]
    /\ ipLru' = Drop(ipLru, ip) /\ age' = Drop(age, ip)
    /\ byHost' = IF live THEN [byHost EXCEPT ![h] = None] ELSE byHost
    /\ hostLru' = IF live THEN Drop(hostLru, h) ELSE hostLru

\* The cap, enforced from the reverse side ...
PopIp(s) ==
  LET ip == Head(s.il)
      h == s.bi[ip]
      live == h # None /\ s.bh[h] = ip IN
    IF Len(s.il) <= Cap THEN s
    ELSE [bi |-> [s.bi EXCEPT ![ip] = None], il |-> Tail(s.il), age |-> Drop(s.age, ip),
          bh |-> IF live THEN [s.bh EXCEPT ![h] = None] ELSE s.bh,
          hl |-> IF live THEN Drop(s.hl, h) ELSE s.hl]

\* ... and then from the forward side
PopHost(s) ==
  LET h == Head(s.hl)
      ip == s.bh[h]
      live == ip # None /\ s.bi[ip] = h IN
    IF Len(s.hl) <= Cap THEN s
    ELSE [bh |-> [s.bh EXCEPT ![h] = None], hl |-> Tail(s.hl),
          bi |-> IF live THEN [s.bi EXCEPT ![ip] = None] ELSE s.bi,
          age |-> IF live THEN Drop(s.age, ip) ELSE s.age,
          il |-> IF live THEN Drop(s.il, ip) ELSE s.il]

Inserted(h, ip) ==
  [bh |-> [byHost EXCEPT ![h] = ip], bi |-> [byIp EXCEPT ![ip] = h],
   hl |-> Touch(hostLru, h), il |-> Touch(ipLru, ip), age |-> Touch(age, ip)]

StorePut(h, ip) ==
  LET s == PopHost(PopIp(Inserted(h, ip))) IN
    byHost' = s.bh /\ byIp' = s.bi /\ hostLru' = s.hl /\ ipLru' = s.il /\ age' = s.age

StoreFlush ==
  /\ byHost' = [h \in Hosts |-> None] /\ byIp' = [a \in Addrs |-> None]
  /\ hostLru' = <<>> /\ ipLru' = <<>> /\ age' = <<>>

---------------------------------------------------------------------------
(* Pool                                                                    *)

Goto(t, l) == pc' = [pc EXCEPT ![t] = l]

\* lookup, the host is known: the mutex is taken and released in one step
LookupHit(t, n) ==
  LET h == Lower[n] IN
    /\ pc[t] = "idle" /\ lock = None
    /\ byHost[h] # None
    /\ Get(h, byHost[h])
    /\ UNCHANGED <<poolVars, jobVars, pc, rewound>>

\* lookup, the host is unknown: the mutex stays held for allocate
LookupMiss(t, n) ==
  /\ pc[t] = "idle" /\ lock = None
  /\ byHost[Lower[n]] = None
  /\ lock' = t /\ host' = Lower[n]
  /\ Goto(t, "alloc")
  /\ UNCHANGED <<storeVars, poolVars, cand, rewound>>

\* allocate: the cursor advances, and the address there may have to be freed
Allocate(t) ==
  LET c == Candidate(offset, Prefix) IN
    /\ pc[t] = "alloc"
    /\ cand' = c
    /\ cycle' = (cycle \/ Wraps(offset, Prefix))
    /\ Goto(t, IF cycle' \/ byIp[c] # None THEN "evict" ELSE "put")
    /\ UNCHANGED <<storeVars, offset, lock, host, rewound>>

Evict(t) ==
  /\ pc[t] = "evict"
  /\ DelByIp(cand)
  /\ Goto(t, "put")
  /\ UNCHANGED <<poolVars, jobVars, rewound>>

\* The pair is stored, the cursor written and the mutex released
Put(t) ==
  /\ pc[t] = "put"
  /\ StorePut(host, cand)
  /\ offset' = cand
  /\ lock' = None /\ host' = None /\ cand' = None
  /\ Goto(t, "idle")
  /\ UNCHANGED <<cycle, rewound>>

\* look_back: no pool mutex.  The gateway and the broadcast address are never
\* stored, so the early return for them changes nothing.
LookBack(t, ip) ==
  /\ pc[t] = "idle"
  /\ byIp[ip] # None
  /\ Get(byIp[ip], ip)
  /\ UNCHANGED <<poolVars, jobVars, pc, rewound>>

\* flush: the store first, without the pool mutex ...
FlushStore(t) ==
  /\ pc[t] = "idle"
  /\ StoreFlush
  /\ rewound' = FALSE
  /\ Goto(t, "reset")
  /\ UNCHANGED <<poolVars, jobVars>>

\* ... then the cursor, under it
FlushCursor(t) ==
  /\ pc[t] = "reset" /\ lock = None
  /\ offset' = PrevAddr(FirstAddr(Prefix)) /\ cycle' = FALSE
  /\ rewound' = (age # <<>>)
  /\ Goto(t, "idle")
  /\ UNCHANGED <<storeVars, jobVars>>

Next ==
  \E t \in Tasks :
    \/ \E n \in Names : LookupHit(t, n) \/ LookupMiss(t, n)
    \/ Allocate(t) \/ Evict(t) \/ Put(t)
    \/ \E ip \in Addrs : LookBack(t, ip)
    \/ FlushStore(t) \/ FlushCursor(t)

Spec == Init /\ [][Next]_vars

---------------------------------------------------------------------------
\* The two directions are always each other's inverse, whatever allocations,
\* evictions and flushes interleave (the store's single mutex, issue #434).
MutualInverse ==
  /\ \A h \in Hosts : byHost[h] # None => byIp[byHost[h]] = h
  /\ \A a \in Addrs : byIp[a] # None => byHost[byIp[a]] = a

\* The pool keeps the promise of the abstract map
Map == INSTANCE FakeIpMap WITH owner <- byIp
ImplementsMap == Map!Spec

\* Both recency lists hold the same pairs in the same order, so that the cap
\* evicts a pair and never half of one ("both LRUs stay synchronised"), and
\* the store stays within its capacity.
RecencyInSync ==
  /\ ipLru = [i \in DOMAIN hostLru |-> byHost[hostLru[i]]]
  /\ Len(hostLru) <= Cap

\* The cursor recycles oldest first: an address freed for a new host is the
\* one that was allocated longest ago.  (flush clears the store before it
\* takes the pool mutex; addresses allocated in between are left above a
\* cursor that restarts below them, and the order is lost until they are gone.)
OldestFirst ==
  [][\A t \in Tasks : pc[t] = "evict" /\ pc'[t] = "put" /\ byIp[cand] # None /\ ~rewound
       => cand = Head(age)]_vars

\* The store implements the abstract map, its recency lists hold the same pairs, and the
\* cursor recycles the oldest address first.
MemorySound == ImplementsMap /\ OldestFirst /\ [][RecencyInSync']_vars
=============================================================================
