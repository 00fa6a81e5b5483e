------------------------------ MODULE DnsCache ------------------------------
(***************************************************************************)
(* One shard of the DNS cache (meow-dns: cache.rs).  An entry packs both   *)
(* address families: one address list, an expiry per family, the families  *)
(* queried, and a negative kind per family.  A writer reads the clock,     *)
(* writes the reverse mapping of each address under that shard's lock, and *)
(* then merges the entry under the forward lock.                           *)
(***************************************************************************)
EXTENDS Naturals, Sequences

CONSTANTS Writers, Domains,
          Ips, FamilyOf,        \* addresses, and the family of each
          Ttls, Floor,          \* clamped TTLs, and REVERSE_TTL_FLOOR
          Cap,                  \* fwd_shard_cap
          MaxNow,               \* bound on the clock
          NoEntry, Idle, Miss

Families == {"v4", "v6"}
Kinds == {"none", "nodata", "nx"}     \* NegKind, FamilyNeg

ASSUME CacheAssumption ==
  /\ FamilyOf \in [Ips -> Families]
  /\ Ttls \subseteq Nat /\ Floor \in Nat /\ MaxNow \in Nat /\ Cap \in Nat \ {0}

Time == Nat
Entries == [ips : SUBSET Ips, expire : [Families -> Time], queried : SUBSET Families,
            neg : [Families -> Kinds]]
Jobs == [d : Domains, f : Families, ips : SUBSET Ips, neg : Kinds, ttl : Ttls,
         at : Time, todo : SUBSET Ips]

ASSUME CacheMarkers ==
  /\ NoEntry \notin Entries /\ Idle \notin Jobs
  /\ Miss \notin [kind : {"ans", "nodata", "nx"}, ips : SUBSET Ips, expire : Time]

VARIABLES
  now,        \* the clock
  entry,      \* the forward entries of the shard
  order,      \* its LRU order, the most recent last
  reverse,    \* the reverse entries
  job,        \* each writer: the merge it is doing
  clearing    \* the API's clear(): between its two halves, or not running

vars == <<now, entry, order, reverse, job, clearing>>

\* Types: the caches map names and addresses to entries that carry a deadline.
TypeOK ==
  /\ now \in Time
  /\ entry \in [Domains -> Entries \cup {NoEntry}]
  /\ reverse \in [Ips -> [domain : Domains, expire : Time] \cup {NoEntry}]
  /\ job \in [Writers -> Jobs \cup {Idle}]
  /\ clearing \in {"no", "reverse"}

Init ==
  /\ now = 0
  /\ entry = [d \in Domains |-> NoEntry] /\ order = <<>>
  /\ reverse = [i \in Ips |-> NoEntry]
  /\ job = [w \in Writers |-> Idle] /\ clearing = "no"

Of(f, ips) == {i \in ips : FamilyOf[i] = f}
Other(f) == CHOOSE g \in Families : g # f
MaxOf(a, b) == IF a > b THEN a ELSE b

FreshAt(e, f, t) == f \in e.queried /\ e.expire[f] > t

\* family_hit
FamilyHit(e, f) ==
  IF ~FreshAt(e, f, now) THEN Miss
  ELSE [kind |-> IF Of(f, e.ips) # {} THEN "ans" ELSE IF e.neg[f] = "nx" THEN "nx" ELSE "nodata",
        ips |-> Of(f, e.ips), expire |-> e.expire[f]]

Expired(e) == \A f \in Families : ~FreshAt(e, f, now)

---------------------------------------------------------------------------
(* The LRU shard                                                           *)

Without(d) == SelectSeq(order, LAMBDA x : x # d)

\* pop_lru past the capacity
Evicted(o) == IF Len(o) > Cap THEN {Head(o)} ELSE {}

Put(d, e) ==
  LET o == Append(Without(d), d) IN
  /\ entry' = [x \in Domains |-> IF x \in Evicted(o) THEN NoEntry
                                 ELSE IF x = d THEN e ELSE entry[x]]
  /\ order' = SelectSeq(o, LAMBDA x : x \notin Evicted(o))

---------------------------------------------------------------------------
(* Writers                                                                 *)

\* merge_family begins: the clock is read.  merge_set_into_cache passes the
\* addresses of one family, or none and a negative kind.
MergeStart(w, d, f, ips, neg, ttl) ==
  /\ job[w] = Idle
  /\ ips = Of(f, ips) /\ (ips = {} <=> neg # "none")
  /\ job' = [job EXCEPT ![w] = [d |-> d, f |-> f, ips |-> ips, neg |-> neg, ttl |-> ttl,
                                at |-> now, todo |-> ips]]
  /\ UNCHANGED <<now, entry, order, reverse, clearing>>

\* One reverse entry is written, under its own shard's lock
MergeReverse(w, i) ==
  /\ job[w] # Idle /\ i \in job[w].todo
  /\ reverse' = [reverse EXCEPT ![i] =
                   [domain |-> job[w].d, expire |-> job[w].at + MaxOf(job[w].ttl, Floor)]]
  /\ job' = [job EXCEPT ![w].todo = @ \ {i}]
  /\ UNCHANGED <<now, entry, order, clearing>>

\* A NODATA that must not displace a fresh NXDOMAIN or fresh addresses
PreserveExisting(j, e) ==
  /\ FreshAt(e, j.f, j.at)
  /\ j.neg = "nodata"
  /\ e.neg[j.f] = "nx" \/ Of(j.f, e.ips) # {}

\* Faulty variant of Merged: one expiry for both families, the earlier one
MergedMin(j, e) ==
  LET g == Other(j.f)
      keepOther == e # NoEntry /\ FreshAt(e, g, j.at)
      low == IF keepOther /\ e.expire[g] < j.at + j.ttl THEN e.expire[g] ELSE j.at + j.ttl IN
  [ips |-> j.ips \cup (IF keepOther THEN Of(g, e.ips) ELSE {}),
   expire |-> [f \in Families |-> low],
   queried |-> {j.f} \cup (IF keepOther THEN {g} ELSE {}),
   neg |-> [f \in Families |->
              IF f = j.f THEN j.neg ELSE IF keepOther THEN e.neg[g] ELSE "none"]]

\* The entry merge_family builds from the existing one
Merged(j, e) ==
  LET g == Other(j.f)
      keepOther == e # NoEntry /\ FreshAt(e, g, j.at)
      keepOwn == e # NoEntry /\ PreserveExisting(j, e) IN
  [ips |-> j.ips \cup (IF keepOwn THEN Of(j.f, e.ips) ELSE {})
                 \cup (IF keepOther THEN Of(g, e.ips) ELSE {}),
   expire |-> [f \in Families |->
                 IF (f = j.f /\ keepOwn) \/ (f = g /\ keepOther) THEN e.expire[f]
                 ELSE j.at + j.ttl],
   queried |-> {j.f} \cup (IF keepOther THEN {g} ELSE {}),
   neg |-> [f \in Families |->
              IF f = g THEN (IF keepOther THEN e.neg[g] ELSE "none")
              ELSE IF ~keepOwn THEN j.neg ELSE IF Of(f, e.ips) = {} THEN "nx" ELSE "none"]]

MergeForward(w) ==
  /\ job[w] # Idle /\ job[w].todo = {}
  /\ Put(job[w].d, Merged(job[w], entry[job[w].d]))
  /\ job' = [job EXCEPT ![w] = Idle]
  /\ UNCHANGED <<now, reverse, clearing>>

---------------------------------------------------------------------------
(* Readers, and the API                                                    *)

\* get_lookup: an entry without a fresh family is popped, any other is bumped
GetLookup(d) ==
  /\ entry[d] # NoEntry
  /\ IF Expired(entry[d])
     THEN entry' = [entry EXCEPT ![d] = NoEntry] /\ order' = Without(d)
     ELSE order' = Append(Without(d), d) /\ UNCHANGED entry
  /\ UNCHANGED <<now, reverse, job, clearing>>

\* reverse_lookup: an expired mapping is popped
ReverseLookup(i) ==
  /\ reverse[i] # NoEntry /\ reverse[i].expire <= now
  /\ reverse' = [reverse EXCEPT ![i] = NoEntry]
  /\ UNCHANGED <<now, entry, order, job, clearing>>

\* snapshot: every expired entry is popped
Snapshot ==
  /\ entry' = [d \in Domains |->
                 IF entry[d] # NoEntry /\ Expired(entry[d]) THEN NoEntry ELSE entry[d]]
  /\ order' = SelectSeq(order, LAMBDA d : ~Expired(entry[d]))
  /\ UNCHANGED <<now, reverse, job, clearing>>

\* clear: the forward shards, and then the reverse shards
ClearForward ==
  /\ clearing = "no" /\ clearing' = "reverse"
  /\ entry' = [d \in Domains |-> NoEntry] /\ order' = <<>>
  /\ UNCHANGED <<now, reverse, job>>
ClearReverse ==
  /\ clearing = "reverse" /\ clearing' = "no"
  /\ reverse' = [i \in Ips |-> NoEntry]
  /\ UNCHANGED <<now, entry, order, job>>

Tick ==
  /\ now < MaxNow /\ now' = now + 1
  /\ UNCHANGED <<entry, order, reverse, job, clearing>>

Next ==
  \/ \E w \in Writers :
       \/ \E d \in Domains, f \in Families, ips \in SUBSET Ips, neg \in Kinds, ttl \in Ttls :
            MergeStart(w, d, f, ips, neg, ttl)
       \/ \E i \in Ips : MergeReverse(w, i)
       \/ MergeForward(w)
  \/ \E d \in Domains : GetLookup(d)
  \/ \E i \in Ips : ReverseLookup(i)
  \/ Snapshot \/ ClearForward \/ ClearReverse \/ Tick

Spec == Init /\ [][Next]_vars

---------------------------------------------------------------------------
\* The cache as its readers see it
Hits == [d \in Domains |-> [f \in Families |->
           IF entry[d] = NoEntry THEN Miss ELSE FamilyHit(entry[d], f)]]

Abstract == INSTANCE FamilyCache WITH hit <- Hits

\* The packed entries behave as two independent caches, one per family: a merge
\* of one family never changes the answer, the kind or the expiry of the other,
\* and nothing is served past its own expiry (merge_family, family_hit).
ImplementsFamilyCache == Abstract!Spec

\* No cached address is an orphan that no family filter finds: its family was
\* queried, and a family with a negative kind has no address (merge_family).
NoOrphans ==
  \A d \in Domains : entry[d] # NoEntry =>
    /\ \A i \in entry[d].ips : FamilyOf[i] \in entry[d].queried
    /\ \A f \in Families : entry[d].neg[f] # "none" => Of(f, entry[d].ips) = {}

=============================================================================
