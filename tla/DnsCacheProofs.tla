--------------------------- MODULE DnsCacheProofs ---------------------------
(***************************************************************************)
(* The packed DNS cache implements two independent per-family caches, for  *)
(* any set of domains, addresses, writers and TTLs, and keeps no orphans.  *)
(* The invariant the refinement needs relates a writer to the clock: the   *)
(* clock it read is not ahead of the real one, so a sibling that is still  *)
(* fresh to a reader is fresh to the writer too and survives the merge.    *)
(***************************************************************************)
EXTENDS DnsCache, TLAPS

\* What a writer carries: a clock in the past, and addresses of its family, or
\* none and a negative kind
JobOK(j) == /\ j.at <= now
            /\ \A i \in j.ips : FamilyOf[i] = j.f
            /\ j.ips = {} <=> j.neg # "none"

IndInv == TypeOK /\ \A w \in Writers : job[w] # Idle => JobOK(job[w])

LEMMA Siblings == /\ Other("v4") = "v6" /\ Other("v6") = "v4"
  <1>1. \E g \in Families : g # "v4"  BY DEF Families
  <1>2. \E g \in Families : g # "v6"  BY DEF Families
  <1> QED BY <1>1, <1>2 DEF Other, Families

\* A writer's expiry is a time
LEMMA JobTime == ASSUME NEW j \in Jobs PROVE j.at + j.ttl \in Nat
  <1>1. j.at \in Nat /\ j.ttl \in Ttls  BY DEF Jobs, Time
  <1>2. j.ttl \in Nat  BY <1>1, CacheAssumption, Zenon
  <1> QED BY <1>1, <1>2

\* merge_family builds a well-formed entry
LEMMA MergedType ==
  ASSUME NEW j \in Jobs, NEW e \in Entries \cup {NoEntry}
  PROVE  Merged(j, e) \in Entries
  <1> USE CacheAssumption, CacheMarkers DEF Jobs, Entries, Time
  <1>1. Other(j.f) \in Families  BY Siblings DEF Families
  <1>2. j.at + j.ttl \in Nat  BY JobTime
  <1> QED BY <1>1, <1>2 DEF Merged, Of, Kinds, PreserveExisting, FreshAt

\* What a reader sees of a merged entry: the sibling is untouched, and a fresh
\* answer or NXDOMAIN is not replaced by NODATA
LEMMA MergedHits ==
  ASSUME NEW j \in Jobs, JobOK(j), now \in Nat,
         NEW e \in Entries \cup {NoEntry},
         NEW g \in Families
  PROVE  LET old == IF e = NoEntry THEN Miss ELSE FamilyHit(e, g)
             new == FamilyHit(Merged(j, e), g) IN
         /\ g # j.f => new = old
         /\ g = j.f /\ old # Miss /\ old.kind # "nodata" /\ new # Miss => new.kind # "nodata"
  <1> USE CacheAssumption, CacheMarkers DEF Jobs, Entries, Time
  <1> DEFINE m == Merged(j, e)
             keepOther == e # NoEntry /\ FreshAt(e, Other(j.f), j.at)
             keepOwn == e # NoEntry /\ PreserveExisting(j, e)
  <1>a. /\ j.f \in Families /\ Other(j.f) \in Families /\ Other(j.f) # j.f
        /\ \A h \in Families : h = j.f \/ h = Other(j.f)
    BY Siblings DEF Families
  <1>t. j.at + j.ttl \in Nat  BY JobTime
  <1>b. /\ m.queried = {j.f} \cup (IF keepOther THEN {Other(j.f)} ELSE {})
        /\ m.ips = j.ips \cup (IF keepOwn THEN Of(j.f, e.ips) ELSE {})
                         \cup (IF keepOther THEN Of(Other(j.f), e.ips) ELSE {})
    BY DEF Merged
  <1>c. /\ m.expire[j.f] = IF keepOwn THEN e.expire[j.f] ELSE j.at + j.ttl
        /\ m.expire[Other(j.f)] = IF keepOther THEN e.expire[Other(j.f)] ELSE j.at + j.ttl
        /\ m.neg[Other(j.f)] = IF keepOther THEN e.neg[Other(j.f)] ELSE "none"
        /\ m.neg[j.f] = IF ~keepOwn THEN j.neg ELSE IF Of(j.f, e.ips) = {} THEN "nx" ELSE "none"
    BY <1>a DEF Merged
  <1>d. keepOther => Of(Other(j.f), m.ips) = Of(Other(j.f), e.ips)
    BY <1>a, <1>b DEF Of, JobOK
  <1>e. Of(j.f, m.ips) = j.ips \cup (IF keepOwn THEN Of(j.f, e.ips) ELSE {})
    BY <1>a, <1>b DEF Of, JobOK
  <1> HIDE DEF m, keepOther, keepOwn
  <1>1. CASE g = Other(j.f)
    <2>1. CASE keepOther
      BY <1>1, <2>1, <1>a, <1>b, <1>c, <1>d, Zenon DEF FamilyHit, FreshAt, m, keepOther
    <2>2. CASE ~keepOther
      <3>1. FamilyHit(m, g) = Miss  BY <1>1, <2>2, <1>a, <1>b DEF FamilyHit, FreshAt
      <3>2. e # NoEntry => FamilyHit(e, g) = Miss
        BY <1>1, <2>2, <1>a DEF FamilyHit, FreshAt, keepOther, JobOK
      <3> QED BY <1>1, <3>1, <3>2, <1>a DEF m
    <2> QED BY <2>1, <2>2
  <1>2. CASE g = j.f
    <2> SUFFICES ASSUME e # NoEntry, FamilyHit(e, g) # Miss, FamilyHit(e, g).kind # "nodata",
                        FamilyHit(m, g) # Miss
                 PROVE  FamilyHit(m, g).kind # "nodata"
      BY <1>2 DEF m
    <2>1. FreshAt(e, j.f, now) /\ FreshAt(e, j.f, j.at)
      BY <1>2, <1>a DEF FamilyHit, FreshAt, JobOK
    <2>2. Of(j.f, e.ips) # {} \/ e.neg[j.f] = "nx"
      BY <1>2, <2>1 DEF FamilyHit
    <2>3. CASE j.neg = "nodata"
      <3>1. keepOwn  BY <2>1, <2>2, <2>3 DEF keepOwn, PreserveExisting
      <3> QED BY <3>1, <1>2, <1>c, <1>e DEF FamilyHit
    <2>4. CASE j.neg # "nodata"
      <3>1. ~keepOwn  BY <2>4 DEF keepOwn, PreserveExisting
      <3>2. j.neg = "none" \/ j.neg = "nx"  BY <2>4 DEF Kinds
      <3> QED BY <3>1, <3>2, <1>2, <1>c, <1>e DEF FamilyHit, JobOK
    <2> QED BY <2>3, <2>4
  <1> QED BY <1>1, <1>2, <1>a

---------------------------------------------------------------------------
\* The types, and that no writer's clock is ahead, hold throughout
THEOREM Inductive == Spec => []IndInv
  <1>1. Init => IndInv
    BY CacheMarkers DEF Init, IndInv, TypeOK, Time
  <1>2. IndInv /\ [Next]_vars => IndInv'
    <2> SUFFICES ASSUME IndInv, [Next]_vars PROVE IndInv'
      OBVIOUS
    <2> USE CacheAssumption, CacheMarkers
    <2>1. ASSUME NEW w \in Writers, NEW d \in Domains, NEW f \in Families,
                 NEW ips \in SUBSET Ips, NEW neg \in Kinds, NEW ttl \in Ttls,
                 MergeStart(w, d, f, ips, neg, ttl)
          PROVE  IndInv'
      BY <2>1 DEF IndInv, TypeOK, MergeStart, JobOK, Jobs, Of, Time
    <2>2. ASSUME NEW w \in Writers, NEW i \in Ips, MergeReverse(w, i)
          PROVE  IndInv'
      <3>1. job[w] \in Jobs  BY <2>2 DEF IndInv, TypeOK, MergeReverse
      <3>2. job[w].at + MaxOf(job[w].ttl, Floor) \in Time
        BY <3>1, JobTime DEF Jobs, Time, MaxOf
      <3> QED BY <2>2, <3>1, <3>2 DEF IndInv, TypeOK, MergeReverse, JobOK, Jobs, Time
    <2>3. ASSUME NEW w \in Writers, MergeForward(w)
          PROVE  IndInv'
      <3>1. job[w] \in Jobs /\ job[w].d \in Domains
        BY <2>3 DEF IndInv, TypeOK, MergeForward, Jobs
      <3>2. Merged(job[w], entry[job[w].d]) \in Entries
        BY <3>1, MergedType DEF IndInv, TypeOK
      <3> QED BY <2>3, <3>1, <3>2 DEF IndInv, TypeOK, MergeForward, Put, JobOK
    <2>4. ASSUME NEW d \in Domains, GetLookup(d)
          PROVE  IndInv'
      BY <2>4 DEF IndInv, TypeOK, GetLookup, JobOK
    <2>5. ASSUME NEW i \in Ips, ReverseLookup(i)
          PROVE  IndInv'
      BY <2>5 DEF IndInv, TypeOK, ReverseLookup, JobOK
    <2>6. CASE Snapshot
      BY <2>6 DEF IndInv, TypeOK, Snapshot, JobOK
    <2>7. CASE ClearForward
      BY <2>7 DEF IndInv, TypeOK, ClearForward, JobOK
    <2>8. CASE ClearReverse
      BY <2>8 DEF IndInv, TypeOK, ClearReverse, JobOK
    <2>9. CASE Tick
      <3>1. \A w \in Writers : job[w] # Idle => job[w].at \in Nat
        BY DEF IndInv, TypeOK, Jobs, Time
      <3> QED BY <2>9, <3>1 DEF IndInv, TypeOK, Tick, JobOK, Time
    <2>10. CASE UNCHANGED vars
      BY <2>10 DEF IndInv, TypeOK, vars, JobOK
    <2> QED BY <2>1, <2>2, <2>3, <2>4, <2>5, <2>6, <2>7, <2>8, <2>9, <2>10 DEF Next
  <1> QED BY <1>1, <1>2, PTL DEF Spec

---------------------------------------------------------------------------
\* Hits, spelled out: what is served is fresh
LEMMA Served ==
  ASSUME NEW d \in Domains, NEW f \in Families
  PROVE  /\ Hits[d][f] = IF entry[d] = NoEntry THEN Miss ELSE FamilyHit(entry[d], f)
         /\ Hits[d][f] # Miss => Hits[d][f].expire > now
  <1>1. Hits[d][f] = IF entry[d] = NoEntry THEN Miss ELSE FamilyHit(entry[d], f)
    BY DEF Hits
  <1>2. Hits[d][f] # Miss => Hits[d][f].expire > now
    BY <1>1 DEF FamilyHit, FreshAt
  <1> QED BY <1>1, <1>2

\* The packed cache implements the per-family caches: a merge of one family
\* leaves the other's answer, kind and expiry alone, nothing is served past its
\* own expiry, and NODATA never replaces something better that is fresh.
THEOREM Refinement == Spec => ImplementsFamilyCache
  <1>1. Init => Abstract!Init
    BY DEF Init, Abstract!Init, Abstract!Nothing, Hits
  <1>2. IndInv /\ [Next]_vars => [Abstract!Next]_<<now, Hits>>
    <2> SUFFICES ASSUME IndInv, [Next]_vars PROVE [Abstract!Next]_<<now, Hits>>
      OBVIOUS
    <2>l. Abstract!Live'
      <3>1. \A d \in Domains, f \in Families : Hits[d][f] # Miss => Hits[d][f].expire > now
        BY Served
      <3>2. (\A d \in Domains, f \in Families : Hits[d][f] # Miss => Hits[d][f].expire > now)'
        BY DEF Hits, FamilyHit, FreshAt
      <3> QED BY <3>2 DEF Abstract!Live
    <2>1. ASSUME entry' = entry, now' = now PROVE UNCHANGED <<now, Hits>>
      BY <2>1 DEF Hits, FamilyHit, FreshAt
    <2>2. ASSUME NEW w \in Writers, MergeForward(w)
          PROVE  Abstract!Next
      <3> DEFINE j == job[w]
                 d == job[w].d
                 m == Merged(j, entry[d])
      <3>1. j \in Jobs /\ d \in Domains /\ JobOK(j) /\ now \in Nat /\ now' = now
            /\ entry[d] \in Entries \cup {NoEntry} /\ j.f \in Families
        BY <2>2 DEF IndInv, TypeOK, MergeForward, Jobs, Time
      <3>2. m \in Entries /\ m # NoEntry
        BY <3>1, MergedType, CacheMarkers
      <3> DEFINE gone == Evicted(Append(Without(d), d))
      <3>3. entry' = [x \in Domains |-> IF x \in gone THEN NoEntry
                                         ELSE IF x = d THEN m ELSE entry[x]]
        BY <2>2 DEF MergeForward, Put
      <3>4. \A x \in Domains : x \in gone => Hits'[x] = Abstract!Nothing
        BY <3>3, SMTT(30) DEF Hits, Abstract!Nothing
      <3>5. \A x \in Domains \ {d} : x \notin gone => Hits'[x] = Hits[x]
        BY <3>1, <3>3, ZenonT(30) DEF Hits, FamilyHit, FreshAt
      <3>6. d \notin gone => \A g \in Families : Hits'[d][g] = FamilyHit(m, g)
        BY <3>1, <3>2, <3>3, Zenon DEF Hits, FamilyHit, FreshAt
      <3> HIDE DEF m, gone
      <3>7. \A g \in Families :
              /\ g # j.f => FamilyHit(m, g) = Hits[d][g]
              /\ g = j.f /\ Hits[d][g] # Miss /\ Hits[d][g].kind # "nodata"
                   /\ FamilyHit(m, g) # Miss => FamilyHit(m, g).kind # "nodata"
        BY <3>1, MergedHits, Served DEF m
      <3>8. Abstract!Answer(d, j.f)
        BY <3>1, <3>4, <3>5, <3>6, <3>7
           DEF Abstract!Answer, Abstract!Kept, Abstract!NoDowngrade, Abstract!Nothing
      <3> QED BY <2>l, <3>1, <3>8 DEF Abstract!Next
    <2>3. ASSUME now' = now,
                 \A d \in Domains : entry'[d] = entry[d]
                    \/ (entry'[d] = NoEntry /\ entry[d] # NoEntry /\ Expired(entry[d]))
          PROVE  UNCHANGED <<now, Hits>>
      BY <2>3 DEF Hits, FamilyHit, FreshAt, Expired
    <2>4. CASE ClearForward
      BY <2>l, <2>4 DEF ClearForward, Abstract!Next, Abstract!Forget, Abstract!Kept,
                        Abstract!Nothing, Hits
    <2>5. CASE Tick
      <3>1. now' = now + 1 /\ entry' = entry  BY <2>5 DEF Tick
      <3>2. \A d \in Domains, f \in Families : entry[d] # NoEntry =>
               entry[d].expire[f] \in Nat
        BY DEF IndInv, TypeOK, Entries, Time
      <3>3. now \in Nat  BY DEF IndInv, TypeOK, Time
      <3>4. \A d \in Domains, f \in Families :
               Hits'[d][f] = IF Hits[d][f] # Miss /\ Hits[d][f].expire > now'
                             THEN Hits[d][f] ELSE Miss
        BY <3>1, <3>2, <3>3, SMTT(60) DEF Hits, FamilyHit, FreshAt
      <3>5. Hits' = [d \in Domains |-> [f \in Families |->
                       IF Hits[d][f] # Miss /\ Hits[d][f].expire > now' THEN Hits[d][f] ELSE Miss]]
        BY <3>4 DEF Hits
      <3> QED BY <2>l, <3>1, <3>5 DEF Abstract!Next, Abstract!Tick
    <2>6. CASE \E d \in Domains : GetLookup(d)
      BY <2>3, <2>6 DEF GetLookup, IndInv, TypeOK
    <2>7. CASE Snapshot
      BY <2>3, <2>7 DEF Snapshot
    <2>8. CASE \/ UNCHANGED vars \/ ClearReverse
               \/ \E i \in Ips : ReverseLookup(i)
               \/ \E w \in Writers :
                    \/ \E i \in Ips : MergeReverse(w, i)
                    \/ \E d \in Domains, f \in Families, ips \in SUBSET Ips, neg \in Kinds,
                          ttl \in Ttls : MergeStart(w, d, f, ips, neg, ttl)
      BY <2>1, <2>8 DEF vars, ClearReverse, ReverseLookup, MergeReverse, MergeStart
    <2> QED BY <2>2, <2>4, <2>5, <2>6, <2>7, <2>8 DEF Next
  <1> QED BY <1>1, <1>2, Inductive, PTL DEF Spec, ImplementsFamilyCache, Abstract!Spec

---------------------------------------------------------------------------
\* One entry without orphans (the body of NoOrphans)
Tidy(e) ==
  /\ \A i \in e.ips : FamilyOf[i] \in e.queried
  /\ \A f \in Families : e.neg[f] # "none" => Of(f, e.ips) = {}

LEMMA MergedTidy ==
  ASSUME NEW j \in Jobs, JobOK(j), NEW e \in Entries \cup {NoEntry},
         e # NoEntry => Tidy(e)
  PROVE  Tidy(Merged(j, e))
  <1> USE CacheAssumption, CacheMarkers DEF Jobs, Entries, Time
  <1>a. /\ j.f \in Families /\ Other(j.f) \in Families /\ Other(j.f) # j.f
        /\ \A h \in Families : h = j.f \/ h = Other(j.f)
    BY Siblings DEF Families
  <1>1. \A i \in Merged(j, e).ips : FamilyOf[i] \in Merged(j, e).queried
    BY <1>a, SMTT(60) DEF Merged, Of, JobOK
  <1>2. Merged(j, e).neg[j.f] # "none" => Of(j.f, Merged(j, e).ips) = {}
    BY <1>a, SMTT(60) DEF Merged, Of, JobOK, PreserveExisting
  <1>3. Merged(j, e).neg[Other(j.f)] # "none" => Of(Other(j.f), Merged(j, e).ips) = {}
    BY <1>a, SMTT(60) DEF Merged, Of, JobOK, Tidy
  <1> QED BY <1>a, <1>1, <1>2, <1>3 DEF Tidy

\* No cached address is out of reach of the family filters, and no family has
\* both a negative kind and addresses, whatever the order of the merges.
THEOREM OrphanFree == Spec => []NoOrphans
  <1>1. Init => NoOrphans
    BY DEF Init, NoOrphans
  <1>2. IndInv /\ NoOrphans /\ [Next]_vars => NoOrphans'
    <2> SUFFICES ASSUME IndInv, NoOrphans, [Next]_vars PROVE NoOrphans'
      OBVIOUS
    <2>1. ASSUME \A d \in Domains : entry'[d] = entry[d] \/ entry'[d] = NoEntry
          PROVE  NoOrphans'
      BY <2>1 DEF NoOrphans, Of
    <2>2. ASSUME NEW w \in Writers, MergeForward(w)
          PROVE  NoOrphans'
      <3> DEFINE m == Merged(job[w], entry[job[w].d])
      <3>1. job[w] \in Jobs /\ job[w].d \in Domains /\ JobOK(job[w])
            /\ entry[job[w].d] \in Entries \cup {NoEntry}
        BY <2>2 DEF IndInv, TypeOK, MergeForward, Jobs
      <3>2. Tidy(m)
        BY <3>1, MergedTidy, Zenon DEF NoOrphans, Tidy
      <3>3. \A x \in Domains : entry'[x] = NoEntry \/ entry'[x] = m \/ entry'[x] = entry[x]
        BY <2>2 DEF MergeForward, Put
      <3> HIDE DEF m
      <3> QED BY <3>2, <3>3 DEF NoOrphans, Tidy, Of
    <2>3. CASE UNCHANGED entry
      BY <2>1, <2>3
    <2>4. CASE ClearForward \/ Snapshot \/ \E d \in Domains : GetLookup(d)
      BY <2>1, <2>4 DEF ClearForward, Snapshot, GetLookup, IndInv, TypeOK
    <2> QED BY <2>2, <2>3, <2>4 DEF Next, vars, Tick, ClearReverse, ReverseLookup, MergeReverse,
                                  MergeStart
  <1> QED BY <1>1, <1>2, Inductive, PTL DEF Spec
=============================================================================
