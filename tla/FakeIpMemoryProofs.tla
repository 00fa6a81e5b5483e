------------------------- MODULE FakeIpMemoryProofs -------------------------
(***************************************************************************)
(* Proofs about the fake-IP pool over a memory store, for any hosts, any   *)
(* range that Pool::new accepts, any capacity and any number of tasks.     *)
(***************************************************************************)
EXTENDS FakeIpMemory, SequenceTheorems, TLAPS

\* The store's two maps, typed and inverse of each other
Paired(bh, bi) ==
  /\ bh \in [Hosts -> Addrs \cup {None}]
  /\ bi \in [Addrs -> Hosts \cup {None}]
  /\ \A h \in Hosts : bh[h] # None => bi[bh[h]] = h
  /\ \A a \in Addrs : bi[a] # None => bh[bi[a]] = a

\* The pool mutex protects an allocation: its host stays unmapped (only a
\* flush can interfere, and it only removes), its candidate is in the range,
\* and it is free when the pair is put.
Exclusive ==
  /\ lock \in Tasks \cup {None}
  /\ pc \in [Tasks -> {"idle", "alloc", "evict", "put", "reset"}]
  /\ offset \in Addrs \cup {PrevAddr(FirstAddr(Prefix))}
  /\ \A t \in Tasks :
       /\ pc[t] \in {"alloc", "evict", "put"} =>
            lock = t /\ host \in Hosts /\ byHost[host] = None
       /\ pc[t] \in {"evict", "put"} => cand \in Addrs
       /\ pc[t] = "put" => byIp[cand] = None

IndInv == Paired(byHost, byIp) /\ Exclusive

---------------------------------------------------------------------------
\* The address arithmetic wraps only at the end of the address space
LEMMA ModIdentity ==
  ASSUME NEW x \in 0..(Word - 1)
  PROVE  x % Word = x
BY WordAssumption

LEMMA NextInside ==
  ASSUME NEW x \in 0..(Word - 1), x + 1 < Word
  PROVE  NextAddr(x) = x + 1
BY WordAssumption, ModIdentity DEF NextAddr

LEMMA NextType ==
  ASSUME NEW x \in Int
  PROVE  NextAddr(x) \in 0..(Word - 1)
BY WordAssumption DEF NextAddr

LEMMA NextPrev ==
  ASSUME NEW x \in 0..(Word - 1)
  PROVE  NextAddr(PrevAddr(x)) = x
<1>1. CASE x = 0
  <2>1. PrevAddr(x) = Word - 1
    BY <1>1, WordAssumption DEF PrevAddr
  <2>2. QED
    BY <1>1, <2>1, WordAssumption DEF NextAddr
<1>2. CASE x # 0
  <2>1. PrevAddr(x) = x - 1
    BY <1>2, WordAssumption, ModIdentity DEF PrevAddr
  <2>2. QED
    BY <1>2, <2>1, WordAssumption, ModIdentity DEF NextAddr
<1>3. QED
  BY <1>1, <1>2

LEMMA FirstType == FirstAddr(Prefix) \in 0..(Word - 1)
BY PrefixAssumption, NextType DEF Usable, FirstAddr, Gateway

\* Wherever the cursor stands, the candidate lies in the range
LEMMA CandidateInRange ==
  ASSUME NEW o \in Addrs \cup {PrevAddr(FirstAddr(Prefix))}
  PROVE  Candidate(o, Prefix) \in Addrs
<1> DEFINE f == FirstAddr(Prefix)
           l == Broadcast(Prefix)
<1>1. f \in 0..(Word - 1) /\ l \in Int /\ f < l /\ l < Word
  BY FirstType, PrefixAssumption, WordAssumption DEF Usable, Broadcast
<1>2. f \in Addrs
  BY <1>1 DEF Addrs, Allocatable, ContainedInRange
<1>3. CASE Wraps(o, Prefix)
  BY <1>2, <1>3 DEF Candidate
<1>4. CASE ~Wraps(o, Prefix)
  <2>1. NextAddr(o) < l /\ Candidate(o, Prefix) = NextAddr(o)
    BY <1>4 DEF Wraps, Candidate
  <2>2. CASE o = PrevAddr(f)
    BY <1>1, <1>2, <2>1, <2>2, NextPrev
  <2>3. CASE o \in Addrs
    <3>1. o \in 0..(Word - 1) /\ f <= o /\ o < l
      BY <1>1, <2>3, WordAssumption DEF Addrs, Allocatable, ContainedInRange
    <3>2. NextAddr(o) = o + 1
      BY <3>1, <1>1, WordAssumption, NextInside
    <3>3. QED
      BY <1>1, <2>1, <3>1, <3>2, WordAssumption DEF Addrs, Allocatable, ContainedInRange
  <2>4. QED
    BY <2>2, <2>3
<1>5. QED
  BY <1>3, <1>4

---------------------------------------------------------------------------
\* Whatever entry a recency list yields, popping it removes a whole pair
LEMMA PopIpPaired ==
  ASSUME NEW s, Paired(s.bh, s.bi)
  PROVE  Paired(PopIp(s).bh, PopIp(s).bi)
<1> DEFINE ip == Head(s.il)
<1>1. CASE Len(s.il) <= Cap
  BY <1>1, SMTT(30) DEF PopIp
<1>2. CASE ~(Len(s.il) <= Cap)
  BY <1>2, HostAssumption, Zenon DEF PopIp, Paired
<1>3. QED
  BY <1>1, <1>2

LEMMA PopHostPaired ==
  ASSUME NEW s, Paired(s.bh, s.bi)
  PROVE  Paired(PopHost(s).bh, PopHost(s).bi)
<1>1. CASE Len(s.hl) <= Cap
  BY <1>1 DEF PopHost
<1>2. CASE ~(Len(s.hl) <= Cap)
  BY <1>2, HostAssumption, ZenonT(30) DEF PopHost, Paired
<1>3. QED
  BY <1>1, <1>2

\* A pair of a host and an address that are both free keeps the maps inverse
LEMMA PutPaired ==
  ASSUME Paired(byHost, byIp), NEW h \in Hosts, NEW a \in Addrs,
         byHost[h] = None, byIp[a] = None, StorePut(h, a)
  PROVE  Paired(byHost', byIp')
<1>1. Paired(Inserted(h, a).bh, Inserted(h, a).bi)
  BY HostAssumption DEF Inserted, Paired
<1>2. Paired(PopIp(Inserted(h, a)).bh, PopIp(Inserted(h, a)).bi)
  BY <1>1, PopIpPaired
<1>3. QED
  BY <1>2, PopHostPaired DEF StorePut

---------------------------------------------------------------------------
LEMMA InitInv == Init => IndInv
BY HostAssumption DEF Init, IndInv, Paired, Exclusive

\* Every step keeps the maps inverse and an allocation undisturbed
LEMMA StepInv == IndInv /\ [Next]_vars => IndInv'
<1> SUFFICES ASSUME IndInv, [Next]_vars PROVE IndInv'
  OBVIOUS
<1> USE HostAssumption DEF IndInv, Exclusive, Goto, storeVars, poolVars, jobVars
<1>1. ASSUME NEW t \in Tasks, NEW n \in Names, LookupHit(t, n) PROVE IndInv'
  BY <1>1 DEF LookupHit, Get
<1>2. ASSUME NEW t \in Tasks, NEW n \in Names, LookupMiss(t, n) PROVE IndInv'
  BY <1>2 DEF LookupMiss
<1>3. ASSUME NEW t \in Tasks, Allocate(t) PROVE IndInv'
  <2>1. cand' \in Addrs
    BY <1>3, CandidateInRange DEF Allocate
  <2>2. Paired(byHost, byIp)'
    BY <1>3 DEF Allocate
  <2>3. QED
    BY <1>3, <2>1, <2>2 DEF Allocate
<1>4. ASSUME NEW t \in Tasks, Evict(t) PROVE IndInv'
  <2>1. Paired(byHost, byIp)'
    BY <1>4 DEF Evict, DelByIp, Paired
  <2>2. Exclusive'
    BY <1>4 DEF Evict, DelByIp, Paired
  <2>3. QED
    BY <2>1, <2>2
<1>5. ASSUME NEW t \in Tasks, Put(t) PROVE IndInv'
  <2>1. Paired(byHost, byIp)'
    BY <1>5, PutPaired DEF Put
  <2>2. Exclusive'
    BY <1>5 DEF Put
  <2>3. QED
    BY <2>1, <2>2
<1>6. ASSUME NEW t \in Tasks, NEW ip \in Addrs, LookBack(t, ip) PROVE IndInv'
  BY <1>6 DEF LookBack, Get
<1>7. ASSUME NEW t \in Tasks, FlushStore(t) PROVE IndInv'
  BY <1>7 DEF FlushStore, StoreFlush, Paired
<1>8. ASSUME NEW t \in Tasks, FlushCursor(t) PROVE IndInv'
  BY <1>8 DEF FlushCursor
<1>9. CASE UNCHANGED vars
  BY <1>9 DEF vars
<1>10. QED
  BY <1>1, <1>2, <1>3, <1>4, <1>5, <1>6, <1>7, <1>8, <1>9 DEF Next

\* The two directions of the store are always each other's inverse (the store
\* mutex, the pool mutex held across lookup, and the eviction before a put).
THEOREM AlwaysInverse == Spec => []MutualInverse
<1>1. IndInv => MutualInverse
  BY DEF IndInv, Paired, MutualInverse
<1>2. QED
  BY <1>1, InitInv, StepInv, PTL DEF Spec

---------------------------------------------------------------------------
(* Recency lists                                                           *)

\* What is left of a list without its i-th element
LEMMA RemoveAtFacts ==
  ASSUME NEW S, NEW s \in Seq(S), NEW i \in 1..Len(s)
  PROVE  /\ RemoveAt(s, i) \in Seq(S) /\ Len(RemoveAt(s, i)) = Len(s) - 1
         /\ \A j \in 1..(Len(s) - 1) : RemoveAt(s, i)[j] = s[IF j < i THEN j ELSE j + 1]
<1> DEFINE a == SubSeq(s, 1, i - 1)
           b == SubSeq(s, i + 1, Len(s))
<1>1. Len(s) \in Nat
  OBVIOUS
<1>2. a \in Seq(S) /\ Len(a) = i - 1 /\ \A j \in 1..(i - 1) : a[j] = s[j]
  BY <1>1, SubSeqProperties
<1>3. b \in Seq(S) /\ Len(b) = Len(s) - i /\ \A j \in 1..(Len(s) - i) : b[j] = s[i + j]
  BY <1>1, SubSeqProperties
<1> HIDE DEF a, b
<1>4. /\ a \o b \in Seq(S) /\ Len(a \o b) = Len(a) + Len(b)
      /\ \A j \in 1..(Len(a) + Len(b)) : (a \o b)[j] = IF j <= Len(a) THEN a[j] ELSE b[j - Len(a)]
  BY <1>2, <1>3, ConcatProperties, Zenon
<1>5. RemoveAt(s, i) = a \o b
  BY DEF RemoveAt, a, b
<1>6. Len(a) + Len(b) = Len(s) - 1
  BY <1>1, <1>2, <1>3
<1>7. ASSUME NEW j \in 1..(Len(s) - 1) PROVE (a \o b)[j] = s[IF j < i THEN j ELSE j + 1]
  <2>1. CASE j < i
    BY <1>1, <1>2, <1>4, <1>6, <2>1
  <2>2. CASE ~(j < i)
    <3>1. j - Len(a) \in 1..(Len(s) - i) /\ i + (j - Len(a)) = j + 1
      BY <1>1, <1>2, <2>2
    <3>2. (a \o b)[j] = b[j - Len(a)]
      BY <1>1, <1>2, <1>4, <1>6, <2>2
    <3>3. QED
      BY <1>3, <2>2, <3>1, <3>2, Zenon
  <2>3. QED
    BY <2>1, <2>2, Zenon
<1>8. QED
  BY <1>4, <1>5, <1>6, <1>7, Zenon

NoRepeats(s) == \A i, j \in 1..Len(s) : s[i] = s[j] => i = j

LEMMA DropAbsent ==
  ASSUME NEW S, NEW s \in Seq(S), NEW x, \A i \in 1..Len(s) : s[i] # x
  PROVE  Drop(s, x) = s
BY DEF Drop

LEMMA DropPresent ==
  ASSUME NEW S, NEW s \in Seq(S), NoRepeats(s), NEW i \in 1..Len(s)
  PROVE  /\ Drop(s, s[i]) \in Seq(S) /\ Len(Drop(s, s[i])) = Len(s) - 1
         /\ \A j \in 1..(Len(s) - 1) : Drop(s, s[i])[j] = s[IF j < i THEN j ELSE j + 1]
<1> DEFINE x == s[i]
<1>1. (CHOOSE k \in DOMAIN s : s[k] = x) = i
  BY DEF NoRepeats
<1>2. Drop(s, x) = RemoveAt(s, i)
  <2>1. \E k \in DOMAIN s : s[k] = x
    OBVIOUS
  <2> HIDE DEF x
  <2>2. QED
    BY <1>1, <2>1, Zenon DEF Drop
<1>3. QED
  BY <1>2, RemoveAtFacts

---------------------------------------------------------------------------
\* The two lists hold the pairs of the store, each once and at the same place
Synced(bh, hl, il) ==
  /\ hl \in Seq(Hosts) /\ il \in Seq(Addrs) /\ Len(hl) = Len(il) /\ NoRepeats(hl)
  /\ \A i \in 1..Len(hl) : bh[hl[i]] = il[i]
  /\ \A h \in Hosts : bh[h] # None => \E i \in 1..Len(hl) : hl[i] = h

LEMMA AddressesOnce ==
  ASSUME NEW bh, NEW bi, NEW hl, NEW il, Paired(bh, bi), Synced(bh, hl, il)
  PROVE  NoRepeats(il)
BY HostAssumption, ElementOfSeq DEF Paired, Synced, NoRepeats

\* A pair that leaves the maps leaves the same place of both lists
LEMMA ForgetSynced ==
  ASSUME NEW bh, NEW bi, NEW hl, NEW il, Paired(bh, bi), Synced(bh, hl, il),
         NEW h \in Hosts, NEW a \in Addrs, bh[h] = a, NEW left, left = [bh EXCEPT ![h] = None]
  PROVE  Synced(left, Drop(hl, h), Drop(il, a)) /\ Len(Drop(hl, h)) = Len(hl) - 1
<1>1. a # None /\ bi[a] = h
  BY HostAssumption DEF Paired
<1>2. PICK i \in 1..Len(hl) : hl[i] = h
  BY <1>1 DEF Synced
<1>3. il[i] = a /\ i \in 1..Len(il) /\ Len(hl) \in Nat
  BY <1>2 DEF Synced
<1> DEFINE H == Drop(hl, h)
           A == Drop(il, a)
           at(j) == IF j < i THEN j ELSE j + 1
<1>4. /\ H \in Seq(Hosts) /\ Len(H) = Len(hl) - 1
      /\ \A j \in 1..(Len(hl) - 1) : H[j] = hl[at(j)]
  BY <1>2, DropPresent, Zenon DEF Synced
<1>5. /\ A \in Seq(Addrs) /\ Len(A) = Len(il) - 1
      /\ \A j \in 1..(Len(il) - 1) : A[j] = il[at(j)]
  <2>1. NoRepeats(il) /\ il \in Seq(Addrs)
    BY AddressesOnce DEF Synced
  <2>2. QED
    BY <1>3, <2>1, DropPresent
<1> HIDE DEF H, A
<1>6. \A j \in 1..(Len(hl) - 1) : at(j) \in 1..Len(hl) /\ at(j) # i /\ hl[at(j)] # h
  BY <1>2, <1>3 DEF Synced, NoRepeats
<1>7. NoRepeats(H)
  BY <1>3, <1>4, <1>6 DEF NoRepeats, Synced
<1>8. \A j \in 1..Len(H) : left[H[j]] = A[j]
  BY <1>3, <1>4, <1>5, <1>6, ElementOfSeq DEF Synced, Paired
<1>9. ASSUME NEW g \in Hosts, left[g] # None PROVE \E j \in 1..Len(H) : H[j] = g
  <2>1. g # h /\ bh[g] # None
    BY <1>9 DEF Paired
  <2>2. PICK k \in 1..Len(hl) : hl[k] = g
    BY <2>1 DEF Synced
  <2>3. CASE k < i
    <3>1. k \in 1..Len(H) /\ at(k) = k
      BY <1>3, <1>4, <2>3
    <3>2. QED
      BY <1>3, <1>4, <2>2, <3>1
  <2>4. CASE ~(k < i)
    <3>1. k # i
      BY <1>2, <2>1, <2>2
    <3>2. k - 1 \in 1..Len(H) /\ at(k - 1) = k
      BY <1>3, <1>4, <2>4, <3>1
    <3>3. QED
      BY <1>3, <1>4, <2>2, <3>2
  <2>5. QED
    BY <2>3, <2>4
<1>10. QED
  BY <1>3, <1>4, <1>5, <1>7, <1>8, <1>9 DEF Synced, H, A

\* A new pair is the most recent of both
LEMMA AppendSynced ==
  ASSUME NEW bh, NEW bi, NEW hl, NEW il, Paired(bh, bi), Synced(bh, hl, il),
         NEW h \in Hosts, NEW a \in Addrs, bh[h] = None
  PROVE  Synced([bh EXCEPT ![h] = a], Append(hl, h), Append(il, a)) /\ Len(Append(hl, h)) = Len(hl) + 1
<1> DEFINE H == Append(hl, h)
           A == Append(il, a)
           n == Len(hl)
<1>1. n \in Nat /\ n = Len(il)
  BY DEF Synced
<1>2. H \in Seq(Hosts) /\ Len(H) = n + 1 /\ (\A j \in 1..n : H[j] = hl[j]) /\ H[n + 1] = h
  BY <1>1, AppendProperties DEF Synced
<1>3. A \in Seq(Addrs) /\ Len(A) = n + 1 /\ (\A j \in 1..n : A[j] = il[j]) /\ A[n + 1] = a
  BY <1>1, AppendProperties DEF Synced
<1>4. \A j \in 1..n : hl[j] # h /\ hl[j] \in Hosts /\ il[j] \in Addrs
  BY <1>1, HostAssumption, ElementOfSeq DEF Synced
<1> HIDE DEF H, A, n
<1>5. \A j \in 1..(n + 1) : j \in 1..n \/ j = n + 1
  BY <1>1
<1>6. NoRepeats(H)
  BY <1>2, <1>4, <1>5 DEF NoRepeats, Synced, n
<1>7. \A j \in 1..(n + 1) : [bh EXCEPT ![h] = a][H[j]] = A[j]
  <2>1. ASSUME NEW j \in 1..n PROVE [bh EXCEPT ![h] = a][H[j]] = A[j]
    <3>1. H[j] = hl[j] /\ hl[j] # h /\ hl[j] \in Hosts /\ A[j] = il[j]
      BY <1>2, <1>3, <1>4
    <3>2. bh[hl[j]] = il[j]
      BY DEF Synced, n
    <3>3. QED
      BY <3>1, <3>2 DEF Paired
  <2>2. [bh EXCEPT ![h] = a][H[n + 1]] = A[n + 1]
    BY <1>2, <1>3 DEF Paired
  <2>3. QED
    BY <1>5, <2>1, <2>2
<1>8. ASSUME NEW g \in Hosts, [bh EXCEPT ![h] = a][g] # None PROVE \E j \in 1..(n + 1) : H[j] = g
  <2>1. CASE g = h
    BY <1>1, <1>2, <2>1
  <2>2. CASE g # h
    <3>1. PICK k \in 1..n : hl[k] = g
      BY <1>8, <2>2 DEF Synced, Paired, n
    <3>2. QED
      BY <1>1, <1>2, <3>1
  <2>3. QED
    BY <2>1, <2>2
<1>9. QED
  BY <1>1, <1>2, <1>3, <1>6, <1>7, <1>8 DEF Synced, H, A, n

\* A pair that is used moves to the end of both
LEMMA TouchSynced ==
  ASSUME NEW bh, NEW bi, NEW hl, NEW il, Paired(bh, bi), Synced(bh, hl, il),
         NEW h \in Hosts, NEW a \in Addrs, bh[h] = a
  PROVE  Synced(bh, Touch(hl, h), Touch(il, a)) /\ Len(Touch(hl, h)) = Len(hl)
<1> DEFINE B == [bh EXCEPT ![h] = None]
           I == [bi EXCEPT ![a] = None]
<1> HIDE DEF B
<1>1. Synced(B, Drop(hl, h), Drop(il, a)) /\ Len(Drop(hl, h)) = Len(hl) - 1
  <2>1. B = [bh EXCEPT ![h] = None]
    BY DEF B
  <2>2. QED
    BY <2>1, ForgetSynced, Zenon
<1>2. Paired(B, I) /\ B[h] = None
  BY HostAssumption DEF Paired, B
<1>3. [B EXCEPT ![h] = a] = bh
  BY Zenon DEF Paired, B
<1> HIDE DEF I
<1>4. Synced([B EXCEPT ![h] = a], Touch(hl, h), Touch(il, a)) /\ Len(Touch(hl, h)) = Len(Drop(hl, h)) + 1
  BY <1>1, <1>2, AppendSynced DEF Touch
<1>5. Len(hl) \in Nat
  BY DEF Synced
<1>6. Len(Touch(hl, h)) = Len(hl)
  BY <1>1, <1>4, <1>5
<1>7. QED
  BY <1>3, <1>4, <1>6, Zenon

---------------------------------------------------------------------------
(* The order of allocation                                                 *)

\* The history holds the live addresses, each once
Aged(bi, ag) ==
  /\ ag \in Seq(Addrs) /\ NoRepeats(ag)
  /\ \A i \in 1..Len(ag) : bi[ag[i]] # None
  /\ \A a \in Addrs : bi[a] # None => \E i \in 1..Len(ag) : ag[i] = a

\* Going up from the cursor and around, a comes before b
Precedes(o, a, b) == \/ a > o /\ b > o /\ a < b
                     \/ a <= o /\ b <= o /\ a < b
                     \/ a > o /\ b <= o

\* The oldest address is the next one the cursor meets
InTurn(o, ag) == \A i, j \in 1..Len(ag) : i < j => Precedes(o, ag[i], ag[j])

LEMMA ForgetAged ==
  ASSUME NEW bi \in [Addrs -> Hosts \cup {None}], NEW ag, Aged(bi, ag), NEW a \in Addrs
  PROVE  /\ Aged([bi EXCEPT ![a] = None], Drop(ag, a))
         /\ \A o \in Int : InTurn(o, ag) => InTurn(o, Drop(ag, a))
<1>1. CASE \A i \in 1..Len(ag) : ag[i] # a
  <2>1. Drop(ag, a) = ag
    BY <1>1, DropAbsent DEF Aged
  <2>2. \A i \in 1..Len(ag) : ag[i] \in Addrs
    BY ElementOfSeq DEF Aged
  <2>3. QED
    BY <1>1, <2>1, <2>2 DEF Aged
<1>2. CASE \E i \in 1..Len(ag) : ag[i] = a
  <2>1. PICK i \in 1..Len(ag) : ag[i] = a
    BY <1>2
  <2> DEFINE G == Drop(ag, a)
             at(j) == IF j < i THEN j ELSE j + 1
  <2>2. Len(ag) \in Nat /\ \A j \in 1..Len(ag) : ag[j] \in Addrs
    BY ElementOfSeq DEF Aged
  <2>3. /\ G \in Seq(Addrs) /\ Len(G) = Len(ag) - 1
        /\ \A j \in 1..(Len(ag) - 1) : G[j] = ag[at(j)]
    BY <2>1, DropPresent, Zenon DEF Aged
  <2> HIDE DEF G
  <2>4. \A j \in 1..(Len(ag) - 1) : at(j) \in 1..Len(ag) /\ at(j) # i /\ ag[at(j)] # a
    BY <2>1, <2>2 DEF Aged, NoRepeats
  <2>5. NoRepeats(G)
    <3>1. \A j, k \in 1..(Len(ag) - 1) : at(j) = at(k) => j = k
      BY <2>1, <2>2
    <3> HIDE DEF at
    <3>2. QED
      BY <2>3, <2>4, <3>1 DEF NoRepeats, Aged
  <2>6. \A j \in 1..Len(G) : [bi EXCEPT ![a] = None][G[j]] # None
    <3> HIDE DEF at
    <3>1. \A j \in 1..Len(G) : G[j] \in Addrs /\ G[j] # a /\ bi[G[j]] # None
      BY <2>2, <2>3, <2>4 DEF Aged
    <3>2. QED
      BY <3>1
  <2>7. ASSUME NEW b \in Addrs, [bi EXCEPT ![a] = None][b] # None PROVE \E j \in 1..Len(G) : G[j] = b
    <3>1. b # a
      BY <2>7
    <3>2. PICK k \in 1..Len(ag) : ag[k] = b
      BY <2>7, <3>1 DEF Aged
    <3>3. CASE k < i
      <4>1. k \in 1..Len(G) /\ at(k) = k
        BY <2>2, <2>3, <3>3
      <4>2. QED
        BY <2>3, <3>2, <4>1
    <3>4. CASE ~(k < i)
      <4>1. k - 1 \in 1..Len(G) /\ at(k - 1) = k
        BY <2>1, <2>2, <2>3, <3>1, <3>2, <3>4
      <4>2. QED
        BY <2>3, <3>2, <4>1, Zenon
    <3>5. QED
      BY <3>3, <3>4
  <2>8. ASSUME NEW o \in Int, InTurn(o, ag) PROVE InTurn(o, G)
    <3> SUFFICES ASSUME NEW j \in 1..Len(G), NEW k \in 1..Len(G), j < k PROVE Precedes(o, G[j], G[k])
      BY DEF InTurn
    <3>1. at(j) \in 1..Len(ag) /\ at(k) \in 1..Len(ag) /\ at(j) < at(k)
      BY <2>2, <2>3
    <3>2. QED
      BY <2>2, <2>3, <2>8, <3>1 DEF InTurn
  <2>9. QED
    BY <2>3, <2>5, <2>6, <2>7, <2>8 DEF Aged, G
<1>3. QED
  BY <1>1, <1>2

LEMMA AppendAged ==
  ASSUME NEW bi \in [Addrs -> Hosts \cup {None}], NEW ag, Aged(bi, ag),
         NEW a \in Addrs, NEW h \in Hosts, bi[a] = None, NEW more, more = [bi EXCEPT ![a] = h]
  PROVE  /\ Aged(more, Append(ag, a)) /\ Touch(ag, a) = Append(ag, a)
         /\ Len(Append(ag, a)) = Len(ag) + 1 /\ Append(ag, a)[Len(ag) + 1] = a
         /\ \A j \in 1..Len(ag) : Append(ag, a)[j] = ag[j] /\ ag[j] # a
<1> DEFINE G == Append(ag, a)
           n == Len(ag)
<1>1. n \in Nat /\ \A j \in 1..n : ag[j] \in Addrs /\ ag[j] # a
  BY ElementOfSeq DEF Aged
<1>2. G \in Seq(Addrs) /\ Len(G) = n + 1 /\ (\A j \in 1..n : G[j] = ag[j]) /\ G[n + 1] = a
  BY <1>1, AppendProperties DEF Aged
<1>3. Touch(ag, a) = G
  BY <1>1, DropAbsent DEF Touch, Aged
<1> HIDE DEF G, n
<1>4. \A j \in 1..(n + 1) : j \in 1..n \/ j = n + 1
  BY <1>1
<1>5. NoRepeats(G)
  BY <1>1, <1>2, <1>4 DEF NoRepeats, Aged, n
<1>6. \A j \in 1..(n + 1) : more[G[j]] # None
  BY <1>1, <1>2, <1>4, HostAssumption DEF Aged, n
<1>7. ASSUME NEW b \in Addrs, more[b] # None PROVE \E j \in 1..(n + 1) : G[j] = b
  <2>1. CASE b = a
    BY <1>1, <1>2, <2>1
  <2>2. CASE b # a
    <3>1. PICK k \in 1..n : ag[k] = b
      BY <1>7, <2>2 DEF Aged, n
    <3>2. QED
      BY <1>1, <1>2, <3>1
  <2>3. QED
    BY <2>1, <2>2
<1>8. QED
  BY <1>1, <1>2, <1>3, <1>5, <1>6, <1>7 DEF Aged, G, n

\* Where the cursor goes next: up by one, or back to the first address from the last one
LEMMA CandidateNext ==
  ASSUME NEW o \in Addrs \cup {PrevAddr(FirstAddr(Prefix))}, NEW a \in Addrs,
         a # Candidate(o, Prefix)
  PROVE  o \in Int /\ Precedes(o, Candidate(o, Prefix), a)
<1> DEFINE f == FirstAddr(Prefix)
           l == Broadcast(Prefix)
           c == Candidate(o, Prefix)
<1>1. f \in 0..(Word - 1) /\ l \in Int /\ f < l /\ l < Word
  BY FirstType, PrefixAssumption, WordAssumption DEF Usable, Broadcast
<1>2. f <= a /\ a < l /\ a \in Int /\ c \in Int /\ f <= c
  BY <1>1, CandidateInRange DEF Addrs, Allocatable, ContainedInRange
<1>3. CASE o \in Addrs
  <2>1. f <= o /\ o < l /\ o \in Int /\ NextAddr(o) = o + 1
    BY <1>1, <1>3, WordAssumption, NextInside DEF Addrs, Allocatable, ContainedInRange
  <2>2. c = IF o + 1 < l THEN o + 1 ELSE f
    BY <2>1 DEF Candidate, Wraps
  <2>3. QED
    BY <1>1, <1>2, <2>1, <2>2 DEF Precedes
<1>4. CASE o = PrevAddr(f)
  <2>1. NextAddr(o) = f /\ c = f
    BY <1>1, <1>4, NextPrev DEF Candidate, Wraps
  <2>2. o = f - 1 \/ o = Word - 1
    BY <1>1, <1>4, WordAssumption, ModIdentity DEF PrevAddr
  <2>3. QED
    BY <1>1, <1>2, <2>1, <2>2, WordAssumption DEF Precedes
<1>5. QED
  BY <1>3, <1>4

\* The cursor moves on to an address that becomes the youngest
LEMMA CursorMoves ==
  ASSUME NEW o \in Addrs \cup {PrevAddr(FirstAddr(Prefix))}, NEW bi \in [Addrs -> Hosts \cup {None}],
         NEW ag, Aged(bi, ag), bi[Candidate(o, Prefix)] = None, InTurn(o, ag)
  PROVE  InTurn(Candidate(o, Prefix), Append(ag, Candidate(o, Prefix)))
<1> DEFINE c == Candidate(o, Prefix)
           G == Append(ag, c)
           n == Len(ag)
<1>1. c \in Addrs /\ c \in Int
  BY CandidateInRange DEF Addrs, Allocatable
<1>2. n \in Nat /\ \A j \in 1..n : ag[j] \in Addrs /\ ag[j] # c /\ ag[j] \in Int
  <2>1. n \in Nat /\ \A j \in 1..n : ag[j] \in Addrs /\ ag[j] # c
    BY <1>1, ElementOfSeq DEF Aged
  <2>2. \A x \in Addrs : x \in Int
    BY DEF Addrs, Allocatable
  <2>3. QED
    BY <2>1, <2>2
<1>3. Len(G) = n + 1 /\ (\A j \in 1..n : G[j] = ag[j]) /\ G[n + 1] = c
  BY <1>1, <1>2, AppendProperties DEF Aged
<1>4. o \in Int /\ \A j \in 1..n : Precedes(o, c, ag[j])
  <2>1. ASSUME NEW j \in 1..n PROVE Precedes(o, c, ag[j])
    BY <1>2, CandidateNext
  <2>2. o \in Int
    BY WordAssumption, FirstType DEF Addrs, Allocatable, PrevAddr
  <2>3. QED
    BY <2>1, <2>2
<1> HIDE DEF c, G, n
<1> SUFFICES ASSUME NEW i \in 1..(n + 1), NEW j \in 1..(n + 1), i < j PROVE Precedes(c, G[i], G[j])
  BY <1>3 DEF InTurn, c, G
<1>5. i \in 1..n /\ G[i] = ag[i] /\ ag[i] \in Int /\ Precedes(o, c, ag[i]) /\ ag[i] # c
  BY <1>2, <1>3, <1>4
<1>6. CASE j = n + 1
  BY <1>1, <1>3, <1>5, <1>6, SMTT(30) DEF Precedes
<1>7. CASE j # n + 1
  <2>1. j \in 1..n
    BY <1>2, <1>7
  <2>2. /\ G[j] = ag[j] /\ ag[j] \in Int /\ Precedes(o, c, ag[j]) /\ ag[j] # c
    BY <1>2, <1>3, <1>4, <2>1
  <2>3. Precedes(o, ag[i], ag[j])
    BY <1>5, <2>1 DEF InTurn, n
  <2>4. QED
    BY <1>1, <1>4, <1>5, <2>2, <2>3, SMTT(30) DEF Precedes
<1>8. QED
  BY <1>6, <1>7

---------------------------------------------------------------------------
(* MemoryStore::put                                                        *)

\* What one pass over a store in sync makes of it: a pair comes in, and past the capacity the
\* least recent one goes, from both sides at once
LEMMA PutSound ==
  ASSUME Paired(byHost, byIp), Synced(byHost, hostLru, ipLru), Len(hostLru) <= Cap, Aged(byIp, age),
         NEW h \in Hosts, NEW a \in Addrs, byHost[h] = None, byIp[a] = None, StorePut(h, a)
  PROVE  /\ Synced(byHost', hostLru', ipLru') /\ Len(hostLru') <= Cap /\ Aged(byIp', age')
         /\ \A o \in Int : InTurn(o, Append(age, a)) => InTurn(o, age')
         /\ \/ byIp' = [byIp EXCEPT ![a] = h]
            \/ \E b \in Addrs \ {a} : byIp' = [byIp EXCEPT ![a] = h, ![b] = None]
<1> DEFINE s == Inserted(h, a)
           n == Len(hostLru)
<1>1. n \in Nat /\ Cap \in Nat \ {0} /\ n = Len(ipLru)
  BY CapAssumption DEF Synced
<1>2. Touch(hostLru, h) = Append(hostLru, h) /\ Touch(ipLru, a) = Append(ipLru, a)
  <2>1. \A i \in 1..n : hostLru[i] # h /\ ipLru[i] # a
    BY HostAssumption, ElementOfSeq DEF Synced, Paired
  <2>2. QED
    BY <1>1, <2>1, DropAbsent DEF Touch, Synced
<1>t. byIp \in [Addrs -> Hosts \cup {None}]
  BY DEF Paired
<1>i. PICK I : I = [byIp EXCEPT ![a] = h]
  BY Zenon
<1>u. Aged(I, Append(age, a)) /\ Touch(age, a) = Append(age, a)
  <2>1. Aged(I, Append(age, a))
    BY <1>t, <1>i, AppendAged, ZenonT(30)
  <2>2. Touch(age, a) = Append(age, a)
    BY <1>t, <1>i, AppendAged
  <2>3. QED
    BY <2>1, <2>2
<1>3. /\ Paired(s.bh, s.bi) /\ s.bh = [byHost EXCEPT ![h] = a] /\ s.bi = [byIp EXCEPT ![a] = h]
      /\ s.hl = Append(hostLru, h) /\ s.il = Append(ipLru, a) /\ s.age = Append(age, a)
  <2>1. s = [bh |-> [byHost EXCEPT ![h] = a], bi |-> [byIp EXCEPT ![a] = h],
             hl |-> Append(hostLru, h), il |-> Append(ipLru, a), age |-> Append(age, a)]
    BY <1>2, <1>u DEF Inserted
  <2>2. Paired([byHost EXCEPT ![h] = a], [byIp EXCEPT ![a] = h])
    BY HostAssumption, SMTT(30) DEF Paired
  <2>3. QED
    BY <2>1, <2>2
<1>4. Synced(s.bh, s.hl, s.il) /\ Len(s.hl) = n + 1 /\ Len(s.il) = n + 1
  <2>1. Synced(s.bh, s.hl, s.il) /\ Len(s.hl) = n + 1
    BY <1>3, AppendSynced
  <2>2. QED
    BY <2>1 DEF Synced
<1>5. Aged(s.bi, s.age)
  BY <1>i, <1>u, <1>3
<1> HIDE DEF s, n
<1>6. CASE n + 1 <= Cap
  <2>1. PopHost(PopIp(s)) = s
    BY <1>1, <1>4, <1>6, ZenonT(30) DEF PopHost, PopIp
  <2>2. byHost' = s.bh /\ byIp' = s.bi /\ hostLru' = s.hl /\ ipLru' = s.il /\ age' = s.age
    BY <2>1 DEF StorePut, s
  <2>3. QED
    BY <1>3, <1>4, <1>5, <1>6, <2>2, SMTT(30)
<1>7. CASE ~(n + 1 <= Cap)
  <2> DEFINE ip == s.il[1]
             g == s.hl[1]
             p == PopIp(s)
  <2>1. n = Cap /\ n >= 1
    BY <1>1, <1>7, SMTT(30) DEF n
  <2>2. g \in Hosts /\ ip \in Addrs /\ s.bh[g] = ip /\ s.bi[ip] = g /\ Head(s.il) = ip
    BY <1>3, <1>4, <2>1, HostAssumption, ElementOfSeq, SMTT(30) DEF Synced, Paired
  <2>3. ip # a
    <3>1. s.il[n + 1] = a
      BY <1>1, <1>3, AppendProperties DEF Synced, n
    <3>2. NoRepeats(s.il)
      BY <1>3, <1>4, AddressesOnce
    <3>3. QED
      BY <1>1, <1>4, <2>1, <3>1, <3>2, SMTT(30) DEF NoRepeats
  <2>4. Tail(s.il) = Drop(s.il, ip)
    <3>1. NoRepeats(s.il) /\ s.il \in Seq(Addrs)
      <4>1. NoRepeats(s.il)
        BY <1>3, <1>4, AddressesOnce
      <4>2. QED
        BY <1>4, <4>1 DEF Synced
    <3>2. /\ Tail(s.il) \in Seq(Addrs) /\ Len(Tail(s.il)) = n
          /\ \A i \in 1..n : Tail(s.il)[i] = s.il[i + 1]
      BY <1>1, <1>4, <3>1, HeadTailProperties
    <3>3. /\ Drop(s.il, ip) \in Seq(Addrs) /\ Len(Drop(s.il, ip)) = n
          /\ \A i \in 1..n : Drop(s.il, ip)[i] = s.il[i + 1]
      <4>1. 1 \in 1..Len(s.il)
        BY <1>1, <1>4
      <4>2. /\ Drop(s.il, ip) \in Seq(Addrs) /\ Len(Drop(s.il, ip)) = Len(s.il) - 1
            /\ \A j \in 1..(Len(s.il) - 1) : Drop(s.il, ip)[j] = s.il[IF j < 1 THEN j ELSE j + 1]
        BY <3>1, <4>1, DropPresent, Zenon
      <4>3. QED
        BY <1>1, <1>4, <4>2
    <3>4. QED
      BY <3>2, <3>3, SeqEqual, ZenonT(30)
  <2>5. p = [bi |-> [s.bi EXCEPT ![ip] = None], il |-> Drop(s.il, ip), age |-> Drop(s.age, ip),
             bh |-> [s.bh EXCEPT ![g] = None], hl |-> Drop(s.hl, g)]
    BY <1>1, <1>4, <1>7, <2>2, <2>4, HostAssumption, ZenonT(30) DEF PopIp
  <2> HIDE DEF p
  <2>6. Synced(p.bh, p.hl, p.il) /\ Len(p.hl) = n
    <3>1. p.bh = [s.bh EXCEPT ![g] = None] /\ p.hl = Drop(s.hl, g) /\ p.il = Drop(s.il, ip)
      BY <2>5
    <3>2. Synced(p.bh, Drop(s.hl, g), Drop(s.il, ip)) /\ Len(Drop(s.hl, g)) = Len(s.hl) - 1
      <4>1. PICK B, J, H, A, x, y : /\ B = s.bh /\ J = s.bi /\ H = s.hl /\ A = s.il /\ x = g /\ y = ip
        OBVIOUS
      <4>2. PICK C : C = [B EXCEPT ![x] = None]
        BY Zenon
      <4> HIDE DEF g, ip
      <4>3. Paired(B, J) /\ Synced(B, H, A) /\ x \in Hosts /\ y \in Addrs /\ B[x] = y
        BY <1>3, <1>4, <2>2, <4>1
      <4>4. Synced(C, Drop(H, x), Drop(A, y)) /\ Len(Drop(H, x)) = Len(H) - 1
        BY <4>2, <4>3, ForgetSynced, Zenon
      <4>5. QED
        BY <3>1, <4>1, <4>2, <4>4
    <3>3. QED
      BY <1>1, <1>4, <3>1, <3>2
  <2>7. Aged(p.bi, p.age) /\ \A o \in Int : InTurn(o, s.age) => InTurn(o, p.age)
    BY <1>3, <1>5, <2>2, <2>5, ForgetAged, ZenonT(30) DEF Paired
  <2>8. PopHost(p) = p
    BY <1>1, <2>1, <2>6 DEF PopHost
  <2>9. byHost' = p.bh /\ byIp' = p.bi /\ hostLru' = p.hl /\ ipLru' = p.il /\ age' = p.age
    BY <2>8, SMTT(30) DEF StorePut, s, p
  <2>10. byIp' = [byIp EXCEPT ![a] = h, ![ip] = None]
    BY <1>3, <2>5, <2>9, Zenon
  <2>11. QED
    <3>1. Synced(byHost', hostLru', ipLru') /\ Len(hostLru') <= Cap
      BY <1>1, <2>1, <2>6, <2>9
    <3>2. Aged(byIp', age') /\ \A o \in Int : InTurn(o, Append(age, a)) => InTurn(o, age')
      BY <1>3, <2>7, <2>9, ZenonT(30)
    <3>3. ip \in Addrs \ {a}
      BY <2>2, <2>3
    <3>4. QED
      BY <2>10, <3>1, <3>2, <3>3, ZenonT(30)
<1>8. QED
  BY <1>6, <1>7

---------------------------------------------------------------------------
(* The pool                                                                *)

Recent == Synced(byHost, hostLru, ipLru) /\ Len(hostLru) <= Cap

\* An allocation has its candidate from where the cursor stands, until it moves the cursor there
Turn ==
  /\ rewound \in BOOLEAN
  /\ Aged(byIp, age) /\ (~rewound => InTurn(offset, age))
  /\ \A t \in Tasks : pc[t] \in {"evict", "put"} => cand = Candidate(offset, Prefix)

MemInv == IndInv /\ Recent /\ Turn

LEMMA OffsetInt == ASSUME Exclusive PROVE offset \in Int
BY WordAssumption, FirstType DEF Exclusive, Addrs, Allocatable, PrevAddr

LEMMA StepRecent == MemInv /\ [Next]_vars => Recent'
<1> SUFFICES ASSUME MemInv, [Next]_vars PROVE Recent'
  OBVIOUS
<1>p. Paired(byHost, byIp) /\ Recent /\ Synced(byHost, hostLru, ipLru) /\ Exclusive
  BY DEF MemInv, IndInv, Recent
<1>1. ASSUME NEW h \in Hosts, NEW a \in Addrs, byHost[h] = a, Get(h, a) PROVE Recent'
  <2>1. Synced(byHost, Touch(hostLru, h), Touch(ipLru, a)) /\ Len(Touch(hostLru, h)) = Len(hostLru)
    BY <1>p, <1>1, TouchSynced
  <2>2. QED
    BY <1>p, <1>1, <2>1 DEF Recent, Get
<1>2. ASSUME NEW t \in Tasks, NEW n \in Names, LookupHit(t, n) PROVE Recent'
  <2>1. Lower[n] \in Hosts /\ byHost[Lower[n]] \in Addrs
    BY <1>p, <1>2, HostAssumption DEF LookupHit, Paired
  <2>2. QED
    BY <1>1, <1>2, <2>1 DEF LookupHit
<1>3. ASSUME NEW t \in Tasks, NEW ip \in Addrs, LookBack(t, ip) PROVE Recent'
  <2>1. byIp[ip] \in Hosts /\ byHost[byIp[ip]] = ip
    BY <1>p, <1>3, HostAssumption DEF LookBack, Paired
  <2>2. QED
    BY <1>1, <1>3, <2>1 DEF LookBack
<1>4. ASSUME NEW t \in Tasks, Evict(t) PROVE Recent'
  <2>1. cand \in Addrs /\ DelByIp(cand)
    BY <1>p, <1>4 DEF Evict, Exclusive
  <2>2. CASE byIp[cand] = None
    <3>1. \A i \in 1..Len(ipLru) : ipLru[i] # cand
      BY <1>p, <2>1, <2>2, HostAssumption, ElementOfSeq DEF Synced, Paired
    <3>2. ipLru' = ipLru /\ hostLru' = hostLru /\ byHost' = byHost
      BY <1>p, <2>1, <2>2, <3>1, DropAbsent DEF DelByIp, Synced
    <3>3. QED
      BY <1>p, <3>2 DEF Recent
  <2>3. CASE byIp[cand] # None
    <3>1. PICK h \in Hosts : h = byIp[cand] /\ byHost[h] = cand
      BY <1>p, <2>1, <2>3 DEF Paired
    <3>2. PICK B : B = [byHost EXCEPT ![h] = None]
      BY Zenon
    <3>3. byHost' = B /\ hostLru' = Drop(hostLru, h) /\ ipLru' = Drop(ipLru, cand)
      BY <2>1, <2>3, <3>1, <3>2 DEF DelByIp
    <3>4. Synced(B, Drop(hostLru, h), Drop(ipLru, cand)) /\ Len(Drop(hostLru, h)) = Len(hostLru) - 1
      BY <1>p, <2>1, <3>1, <3>2, ForgetSynced, ZenonT(30)
    <3>5. Len(hostLru) \in Nat /\ Cap \in Nat
      BY <1>p, CapAssumption DEF Synced
    <3>6. QED
      BY <1>p, <3>3, <3>4, <3>5 DEF Recent
  <2>4. QED
    BY <2>2, <2>3, SMTT(30)
<1>5. ASSUME NEW t \in Tasks, Put(t) PROVE Recent'
  <2>1. /\ host \in Hosts /\ cand \in Addrs /\ byHost[host] = None /\ byIp[cand] = None
        /\ StorePut(host, cand)
    BY <1>p, <1>5 DEF Put, Exclusive
  <2>2. QED
    BY <1>p, <2>1, PutSound DEF Recent, MemInv, Turn
<1>6. ASSUME NEW t \in Tasks, FlushStore(t) PROVE Recent'
  BY <1>6, CapAssumption DEF FlushStore, StoreFlush, Recent, Synced, NoRepeats
<1>7. ASSUME UNCHANGED storeVars PROVE Recent'
  BY <1>p, <1>7 DEF Recent, storeVars
<1>8. QED
  BY <1>2, <1>3, <1>4, <1>5, <1>6, <1>7
     DEF Next, LookupMiss, Allocate, FlushCursor, vars

LEMMA StepTurn == MemInv /\ [Next]_vars => Turn'
<1> SUFFICES ASSUME MemInv, [Next]_vars PROVE Turn'
  OBVIOUS
<1>p. Paired(byHost, byIp) /\ Recent /\ Turn /\ Aged(byIp, age) /\ Exclusive /\ offset \in Int
  BY OffsetInt DEF MemInv, IndInv, Turn
<1> USE DEF Goto, storeVars, poolVars, jobVars
<1>1. ASSUME NEW t \in Tasks, NEW n \in Names, LookupHit(t, n) \/ LookupMiss(t, n) PROVE Turn'
  BY <1>p, <1>1, SMTT(30) DEF LookupHit, LookupMiss, Get, Turn, Exclusive
<1>2. ASSUME NEW t \in Tasks, NEW ip \in Addrs, LookBack(t, ip) PROVE Turn'
  BY <1>p, <1>2 DEF LookBack, Get, Turn
<1>3. ASSUME NEW t \in Tasks, Allocate(t) PROVE Turn'
  BY <1>p, <1>3, HostAssumption DEF Allocate, Turn, Exclusive
<1>4. ASSUME NEW t \in Tasks, Evict(t) PROVE Turn'
  <2>1. cand \in Addrs /\ byIp \in [Addrs -> Hosts \cup {None}]
    BY <1>p, <1>4 DEF Evict, Exclusive, Paired
  <2>2. PICK I : I = [byIp EXCEPT ![cand] = None]
    BY Zenon
  <2>3. /\ byIp' = I /\ age' = Drop(age, cand) /\ rewound' = rewound /\ offset' = offset /\ cand' = cand
        /\ pc' = [pc EXCEPT ![t] = "put"] /\ pc[t] = "evict"
    BY <1>4, <2>2 DEF Evict, DelByIp
  <2>4. Aged(I, Drop(age, cand)) /\ \A o \in Int : InTurn(o, age) => InTurn(o, Drop(age, cand))
    BY <1>p, <2>1, <2>2, ForgetAged, Zenon
  <2>5. \A u \in Tasks : pc'[u] \in {"evict", "put"} => cand' = Candidate(offset', Prefix)
    BY <1>p, <2>3 DEF Turn, Exclusive
  <2>6. QED
    BY <1>p, <2>3, <2>4, <2>5 DEF Turn
<1>5. ASSUME NEW t \in Tasks, Put(t) PROVE Turn'
  <2>1. /\ host \in Hosts /\ cand \in Addrs /\ byHost[host] = None /\ byIp[cand] = None
        /\ StorePut(host, cand) /\ cand = Candidate(offset, Prefix) /\ lock = t
        /\ offset' = cand /\ rewound' = rewound /\ pc' = [pc EXCEPT ![t] = "idle"]
    BY <1>p, <1>5, SMTT(30) DEF Put, Exclusive, Turn
  <2>2. Aged(byIp', age') /\ \A o \in Int : InTurn(o, Append(age, cand)) => InTurn(o, age')
    BY <1>p, <2>1, PutSound DEF Recent
  <2>3. ~rewound => InTurn(cand, Append(age, cand))
    <3>1. byIp \in [Addrs -> Hosts \cup {None}] /\ offset \in Addrs \cup {PrevAddr(FirstAddr(Prefix))}
      BY <1>p DEF Paired, Exclusive
    <3>2. QED
      BY <1>p, <2>1, <3>1, CursorMoves DEF Turn
  <2>4. cand \in Int
    BY <2>1 DEF Addrs, Allocatable
  <2>5. \A u \in Tasks : pc'[u] \notin {"evict", "put"}
    BY <1>p, <2>1, HostAssumption, SMTT(30) DEF Exclusive
  <2>6. QED
    BY <1>p, <2>1, <2>2, <2>3, <2>4, <2>5, SMTT(30) DEF Turn
<1>6. ASSUME NEW t \in Tasks, FlushStore(t) PROVE Turn'
  <2>1. Aged(byIp', age') /\ InTurn(offset', age')
    BY <1>6 DEF FlushStore, StoreFlush, Aged, InTurn, NoRepeats
  <2>2. QED
    BY <1>p, <1>6, <2>1, Zenon DEF FlushStore, Turn, Exclusive
<1>7. ASSUME NEW t \in Tasks, FlushCursor(t) PROVE Turn'
  <2>1. age = <<>> => InTurn(offset', age)
    BY DEF InTurn
  <2>2. \A u \in Tasks : pc'[u] \notin {"evict", "put"}
    BY <1>p, <1>7, HostAssumption DEF FlushCursor, Exclusive
  <2>3. rewound' \in BOOLEAN /\ (~rewound' => age = <<>>) /\ byIp' = byIp /\ age' = age
    BY <1>7, Zenon DEF FlushCursor
  <2>4. QED
    BY <1>p, <2>1, <2>2, <2>3 DEF Turn
<1>8. CASE UNCHANGED vars
  BY <1>p, <1>8 DEF vars, Turn
<1>9. QED
  BY <1>1, <1>2, <1>3, <1>4, <1>5, <1>6, <1>7, <1>8 DEF Next

---------------------------------------------------------------------------
LEMMA InitMem == Init => MemInv
<1> SUFFICES ASSUME Init PROVE MemInv
  OBVIOUS
<1>1. Recent
  BY CapAssumption DEF Init, Recent, Synced, NoRepeats
<1>2. Aged(byIp, age) /\ InTurn(offset, age)
  BY DEF Init, Aged, InTurn, NoRepeats
<1>3. rewound \in BOOLEAN
  BY Zenon DEF Init
<1>4. \A t \in Tasks : pc[t] = "idle"
  BY DEF Init
<1>5. Turn
  BY <1>2, <1>3, <1>4 DEF Turn
<1>6. QED
  BY <1>1, <1>5, InitInv DEF MemInv

LEMMA StepMem == MemInv /\ [Next]_vars => MemInv'
BY StepInv, StepRecent, StepTurn DEF MemInv

LEMMA InSync == MemInv => RecencyInSync
<1> SUFFICES ASSUME MemInv PROVE RecencyInSync
  OBVIOUS
<1>1. Synced(byHost, hostLru, ipLru) /\ Len(hostLru) <= Cap
  BY DEF MemInv, Recent
<1>2. /\ DOMAIN hostLru = 1..Len(hostLru) /\ DOMAIN ipLru = DOMAIN hostLru
      /\ ipLru \in [DOMAIN hostLru -> Addrs]
  BY <1>1, ElementOfSeq DEF Synced
<1>3. QED
  BY <1>1, <1>2 DEF Synced, RecencyInSync

\* An address that is freed for a new host comes first in the order of allocation
LEMMA EvictsOldest ==
  ASSUME MemInv, [Next]_vars, NEW t \in Tasks, pc[t] = "evict", pc'[t] = "put", byIp[cand] # None, ~rewound
  PROVE  cand = Head(age)
<1>1. /\ cand \in Addrs /\ cand = Candidate(offset, Prefix) /\ Aged(byIp, age) /\ InTurn(offset, age)
      /\ offset \in Addrs \cup {PrevAddr(FirstAddr(Prefix))}
  BY DEF MemInv, IndInv, Exclusive, Turn
<1>2. PICK k \in 1..Len(age) : age[k] = cand
  BY <1>1 DEF Aged
<1>3. Len(age) \in Nat /\ age[1] \in Addrs /\ Head(age) = age[1]
  BY <1>1, <1>2, ElementOfSeq DEF Aged
<1>4. CASE k = 1
  BY <1>2, <1>3, <1>4
<1>5. CASE k # 1
  <2>1. Precedes(offset, age[1], cand) /\ age[1] # cand
    BY <1>1, <1>2, <1>3, <1>5, SMTT(30) DEF InTurn, Aged, NoRepeats
  <2>2. Precedes(offset, cand, age[1]) /\ offset \in Int
    BY <1>1, <1>3, <2>1, CandidateNext, SMTT(30)
  <2>3. cand \in Int /\ age[1] \in Int
    BY <1>1, <1>3, SMTT(30) DEF Addrs, Allocatable
  <2>4. QED
    BY <2>1, <2>2, <2>3 DEF Precedes
<1>6. QED
  BY <1>4, <1>5

\* Every step of the pool is a step of the abstract map, or none
LEMMA StepMap == MemInv /\ [Next]_vars => [Map!Next]_byIp
<1> SUFFICES ASSUME MemInv, [Next]_vars, byIp' # byIp PROVE Map!Next
  OBVIOUS
<1>p. Paired(byHost, byIp) /\ Exclusive /\ Synced(byHost, hostLru, ipLru) /\ Len(hostLru) <= Cap /\ Aged(byIp, age)
  BY DEF MemInv, IndInv, Recent, Turn
<1>1. ASSUME NEW t \in Tasks, Evict(t) PROVE Map!Next
  <2>1. cand \in Addrs /\ byIp' = [byIp EXCEPT ![cand] = None]
    BY <1>p, <1>1 DEF Evict, DelByIp, Exclusive
  <2>2. byIp[cand] # None
    BY <1>p, <2>1 DEF Paired
  <2>3. QED
    BY <2>1, <2>2, Zenon DEF Map!Next, Map!Release
<1>2. ASSUME NEW t \in Tasks, Put(t) PROVE Map!Next
  <2>1. /\ host \in Hosts /\ cand \in Addrs /\ byHost[host] = None /\ byIp[cand] = None
        /\ StorePut(host, cand)
    BY <1>p, <1>2 DEF Put, Exclusive
  <2>2. \/ byIp' = [byIp EXCEPT ![cand] = host]
        \/ \E b \in Addrs \ {cand} : byIp' = [byIp EXCEPT ![cand] = host, ![b] = None]
    BY <1>p, <2>1, PutSound
  <2>3. \A b \in Addrs : byIp[b] # host
    BY <1>p, <2>1, HostAssumption DEF Paired
  <2>4. Map!Give(host, cand)
    BY <2>1, <2>2, <2>3 DEF Map!Give
  <2>5. QED
    BY <2>1, <2>4, SMTT(30) DEF Map!Next
<1>3. ASSUME NEW t \in Tasks, FlushStore(t) PROVE Map!Next
  BY <1>3 DEF FlushStore, StoreFlush, Map!Next, Map!Clear
<1>4. QED
  BY <1>1, <1>2, <1>3, Zenon
     DEF Next, vars, storeVars, LookupHit, Get, LookupMiss, Allocate, LookBack, FlushCursor

\* The pool over a memory store implements the abstract map of addresses to hosts, both of its
\* recency lists hold the same pairs within the capacity (MemoryStore::put, get and del_by_ip),
\* and its cursor recycles the oldest address first (allocate), whatever lookups, look-backs and
\* flushes run at once.
THEOREM MemoryIsSound == Spec => MemorySound
<1>1. Init => Map!Init
  BY DEF Init, Map!Init
<1>2. MemInv /\ [Next]_vars =>
        \A t \in Tasks : pc[t] = "evict" /\ pc'[t] = "put" /\ byIp[cand] # None /\ ~rewound => cand = Head(age)
  BY EvictsOldest
<1>3. Spec => []MemInv
  BY InitMem, StepMem, PTL DEF Spec
<1>4. Spec => ImplementsMap
  BY <1>1, <1>3, StepMap, PTL DEF Spec, ImplementsMap, Map!Spec
<1>5. Spec => OldestFirst
  BY <1>2, <1>3, PTL DEF Spec, OldestFirst
<1>6. Spec => [][RecencyInSync']_vars
  BY <1>3, InSync, PTL
<1>7. QED
  BY <1>4, <1>5, <1>6 DEF MemorySound
=============================================================================
