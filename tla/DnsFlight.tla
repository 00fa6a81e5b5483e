----------------------------- MODULE DnsFlight -----------------------------
(***************************************************************************)
(* Singleflight in front of the upstreams (meow-dns: resolver.rs).         *)
(* Callers look one name up: A or AAAA for the DNS server, or every        *)
(* enabled address for a dialer.  The first caller for a family set leads: *)
(* it queries, merges the answers into the cache family by family,         *)
(* broadcasts them and leaves the registry.  The others subscribe and      *)
(* wait.  A caller's future may be dropped at any await.                   *)
(***************************************************************************)
EXTENDS Naturals, FiniteSets, TLAPS

CONSTANTS Callers, None, Open,
          Kind          \* [caller -> "A", "AAAA" or "ips"]

Families == {"v4", "v6"}
Slots == (SUBSET Families) \ {{}}           \* inflight_slot
Required(c) == CASE Kind[c] = "A" -> {"v4"} [] Kind[c] = "AAAA" -> {"v6"} [] OTHER -> Families

\* FamilySet: an address, a definitive negative, a failure, or not queried
Sets == [Families -> {"ans", "neg", "failed", "none"}]

FlightAssumption ==
  /\ Kind \in [Callers -> {"A", "AAAA", "ips"}]
  /\ None \notin Callers \cup Sets /\ Open \notin Sets \cup {None}

VARIABLES
  hit,      \* the cache: [family -> "ans", "neg" or "miss"]
  flight,   \* the registry: [slot -> its leader, or None]
  pc, want,
  lead,     \* the leader a caller subscribed to, or None
  box,      \* what run_pipeline gives: a FamilySet, None, or Open before that
  result,   \* "ans", "neg", "failed", or "none" before the lookup returns
  evicted   \* history: the callers under way when the cache lost an entry

vars == <<hit, flight, pc, want, lead, box, result, evicted>>

\* Types of the cached families, the flights and each lookup.
TypeOK ==
  /\ hit \in [Families -> {"ans", "neg", "miss"}]
  /\ flight \in [Slots -> Callers \cup {None}]
  /\ pc \in [Callers -> {"new", "get", "entry", "query", "merge4", "merge6", "send", "leave",
                         "wait", "use", "done"}]
  /\ want \in [Callers -> SUBSET Families]
  /\ lead \in [Callers -> Callers \cup {None}]
  /\ box \in [Callers -> Sets \cup {None, Open}]
  /\ result \in [Callers -> {"ans", "neg", "failed", "none"}]
  /\ evicted \subseteq Callers

Init ==
  /\ hit = [f \in Families |-> "miss"]
  /\ flight = [s \in Slots |-> None]
  /\ pc = [c \in Callers |-> "new"] /\ want = [c \in Callers |-> {}]
  /\ lead = [c \in Callers |-> None] /\ box = [c \in Callers |-> Open]
  /\ result = [c \in Callers |-> "none"] /\ evicted = {}

Goto(c, l) == pc' = [pc EXCEPT ![c] = l]

\* The call returns r
Return(c, r) == Goto(c, "done") /\ result' = [result EXCEPT ![c] = r]

---------------------------------------------------------------------------
(* Before the pipeline: the cache                                          *)

\* The families the cache cannot answer are queried.  With none, a single family
\* is answered at once, and resolve_ips goes on to read the cache again
ReadCache(c) ==
  LET missing == {f \in Required(c) : hit[f] = "miss"} IN
  /\ pc[c] = "new"
  /\ want' = [want EXCEPT ![c] = missing]
  /\ \/ missing # {} /\ Goto(c, "get") /\ UNCHANGED <<box, result>>
     \/ /\ missing = {} /\ Kind[c] = "ips"
        /\ Goto(c, "use") /\ box' = [box EXCEPT ![c] = None] /\ UNCHANGED result
     \/ /\ missing = {} /\ Kind[c] # "ips"
        /\ \E f \in Required(c) : Return(c, hit[f])
        /\ UNCHANGED box
  /\ UNCHANGED <<hit, flight, lead, evicted>>

---------------------------------------------------------------------------
(* run_pipeline                                                            *)

Subscribe(c) ==
  /\ lead' = [lead EXCEPT ![c] = flight[want[c]]]
  /\ Goto(c, "wait")
  /\ UNCHANGED flight

\* inflight.get: the fast path
Get(c) ==
  /\ pc[c] = "get"
  /\ IF flight[want[c]] # None THEN Subscribe(c) ELSE Goto(c, "entry") /\ UNCHANGED <<flight, lead>>
  /\ UNCHANGED <<hit, want, box, result, evicted>>

\* inflight.entry: occupied by now, or this caller leads
Enter(c) ==
  /\ pc[c] = "entry"
  /\ IF flight[want[c]] # None THEN Subscribe(c)
     ELSE flight' = [flight EXCEPT ![want[c]] = c] /\ Goto(c, "query") /\ UNCHANGED lead
  /\ UNCHANGED <<hit, want, box, result, evicted>>

\* Faulty variant of Query: the set is broadcast without merging it
QueryUnmerged(c) ==
  /\ pc[c] = "query"
  /\ \E s \in Sets \cup {None} :
       /\ s # None => \A f \in Families : (s[f] # "none") <=> (f \in want[c])
       /\ box' = [box EXCEPT ![c] = s]
  /\ Goto(c, "send")
  /\ UNCHANGED <<hit, flight, want, lead, result, evicted>>

\* pipeline_inner returns a set for the wanted families, or nothing
Query(c) ==
  /\ pc[c] = "query"
  /\ \E s \in Sets \cup {None} :
       /\ s # None => \A f \in Families : (s[f] # "none") <=> (f \in want[c])
       /\ box' = [box EXCEPT ![c] = s]
       /\ Goto(c, IF s = None THEN "send" ELSE "merge4")
  /\ UNCHANGED <<hit, flight, want, lead, result, evicted>>

\* merge_set_into_cache: one family and then the other, each under the shard's
\* lock; a failed family is left out, and a negative yields to an answer
Merge(c) ==
  LET f == IF pc[c] = "merge4" THEN "v4" ELSE "v6" IN
  /\ pc[c] \in {"merge4", "merge6"}
  /\ IF box[c][f] \in {"ans", "neg"} /\ ~(box[c][f] = "neg" /\ hit[f] = "ans")
     THEN hit' = [hit EXCEPT ![f] = box[c][f]] ELSE UNCHANGED hit
  /\ Goto(c, IF f = "v4" THEN "merge6" ELSE "send")
  /\ UNCHANGED <<flight, want, lead, box, result, evicted>>

Followers(c) == {d \in Callers : lead[d] = c /\ pc[d] = "wait" /\ box[d] = Open}

\* tx.send: whoever has subscribed by now receives it
Send(c) ==
  /\ pc[c] = "send"
  /\ box' = [d \in Callers |-> IF d \in Followers(c) THEN box[c] ELSE box[d]]
  /\ Goto(c, "leave")
  /\ UNCHANGED <<hit, flight, want, lead, result, evicted>>

\* The guard's drop and the sender's: whoever subscribed too late receives None
Leave(c) ==
  /\ flight' = [flight EXCEPT ![want[c]] = None]
  /\ box' = [d \in Callers |-> IF d \in Followers(c) THEN None ELSE box[d]]

\* The leader leaves
End(c) ==
  /\ pc[c] = "leave"
  /\ Leave(c)
  /\ Goto(c, "use")
  /\ UNCHANGED <<hit, want, lead, result, evicted>>

\* Faulty variant of CancelLeader: the registry keeps the dead flight
CancelKeepsFlight(c) ==
  /\ pc[c] = "query"
  /\ Goto(c, "done")
  /\ UNCHANGED <<hit, flight, box, want, lead, result, evicted>>

\* The leader's future is dropped while it queries
CancelLeader(c) ==
  /\ pc[c] = "query"
  /\ Leave(c)
  /\ Goto(c, "done")
  /\ UNCHANGED <<hit, want, lead, result, evicted>>

\* A follower's future is dropped
CancelFollower(c) ==
  /\ pc[c] = "wait"
  /\ Goto(c, "done")
  /\ UNCHANGED <<hit, flight, want, lead, box, result, evicted>>

\* rx.recv
Receive(c) ==
  /\ pc[c] = "wait" /\ box[c] # Open
  /\ Goto(c, "use")
  /\ UNCHANGED <<hit, flight, want, lead, box, result, evicted>>

---------------------------------------------------------------------------
(* After the pipeline                                                      *)

\* The cache is read again: an address, or a negative for every family
FromCache(c) ==
  IF \E f \in Required(c) : hit[f] = "ans" THEN "ans"
  ELSE IF \A f \in Required(c) : hit[f] = "neg" THEN "neg" ELSE "failed"

HasAddress(c) == box[c] # None /\ \E f \in want[c] : box[c][f] = "ans"

\* lookup_real_with_ttl: its family of the set, or of the cache
AnswerFamily(c) ==
  IF box[c] = None THEN FromCache(c) ELSE box[c][CHOOSE f \in Required(c) : TRUE]

\* resolve_ips: a set for every family decides; otherwise the cache is read
\* again, and the addresses of the set are the last resort.  It returns no
\* addresses both for "neg" and for "failed".
AnswerIps(c) ==
  CASE want[c] = Families /\ HasAddress(c) -> "ans"
    [] want[c] = Families /\ box[c] # None /\ (\A f \in Families : box[c][f] = "neg") -> "neg"
    [] OTHER -> IF FromCache(c) = "failed" /\ HasAddress(c) THEN "ans" ELSE FromCache(c)

Answer(c) == IF Kind[c] = "ips" THEN AnswerIps(c) ELSE AnswerFamily(c)

Use(c) ==
  /\ pc[c] = "use"
  /\ Return(c, Answer(c))
  /\ UNCHANGED <<hit, flight, want, lead, box, evicted>>

\* An entry expires, is evicted or cleared
Evict ==
  /\ \E f \in Families :
       /\ hit[f] # "miss"
       /\ hit' = [hit EXCEPT ![f] = "miss"]
  /\ evicted' = evicted \cup {c \in Callers : pc[c] \notin {"new", "done"}}
  /\ UNCHANGED <<flight, pc, want, lead, box, result>>

Step(c) ==
  \/ ReadCache(c) \/ Get(c) \/ Enter(c) \/ Query(c) \/ Merge(c) \/ Send(c) \/ End(c)
  \/ Receive(c) \/ Use(c)

Next ==
  \/ \E c \in Callers : Step(c) \/ CancelLeader(c) \/ CancelFollower(c)
  \/ Evict

Spec == Init /\ [][Next]_vars

\* Tasks are polled, and every upstream query ends (DEFAULT_QUERY_TIMEOUT)
FairSpec == Spec /\ \A c \in Callers : WF_vars(Step(c))

---------------------------------------------------------------------------
\* At most one caller queries the upstreams for a family set, and the registry
\* names it (run_pipeline).
OneFlight ==
  \A c, d \in Callers :
    /\ pc[c] \in {"query", "merge4", "merge6", "send", "leave"} => flight[want[c]] = c
    /\ lead[c] = d /\ pc[c] = "wait" /\ box[c] = Open
         => pc[d] \in {"query", "merge4", "merge6", "send", "leave"}

\* A set with an address reaches the caller even if the cache loses the entry
\* between the merge and the second read (resolve_ips): the lookup never fails,
\* and a set for every family is not second-guessed.
AddressReachesCaller ==
  \A c \in Callers : result[c] # "none" /\ want[c] # {} /\ HasAddress(c)
    => result[c] # "failed" /\ (want[c] = Required(c) => result[c] = "ans")

\* The flight a caller took part in
Leader(c) == IF lead[c] = None THEN c ELSE lead[c]
UpstreamFailed(c) ==
  LET s == box[Leader(c)] IN
  want[c] # {} /\ s # Open /\ (s = None \/ \E f \in want[c] : s[f] = "failed")
Evicted(c) == {c, Leader(c)} \cap evicted # {}
LeaderCancelled(c) == pc[Leader(c)] = "done" /\ box[Leader(c)] = Open

\* A lookup fails only for a reason: the upstreams failed, the cache lost the
\* entry, or its leader was cancelled.  A broadcast that was missed is no reason,
\* because the merge precedes it (run_pipeline, lookup_real_with_ttl).
FailureExplained ==
  \A c \in Callers : result[c] = "failed" => Evicted(c) \/ UpstreamFailed(c) \/ LeaderCancelled(c)

\* What run_pipeline promises its callers: one of them queries for a family set, an address
\* it gets reaches every caller whatever the cache loses, and a lookup fails only for a
\* reason.
FlightSound == TypeOK /\ OneFlight /\ AddressReachesCaller /\ FailureExplained

\* Every lookup returns, whoever is cancelled (InflightGuard)
LookupReturns == \A c \in Callers : pc[c] # "new" ~> pc[c] = "done"

---------------------------------------------------------------------------
(* Proofs about singleflight, for any number of callers of any kinds.      *)

Leading == {"query", "merge4", "merge6", "send", "leave"}

\* The registry names exactly the callers that lead
Registered ==
  /\ \A c \in Callers : pc[c] \in Leading => want[c] # {} /\ flight[want[c]] = c
  /\ \A s \in Slots : flight[s] # None => pc[flight[s]] \in Leading /\ want[flight[s]] = s

\* What a caller knows at each place
Known ==
  \A c \in Callers :
    /\ pc[c] \in {"new", "get", "entry"} \cup Leading => lead[c] = None
    /\ pc[c] \in {"new", "get", "entry", "query"} => box[c] = Open
    /\ pc[c] \in {"merge4", "merge6"} => box[c] \in Sets
    /\ pc[c] \in {"send", "leave", "use"} => box[c] # Open
    /\ pc[c] \in {"get", "entry", "wait"} => want[c] # {}
    /\ pc[c] = "wait" => lead[c] # None
    /\ pc[c] # "done" => result[c] = "none"
    /\ want[c] \subseteq Required(c)
    /\ box[c] \in Sets => want[c] # {} /\ \A f \in Families : (box[c][f] # "none") <=> (f \in want[c])

\* What a follower got of its leader: its set; nothing, if it came after the broadcast or the
\* leader was cancelled
Followed ==
  \A c \in Callers : lead[c] # None =>
    /\ lead[lead[c]] = None /\ want[lead[c]] = want[c] /\ want[c] # {}
    /\ pc[lead[c]] \in Leading \cup {"use", "done"}
    /\ pc[c] = "wait" /\ box[c] = Open => pc[lead[c]] \in Leading
    /\ box[c] \in Sets => box[lead[c]] = box[c] /\ pc[lead[c]] \in {"leave", "use", "done"}
    /\ box[c] = None => \/ box[lead[c]] = None
                        \/ box[lead[c]] = Open /\ pc[lead[c]] = "done"
                        \/ box[lead[c]] \in Sets /\ pc[lead[c]] \in {"use", "done"}

\* Leader d has merged its answer for f
Merged(d, f) ==
  /\ box[d] \in Sets /\ box[d][f] \in {"ans", "neg"}
  /\ pc[d] \in {"send", "leave", "use", "done"} \/ (pc[d] = "merge6" /\ f = "v4")

\* The cache has what a caller found there, and what its leader merged, until it loses an entry
Cached ==
  \A c \in Callers : pc[c] \notin {"new", "done"} =>
    /\ \A f \in Required(c) \ want[c] : hit[f] # "miss" \/ c \in evicted
    /\ \A f \in want[c] : Merged(Leader(c), f) => hit[f] # "miss" \/ Evicted(c)

FlightInv ==
  TypeOK /\ Registered /\ Known /\ Followed /\ Cached /\ AddressReachesCaller /\ FailureExplained

---------------------------------------------------------------------------
LEMMA RequiredFamilies ==
  ASSUME FlightAssumption, NEW c \in Callers
  PROVE  /\ Kind[c] = "ips" => Required(c) = Families
         /\ Kind[c] # "ips" => \E f \in Families : Required(c) = {f}
<1>1. CASE Kind[c] = "A"
  BY <1>1 DEF Required, Families
<1>2. CASE Kind[c] = "AAAA"
  BY <1>2 DEF Required, Families
<1>3. CASE Kind[c] = "ips"
  BY <1>3 DEF Required
<1>4. QED
  BY <1>1, <1>2, <1>3 DEF FlightAssumption

LEMMA SlotOfWant ==
  ASSUME TypeOK, NEW c \in Callers, want[c] # {}
  PROVE  want[c] \in Slots
BY DEF TypeOK, Slots

\* lookup_real_with_ttl has one family
LEMMA FamilyAnswer ==
  ASSUME FlightAssumption, NEW c \in Callers, Kind[c] # "ips", box[c] # None
  PROVE  \E f \in Families : Required(c) = {f} /\ AnswerFamily(c) = box[c][f]
<1>1. PICK f \in Families : Required(c) = {f}
  BY RequiredFamilies
<1>2. (CHOOSE g \in Required(c) : TRUE) = f
  <2>1. (CHOOSE g \in {f} : TRUE) \in {f}
    OBVIOUS
  <2>2. QED
    BY <1>1, <2>1
<1>3. QED
  BY <1>1, <1>2 DEF AnswerFamily

LEMMA AnswerTyped ==
  ASSUME FlightAssumption, TypeOK, Known, NEW c \in Callers, pc[c] = "use"
  PROVE  Answer(c) \in {"ans", "neg", "failed", "none"}
<1>1. FromCache(c) \in {"ans", "neg", "failed"}
  BY DEF FromCache
<1>2. CASE Kind[c] = "ips"
  <2>1. AnswerIps(c) \in {"ans", "neg", "failed"}
    BY <1>1 DEF AnswerIps
  <2>2. QED
    BY <1>2, <2>1 DEF Answer
<1>3. CASE Kind[c] # "ips" /\ box[c] = None
  BY <1>1, <1>3 DEF Answer, AnswerFamily
<1>4. CASE Kind[c] # "ips" /\ box[c] # None
  <2>1. box[c] \in Sets
    BY <1>4 DEF Known, TypeOK
  <2>2. QED
    BY <1>4, <2>1, FamilyAnswer DEF Answer, Sets
<1>5. QED
  BY <1>2, <1>3, <1>4

LEMMA StepTyped == ASSUME FlightAssumption PROVE FlightInv /\ [Next]_vars => TypeOK'
<1> SUFFICES ASSUME FlightInv, [Next]_vars PROVE TypeOK'
  OBVIOUS
<1> USE DEF FlightInv, TypeOK, Goto, Return
<1>1. ASSUME NEW c \in Callers, ReadCache(c) PROVE TypeOK'
  <2>1. {f \in Required(c) : hit[f] = "miss"} \subseteq Families
    BY RequiredFamilies
  <2>2. ASSUME NEW f \in Required(c), hit[f] # "miss" PROVE hit[f] \in {"ans", "neg"}
    BY <2>2, RequiredFamilies
  <2>3. want' \in [Callers -> SUBSET Families] /\ pc' \in [Callers -> {"new", "get", "entry", "query",
          "merge4", "merge6", "send", "leave", "wait", "use", "done"}]
    BY <1>1, <2>1 DEF ReadCache
  <2>4. result' \in [Callers -> {"ans", "neg", "failed", "none"}]
    BY <1>1, <2>2 DEF ReadCache
  <2>5. QED
    BY <1>1, <2>3, <2>4 DEF ReadCache
<1>2. ASSUME NEW c \in Callers, Get(c) PROVE TypeOK'
  BY <1>2, SlotOfWant DEF Get, Subscribe, Known
<1>3. ASSUME NEW c \in Callers, Enter(c) PROVE TypeOK'
  BY <1>3, SlotOfWant DEF Enter, Subscribe, Known
<1>4. ASSUME NEW c \in Callers, Query(c) PROVE TypeOK'
  BY <1>4 DEF Query
<1>5. ASSUME NEW c \in Callers, Merge(c) PROVE TypeOK'
  BY <1>5 DEF Merge
<1>6. ASSUME NEW c \in Callers, Send(c) PROVE TypeOK'
  BY <1>6 DEF Send
<1>7. ASSUME NEW c \in Callers, End(c) PROVE TypeOK'
  BY <1>7, Zenon DEF End, Leave
<1>8. ASSUME NEW c \in Callers, CancelLeader(c) PROVE TypeOK'
  BY <1>8, Zenon DEF CancelLeader, Leave
<1>9. ASSUME NEW c \in Callers, CancelFollower(c) PROVE TypeOK'
  BY <1>9 DEF CancelFollower
<1>10. ASSUME NEW c \in Callers, Receive(c) PROVE TypeOK'
  BY <1>10 DEF Receive
<1>11. ASSUME NEW c \in Callers, Use(c) PROVE TypeOK'
  <2>1. Answer(c) \in {"ans", "neg", "failed", "none"}
    BY <1>11, AnswerTyped DEF Use
  <2>2. QED
    BY <1>11, <2>1 DEF Use
<1>12. CASE Evict
  BY <1>12 DEF Evict
<1>13. CASE UNCHANGED vars
  BY <1>13 DEF vars
<1>14. QED
  BY <1>1, <1>2, <1>3, <1>4, <1>5, <1>6, <1>7, <1>8, <1>9, <1>10, <1>11, <1>12, <1>13 DEF Next, Step

\* A caller leads from its entry in the registry until it removes it
LEMMA StepRegistered == ASSUME FlightAssumption PROVE FlightInv /\ [Next]_vars => Registered'
<1> SUFFICES ASSUME FlightInv, [Next]_vars PROVE Registered'
  OBVIOUS
<1> USE DEF FlightInv, TypeOK, Registered, Known, Leading, FlightAssumption, Goto, Return
<1>1. ASSUME NEW c \in Callers, ReadCache(c) PROVE Registered'
  BY <1>1, SlotOfWant DEF ReadCache
<1>2. ASSUME NEW c \in Callers, Get(c) PROVE Registered'
  BY <1>2, SlotOfWant DEF Get, Subscribe
<1>3. ASSUME NEW c \in Callers, Enter(c) PROVE Registered'
  BY <1>3, SlotOfWant DEF Enter, Subscribe
<1>4. ASSUME NEW c \in Callers, Query(c) PROVE Registered'
  BY <1>4, SlotOfWant DEF Query
<1>5. ASSUME NEW c \in Callers, Merge(c) PROVE Registered'
  BY <1>5, SlotOfWant DEF Merge
<1>6. ASSUME NEW c \in Callers, Send(c) PROVE Registered'
  BY <1>6, SlotOfWant DEF Send, Followers
<1>7. ASSUME NEW c \in Callers, End(c) PROVE Registered'
  BY <1>7, SlotOfWant DEF End, Leave, Followers
<1>8. ASSUME NEW c \in Callers, CancelLeader(c) PROVE Registered'
  BY <1>8, SlotOfWant DEF CancelLeader, Leave, Followers
<1>9. ASSUME NEW c \in Callers, CancelFollower(c) PROVE Registered'
  BY <1>9, SlotOfWant DEF CancelFollower
<1>10. ASSUME NEW c \in Callers, Receive(c) PROVE Registered'
  BY <1>10, SlotOfWant DEF Receive
<1>11. ASSUME NEW c \in Callers, Use(c) PROVE Registered'
  BY <1>11, SlotOfWant DEF Use
<1>12. CASE Evict
  BY <1>12, SlotOfWant DEF Evict
<1>13. CASE UNCHANGED vars
  BY <1>13, SlotOfWant, SMTT(30) DEF vars
<1>14. QED
  BY <1>1, <1>2, <1>3, <1>4, <1>5, <1>6, <1>7, <1>8, <1>9, <1>10, <1>11, <1>12, <1>13 DEF Next, Step

LEMMA StepKnown == ASSUME FlightAssumption PROVE FlightInv /\ [Next]_vars => Known'
<1> SUFFICES ASSUME FlightInv, [Next]_vars PROVE Known'
  OBVIOUS
<1> USE DEF FlightInv, TypeOK, Registered, Known, Followed, Leading, FlightAssumption, Goto, Return
<1>1. ASSUME NEW c \in Callers, ReadCache(c) PROVE Known'
  BY <1>1, SlotOfWant DEF ReadCache
<1>2. ASSUME NEW c \in Callers, Get(c) PROVE Known'
  BY <1>2, SlotOfWant DEF Get, Subscribe
<1>3. ASSUME NEW c \in Callers, Enter(c) PROVE Known'
  BY <1>3, SlotOfWant DEF Enter, Subscribe
<1>4. ASSUME NEW c \in Callers, Query(c) PROVE Known'
  BY <1>4, SlotOfWant DEF Query
<1>5. ASSUME NEW c \in Callers, Merge(c) PROVE Known'
  BY <1>5, SlotOfWant DEF Merge
<1>6. ASSUME NEW c \in Callers, Send(c) PROVE Known'
  BY <1>6, SlotOfWant DEF Send, Followers
<1>7. ASSUME NEW c \in Callers, End(c) PROVE Known'
  BY <1>7, SlotOfWant DEF End, Leave, Followers
<1>8. ASSUME NEW c \in Callers, CancelLeader(c) PROVE Known'
  BY <1>8, SlotOfWant DEF CancelLeader, Leave, Followers
<1>9. ASSUME NEW c \in Callers, CancelFollower(c) PROVE Known'
  BY <1>9, SlotOfWant DEF CancelFollower
<1>10. ASSUME NEW c \in Callers, Receive(c) PROVE Known'
  BY <1>10, SlotOfWant DEF Receive
<1>11. ASSUME NEW c \in Callers, Use(c) PROVE Known'
  BY <1>11, SlotOfWant DEF Use
<1>12. CASE Evict
  BY <1>12, SlotOfWant DEF Evict
<1>13. CASE UNCHANGED vars
  BY <1>13, SlotOfWant, SMTT(30) DEF vars
<1>14. QED
  BY <1>1, <1>2, <1>3, <1>4, <1>5, <1>6, <1>7, <1>8, <1>9, <1>10, <1>11, <1>12, <1>13, Zenon DEF Next, Step

\* A follower waits only for a caller that leads, and gets what that one broadcasts
LEMMA StepFollowed == ASSUME FlightAssumption PROVE FlightInv /\ [Next]_vars => Followed'
<1> SUFFICES ASSUME FlightInv, [Next]_vars PROVE Followed'
  OBVIOUS
<1> USE DEF FlightInv, TypeOK, Registered, Known, Followed, Leading, FlightAssumption, Goto, Return
<1>1. ASSUME NEW c \in Callers, ReadCache(c) PROVE Followed'
  BY <1>1, SlotOfWant DEF ReadCache
<1>2. ASSUME NEW c \in Callers, Get(c) PROVE Followed'
  BY <1>2, SlotOfWant DEF Get, Subscribe
<1>3. ASSUME NEW c \in Callers, Enter(c) PROVE Followed'
  BY <1>3, SlotOfWant DEF Enter, Subscribe
<1>4. ASSUME NEW c \in Callers, Query(c) PROVE Followed'
  BY <1>4, SlotOfWant DEF Query
<1>5. ASSUME NEW c \in Callers, Merge(c) PROVE Followed'
  BY <1>5, SlotOfWant DEF Merge
<1>6. ASSUME NEW c \in Callers, Send(c) PROVE Followed'
  BY <1>6, SlotOfWant DEF Send, Followers
<1>7. ASSUME NEW c \in Callers, End(c) PROVE Followed'
  BY <1>7, SlotOfWant DEF End, Leave, Followers
<1>8. ASSUME NEW c \in Callers, CancelLeader(c) PROVE Followed'
  BY <1>8, SlotOfWant DEF CancelLeader, Leave, Followers
<1>9. ASSUME NEW c \in Callers, CancelFollower(c) PROVE Followed'
  BY <1>9, SlotOfWant DEF CancelFollower
<1>10. ASSUME NEW c \in Callers, Receive(c) PROVE Followed'
  BY <1>10, SlotOfWant DEF Receive
<1>11. ASSUME NEW c \in Callers, Use(c) PROVE Followed'
  BY <1>11, SlotOfWant DEF Use
<1>12. CASE Evict
  BY <1>12, SlotOfWant DEF Evict
<1>13. CASE UNCHANGED vars
  BY <1>13, SlotOfWant, SMTT(30) DEF vars
<1>14. QED
  BY <1>1, <1>2, <1>3, <1>4, <1>5, <1>6, <1>7, <1>8, <1>9, <1>10, <1>11, <1>12, <1>13, Zenon DEF Next, Step

\* What was merged stays in the cache, or whoever is under way notices
LEMMA StepCached == ASSUME FlightAssumption PROVE FlightInv /\ [Next]_vars => Cached'
<1> SUFFICES ASSUME FlightInv, [Next]_vars PROVE Cached'
  OBVIOUS
<1> USE DEF FlightInv, TypeOK, Registered, Known, Followed, Cached, Merged, Leader, Evicted, Leading,
           FlightAssumption, Goto, Return
<1>1. ASSUME NEW c \in Callers, ReadCache(c) PROVE Cached'
  BY <1>1, SlotOfWant, RequiredFamilies DEF ReadCache
<1>2. ASSUME NEW c \in Callers, Get(c) PROVE Cached'
  BY <1>2, SlotOfWant, RequiredFamilies DEF Get, Subscribe
<1>3. ASSUME NEW c \in Callers, Enter(c) PROVE Cached'
  BY <1>3, SlotOfWant, RequiredFamilies DEF Enter, Subscribe
<1>4. ASSUME NEW c \in Callers, Query(c) PROVE Cached'
  BY <1>4, SlotOfWant, RequiredFamilies DEF Query
<1>5. ASSUME NEW c \in Callers, Merge(c) PROVE Cached'
  <2> DEFINE f == IF pc[c] = "merge4" THEN "v4" ELSE "v6"
  <2>1. /\ pc[c] \in {"merge4", "merge6"} /\ box[c] \in Sets
        /\ pc' = [pc EXCEPT ![c] = IF f = "v4" THEN "merge6" ELSE "send"]
        /\ UNCHANGED <<want, lead, box, evicted>>
    BY <1>5 DEF Merge
  <2>2. /\ f \in Families /\ \A g \in Families : hit[g] # "miss" => hit'[g] # "miss"
        /\ box[c][f] \in {"ans", "neg"} => hit'[f] # "miss"
    BY <1>5 DEF Merge, Families
  <2>3. \A d \in Callers : \A g \in Families : Merged(d, g)' => Merged(d, g) \/ (d = c /\ g = f)
    BY <2>1 DEF Families
  <2>4. ASSUME NEW d \in Callers, pc'[d] \notin {"new", "done"}
        PROVE  /\ \A g \in Required(d) \ want[d] : hit'[g] # "miss" \/ d \in evicted
               /\ \A g \in want[d] : Merged(Leader(d), g)' => hit'[g] # "miss" \/ Evicted(d)
    <3>1. pc[d] \notin {"new", "done"} /\ Leader(d) \in Callers /\ want[d] \subseteq Families
      BY <2>1, <2>4
    <3>2. \A g \in Required(d) : g \in Families
      BY RequiredFamilies
    <3>3. \A g \in Required(d) \ want[d] : hit'[g] # "miss" \/ d \in evicted
      BY <2>2, <3>1, <3>2
    <3>4. ASSUME NEW L \in Callers, L = Leader(d), NEW g \in want[d], Merged(L, g)'
          PROVE  hit'[g] # "miss" \/ Evicted(d)
      <4>1. CASE Merged(L, g)
        BY <2>2, <3>1, <3>4, <4>1
      <4>2. CASE L = c /\ g = f
        BY <2>1, <2>2, <3>4, <4>2
      <4>3. QED
        BY <2>3, <3>1, <3>4, <4>1, <4>2
    <3>5. QED
      BY <2>1, <3>1, <3>3, <3>4
  <2>5. Required(c)' = Required(c) /\ \A d \in Callers : Leader(d)' = Leader(d) /\ Evicted(d)' = Evicted(d)
    BY <2>1 DEF Required
  <2>6. QED
    BY <2>1, <2>4, <2>5
<1>6. ASSUME NEW c \in Callers, Send(c) PROVE Cached'
  BY <1>6, SlotOfWant, RequiredFamilies DEF Send, Followers
<1>7. ASSUME NEW c \in Callers, End(c) PROVE Cached'
  BY <1>7, SlotOfWant, RequiredFamilies DEF End, Leave, Followers
<1>8. ASSUME NEW c \in Callers, CancelLeader(c) PROVE Cached'
  BY <1>8, SlotOfWant, RequiredFamilies DEF CancelLeader, Leave, Followers
<1>9. ASSUME NEW c \in Callers, CancelFollower(c) PROVE Cached'
  BY <1>9, SlotOfWant, RequiredFamilies DEF CancelFollower
<1>10. ASSUME NEW c \in Callers, Receive(c) PROVE Cached'
  BY <1>10, SlotOfWant, RequiredFamilies DEF Receive
<1>11. ASSUME NEW c \in Callers, Use(c) PROVE Cached'
  BY <1>11, SlotOfWant, RequiredFamilies DEF Use
<1>12. CASE Evict
  BY <1>12, SlotOfWant, RequiredFamilies DEF Evict
<1>13. CASE UNCHANGED vars
  BY <1>13, SlotOfWant, RequiredFamilies, SMTT(30) DEF vars
<1>14. QED
  BY <1>1, <1>2, <1>3, <1>4, <1>5, <1>6, <1>7, <1>8, <1>9, <1>10, <1>11, <1>12, <1>13, Zenon DEF Next, Step

---------------------------------------------------------------------------
\* A lookup that is over, and a set that was received, do not change
LEMMA Settled ==
  ASSUME FlightAssumption, FlightInv, [Next]_vars, NEW d \in Callers
  PROVE  /\ evicted \subseteq evicted'
         /\ box[d] # Open => box'[d] = box[d]
         /\ pc[d] = "done" => /\ pc'[d] = "done" /\ result'[d] = result[d] /\ want'[d] = want[d]
                              /\ lead'[d] = lead[d] /\ box'[d] = box[d]
<1> USE DEF FlightInv, TypeOK, Known, Goto, Return
<1>1. CASE \E c \in Callers : ReadCache(c) \/ Get(c) \/ Enter(c) \/ Query(c) \/ Merge(c)
  BY <1>1 DEF ReadCache, Get, Enter, Subscribe, Query, Merge
<1>2. CASE \E c \in Callers : Send(c) \/ End(c) \/ CancelLeader(c)
  BY <1>2 DEF Send, End, CancelLeader, Leave, Followers
<1>3. CASE \E c \in Callers : CancelFollower(c) \/ Receive(c) \/ Use(c)
  BY <1>3 DEF CancelFollower, Receive, Use
<1>4. CASE Evict \/ UNCHANGED vars
  BY <1>4 DEF Evict, vars
<1>5. QED
  BY <1>1, <1>2, <1>3, <1>4 DEF Next, Step

\* A lookup returns from Use, or at once with what the cache has
LEMMA Returned ==
  ASSUME FlightAssumption, FlightInv, [Next]_vars, NEW d \in Callers, result'[d] # result[d]
  PROVE  \/ Use(d)
         \/ want'[d] = {} /\ result'[d] # "failed"
<1> USE DEF FlightInv, TypeOK, Known, Goto, Return
<1>1. ASSUME NEW c \in Callers, ReadCache(c) PROVE want'[d] = {} /\ result'[d] # "failed"
  <2>1. PICK f \in Required(c) : result' = [result EXCEPT ![c] = hit[f]]
    BY <1>1 DEF ReadCache
  <2>2. f \in Families
    BY RequiredFamilies
  <2>3. d = c /\ want'[d] = {}
    BY <1>1 DEF ReadCache
  <2>4. QED
    BY <2>1, <2>2, <2>3
<1>2. ASSUME NEW c \in Callers, Use(c) PROVE c = d
  BY <1>2 DEF Use
<1>3. QED
  BY <1>1, <1>2 DEF Next, Step, Get, Enter, Query, Merge, Send, End, CancelLeader, CancelFollower,
     Receive, Evict, vars

LEMMA StepAddress == ASSUME FlightAssumption PROVE FlightInv /\ [Next]_vars => AddressReachesCaller'
<1> SUFFICES ASSUME FlightInv, [Next]_vars, NEW d \in Callers, (result[d] # "none")', (want[d] # {})',
                    HasAddress(d)'
             PROVE  (result[d] # "failed" /\ (want[d] = Required(d) => result[d] = "ans"))'
  BY DEF AddressReachesCaller
<1>1. CASE result'[d] = result[d]
  <2>1. pc[d] = "done"
    BY <1>1 DEF FlightInv, Known
  <2>2. result'[d] = result[d] /\ want'[d] = want[d] /\ box'[d] = box[d]
    BY <2>1, Settled
  <2>3. QED
    BY <2>2 DEF FlightInv, AddressReachesCaller, HasAddress, Required
<1>2. CASE result'[d] # result[d]
  <2>1. Use(d)
    BY <1>2, Returned
  <2>2. /\ pc[d] = "use" /\ result'[d] = Answer(d) /\ HasAddress(d) /\ want[d] # {}
        /\ want' = want /\ box[d] \in Sets
    BY <2>1 DEF Use, Return, Goto, HasAddress, FlightInv, TypeOK, Known
  <2>3. PICK g \in want[d] : box[d][g] = "ans"
    BY <2>2 DEF HasAddress
  <2>4. CASE Kind[d] = "ips"
    <3>1. AnswerIps(d) # "failed" /\ (want[d] = Families => AnswerIps(d) = "ans")
      <4>1. CASE want[d] = Families
        BY <2>2, <2>3, <4>1 DEF AnswerIps
      <4>2. CASE want[d] # Families
        BY <2>2, <4>2 DEF AnswerIps
      <4>3. QED
        BY <4>1, <4>2
    <3>2. Required(d) = Families
      BY <2>4, RequiredFamilies
    <3>3. QED
      BY <2>2, <2>4, <3>1, <3>2 DEF Answer, Required
  <2>5. CASE Kind[d] # "ips"
    <3>1. PICK f \in Families : Required(d) = {f} /\ AnswerFamily(d) = box[d][f]
      BY <2>2, <2>5, FamilyAnswer DEF HasAddress
    <3>2. g = f
      BY <2>3, <3>1 DEF FlightInv, Known
    <3>3. QED
      BY <2>2, <2>3, <2>5, <3>1, <3>2 DEF Answer
  <2>6. QED
    BY <2>4, <2>5
<1>3. QED
  BY <1>1, <1>2

Explained(c) == Evicted(c) \/ UpstreamFailed(c) \/ LeaderCancelled(c)

\* A required family that is missing from the cache was lost, or the upstreams failed
LEMMA MissExplained ==
  ASSUME FlightAssumption, FlightInv, NEW c \in Callers, pc[c] = "use", FromCache(c) = "failed"
  PROVE  Explained(c)
<1>1. PICK f \in Required(c) : hit[f] = "miss"
  <2>1. \A f \in Required(c) : hit[f] \in {"ans", "neg", "miss"}
    BY RequiredFamilies DEF FlightInv, TypeOK
  <2>2. QED
    BY <2>1 DEF FromCache
<1>2. CASE f \notin want[c]
  BY <1>1, <1>2 DEF FlightInv, Cached, Explained, Evicted
<1>3. CASE f \in want[c]
  <2> DEFINE L == Leader(c)
  <2>1. /\ L \in Callers /\ want[L] = want[c] /\ want[c] # {} /\ f \in Families
        /\ box[L] \in Sets \cup {None, Open}
    BY <1>3 DEF FlightInv, TypeOK, Followed, Leader
  <2>2. box[L] = Open => pc[L] = "done"
    BY <2>1 DEF FlightInv, TypeOK, Known, Followed, Leader, FlightAssumption
  <2>3. box[L] \in Sets => pc[L] \in {"leave", "use", "done"} /\ box[L][f] \in {"ans", "neg", "failed"}
    BY <1>3, <2>1, SMTT(30) DEF FlightInv, TypeOK, Known, Followed, Leader, FlightAssumption, Sets
  <2>4. CASE box[L] \in Sets /\ box[L][f] \in {"ans", "neg"}
    BY <1>1, <1>3, <2>3, <2>4 DEF FlightInv, Cached, Merged, Explained
  <2>5. QED
    BY <1>3, <2>1, <2>2, <2>3, <2>4 DEF Explained, UpstreamFailed, LeaderCancelled, FlightAssumption
<1>4. QED
  BY <1>2, <1>3

LEMMA AnswerExplained ==
  ASSUME FlightAssumption, FlightInv, NEW c \in Callers, pc[c] = "use", Answer(c) = "failed"
  PROVE  Explained(c)
<1>1. CASE FromCache(c) = "failed"
  BY <1>1, MissExplained
<1>2. CASE FromCache(c) # "failed"
  <2>1. Kind[c] # "ips" /\ box[c] # None
    BY <1>2 DEF Answer, AnswerIps, AnswerFamily
  <2>2. PICK f \in Families : Required(c) = {f} /\ box[c][f] = "failed"
    BY <2>1, FamilyAnswer DEF Answer
  <2>3. box[c] \in Sets
    BY <2>1 DEF FlightInv, TypeOK, Known
  <2>4. box[Leader(c)] = box[c] /\ f \in want[c]
    BY <2>2, <2>3 DEF FlightInv, Known, Followed, Leader
  <2>5. QED
    BY <2>2, <2>3, <2>4 DEF Explained, UpstreamFailed, FlightAssumption
<1>3. QED
  BY <1>1, <1>2

LEMMA StepFailure == ASSUME FlightAssumption PROVE FlightInv /\ [Next]_vars => FailureExplained'
<1> SUFFICES ASSUME FlightInv, [Next]_vars, NEW d \in Callers, result'[d] = "failed" PROVE Explained(d)'
  BY DEF FailureExplained, Explained
<1>1. Explained(d) /\ lead'[d] = lead[d] /\ want'[d] = want[d]
  <2>1. CASE result[d] = "failed"
    <3>1. pc[d] = "done"
      BY <2>1 DEF FlightInv, Known
    <3>2. QED
      BY <2>1, <3>1, Settled DEF FlightInv, FailureExplained, Explained
  <2>2. CASE result[d] # "failed"
    <3>1. Use(d)
      BY <2>2, Returned
    <3>2. pc[d] = "use" /\ Answer(d) = "failed"
      BY <3>1 DEF Use, Return, FlightInv, TypeOK
    <3>3. QED
      BY <3>1, <3>2, AnswerExplained DEF Use
  <2>3. QED
    BY <2>1, <2>2
<1>2. Leader(d)' = Leader(d) /\ Leader(d) \in Callers
  BY <1>1 DEF Leader, FlightInv, TypeOK
<1>3. QED
  BY <1>1, <1>2, Settled DEF Explained, Evicted, UpstreamFailed, LeaderCancelled

---------------------------------------------------------------------------
LEMMA InitFlight == ASSUME FlightAssumption PROVE Init => FlightInv
<1> SUFFICES ASSUME Init PROVE FlightInv
  OBVIOUS
<1>1. TypeOK
  BY DEF Init, TypeOK
<1>2. Registered /\ Known /\ Followed /\ Cached
  BY DEF Init, Registered, Known, Followed, Cached, Leading, FlightAssumption
<1>3. AddressReachesCaller /\ FailureExplained
  BY DEF Init, AddressReachesCaller, FailureExplained
<1>4. QED
  BY <1>1, <1>2, <1>3 DEF FlightInv

LEMMA StepFlight == ASSUME FlightAssumption PROVE FlightInv /\ [Next]_vars => FlightInv'
BY StepTyped, StepRegistered, StepKnown, StepFollowed, StepCached, StepAddress, StepFailure
   DEF FlightInv

LEMMA FlightIsSound == ASSUME FlightAssumption PROVE FlightInv => FlightSound
<1> SUFFICES ASSUME FlightInv PROVE FlightSound
  OBVIOUS
<1>1. OneFlight
  BY DEF FlightInv, TypeOK, Registered, Followed, OneFlight, Leading, FlightAssumption
<1>2. QED
  BY <1>1 DEF FlightInv, FlightSound

\* However many callers look the name up, whoever is cancelled and whenever the cache loses an
\* entry: a family set has one flight (run_pipeline's registry), an address the upstreams
\* returned reaches every caller that waited for it (resolve_ips, lookup_real_with_ttl), and a
\* lookup fails only because its upstreams did, its leader was dropped or its entry was lost.
THEOREM FlightsAreSound == ASSUME FlightAssumption PROVE Spec => []FlightSound
<1>1. Init => FlightInv
  BY InitFlight
<1>2. FlightInv /\ [Next]_vars => FlightInv'
  BY StepFlight
<1>3. FlightInv => FlightSound
  BY FlightIsSound
<1>4. QED
  BY <1>1, <1>2, <1>3, PTL DEF Spec
=============================================================================
