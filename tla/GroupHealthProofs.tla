------------------------- MODULE GroupHealthProofs -------------------------
(***************************************************************************)
(* Proofs about the health checks of a group, for any members, any bounds  *)
(* on the probes in parallel and any number of uses, delay tests and       *)
(* reloads; and about the failure streaks of its members (DialFailures).   *)
(***************************************************************************)
EXTENDS GroupHealth, FiniteSetTheorems, TLAPS

\* The types, without the bound on the permits
Typed ==
  /\ alive \subseteq Members /\ last \in [Members -> 0..Unprobed]
  /\ probe \in [Probers -> [Members -> Stages]] /\ current \subseteq Probers
  /\ gen \in 0..MaxGen /\ dialing \in {"no", "user", "tunnel"}
  /\ loop \in {"tick", "probing"} /\ seen \in 0..MaxGen /\ lastProbed \in 0..MaxGen
  /\ present \in BOOLEAN /\ reloads \in 0..MaxReloads /\ apis \in 0..MaxApi /\ used \in BOOLEAN

\* Between two rounds the loop has no probe under way
LoopRests == loop = "tick" => probe["loop"] = NoProbes

\* record_delay of the installed members: one at a time, and its delay is the newest
OneRecords ==
  \A m \in Members :
    /\ \A p, q \in current : probe[p][m] \in {"answered", "failed"}
                             /\ probe[q][m] \in {"answered", "failed"} => p = q
    /\ \A p \in current : probe[p][m] = "answered" => last[m] = 1

HealthInv == Typed /\ LoopRests /\ OneRecords /\ HealthConsistent

---------------------------------------------------------------------------
LEMMA InitTyped == Init => Typed
<1> SUFFICES ASSUME Init PROVE Typed
  OBVIOUS
<1>1. last \in [Members -> 0..Unprobed]
  BY DEF Init, Unprobed
<1>2. probe \in [Probers -> [Members -> Stages]]
  BY DEF Init, NoProbes, Stages
<1>3. gen \in 0..MaxGen /\ seen \in 0..MaxGen /\ lastProbed \in 0..MaxGen
  BY HealthAssumption DEF HealthAssumption, Init
<1>4. reloads \in 0..MaxReloads /\ apis \in 0..MaxApi
  BY HealthAssumption DEF HealthAssumption, Init
<1>5. /\ alive \subseteq Members /\ current \subseteq Probers
      /\ dialing \in {"no", "user", "tunnel"} /\ loop \in {"tick", "probing"}
  BY DEF Init
<1>6. present \in BOOLEAN /\ used \in BOOLEAN
  BY Zenon DEF Init
<1>7. QED
  BY <1>1, <1>2, <1>3, <1>4, <1>5, <1>6 DEF Typed

\* Every step keeps the types
LEMMA StepTyped == Typed /\ [Next]_vars => Typed'
<1> SUFFICES ASSUME Typed, [Next]_vars PROVE Typed'
  OBVIOUS
<1> USE HealthAssumption DEF HealthAssumption, Typed, Probers, Stages, Unprobed
<1>1. ASSUME NEW kind \in {"user", "tunnel"}, Dial(kind) PROVE Typed'
  BY <1>1 DEF Dial, Touch
<1>2. ASSUME NEW dead \in SUBSET Members, DialEnds(dead) PROVE Typed'
  BY <1>2 DEF DialEnds
<1>3. ASSUME NEW p \in Probers, NEW m \in Members, Start(p, m) PROVE Typed'
  BY <1>3 DEF Start
<1>4. ASSUME NEW p \in Probers, NEW m \in Members, Acquire(p, m) PROVE Typed'
  BY <1>4 DEF Acquire
<1>5. ASSUME NEW p \in Probers, NEW m \in Members, NEW ok \in BOOLEAN, Push(p, m, ok) PROVE Typed'
  BY <1>5 DEF Push
<1>6. ASSUME NEW p \in Probers, NEW m \in Members, Store(p, m) PROVE Typed'
  BY <1>6 DEF Store, Flag
<1>7. CASE Api
  BY <1>7 DEF Api
<1>8. CASE Tick
  BY <1>8, Zenon DEF Tick
<1>9. CASE Round
  BY <1>9 DEF Round, Probed
<1>10. ASSUME NEW with \in BOOLEAN, Reload(with) PROVE Typed'
  <2>1. last' \in [Members -> 0..Unprobed]
    BY <1>10 DEF Reload
  <2>2. present' \in BOOLEAN /\ used' \in BOOLEAN
    BY <1>10, Zenon DEF Reload
  <2>3. gen' \in 0..MaxGen /\ reloads' \in 0..MaxReloads
    BY <1>10 DEF Reload
  <2>4. QED
    BY <1>10, <2>1, <2>2, <2>3 DEF Reload
<1>11. CASE UNCHANGED vars
  BY <1>11 DEF vars
<1>12. QED
  BY <1>1, <1>2, <1>3, <1>4, <1>5, <1>6, <1>7, <1>8, <1>9, <1>10, <1>11 DEF Next, ProbeOf

---------------------------------------------------------------------------
LEMMA InitHealth == Init => HealthInv
<1> SUFFICES ASSUME Init PROVE HealthInv
  OBVIOUS
<1>1. LoopRests
  BY DEF Init, LoopRests, Probers
<1>2. HealthConsistent
  BY DEF Init, HealthConsistent, Unprobed
<1>3. QED
  BY <1>1, <1>2, InitTyped DEF Init, HealthInv, OneRecords

\* Every step keeps one recorder per member, and the flag it will store in agreement with the
\* delay it has appended
LEMMA StepHealth == HealthInv /\ [Next]_vars => HealthInv'
<1> SUFFICES ASSUME HealthInv, [Next]_vars PROVE (LoopRests /\ OneRecords /\ HealthConsistent)'
  BY StepTyped DEF HealthInv
<1> USE DEF HealthInv, Typed, LoopRests, OneRecords, HealthConsistent, Recording, Probers, NoProbes
<1>1. ASSUME NEW kind \in {"user", "tunnel"}, Dial(kind) PROVE (LoopRests /\ OneRecords /\ HealthConsistent)'
  BY <1>1 DEF Dial
<1>2. ASSUME NEW dead \in SUBSET Members, DialEnds(dead) PROVE (LoopRests /\ OneRecords /\ HealthConsistent)'
  BY <1>2 DEF DialEnds
<1>3. ASSUME NEW p \in Probers, NEW m \in Members, Start(p, m) PROVE (LoopRests /\ OneRecords /\ HealthConsistent)'
  BY <1>3 DEF Start
<1>4. ASSUME NEW p \in Probers, NEW m \in Members, Acquire(p, m) PROVE (LoopRests /\ OneRecords /\ HealthConsistent)'
  BY <1>4 DEF Acquire
<1>5. ASSUME NEW p \in Probers, NEW m \in Members, NEW ok \in BOOLEAN, Push(p, m, ok)
      PROVE (LoopRests /\ OneRecords /\ HealthConsistent)'
  BY <1>5 DEF Push, MayPush
<1>6. ASSUME NEW p \in Probers, NEW m \in Members, Store(p, m) PROVE (LoopRests /\ OneRecords /\ HealthConsistent)'
  BY <1>6 DEF Store, Flag
<1>7. CASE Api
  BY <1>7 DEF Api
<1>8. CASE Tick
  BY <1>8 DEF Tick
<1>9. CASE Round
  BY <1>9 DEF Round
<1>10. ASSUME NEW with \in BOOLEAN, Reload(with) PROVE (LoopRests /\ OneRecords /\ HealthConsistent)'
  BY <1>10 DEF Reload, Unprobed
<1>11. CASE UNCHANGED vars
  BY <1>11 DEF vars
<1>12. QED
  BY <1>1, <1>2, <1>3, <1>4, <1>5, <1>6, <1>7, <1>8, <1>9, <1>10, <1>11 DEF Next, ProbeOf

\* record_delay: a member that looks alive, with no probe of it between its two writes,
\* was never probed or answered its newest probe, for any number of members and probes.
THEOREM HealthAgrees == Spec => []HealthConsistent
<1>1. HealthInv => HealthConsistent
  BY DEF HealthInv
<1>2. QED
  BY <1>1, InitHealth, StepHealth, PTL DEF Spec

---------------------------------------------------------------------------
(* The permits of the semaphore *)

Holders ==
  {pm \in Probers \X Members : probe[pm[1]][pm[2]] \in {"dialing", "answered", "failed"}}

WithinPermits == Cardinality(Holders) <= Permits

LEMMA HoldersFinite == IsFiniteSet(Probers \X Members)
<1>1. IsFiniteSet(Probers)
  <2>1. IsFiniteSet({"loop"})
    BY FS_Singleton
  <2>2. Probers = {"loop"} \cup {"api"}
    BY DEF Probers
  <2>3. QED
    BY <2>1, <2>2, FS_AddElement
<1>2. QED
  BY <1>1, FS_Product, HealthAssumption DEF HealthAssumption

\* A step after which nobody new holds a permit keeps the bound
LEMMA FewerHolders == WithinPermits /\ Holders' \subseteq Holders => WithinPermits'
<1> SUFFICES ASSUME WithinPermits, Holders' \subseteq Holders PROVE WithinPermits'
  OBVIOUS
<1>1. IsFiniteSet(Holders)
  BY HoldersFinite, FS_Subset DEF Holders
<1>2. Cardinality(Holders') <= Cardinality(Holders) /\ IsFiniteSet(Holders')
  BY <1>1, FS_Subset
<1>3. Cardinality(Holders') \in Nat /\ Cardinality(Holders) \in Nat
  BY <1>1, <1>2, FS_CardinalityType
<1>4. QED
  BY <1>2, <1>3, HealthAssumption DEF WithinPermits, HealthAssumption

\* Only Acquire adds a holder, and it needs a free permit
LEMMA StepPermits == Typed /\ WithinPermits /\ [Next]_vars => WithinPermits'
<1> SUFFICES ASSUME Typed, WithinPermits, [Next]_vars PROVE WithinPermits'
  OBVIOUS
<1>1. ASSUME NEW p \in Probers, NEW m \in Members, Acquire(p, m) PROVE WithinPermits'
  <2>1. Holders' = Holders \cup {<<p, m>>}
    BY <1>1 DEF Acquire, Holders, Typed
  <2>2. IsFiniteSet(Holders)
    BY HoldersFinite, FS_Subset DEF Holders
  <2>3. Cardinality(Holders) \in Nat
    BY <2>2, FS_CardinalityType
  <2>4. Cardinality(Holders) < Permits
    BY <1>1 DEF Acquire, FreePermit, Holders
  <2>5. Cardinality(Holders') \in {Cardinality(Holders), Cardinality(Holders) + 1}
    BY <2>1, <2>2, FS_AddElement, Zenon
  <2>6. QED
    BY <2>3, <2>4, <2>5, HealthAssumption DEF WithinPermits, HealthAssumption
<1>2. ASSUME NEW p \in Probers, NEW m \in Members, Start(p, m) PROVE Holders' \subseteq Holders
  BY <1>2 DEF Start, Holders, Typed
<1>3. ASSUME NEW p \in Probers, NEW m \in Members, NEW ok \in BOOLEAN, Push(p, m, ok)
      PROVE Holders' \subseteq Holders
  BY <1>3 DEF Push, Holders, Typed
<1>4. ASSUME NEW p \in Probers, NEW m \in Members, Store(p, m) PROVE Holders' \subseteq Holders
  BY <1>4 DEF Store, Holders, Typed
<1>5. CASE Api
  <2>1. Holders' \subseteq Holders
    BY <1>5 DEF Api, Holders, Typed, Probers
  <2>2. QED
    BY <2>1, FewerHolders
<1>6. CASE Tick
  <2>1. Holders' \subseteq Holders
    BY <1>6 DEF Tick, Holders, Typed, Probers
  <2>2. QED
    BY <2>1, FewerHolders
<1>7. CASE UNCHANGED probe
  <2>1. Holders' = Holders
    BY <1>7 DEF Holders
  <2>2. QED
    BY <2>1, FewerHolders
<1>8. QED
  BY <1>1, <1>2, <1>3, <1>4, <1>5, <1>6, <1>7, FewerHolders
  DEF Next, ProbeOf, Dial, DialEnds, Round, Reload, vars

\* Types, and probe_and_record never has more probes under way than
\* GLOBAL_DELAY_PROBE_CONCURRENCY, over the loop and the API together.
THEOREM ProbesBounded == Spec => []TypeOK
<1>1. Init => WithinPermits
  <2>1. Init => Holders = {}
    BY DEF Init, Holders, NoProbes
  <2>2. QED
    BY <2>1, FS_EmptySet, HealthAssumption DEF WithinPermits, HealthAssumption
<1>2. Typed /\ WithinPermits => TypeOK
  BY DEF Typed, WithinPermits, Holders, TypeOK
<1>3. QED
  BY <1>1, <1>2, InitTyped, StepTyped, StepPermits, PTL DEF Spec

---------------------------------------------------------------------------
(* Lazy groups *)

\* Unless the group was used since the last round began, the loop knows its generation
UseKnown ==
  \/ used \/ gen = 0
  \/ loop = "tick" /\ gen = lastProbed
  \/ loop = "probing" /\ gen = seen

LEMMA StepUse == Typed /\ UseKnown /\ [Next]_vars => UseKnown'
<1> SUFFICES ASSUME Typed, UseKnown, [Next]_vars PROVE UseKnown'
  OBVIOUS
<1> USE DEF Typed, UseKnown
<1>1. ASSUME NEW kind \in {"user", "tunnel"}, Dial(kind) PROVE UseKnown'
  BY <1>1, Zenon DEF Dial, Touch
<1>2. ASSUME NEW p \in Probers, NEW m \in Members, ProbeOf(p, m) PROVE UseKnown'
  BY <1>2 DEF ProbeOf, Start, Acquire, Push, Store
<1>3. CASE Tick
  BY <1>3 DEF Tick
<1>4. CASE Round
  BY <1>4 DEF Round, Probed
<1>5. ASSUME NEW with \in BOOLEAN, Reload(with) PROVE UseKnown'
  BY <1>5 DEF Reload
<1>6. CASE UNCHANGED <<used, gen, loop, lastProbed, seen>>
  BY <1>6
<1>7. QED
  BY <1>1, <1>2, <1>3, <1>4, <1>5, <1>6 DEF Next, DialEnds, Api, vars

\* run_health_check_loop, should_probe: a round of a lazy group begins only after user
\* traffic that no earlier round has accounted for, also across reloads.
THEOREM LazyGroupsSleep == Spec => LazySleeps
<1>1. Init => UseKnown
  BY DEF Init, UseKnown
<1>2. UseKnown /\ [Next]_vars => [loop = "tick" /\ loop' = "probing" => ~Lazy \/ used]_vars
  <2> SUFFICES ASSUME UseKnown, Next, loop = "tick", loop' = "probing" PROVE ~Lazy \/ used
    BY DEF vars
  <2>1. Tick
    BY DEF Next, Dial, DialEnds, ProbeOf, Start, Acquire, Push, Store, Api, Round, Reload
  <2>2. QED
    BY <2>1 DEF Tick, ShouldProbe, UseKnown
<1>3. QED
  BY <1>1, <1>2, InitTyped, StepTyped, StepUse, PTL DEF Spec, LazySleeps

---------------------------------------------------------------------------
(* Failure streaks of a group (DialFailures), for any dials, threshold and window *)

CONSTANTS Dials, Exempt, Threshold, Window, MaxNow, NoDial
VARIABLES now, dial, count, firstAt, dAlive, failures

D == INSTANCE DialFailures WITH alive <- dAlive

\* A member is given up only after a refusal or a full streak, and a dial that finished
\* is not counted a second time (DialFailures); a lazy group is probed only after traffic of
\* its users (GroupHealth).
StreaksJustified == D!StreaksJustified /\ LazySleeps

\* A dial that finished has no deadline left
Disarmed ==
  /\ dial \in [Dials -> [member : Members, deadline : 0..D!NotYet, done : BOOLEAN] \cup {NoDial}]
  /\ \A d \in Dials : dial[d] # NoDial /\ dial[d].done => dial[d].deadline = D!NotYet

\* The failures a streak counts happened since it began
Streak ==
  /\ now \in 0..MaxNow /\ count \in 0..(Threshold - 1) /\ firstAt \in Nat
  /\ failures \subseteq (0..MaxNow) \X (1..Threshold)
  /\ count > 0 => firstAt <= now /\ Cardinality(D!FailuresSince(firstAt)) >= count

LEMMA FinitelyMany ==
  ASSUME D!TrackerAssumption, NEW F, F \subseteq (0..MaxNow) \X (1..Threshold)
  PROVE  IsFiniteSet(F)
<1>1. IsFiniteSet(0..MaxNow) /\ IsFiniteSet(1..Threshold)
  BY FS_Interval DEF D!TrackerAssumption
<1>2. QED
  BY <1>1, FS_Product, FS_Subset, Zenon

\* A failure adds one to those since t, or there are Threshold of them
LEMMA OneMore ==
  ASSUME D!TrackerAssumption, Streak, NEW t \in Nat, t <= now,
         NEW F, F = failures \cup D!NewFailure
  PROVE  /\ F \subseteq (0..MaxNow) \X (1..Threshold)
         /\ \/ Cardinality({f \in F : f[1] >= t}) = Cardinality(D!FailuresSince(t)) + 1
            \/ Cardinality({f \in F : f[1] >= t}) >= Threshold
         /\ Cardinality(D!FailuresSince(t)) \in Nat /\ Cardinality({f \in F : f[1] >= t}) \in Nat
<1> DEFINE free == {n \in 1..Threshold : <<now, n>> \notin failures}
           S == D!FailuresSince(t)
           T == {f \in F : f[1] >= t}
<1>1. CASE free = {}
  <2>1. F = failures /\ T = S
    BY <1>1 DEF D!NewFailure, D!FailuresSince
  <2>2. IsFiniteSet(S)
    BY FinitelyMany DEF Streak, D!FailuresSince
  <2>3. DEFINE P == {<<now, n>> : n \in 1..Threshold}
  <2>4. P \subseteq S
    BY <1>1 DEF D!FailuresSince, Streak
  <2>5. Cardinality(P) = Threshold
    <3>1. DEFINE pair == [n \in 1..Threshold |-> <<now, n>>]
    <3>2. pair \in Bijection(1..Threshold, P)
      BY DEF Bijection, Injection, Surjection, IsInjective
    <3>3. ExistsBijection(1..Threshold, P)
      BY <3>2 DEF ExistsBijection
    <3>4. QED
      BY <3>3, FS_Interval, FS_Bijection DEF D!TrackerAssumption
  <2>6. QED
    BY <2>1, <2>2, <2>4, <2>5, FS_Subset, FS_CardinalityType DEF Streak
<1>2. CASE free # {}
  <2>1. PICK n \in 1..Threshold : D!NewFailure = {<<now, n>>} /\ <<now, n>> \notin failures
    BY <1>2, Zenon DEF D!NewFailure
  <2>2. F = failures \cup {<<now, n>>}
    BY <2>1
  <2>3. F \subseteq (0..MaxNow) \X (1..Threshold)
    BY <2>2 DEF Streak
  <2>4. T = S \cup {<<now, n>>} /\ <<now, n>> \notin S
    BY <2>1, <2>2 DEF D!FailuresSince, Streak
  <2>5. IsFiniteSet(S)
    BY FinitelyMany DEF Streak, D!FailuresSince
  <2>6. QED
    BY <2>3, <2>4, <2>5, FS_AddElement, FS_CardinalityType
<1>3. QED
  BY <1>1, <1>2
\* record_dial_failure: a streak counts no failure that did not happen, and a member leaves
\* the live ones for a refusal or for the last failure of a full streak
LEMMA RecordStreak ==
  ASSUME D!TrackerAssumption, Streak, NEW m \in Members, NEW kind, D!Record(m, kind), UNCHANGED now
  PROVE  /\ Streak'
         /\ \A x \in Members : x \in dAlive \ dAlive' =>
              /\ x = m /\ m \notin Exempt
              /\ \/ kind = "refused"
                 \/ kind = "error" /\ Cardinality(D!FailuresSince(now - Window)) >= Threshold - 1
<1>1. CASE UNCHANGED <<count, firstAt, dAlive, failures>>
  BY <1>1 DEF Streak, D!FailuresSince
<1>2. CASE D!Tracked(m) /\ kind = "refused" /\ dAlive' = dAlive \ {m} /\ UNCHANGED <<count, firstAt, failures>>
  BY <1>2 DEF Streak, D!FailuresSince, D!Tracked
<1>3. ASSUME D!Tracked(m), kind = "error", NEW dead \in BOOLEAN, D!Counted(dead),
             dAlive' = IF dead THEN dAlive \ {m} ELSE dAlive,
             failures' = IF dead THEN {} ELSE failures \cup D!NewFailure
      PROVE  /\ Streak'
             /\ \A x \in Members : x \in dAlive \ dAlive' =>
                  x = m /\ m \notin Exempt /\ Cardinality(D!FailuresSince(now - Window)) >= Threshold - 1
  <2> USE DEF D!TrackerAssumption
  <2>1. CASE count = 0 /\ count' = 1 /\ firstAt' = now /\ ~dead
    <3>1. PICK F : F = failures \cup D!NewFailure
      BY Zenon
    <3>2. failures' = F /\ dAlive' = dAlive
      BY <1>3, <2>1, <3>1
    <3>3. /\ F \subseteq (0..MaxNow) \X (1..Threshold)
          /\ Cardinality({f \in F : f[1] >= now}) >= 1
      BY <3>1, OneMore DEF Streak
    <3>4. QED
      BY <2>1, <3>2, <3>3 DEF Streak, D!FailuresSince
  <2>2. CASE count > 0 /\ D!Reset /\ ~dead
    <3>1. PICK F : F = failures \cup D!NewFailure
      BY Zenon
    <3>2. failures' = F /\ dAlive' = dAlive
      BY <1>3, <2>2, <3>1
    <3>3. /\ F \subseteq (0..MaxNow) \X (1..Threshold)
          /\ Cardinality({f \in F : f[1] >= now}) >= 1
      BY <3>1, OneMore DEF Streak
    <3>4. QED
      BY <2>2, <3>2, <3>3 DEF Streak, D!Reset, D!NotYet
  <2>3. CASE count > 0 /\ now - firstAt <= Window /\ count + 1 >= Threshold /\ D!Reset /\ dead
    <3>1. dAlive' = dAlive \ {m} /\ failures' = {}
      BY <1>3, <2>3
    <3>2. Streak'
      BY <2>3, <3>1 DEF Streak, D!Reset, D!NotYet
    <3>3. Cardinality(D!FailuresSince(firstAt)) >= Threshold - 1
      BY <2>3, FinitelyMany, FS_CardinalityType DEF Streak, D!FailuresSince
    <3>4. /\ D!FailuresSince(firstAt) \subseteq D!FailuresSince(now - Window)
          /\ D!FailuresSince(now - Window) \subseteq (0..MaxNow) \X (1..Threshold)
      BY <2>3 DEF Streak, D!FailuresSince
    <3>5. /\ IsFiniteSet(D!FailuresSince(now - Window))
          /\ Cardinality(D!FailuresSince(firstAt)) <= Cardinality(D!FailuresSince(now - Window))
      BY <3>4, FinitelyMany, FS_Subset
    <3>6. /\ Cardinality(D!FailuresSince(firstAt)) \in Nat
          /\ Cardinality(D!FailuresSince(now - Window)) \in Nat
      BY <3>4, <3>5, FS_Subset, FS_CardinalityType
    <3>7. Cardinality(D!FailuresSince(now - Window)) >= Threshold - 1
      BY <3>3, <3>5, <3>6
    <3>8. QED
      BY <1>3, <3>1, <3>2, <3>7 DEF D!Tracked
  <2>4. CASE count > 0 /\ count + 1 < Threshold /\ count' = count + 1 /\ UNCHANGED firstAt /\ ~dead
    <3>1. PICK F : F = failures \cup D!NewFailure
      BY Zenon
    <3>2. failures' = F /\ dAlive' = dAlive
      BY <1>3, <2>4, <3>1
    <3>3. /\ F \subseteq (0..MaxNow) \X (1..Threshold)
          /\ Cardinality({f \in F : f[1] >= firstAt}) >= count + 1
      BY <2>4, <3>1, OneMore DEF Streak
    <3>4. QED
      BY <2>4, <3>2, <3>3 DEF Streak, D!FailuresSince
  <2>5. QED
    BY <1>3, <2>1, <2>2, <2>3, <2>4 DEF D!Counted, Streak
<1>4. QED
  BY <1>1, <1>2, <1>3 DEF D!Record

\* DialAttempt::finish
LEMMA Disarms ==
  ASSUME D!TrackerAssumption, Disarmed, NEW d \in Dials, dial[d] # NoDial,
         dial' = [dial EXCEPT ![d] = D!Finished(d)]
  PROVE  Disarmed'
<1>1. dial[d] \in [member : Members, deadline : 0..D!NotYet, done : BOOLEAN]
  BY DEF Disarmed
<1>2. D!NotYet \in Nat
  BY DEF D!NotYet, D!TrackerAssumption
<1>3. PICK r : r = D!Finished(d)
  OBVIOUS
<1>4. r = [member |-> dial[d].member, deadline |-> D!NotYet, done |-> TRUE]
  BY <1>1, <1>3, Zenon DEF D!Finished
<1>5. r \in [member : Members, deadline : 0..D!NotYet, done : BOOLEAN] /\ r.deadline = D!NotYet
  BY <1>1, <1>2, <1>4
<1>6. dial' = [dial EXCEPT ![d] = r]
  BY <1>3
<1>7. QED
  BY <1>5, <1>6 DEF Disarmed

\* Every step keeps the streak and takes deadlines away from dials that finished
LEMMA StepStreak ==
  ASSUME D!TrackerAssumption, Streak, Disarmed, [D!Next]_(D!vars)
  PROVE  Streak' /\ Disarmed'
<1>1. ASSUME NEW d \in Dials, NEW m \in Members, NEW t \in 1..D!NotYet, D!Start(d, m, t)
      PROVE  Streak' /\ Disarmed'
  BY <1>1 DEF D!Start, Streak, Disarmed, D!FailuresSince
<1>2. ASSUME NEW d \in Dials, D!Succeed(d) PROVE Streak' /\ Disarmed'
  <2>1. Streak'
    BY <1>2 DEF D!Succeed, D!OnSuccess, D!Reset, Streak, D!NotYet, D!TrackerAssumption
  <2>2. Disarmed'
    BY <1>2, Disarms, Zenon DEF D!Succeed
  <2>3. QED
    BY <2>1, <2>2
<1>3. ASSUME NEW d \in Dials, NEW kind, D!Fail(d, kind) PROVE Streak' /\ Disarmed'
  <2>1. Streak'
    BY <1>3, RecordStreak DEF D!Fail, Disarmed
  <2>2. Disarmed'
    BY <1>3, Disarms, Zenon DEF D!Fail
  <2>3. QED
    BY <2>1, <2>2
<1>4. ASSUME NEW d \in Dials, D!Drop(d) PROVE Streak' /\ Disarmed'
  <2>1. CASE D!Record(dial[d].member, "error")
    BY <1>4, <2>1, RecordStreak DEF D!Drop, Disarmed
  <2>2. CASE UNCHANGED <<count, firstAt, dAlive, failures>>
    BY <1>4, <2>2 DEF D!Drop, Disarmed, Streak, D!FailuresSince
  <2>3. QED
    BY <1>4, <2>1, <2>2 DEF D!Drop
<1>5. ASSUME NEW m \in Members, D!Probe(m) PROVE Streak' /\ Disarmed'
  BY <1>5 DEF D!Probe, Streak, Disarmed, D!FailuresSince
<1>6. CASE D!Tick
  BY <1>6 DEF D!Tick, Streak, Disarmed, D!FailuresSince, D!TrackerAssumption
<1>7. CASE UNCHANGED D!vars
  BY <1>7 DEF D!vars, Streak, Disarmed, D!FailuresSince
<1>8. QED
  BY <1>1, <1>2, <1>3, <1>4, <1>5, <1>6, <1>7 DEF D!Next
\* The instance counts as FiniteSets does
LEMMA SameCount == \A S : D!Cardinality(S) = Cardinality(S)
BY DEF D!Cardinality, Cardinality

LEMMA InitStreak == ASSUME D!TrackerAssumption PROVE D!Init => Streak /\ Disarmed
BY DEF D!TrackerAssumption, D!Init, Streak, Disarmed, D!NotYet

\* on_failure, record_dial_failure and the destructor of DialAttempt: a member of a group is
\* given up only after a refusal, or after as many failures within the window as the threshold
\* says, whatever dials overlap; and a dial that has finished is not counted again when it is
\* dropped.  The loop of a lazy group starts no round without traffic (LazyGroupsSleep).
THEOREM StreaksAreJustified ==
  ASSUME D!TrackerAssumption PROVE Spec /\ D!Spec => StreaksJustified
<1> DEFINE Justified ==
      \A m \in Members : m \in dAlive \ dAlive' =>
        /\ m \notin Exempt
        /\ \/ \E d \in Dials : dial[d] # NoDial /\ dial[d].member = m /\ D!Fail(d, "refused")
           \/ D!Cardinality(D!FailuresSince(now - Window)) >= Threshold - 1
    Once ==
      \A d \in Dials : dial[d] # NoDial /\ dial'[d] = NoDial /\ dial[d].done
        => UNCHANGED <<count, firstAt, dAlive>>
<1>1. Streak /\ Disarmed /\ [D!Next]_(D!vars) => Justified
  <2> SUFFICES ASSUME Streak, Disarmed, [D!Next]_(D!vars), NEW m \in Members, m \in dAlive \ dAlive'
               PROVE  /\ m \notin Exempt
                      /\ \/ \E d \in Dials : dial[d] # NoDial /\ dial[d].member = m /\ D!Fail(d, "refused")
                         \/ Cardinality(D!FailuresSince(now - Window)) >= Threshold - 1
    BY SameCount
  <2>1. ASSUME NEW d \in Dials, NEW kind \in {"unsupported", "refused", "error"}, D!Fail(d, kind)
        PROVE  /\ m \notin Exempt
               /\ \/ dial[d] # NoDial /\ dial[d].member = m /\ D!Fail(d, "refused")
                  \/ Cardinality(D!FailuresSince(now - Window)) >= Threshold - 1
    <3>1. /\ dial[d] # NoDial /\ dial[d].member \in Members
          /\ D!Record(dial[d].member, kind) /\ UNCHANGED now
      BY <2>1 DEF D!Fail, Disarmed
    <3>2. QED
      BY <2>1, <3>1, RecordStreak
  <2>2. ASSUME NEW d \in Dials, D!Drop(d)
        PROVE  m \notin Exempt /\ Cardinality(D!FailuresSince(now - Window)) >= Threshold - 1
    <3>1. /\ dial[d].member \in Members /\ D!Record(dial[d].member, "error") /\ UNCHANGED now
      BY <2>2 DEF D!Drop, Disarmed
    <3>2. QED
      BY <3>1, RecordStreak
  <2>3. QED
    BY <2>1, <2>2 DEF D!Next, D!vars, D!Start, D!Succeed, D!Probe, D!Tick
<1>2. Disarmed /\ Streak /\ [D!Next]_(D!vars) => Once
  <2> SUFFICES ASSUME Disarmed, Streak, [D!Next]_(D!vars), NEW d \in Dials,
                      dial[d] # NoDial, dial'[d] = NoDial, dial[d].done
               PROVE  UNCHANGED <<count, firstAt, dAlive>>
    OBVIOUS
  <2>1. ASSUME NEW e \in Dials, e # d PROVE ~ (dial' = [dial EXCEPT ![e] = dial'[e]])
    BY <2>1 DEF Disarmed
  <2>2. D!Drop(d)
    BY <2>1 DEF D!Next, D!vars, D!Start, D!Succeed, D!Fail, D!Drop, D!Probe, D!Tick, Disarmed
  <2>3. ~ (now >= dial[d].deadline)
    BY DEF Disarmed, Streak, D!NotYet, D!TrackerAssumption
  <2>4. QED
    BY <2>2, <2>3 DEF D!Drop
<1>3. D!Spec => [](Streak /\ Disarmed)
  BY InitStreak, StepStreak, PTL DEF D!Spec
<1>4. D!Spec => D!EscalationJustified
  BY <1>1, <1>3, PTL DEF D!Spec, D!EscalationJustified
<1>5. D!Spec => D!CompletedCountedOnce
  BY <1>2, <1>3, PTL DEF D!Spec, D!CompletedCountedOnce
<1>6. QED
  BY <1>4, <1>5, LazyGroupsSleep DEF StreaksJustified, D!StreaksJustified
=============================================================================
