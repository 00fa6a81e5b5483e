---------------------------- MODULE DialFailures ----------------------------
(***************************************************************************)
(* How an automatic group turns failed dials into a dead member            *)
(* (meow-proxy: group/mod.rs).  Dials run concurrently and end in success, *)
(* in an error, or by being dropped before or after their deadline; the    *)
(* tracker keeps one streak for the group under its mutex.                 *)
(***************************************************************************)
EXTENDS Integers, FiniteSets

CONSTANTS Dials, Members,
          Exempt,            \* members of the Direct and Reject types
          Threshold, Window, \* DIAL_FAILURE_THRESHOLD, DIAL_FAILURE_WINDOW
          MaxNow,            \* bound on the clock
          NoDial

TrackerAssumption ==
  Exempt \subseteq Members /\ Threshold \in Nat \ {0, 1} /\ Window \in Nat /\ MaxNow \in Nat

NotYet == MaxNow + 1

VARIABLES now,
  dial,       \* [dial -> the DialAttempt: its member, its deadline, whether it finished], or NoDial
  count, firstAt, alive,   \* the streak, and the members that are alive
  failures    \* history: <<time, number>> of the failures since the last success or escalation

vars == <<now, dial, count, firstAt, alive, failures>>

\* Types; the streak stays below the threshold and starts exactly when it is not empty.
TypeOK ==
  /\ now \in 0..MaxNow
  /\ dial \in [Dials -> [member : Members, deadline : 0..NotYet, done : BOOLEAN] \cup {NoDial}]
  /\ count \in 0..(Threshold - 1) /\ firstAt \in 0..NotYet
  /\ (count = 0) <=> (firstAt = NotYet)
  /\ alive \subseteq Members
  /\ failures \subseteq (0..MaxNow) \X (1..Threshold)

Init ==
  /\ now = 0 /\ dial = [d \in Dials |-> NoDial]
  /\ count = 0 /\ firstAt = NotYet
  /\ alive = Members
  /\ failures = {}

\* DialAttempt::new; a dial without an outer deadline has NotYet
Start(d, m, t) ==
  /\ dial[d] = NoDial /\ t > now
  /\ dial' = [dial EXCEPT ![d] = [member |-> m, deadline |-> t, done |-> FALSE]]
  /\ UNCHANGED <<now, count, firstAt, alive, failures>>

Reset == count' = 0 /\ firstAt' = NotYet

OnSuccess == Reset /\ failures' = {}

\* Faulty variant of Counted: the window is never checked
CountedForever(dead) ==
  LET n == count + 1 IN
  \/ n = 1 /\ count' = n /\ firstAt' = now /\ ~dead
  \/ n > 1 /\ n >= Threshold /\ Reset /\ dead
  \/ n > 1 /\ n < Threshold /\ count' = n /\ UNCHANGED firstAt /\ ~dead

\* The part of on_failure under the mutex; dead says whether the failure escalates
Counted(dead) ==
  LET n == count + 1 IN
  \/ n = 1 /\ count' = n /\ firstAt' = now /\ ~dead
  \/ n > 1 /\ now - firstAt > Window /\ Reset /\ ~dead
  \/ n > 1 /\ now - firstAt <= Window /\ n >= Threshold /\ Reset /\ dead
  \/ n > 1 /\ now - firstAt <= Window /\ n < Threshold /\ count' = n /\ UNCHANGED firstAt /\ ~dead

\* record_dial_failure: whose errors describe the member and not the target
Tracked(m) == m \notin Exempt

\* One more failure now, unless Threshold of them are known already
NewFailure ==
  LET free == {n \in 1..Threshold : <<now, n>> \notin failures} IN
  IF free = {} THEN {} ELSE {<<now, CHOOSE n \in free : TRUE>>}

\* record_dial_failure with on_failure
Record(m, kind) ==
  \/ ~Tracked(m) /\ UNCHANGED <<count, firstAt, alive, failures>>
  \/ Tracked(m) /\ kind = "unsupported" /\ UNCHANGED <<count, firstAt, alive, failures>>
  \/ /\ Tracked(m) /\ kind = "refused"
     /\ alive' = alive \ {m} /\ UNCHANGED <<count, firstAt, failures>>
  \/ /\ Tracked(m) /\ kind = "error"
     /\ \E dead \in BOOLEAN :
          /\ Counted(dead)
          /\ alive' = IF dead THEN alive \ {m} ELSE alive
          /\ failures' = IF dead THEN {} ELSE failures \cup NewFailure

\* finish takes the deadline away from the destructor
Finished(d) == [dial[d] EXCEPT !.done = TRUE, !.deadline = NotYet]

\* finish with a connection
Succeed(d) ==
  /\ dial[d] # NoDial /\ ~dial[d].done
  /\ dial' = [dial EXCEPT ![d] = Finished(d)]
  /\ OnSuccess
  /\ UNCHANGED <<now, alive>>

\* finish with an error
Fail(d, kind) ==
  /\ dial[d] # NoDial /\ ~dial[d].done
  /\ dial' = [dial EXCEPT ![d] = Finished(d)]
  /\ Record(dial[d].member, kind)
  /\ UNCHANGED now

\* The attempt's destructor, after finish or when the dial is cancelled: a failure
\* only once an armed deadline has passed
Drop(d) ==
  /\ dial[d] # NoDial
  /\ dial' = [dial EXCEPT ![d] = NoDial]
  /\ IF now >= dial[d].deadline THEN Record(dial[d].member, "error")
     ELSE UNCHANGED <<count, firstAt, alive, failures>>
  /\ UNCHANGED now

\* A successful probe revives a member (record_delay)
Probe(m) ==
  /\ m \notin alive /\ alive' = alive \cup {m}
  /\ UNCHANGED <<now, dial, count, firstAt, failures>>

Tick ==
  /\ now < MaxNow /\ now' = now + 1
  /\ UNCHANGED <<dial, count, firstAt, alive, failures>>

Next ==
  \/ \E d \in Dials :
       \/ \E m \in Members, t \in 1..NotYet : Start(d, m, t)
       \/ Succeed(d)
       \/ Drop(d)
       \/ \E kind \in {"unsupported", "refused", "error"} : Fail(d, kind)
  \/ \E m \in Members : Probe(m)
  \/ Tick

Spec == Init /\ [][Next]_vars

---------------------------------------------------------------------------
FailuresSince(t) == {f \in failures : f[1] >= t}

\* A member dies only for a reason: its own dial was refused, or the group counted
\* Threshold failures within the window since its last success, the one that
\* escalates included.  A Direct or Reject member never dies, for a failed dial says
\* nothing about it (on_failure, record_dial_failure).
EscalationJustified ==
  [][\A m \in Members : m \in alive \ alive' =>
       /\ m \notin Exempt
       /\ \/ \E d \in Dials : dial[d] # NoDial /\ dial[d].member = m /\ Fail(d, "refused")
          \/ Cardinality(FailuresSince(now - Window)) >= Threshold - 1]_vars

\* A dial that finished is over: the destructor that follows it, even when the
\* deadline passes in between, does not count it a second time (DialAttempt).
CompletedCountedOnce ==
  [][\A d \in Dials : dial[d] # NoDial /\ dial'[d] = NoDial /\ dial[d].done
       => UNCHANGED <<count, firstAt, alive>>]_vars

\* What DialFailureTracker and DialAttempt promise of a group's members
StreaksJustified == EscalationJustified /\ CompletedCountedOnce
=============================================================================
