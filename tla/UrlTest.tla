------------------------------- MODULE UrlTest -------------------------------
(***************************************************************************)
(* The choice of a url-test group (meow-proxy: group/urltest.rs).  A dial  *)
(* reads the pin and the incumbent, visits the members one by one and may  *)
(* write the incumbent back.  Dials overlap, probes and failed dials       *)
(* change the health meanwhile, the API moves the pin and a provider       *)
(* refresh replaces members.                                               *)
(***************************************************************************)
EXTENDS Naturals, Sequences, FiniteSets, SequencesExt

CONSTANTS Dials,
          Members,         \* the sequence of static members, then of provider members
          Provided,        \* members that come from a provider slot
          Tolerance,
          MaxDelay,        \* u16::MAX; no probe takes that long
          MaxChanges,      \* bound on changes of health, pin and provider
          None

UrlTestAssumption ==
  /\ IsInjective(Members) /\ Len(Members) > 0 /\ Provided \subseteq ToSet(Members)
  /\ Tolerance \in Nat /\ MaxDelay \in Nat \ {0} /\ MaxChanges \in Nat

VARIABLES alive, delay,    \* health of each member; delay 0: not measured, or failed
  halfway,                 \* members whose newest delay is in the history, the flag not yet stored
  listed,                  \* members the group has at the moment
  fastest, fixed, changes, dial

vars == <<alive, delay, halfway, listed, fastest, fixed, changes, dial>>

All == ToSet(Members)
Names == All \cup {None}

Idle == [at |-> "idle", pin |-> None, cur |-> None, pos |-> 0, first |-> None,
         best |-> None, bestDelay |-> MaxDelay, curOn |-> FALSE, curDelay |-> MaxDelay,
         got |-> None, calm |-> TRUE, pinned |-> FALSE, saw |-> {}]

\* Types; a scan has a best member exactly when it has a best delay.
TypeOK ==
  /\ alive \subseteq All /\ delay \in [All -> 0..MaxDelay] /\ halfway \subseteq All /\ listed \subseteq All
  /\ fastest \in Names /\ fixed \in Names /\ changes \in 0..MaxChanges
  /\ \A d \in Dials :
       /\ dial[d].at \in {"idle", "pin", "incumbent", "visit", "done"}
       /\ {dial[d].pin, dial[d].cur, dial[d].first, dial[d].best, dial[d].got} \subseteq Names
       /\ {dial[d].bestDelay, dial[d].curDelay} \subseteq 0..MaxDelay /\ dial[d].pos \in 0..Len(Members)
       /\ (dial[d].best = None) <=> (dial[d].bestDelay = MaxDelay)

Init ==
  /\ alive = All /\ delay = [m \in All |-> 0] /\ halfway = {} /\ listed = All
  /\ fastest = None /\ fixed = None /\ changes = 0 /\ dial = [d \in Dials |-> Idle]

Step(d, r) == dial' = [dial EXCEPT ![d] = r] /\ UNCHANGED <<alive, delay, halfway, listed, fixed, changes>>

\* fixed_proxy_if_alive reads the pin.  Histories: pinned, whether the pin stays and lives
\* meanwhile; calm, whether the health stays as it is for this dial and all it overlaps
Start(d) ==
  /\ dial[d].at = "idle"
  /\ Step(d, [Idle EXCEPT !.at = "pin", !.pin = fixed, !.pinned = (fixed \in listed \cap alive),
                          !.calm = (halfway = {} /\ \A e \in Dials : dial[e].calm)])
  /\ UNCHANGED fastest

\* fixed_proxy_if_alive looks the pin up
TakesPin(m) == m \in listed \cap alive

Pin(d) ==
  /\ dial[d].at = "pin"
  /\ Step(d, IF TakesPin(dial[d].pin) THEN [dial[d] EXCEPT !.at = "done", !.got = dial[d].pin]
             ELSE [dial[d] EXCEPT !.at = "incumbent"])
  /\ UNCHANGED fastest

Incumbent(d) ==
  /\ dial[d].at = "incumbent"
  /\ Step(d, [dial[d] EXCEPT !.at = "visit", !.cur = fastest])
  /\ UNCHANGED fastest

\* A member visited becomes the best so far
Better(r, m) == m \in alive /\ delay[m] > 0 /\ delay[m] < r.bestDelay

BestDelay(r, m) == IF Better(r, m) THEN delay[m] ELSE r.bestDelay

\* visit!
Visit(d) ==
  /\ dial[d].at = "visit" /\ dial[d].pos < Len(Members)
  /\ LET r == dial[d]  m == Members[r.pos + 1]  on == m = r.cur /\ m \in alive IN
     Step(d, IF m \notin listed THEN [r EXCEPT !.pos = @ + 1]
             ELSE [r EXCEPT !.pos = @ + 1,
                     !.first = IF @ = None THEN m ELSE @,
                     !.curOn = @ \/ on, !.curDelay = IF on THEN delay[m] ELSE @,
                     !.best = IF Better(r, m) THEN m ELSE @,
                     !.bestDelay = BestDelay(r, m),
                     !.saw = IF m \in alive THEN @ \cup {m} ELSE @])
  /\ UNCHANGED fastest

\* Faulty variant of Switches: the tolerance is forgotten
SwitchesAlways(r) == r.bestDelay < r.curDelay \/ ~r.curOn

\* saturating_add; a dead or absent incumbent loses to any measured member
Switches(r) ==
  \/ (IF r.bestDelay + Tolerance > MaxDelay THEN MaxDelay ELSE r.bestDelay + Tolerance) < r.curDelay
  \/ ~r.curOn

\* The end of pick_for_dial
Decide(d) ==
  /\ dial[d].at = "visit" /\ dial[d].pos = Len(Members)
  /\ LET r == dial[d]  end(m) == [r EXCEPT !.at = "done", !.got = m] IN
     \/ /\ r.best # None /\ Switches(r)
        /\ Step(d, end(r.best)) /\ fastest' = r.best
     \/ /\ r.best = None /\ ~r.curOn
        /\ Step(d, end(r.first)) /\ fastest' = r.first
     \/ /\ IF r.best = None THEN r.curOn ELSE ~Switches(r)
        /\ Step(d, end(IF r.curOn THEN r.cur ELSE IF r.best # None THEN r.best ELSE r.first))
        /\ UNCHANGED fastest

Leave(d) == dial[d].at = "done" /\ Step(d, Idle) /\ UNCHANGED fastest

\* What a change outside does to the histories of the dials under way
Disturb(keepsPin) ==
  dial' = [d \in Dials |-> IF dial[d].at \in {"idle", "done"} THEN dial[d]
             ELSE [dial[d] EXCEPT !.calm = FALSE, !.pinned = @ /\ keepsPin]]

\* record_delay appends a delay
Push(m, t) ==
  /\ changes < MaxChanges /\ changes' = changes + 1 /\ m \notin halfway
  /\ delay' = [delay EXCEPT ![m] = t] /\ halfway' = halfway \cup {m}
  /\ Disturb(TRUE)
  /\ UNCHANGED <<alive, listed, fastest, fixed>>

\* ... and stores the flag
Store(m) ==
  /\ m \in halfway /\ halfway' = halfway \ {m}
  /\ alive' = IF delay[m] > 0 THEN alive \cup {m} ELSE alive \ {m}
  /\ Disturb(m # fixed \/ m \in alive')
  /\ UNCHANGED <<delay, listed, fastest, fixed, changes>>

\* record_dial_failure gives a member up
Dies(m) ==
  /\ changes < MaxChanges /\ changes' = changes + 1
  /\ m \in alive /\ alive' = alive \ {m}
  /\ Disturb(m # fixed)
  /\ UNCHANGED <<delay, halfway, listed, fastest, fixed>>

\* force_set, through set or to clear the pin
ForceSet(m) ==
  /\ changes < MaxChanges /\ changes' = changes + 1
  /\ m \in listed \cup {None} /\ m # fixed /\ fixed' = m
  /\ Disturb(FALSE)
  /\ UNCHANGED <<alive, delay, halfway, listed, fastest>>

\* A provider refresh drops its member, or lists a new one of the same name
Refresh(m) ==
  /\ changes < MaxChanges /\ changes' = changes + 1 /\ m \notin halfway
  /\ listed' = IF m \in listed THEN listed \ {m} ELSE listed \cup {m}
  /\ alive' = alive \cup {m} /\ delay' = [delay EXCEPT ![m] = 0]
  /\ Disturb(m # fixed)
  /\ UNCHANGED <<halfway, fastest, fixed>>

Next ==
  \/ \E d \in Dials :
       Start(d) \/ Pin(d) \/ Incumbent(d) \/ Visit(d) \/ Decide(d) \/ Leave(d)
  \/ \E m \in All :
       \/ \E t \in 0..(MaxDelay - 1) : Push(m, t)
       \/ Store(m)
       \/ Dies(m)
  \/ \E m \in Names : ForceSet(m)
  \/ \E m \in Provided : Refresh(m)

Spec == Init /\ [][Next]_vars

---------------------------------------------------------------------------
\* A dial gets a member it did not see alive only when it saw no member that is alive
\* and measured, however the health moves while it looks (pick_for_dial).
PickMeasured ==
  \A d \in Dials : dial[d].at = "done" /\ dial[d].best # None => dial[d].got \in dial[d].saw

\* While the health is calm, overlapping dials do not make the group flap: the incumbent
\* changes only from one that is dead, gone or slower by more than the tolerance, also
\* when another dial has written it since this dial read it.
NoFlap ==
  [][fastest' # fastest /\ fastest \in listed \cap alive /\ (\A d \in Dials : dial[d].calm)
       => delay[fastest'] > 0 /\ delay[fastest'] + Tolerance < delay[fastest]]_vars

\* A pin that is alive and stays through a dial is what the dial uses.
PinHonoured ==
  [][\A d \in Dials : dial[d].at # "done" /\ dial'[d].at = "done" /\ dial[d].pinned
       => dial'[d].got = fixed]_vars
=============================================================================
