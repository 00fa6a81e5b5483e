------------------------------ MODULE Fallback ------------------------------
(***************************************************************************)
(* The choice and the pin of a fallback group (meow-proxy:                 *)
(* group/fallback.rs).  Every caller of first_alive reads the pin, looks   *)
(* the member up, clears the pin when it is dead or gone and otherwise     *)
(* scans the members in order; set pins a member, stores the pin and       *)
(* probes a member that is dead.                                           *)
(***************************************************************************)
EXTENDS Naturals, Sequences, FiniteSets, SequencesExt

CONSTANTS Dials, Setters,
          Members,         \* the sequence of static members, then of provider members
          Provided,        \* members that come from a provider slot
          MaxChanges,      \* bound on changes of health, pin and provider
          None

FallbackAssumption ==
  IsInjective(Members) /\ Len(Members) > 0 /\ Provided \subseteq ToSet(Members) /\ MaxChanges \in Nat

VARIABLES alive, listed, fixed,
  stored,        \* the pin in the SelectorStore
  setter,        \* [setter -> the member it is pinning, or None]
  changes, dial,
  chosen         \* history: the pin that was last set

vars == <<alive, listed, fixed, stored, setter, changes, dial, chosen>>

All == ToSet(Members)
Names == All \cup {None}
Idle == [at |-> "idle", pin |-> None, pos |-> 0, first |-> None, got |-> None,
         calm |-> TRUE, pinned |-> FALSE]

\* Types: a dial that looks up or clears a pin has one, and a scan stays within the members.
TypeOK ==
  /\ alive \subseteq All /\ listed \subseteq All /\ {fixed, stored, chosen} \subseteq Names
  /\ setter \in [Setters -> [at : {"idle", "store", "check", "probe"}, m : Names]]
  /\ changes \in 0..MaxChanges
  /\ \A d \in Dials :
       /\ dial[d].at \in {"idle", "lookup", "clear", "scan", "done"}
       /\ {dial[d].pin, dial[d].first, dial[d].got} \subseteq Names /\ dial[d].pos \in 0..Len(Members)
       /\ dial[d].at \in {"lookup", "clear"} => dial[d].pin # None

Init ==
  /\ alive = All /\ listed = All /\ changes = 0
  /\ fixed \in Names /\ stored = fixed /\ chosen = fixed
  /\ setter = [s \in Setters |-> [at |-> "idle", m |-> None]]
  /\ dial = [d \in Dials |-> Idle]

---------------------------------------------------------------------------
(* first_alive *)

Step(d, r) == dial' = [dial EXCEPT ![d] = r] /\ UNCHANGED <<alive, listed, stored, setter, changes, chosen>>

\* The pin is read; pinned and calm record whether it, and the rest, stay meanwhile
Start(d) ==
  /\ dial[d].at = "idle"
  /\ Step(d, [Idle EXCEPT !.at = IF fixed = None THEN "scan" ELSE "lookup",
                          !.pin = fixed, !.pinned = (fixed \in listed \cap alive)])
  /\ UNCHANGED fixed

\* find_member and alive_for_url
Usable(m) == m \in listed \cap alive

Lookup(d) ==
  /\ dial[d].at = "lookup"
  /\ Step(d, IF Usable(dial[d].pin) THEN [dial[d] EXCEPT !.at = "done", !.got = dial[d].pin]
             ELSE [dial[d] EXCEPT !.at = "clear"])
  /\ UNCHANGED fixed

\* The pin is cleared, whatever it is by now; the store keeps it
Clear(d) ==
  /\ dial[d].at = "clear" /\ fixed' = None
  /\ Step(d, [dial[d] EXCEPT !.at = "scan"])

\* The scan visits a member
Scan(d) ==
  /\ dial[d].at = "scan" /\ dial[d].pos < Len(Members)
  /\ LET m == Members[dial[d].pos + 1]  r == [dial[d] EXCEPT !.pos = @ + 1] IN
     Step(d, IF m \notin listed THEN r
             ELSE IF m \in alive THEN [r EXCEPT !.at = "done", !.got = m]
             ELSE [r EXCEPT !.first = IF @ = None THEN m ELSE @])
  /\ UNCHANGED fixed

ScanEnds(d) ==
  /\ dial[d].at = "scan" /\ dial[d].pos = Len(Members)
  /\ Step(d, [dial[d] EXCEPT !.at = "done", !.got = dial[d].first])
  /\ UNCHANGED fixed

Leave(d) == dial[d].at = "done" /\ Step(d, Idle) /\ UNCHANGED fixed

---------------------------------------------------------------------------
(* set, force_set, and what happens to the members *)

\* What a change outside, and members lost by it, do to the histories of the dials under way
Disturb(lost) ==
  dial' = [d \in Dials |-> IF dial[d].at \in {"idle", "done"} THEN dial[d]
             ELSE [dial[d] EXCEPT !.calm = FALSE, !.pinned = @ /\ dial[d].pin \notin lost]]

\* force_set writes the pin, for set or to clear it
Pin(s, m) ==
  /\ changes < MaxChanges /\ changes' = changes + 1
  /\ setter[s].at = "idle" /\ m \in listed \cup {None}
  /\ fixed' = m /\ chosen' = m /\ setter' = [setter EXCEPT ![s] = [at |-> "store", m |-> m]]
  /\ Disturb({})
  /\ UNCHANGED <<alive, listed, stored>>

\* ... and then the store
Persist(s) ==
  /\ setter[s].at = "store" /\ stored' = setter[s].m
  /\ setter' = [setter EXCEPT ![s] = IF @.m = None THEN [at |-> "idle", m |-> None] ELSE [@ EXCEPT !.at = "check"]]
  /\ UNCHANGED <<alive, listed, fixed, changes, dial, chosen>>

\* set goes on to probe the member if it is dead
Check(s) ==
  /\ setter[s].at = "check"
  /\ setter' = [setter EXCEPT ![s] = IF @.m \in alive THEN [at |-> "idle", m |-> None] ELSE [@ EXCEPT !.at = "probe"]]
  /\ UNCHANGED <<alive, listed, fixed, stored, changes, dial, chosen>>

\* probe_and_record of that member
Probe(s, ok) ==
  /\ setter[s].at = "probe"
  /\ alive' = IF ok THEN alive \cup {setter[s].m} ELSE alive \ {setter[s].m}
  /\ setter' = [setter EXCEPT ![s] = [at |-> "idle", m |-> None]]
  /\ Disturb(IF ok THEN {} ELSE {setter[s].m})
  /\ UNCHANGED <<listed, fixed, stored, changes, chosen>>

\* A probe of the loop, or a failed dial
Flap(m) ==
  /\ changes < MaxChanges /\ changes' = changes + 1
  /\ alive' = IF m \in alive THEN alive \ {m} ELSE alive \cup {m}
  /\ Disturb({m})
  /\ UNCHANGED <<listed, fixed, stored, setter, chosen>>

\* A provider refresh drops its member, or lists a new one of the same name
Refresh(m) ==
  /\ changes < MaxChanges /\ changes' = changes + 1
  /\ listed' = IF m \in listed THEN listed \ {m} ELSE listed \cup {m}
  /\ alive' = alive \cup {m}
  /\ Disturb({m})
  /\ UNCHANGED <<fixed, stored, setter, chosen>>

\* The process stops and comes back: with_runtime_options reads the stored pin
Restart ==
  /\ changes < MaxChanges /\ changes' = changes + 1
  /\ fixed' = stored /\ chosen' = stored /\ alive' = All /\ listed' = All
  /\ setter' = [s \in Setters |-> [at |-> "idle", m |-> None]]
  /\ dial' = [d \in Dials |-> Idle]
  /\ UNCHANGED stored

Next ==
  \/ \E d \in Dials :
       Start(d) \/ Lookup(d) \/ Clear(d) \/ Scan(d) \/ ScanEnds(d) \/ Leave(d)
  \/ \E s \in Setters :
       \/ \E m \in Names : Pin(s, m)
       \/ Persist(s)
       \/ Check(s)
       \/ \E ok \in BOOLEAN : Probe(s, ok)
  \/ \E m \in All : Flap(m)
  \/ \E m \in Provided : Refresh(m)
  \/ Restart

Spec == Init /\ [][Next]_vars

---------------------------------------------------------------------------
Present == SelectSeq(Members, LAMBDA m : m \in listed)
Living == SelectSeq(Members, LAMBDA m : m \in listed \cap alive)

\* When nothing changes during a dial, it gets the live pin, and otherwise the first
\* member that is alive, or the first of any kind, or nothing in an empty group, also
\* while other dials clear the pin beneath it (first_alive).
CalmChoice ==
  [][\A d \in Dials : dial[d].at # "done" /\ dial'[d].at = "done" /\ dial[d].calm =>
       \/ dial'[d].got = dial[d].pin /\ dial[d].pin \in listed \cap alive
       \/ /\ dial[d].pin \notin listed \cap alive
          /\ IF Living # <<>> THEN dial'[d].got = Living[1]
             ELSE IF Present # <<>> THEN dial'[d].got = Present[1] ELSE dial'[d].got = None]_vars

\* A pin that is alive and stays alive through a dial is what the dial uses, also when
\* the API or another dial moves the pin meanwhile (first_alive).
PinHonoured ==
  [][\A d \in Dials : dial[d].at # "done" /\ dial'[d].at = "done" /\ dial[d].pinned
       => dial'[d].got = dial[d].pin]_vars

\* "clears a stale fallback pin in memory when it is observed dead, but leaves the
\* persistent cache untouched" (first_alive): with no set under way the store holds the
\* pin last set, and the group is pinned to that or to nothing, across restarts too.
StoreKeepsPin ==
  (\A s \in Setters : setter[s].at # "store") => stored = chosen /\ fixed \in {stored, None}
=============================================================================
