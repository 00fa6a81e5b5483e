----------------------------- MODULE LoadBalance -----------------------------
(***************************************************************************)
(* The choice of a load-balance group (meow-proxy: group/load_balance.rs). *)
(* A selection counts the eligible members, takes a number and walks to    *)
(* the member at that position.  The health of the members may change      *)
(* between the two walks and during each of them.                          *)
(***************************************************************************)
EXTENDS Naturals, Sequences, FiniteSets, SequencesExt

CONSTANTS Dials,
          Members,           \* the sequence of the group's proxies
          Udp,               \* the members that support UDP
          Nets,              \* the networks dialled: "tcp", "udp"
          Sources, Hash,     \* client addresses, and fnv1a of their bytes
          Strategy,          \* "round-robin" or "consistent-hashing"
          MaxFlaps,          \* bound on changes of health
          MaxCounter,        \* bound on the selections that take a number
          None

BalanceAssumption ==
  /\ Udp \subseteq ToSet(Members) /\ IsInjective(Members)
  /\ Hash \in [Sources -> Nat] /\ Strategy \in {"round-robin", "consistent-hashing"}
  /\ MaxFlaps \in Nat /\ MaxCounter \in Nat

VARIABLES alive, counter, flaps,
  dial,     \* [dial -> its selection]
  taken,    \* history: numbers each member drew in TCP selections
  stuck     \* history: [source -> members chosen for it in TCP selections since the last flap]

vars == <<alive, counter, flaps, dial, taken, stuck>>

Idle == [at |-> "idle", net |-> "tcp", src |-> None, pos |-> 0, n |-> 0,
         want |-> None, got |-> None, calm |-> TRUE]

Eligible(net) == {m \in alive : net = "udp" => m \in Udp}
Ranked(net) == SelectSeq(Members, LAMBDA m : m \in Eligible(net))

\* Types: a walk stays within the members, with a position below the count it was given.
TypeOK ==
  /\ alive \in SUBSET ToSet(Members) /\ counter \in 0..MaxCounter /\ flaps \in 0..MaxFlaps
  /\ \A d \in Dials :
       /\ dial[d].at \in {"idle", "count", "walk", "done"}
       /\ dial[d].pos \in 0..Len(Members) /\ dial[d].n \in 0..Len(Members)
       /\ dial[d].at = "walk" => dial[d].n < Len(Members)
       /\ dial[d].got \in ToSet(Members) \cup {None}

Init ==
  /\ alive \in SUBSET ToSet(Members) /\ counter = 0 /\ flaps = 0
  /\ dial = [d \in Dials |-> Idle]
  /\ taken = [m \in ToSet(Members) |-> 0] /\ stuck = [s \in Sources |-> {}]

\* select or select_udp begins; calm records that the health does not change meanwhile
Start(d, net, s) ==
  /\ dial[d].at = "idle"
  /\ dial' = [dial EXCEPT ![d] = [Idle EXCEPT !.at = "count", !.net = net, !.src = s]]
  /\ UNCHANGED <<alive, counter, flaps, taken, stuck>>

\* The first walk visits a member
Count(d) ==
  /\ dial[d].at = "count" /\ dial[d].pos < Len(Members)
  /\ dial' = [dial EXCEPT ![d].pos = @ + 1,
                ![d].n = IF Members[dial[d].pos + 1] \in Eligible(dial[d].net) THEN @ + 1 ELSE @]
  /\ UNCHANGED <<alive, counter, flaps, taken, stuck>>

\* Nothing was eligible
GiveUp(d) ==
  /\ dial[d].at = "count" /\ dial[d].pos = Len(Members) /\ dial[d].n = 0
  /\ dial' = [dial EXCEPT ![d].at = "done", ![d].got = None]
  /\ UNCHANGED <<alive, counter, flaps, taken, stuck>>

Position(d, number) == number % dial[d].n

\* fetch_add, or the hash of the source address
Number(d) == IF Strategy = "round-robin" THEN counter ELSE Hash[dial[d].src]

Index(d) ==
  /\ dial[d].at = "count" /\ dial[d].pos = Len(Members) /\ dial[d].n > 0
  /\ counter < MaxCounter
  /\ counter' = IF Strategy = "round-robin" THEN counter + 1 ELSE counter
  /\ LET k == Position(d, Number(d))
         now == Ranked(dial[d].net)
         want == IF k < Len(now) THEN now[k + 1] ELSE None
     IN /\ dial' = [dial EXCEPT ![d].at = "walk", ![d].pos = 0, ![d].n = k, ![d].want = want]
        /\ taken' = IF want # None /\ dial[d].net = "tcp" /\ Strategy = "round-robin"
                    THEN [taken EXCEPT ![want] = @ + 1] ELSE taken
  /\ UNCHANGED <<alive, flaps, stuck>>

\* Faulty variant of Skips: the second walk does not look at the health
SkipsNone(d, m) == dial[d].n > 0

\* The second walk passes a member by
Skips(d, m) == m \notin Eligible(dial[d].net) \/ dial[d].n > 0

\* The second walk, nth: visits a member, and ends at the one it was sent to
Walk(d) ==
  /\ dial[d].at = "walk" /\ dial[d].pos < Len(Members)
  /\ LET m == Members[dial[d].pos + 1] IN
     IF Skips(d, m)
     THEN /\ dial' = [dial EXCEPT ![d].pos = @ + 1,
                        ![d].n = IF m \in Eligible(dial[d].net) THEN @ - 1 ELSE @]
          /\ UNCHANGED stuck
     ELSE /\ dial' = [dial EXCEPT ![d].at = "done", ![d].got = m]
          /\ stuck' = IF dial[d].calm /\ dial[d].net = "tcp"
                      THEN [stuck EXCEPT ![dial[d].src] = @ \cup {m}] ELSE stuck
  /\ UNCHANGED <<alive, counter, flaps, taken>>

\* The second walk runs out of members
RunOut(d) ==
  /\ dial[d].at = "walk" /\ dial[d].pos = Len(Members)
  /\ dial' = [dial EXCEPT ![d].at = "done", ![d].got = None]
  /\ UNCHANGED <<alive, counter, flaps, taken, stuck>>

\* The dial goes on with what it got
Leave(d) ==
  /\ dial[d].at = "done" /\ dial' = [dial EXCEPT ![d] = Idle]
  /\ UNCHANGED <<alive, counter, flaps, taken, stuck>>

\* A probe or a failed dial elsewhere changes a member's health
Flap(m) ==
  /\ flaps < MaxFlaps /\ flaps' = flaps + 1
  /\ alive' = IF m \in alive THEN alive \ {m} ELSE alive \cup {m}
  /\ dial' = [d \in Dials |-> IF dial[d].at = "idle" THEN Idle
                ELSE [dial[d] EXCEPT !.calm = FALSE]]
  /\ stuck' = [s \in Sources |-> {}]
  /\ UNCHANGED <<counter, taken>>

Next ==
  \/ \E d \in Dials :
       \/ \E net \in Nets, s \in Sources : Start(d, net, s)
       \/ Count(d)
       \/ GiveUp(d)
       \/ Index(d)
       \/ Walk(d)
       \/ RunOut(d)
       \/ Leave(d)
  \/ \E m \in ToSet(Members) : Flap(m)

Spec == Init /\ [][Next]_vars

---------------------------------------------------------------------------
\* When the health did not change during a selection, the second walk ends at the member
\* the number pointed to, and the group reports that it has no proxy only if no member
\* is eligible, however many selections run at once (select, select_udp).
CalmChoice ==
  \A d \in Dials : dial[d].at = "done" /\ dial[d].calm =>
    IF Eligible(dial[d].net) = {} THEN dial[d].got = None
    ELSE dial[d].got # None /\ dial[d].got = dial[d].want /\ dial[d].got \in Eligible(dial[d].net)

\* "Round-robin distributes across alive proxies in strict rotation order": while the
\* health is stable no member is more than one number ahead of another, also when
\* selections overlap (the counter is one atomic).
Balanced ==
  flaps = 0 /\ Strategy = "round-robin" =>
    \A a, b \in alive : taken[a] <= taken[b] + 1

\* "Consistent-hashing returns the same proxy for the same src IP, regardless of call
\* order" while the health is stable.
Sticky ==
  Strategy = "consistent-hashing" => \A s \in Sources : Cardinality(stuck[s]) <= 1
=============================================================================
