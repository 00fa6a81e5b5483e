------------------------------- MODULE MCGroups -------------------------------
(* Proxy groups: the health checks, the failure streaks, the three policies and  *)
(* the selector store.  They share no variable here, so an invariant of one does *)
(* not depend on what the others do, and only the one `part` names takes steps.  *)
EXTENDS GroupHealthProofs, Sequences, TLC

CONSTANTS None, Torn, d1, d2

VARIABLES part,
  uAlive, delay, halfway, uListed, fastest, uFixed, uChanges, uDial,
  fAlive, fListed, fFixed, stored, setter, fChanges, fDial, chosen,
  bAlive, counter, flaps, bDial, taken, stuck,
  selected, map, path, tmp, content, task, lost

\* A static and a provider member, two dials at a time
U == INSTANCE UrlTest WITH
       Dials <- {d1, d2}, Members <- <<"a", "b">>, Provided <- {"b"}, Tolerance <- 1,
       MaxDelay <- 4, MaxChanges <- 2, alive <- uAlive, listed <- uListed,
       fixed <- uFixed, changes <- uChanges, dial <- uDial
\* The same, and one request that pins a member
F == INSTANCE Fallback WITH
       Dials <- {d1, d2}, Setters <- {"s1"}, Members <- <<"a", "b">>, Provided <- {"b"},
       MaxChanges <- 3, alive <- fAlive, listed <- fListed, fixed <- fFixed,
       changes <- fChanges, dial <- fDial
\* Three members, two of which support UDP, two selections at a time
RoundRobin == INSTANCE LoadBalance WITH
       Dials <- {d1, d2}, Members <- <<"a", "b", "c">>, Udp <- {"a", "c"},
       Nets <- {"tcp", "udp"}, Sources <- {"s1"}, Hash <- [s \in {"s1"} |-> 4],
       Strategy <- "round-robin", MaxFlaps <- 1, MaxCounter <- 3,
       alive <- bAlive, dial <- bDial
\* The same with TCP only and stable health, for a longer rotation
Rotation == INSTANCE LoadBalance WITH
       Dials <- {d1, d2}, Members <- <<"a", "b", "c">>, Udp <- {"a", "c"},
       Nets <- {"tcp"}, Sources <- {"s1"}, Hash <- [s \in {"s1"} |-> 4],
       Strategy <- "round-robin", MaxFlaps <- 0, MaxCounter <- 7,
       alive <- bAlive, dial <- bDial
\* The same, hashing two client addresses that fall on different members
Hashing == INSTANCE LoadBalance WITH
       Dials <- {d1, d2}, Members <- <<"a", "b", "c">>, Udp <- {"a", "c"},
       Nets <- {"tcp"}, Sources <- {"s1", "s2"},
       Hash <- [s \in {"s1", "s2"} |-> IF s = "s1" THEN 4 ELSE 5],
       Strategy <- "consistent-hashing", MaxFlaps <- 1, MaxCounter <- 1,
       alive <- bAlive, dial <- bDial
\* Two groups of two members, one request at a time, file operations that fail
S == INSTANCE SelectorStore WITH
       Tasks <- {"t1"}, Groups <- {"g1", "g2"}, Names <- {"a", "b"},
       Inodes <- {"i1", "i2", "i3"}, MayFail <- TRUE

ASSUME GroupAssumptions ==
  /\ D!TrackerAssumption /\ U!UrlTestAssumption /\ F!FallbackAssumption /\ S!StoreAssumption
  /\ RoundRobin!BalanceAssumption /\ Rotation!BalanceAssumption /\ Hashing!BalanceAssumption

streakVars == <<now, dial, count, firstAt, dAlive, failures>>
urlTestVars == <<uAlive, delay, halfway, uListed, fastest, uFixed, uChanges, uDial>>
fallbackVars == <<fAlive, fListed, fFixed, stored, setter, fChanges, fDial, chosen>>
balanceVars == <<bAlive, counter, flaps, bDial, taken, stuck>>
storeVars == <<selected, map, path, tmp, content, task, lost>>
MCvars == <<part, vars, streakVars, urlTestVars, fallbackVars, balanceVars, storeVars>>

Balancing == {"round-robin", "rotation", "hashing"}

MCInit ==
  /\ part \in {"health", "streak", "url-test", "fallback", "store"} \cup Balancing
  /\ Init /\ D!Init /\ U!Init /\ F!Init /\ S!Init
  /\ IF part = "hashing" THEN Hashing!Init ELSE RoundRobin!Init
  /\ part # "fallback" => fFixed = None
  /\ part \notin Balancing => bAlive = {}

Keep(others) == UNCHANGED <<part, others>>

MCNext ==
  \/ /\ part = "health" /\ Next
     /\ Keep(<<streakVars, urlTestVars, fallbackVars, balanceVars, storeVars>>)
  \/ /\ part = "streak" /\ D!Next
     /\ Keep(<<vars, urlTestVars, fallbackVars, balanceVars, storeVars>>)
  \/ /\ part = "url-test" /\ U!Next
     /\ Keep(<<vars, streakVars, fallbackVars, balanceVars, storeVars>>)
  \/ /\ part = "fallback" /\ F!Next
     /\ Keep(<<vars, streakVars, urlTestVars, balanceVars, storeVars>>)
  \/ /\ part = "round-robin" /\ RoundRobin!Next
     /\ Keep(<<vars, streakVars, urlTestVars, fallbackVars, storeVars>>)
  \/ /\ part = "rotation" /\ Rotation!Next
     /\ Keep(<<vars, streakVars, urlTestVars, fallbackVars, storeVars>>)
  \/ /\ part = "hashing" /\ Hashing!Next
     /\ Keep(<<vars, streakVars, urlTestVars, fallbackVars, storeVars>>)
  \/ /\ part = "store" /\ S!Next
     /\ Keep(<<vars, streakVars, urlTestVars, fallbackVars, balanceVars>>)

MCSpec == MCInit /\ [][MCNext]_MCvars

Symmetry == Permutations({d1, d2})

---------------------------------------------------------------------------
\* A dial through a url-test or fallback group during which nothing changes gets the live
\* pin, and otherwise the member the policy names: the incumbent unless another is faster
\* by more than the tolerance, or the first that is alive.  The store keeps the last pin
\* (UrlTest, Fallback).
PolicyPicks ==
  /\ U!PinHonoured /\ F!PinHonoured /\ U!NoFlap /\ F!CalmChoice
  /\ [](part = "url-test" => U!TypeOK /\ U!PickMeasured)
  /\ [](part = "fallback" => F!TypeOK /\ F!StoreKeepsPin)

=============================================================================
