---------------------------- MODULE DnsPipeline ----------------------------
(***************************************************************************)
(* One upstream lookup (meow-dns: resolver.rs, client.rs): the tiers       *)
(* policy, main and fallback in turn, each racing its clients with a grace *)
(* period that starts at the first negative; every client asks for one     *)
(* address family, or joins an A and an AAAA query under one timeout.      *)
(***************************************************************************)
EXTENDS Naturals, FiniteSets

CONSTANTS Clients,    \* [tier -> the clients of that tier], each in one tier
          NoSet       \* the Option<FamilySet> None

Tiers == {"policy", "main", "fallback"}
Families == {"v4", "v6"}
Pool == UNION {Clients[t] : t \in Tiers}

PipelineAssumption ==
  /\ DOMAIN Clients = Tiers
  /\ \A t, u \in Tiers : t # u => Clients[t] \cap Clients[u] = {}
  /\ NoSet \notin Pool

\* FamilyAnswer; "gated" is an answer with an address the fallback filter
\* rejects, and "none" a family without an answer.
Positive == {"pos", "gated"}
Negative == {"nodata", "nx"}
Answers == Positive \cup Negative \cup {"failed", "none"}

VARIABLES
  want,        \* the families asked for
  gatedName,   \* FallbackFilter::domain_gated(host)
  tier,        \* the tier being queried, or "done"
  got,         \* [client -> [family -> its reply, or "wait"]]
  done,        \* clients whose result the race has taken
  timedOut,    \* clients ended by their query timeout
  kept,        \* negative of query_pool_set: a FamilySet, or NoSet
  armed,       \* negative_deadline is set
  negative,    \* negative of pipeline_inner: a FamilySet, or NoSet
  result,      \* what the lookup returned
  sets         \* history: the sets query_pool_set returned so far

vars == <<want, gatedName, tier, got, done, timedOut, kept, armed, negative, result, sets>>

FamilySet == [Families -> Answers]

HasPositive(s) == s # NoSet /\ \E f \in Families : s[f] \in Positive
IpGated(s) == \E f \in Families : s[f] = "gated"
IsDefinitiveNegative(s) ==
  s # NoSet /\ ~HasPositive(s) /\ \A f \in want : s[f] \in Negative

\* Types; the grace timer is armed exactly while a negative answer is kept.
TypeOK ==
  /\ want \in SUBSET Families \ {{}} /\ gatedName \in BOOLEAN
  /\ tier \in Tiers \cup {"done"}
  /\ got \in [Pool -> [Families -> Answers \cup {"wait"}]]
  /\ done \subseteq Pool /\ timedOut \subseteq Pool
  /\ {kept, negative, result} \subseteq FamilySet \cup {NoSet}
  /\ sets \subseteq FamilySet
  /\ armed \in BOOLEAN /\ (armed <=> kept # NoSet)

\* A client of which every wanted family has been asked
Asked == [f \in Families |-> IF f \in want THEN "wait" ELSE "none"]

\* A domain-gated name skips the primary tiers
Init ==
  /\ want \in SUBSET Families \ {{}}
  /\ gatedName \in BOOLEAN
  /\ tier = IF gatedName THEN "fallback" ELSE "policy"
  /\ got = [c \in Pool |-> Asked]
  /\ done = {} /\ timedOut = {} /\ sets = {}
  /\ kept = NoSet /\ armed = FALSE /\ negative = NoSet /\ result = NoSet

---------------------------------------------------------------------------
(* DnsClient                                                               *)

Running(c) == tier # "done" /\ c \in Clients[tier] \ done

Finished(c) == c \in timedOut \/ \A f \in want : got[c][f] # "wait"

\* A reply, a failing rcode ("failed") or an I/O error ("none") for one family
Reply(c, f) ==
  /\ Running(c) /\ ~Finished(c) /\ got[c][f] = "wait"
  /\ \E a \in Answers : got' = [got EXCEPT ![c][f] = a]
  /\ UNCHANGED <<want, gatedName, tier, done, timedOut, kept, armed, negative, result, sets>>

\* DEFAULT_QUERY_TIMEOUT: it covers the join of both queries
ClientTimeout(c) ==
  /\ Running(c) /\ ~Finished(c)
  /\ timedOut' = timedOut \cup {c}
  /\ UNCHANGED <<want, gatedName, tier, got, done, kept, armed, negative, result, sets>>

\* lookup_set: NoSet stands for Err
LookupSet(c) ==
  IF Cardinality(want) = 1
  THEN [f \in Families |->
          IF f \in want /\ (c \in timedOut \/ got[c][f] = "none") THEN "failed" ELSE got[c][f]]
  ELSE IF c \in timedOut \/ \A f \in Families : got[c][f] = "none" THEN NoSet
  ELSE IF got[c]["v4"] = "nx" THEN [f \in Families |-> "nx"]
  ELSE got[c]

---------------------------------------------------------------------------
(* pipeline_inner: what it does with the set a tier returned               *)

NextTier(t) == IF t = "policy" THEN "main" ELSE "fallback"

Return(s) == tier' = "done" /\ result' = s /\ negative' = NoSet

\* Faulty variant of AfterTier: only the last tier's negative is returned
AfterTierForgets(s) ==
  IF HasPositive(s) /\ (tier = "fallback" \/ ~IpGated(s)) THEN Return(s)
  ELSE IF HasPositive(s) THEN tier' = "fallback" /\ negative' = NoSet /\ UNCHANGED result
  ELSE IF tier = "fallback" THEN Return(s)
       ELSE tier' = NextTier(tier) /\ UNCHANGED <<negative, result>>

\* A positive answer ends the lookup unless its address is gated, in which case
\* the fallback decides alone; the first tier's negative is kept otherwise.
AfterTier(s) ==
  IF HasPositive(s) /\ (tier = "fallback" \/ ~IpGated(s)) THEN Return(s)
  ELSE IF HasPositive(s) THEN tier' = "fallback" /\ negative' = NoSet /\ UNCHANGED result
  ELSE LET n == IF negative = NoSet THEN s ELSE negative IN
       IF tier = "fallback" THEN Return(n)
       ELSE tier' = NextTier(tier) /\ negative' = n /\ UNCHANGED result

\* The clients of a tier that has ended are dropped with what they received
Dropped ==
  LET gone == IF tier' = "done" THEN {} ELSE Clients[tier] IN
  /\ got' = [c \in Pool |-> IF c \in gone THEN Asked ELSE got[c]]
  /\ timedOut' = timedOut \ gone

\* query_pool_set returns s
PoolReturns(s) ==
  /\ sets' = sets \cup ({s} \ {NoSet})
  /\ kept' = NoSet /\ armed' = FALSE
  /\ AfterTier(s)
  /\ Dropped
  /\ UNCHANGED <<want, gatedName>>

---------------------------------------------------------------------------
(* query_pool_set                                                          *)

\* The first negative arms the timer; a definitive one replaces a partial one
Keep(s) ==
  /\ kept' = IF kept = NoSet \/ (IsDefinitiveNegative(s) /\ ~IsDefinitiveNegative(kept))
             THEN s ELSE kept
  /\ armed' = TRUE

\* The race takes the result of a finished client; the last one ends the race
TakeResult(c) ==
  /\ Running(c) /\ Finished(c)
  /\ done' = done \cup {c}
  /\ LET s == LookupSet(c) IN
       \/ HasPositive(s) /\ PoolReturns(s)
       \/ /\ ~HasPositive(s)
          /\ IF s = NoSet THEN UNCHANGED <<kept, armed>> ELSE Keep(s)
          /\ UNCHANGED <<want, gatedName, tier, got, timedOut, negative, result, sets>>

\* pending.next() is None (at once for a tier without clients)
PoolExhausted ==
  /\ tier # "done" /\ Clients[tier] \subseteq done
  /\ PoolReturns(kept) /\ UNCHANGED done

\* NEGATIVE_GRACE_PERIOD has passed
GraceElapsed ==
  /\ tier # "done" /\ armed
  /\ PoolReturns(kept) /\ UNCHANGED done

Race == \E c \in Pool : TakeResult(c)

Next ==
  \/ \E c \in Pool, f \in Families : Reply(c, f)
  \/ \E c \in Pool : ClientTimeout(c)
  \/ Race \/ PoolExhausted \/ GraceElapsed

Spec == Init /\ [][Next]_vars

\* The task is polled and the grace timer fires, but no client need ever answer
\* or time out.
RaceSpec == Spec /\ WF_vars(Race) /\ WF_vars(PoolExhausted) /\ WF_vars(GraceElapsed)

---------------------------------------------------------------------------
\* The fallback filter holds: an address it rejects is only ever returned when
\* the fallback servers themselves answered it (pipeline_inner).
GatedOnlyFromFallback ==
  tier = "done" /\ HasPositive(result) /\ IpGated(result) =>
     \E c \in Clients["fallback"] \cap done : LookupSet(c) = result

\* A lookup that returns nothing got nothing: no tier handed pipeline_inner any
\* set, unless the filter discarded a positive one.
NothingMeansNothing ==
  tier = "done" /\ result = NoSet => \A s \in sets : HasPositive(s) /\ IpGated(s)

\* A definitive negative that a race has taken is never given up for a partial
\* failure of the same tier (query_pool_set).
DefinitiveIsKept ==
  kept # NoSet /\ (\E c \in Clients[tier] \cap done : IsDefinitiveNegative(LookupSet(c)))
     => IsDefinitiveNegative(kept)

\* Once any negative is in, its tier ends although the other clients hang for
\* ever (NEGATIVE_GRACE_PERIOD).
NegativeSettles == \A t \in Tiers : tier = t /\ kept # NoSet ~> tier # t
=============================================================================
