----------------------------- MODULE GroupHealth -----------------------------
(***************************************************************************)
(* The health of the members of an automatic group: ProxyHealth            *)
(* (meow-common: adapter.rs), the probes that record into it (meow-proxy:  *)
(* health.rs), the usage generation (group/mod.rs), and the loop that      *)
(* probes a lazy group only after it was used (meow-app: health_check.rs). *)
(* The loop outlives a reload; groups and members do not.                  *)
(***************************************************************************)
EXTENDS Naturals, FiniteSets

CONSTANTS Members,
          Works,         \* members whose upstream answers every probe
          GroupType,     \* the type of the group in the configuration
          Lazy,
          Concurrency,   \* PROVIDER_HEALTHCHECK_CONCURRENCY
          Permits,       \* GLOBAL_DELAY_PROBE_CONCURRENCY
          MaxGen,        \* bound on the uses of one group object
          MaxReloads,    \* bound on reloads
          MaxApi         \* bound on delay tests asked for through the API

ASSUME HealthAssumption ==
  /\ IsFiniteSet(Members) /\ Works \subseteq Members /\ Lazy \in BOOLEAN
  /\ {Concurrency, Permits} \subseteq Nat \ {0} /\ {MaxGen, MaxReloads, MaxApi} \subseteq Nat

Probers == {"loop", "api"}

\* extract_specs: the group types that get a loop; the others record no use either
HasLoop == GroupType \in {"fallback", "url-test"}

Unprobed == 2

VARIABLES
  alive, last,    \* ProxyHealth: who has the flag, and the newest delay (0 failed, 1 answered)
  probe,          \* [prober -> [member -> where its probe stands]]
  current,        \* probers whose members are those of the installed configuration
  gen,            \* UsageTracker
  dialing,        \* "no", or the kind of a dial in flight: "user" or "tunnel"
  loop, seen, lastProbed,
  present,        \* the group and its members are in the route snapshot
  reloads, apis,
  used            \* history: user traffic since the last round of probes began

vars == <<alive, last, probe, current, gen, dialing, loop, seen, lastProbed, present, reloads, apis, used>>

Stages == {"none", "queued", "waiting", "dialing", "answered", "failed"}

\* Types; the probes under way never exceed the permits of the semaphore.
TypeOK ==
  /\ alive \subseteq Members /\ last \in [Members -> 0..Unprobed]
  /\ probe \in [Probers -> [Members -> Stages]] /\ current \subseteq Probers
  /\ gen \in 0..MaxGen /\ dialing \in {"no", "user", "tunnel"}
  /\ loop \in {"tick", "probing"} /\ seen \in 0..MaxGen /\ lastProbed \in 0..MaxGen
  /\ present \in BOOLEAN /\ reloads \in 0..MaxReloads /\ apis \in 0..MaxApi /\ used \in BOOLEAN
  /\ Cardinality({pm \in Probers \X Members :
                    probe[pm[1]][pm[2]] \in {"dialing", "answered", "failed"}}) <= Permits

NoProbes == [m \in Members |-> "none"]

Init ==
  /\ alive = Members /\ last = [m \in Members |-> Unprobed]
  /\ probe = [p \in Probers |-> NoProbes] /\ current = {}
  /\ gen = 0 /\ dialing = "no"
  /\ loop = "tick" /\ seen = 0 /\ lastProbed = 0
  /\ present = TRUE /\ reloads = 0 /\ apis = 0 /\ used = FALSE

---------------------------------------------------------------------------
(* Traffic *)

\* touch_user_traffic
Touch(kind) ==
  \/ kind = "tunnel" /\ UNCHANGED gen
  \/ kind = "user" /\ gen < MaxGen /\ gen' = gen + 1

\* dial_tcp or dial_udp of the group: the use is recorded, then the member is dialled
Dial(kind) ==
  /\ HasLoop /\ present /\ dialing = "no"
  /\ dialing' = kind /\ Touch(kind)
  /\ used' = (used \/ kind = "user")
  /\ UNCHANGED <<alive, last, probe, current, loop, seen, lastProbed, present, reloads, apis>>

\* The dial ends; record_dial_failure may mark the member it used dead
DialEnds(dead) ==
  /\ dialing # "no" /\ dialing' = "no"
  /\ Cardinality(dead) <= 1
  /\ alive' = alive \ dead
  /\ UNCHANGED <<last, probe, current, gen, loop, seen, lastProbed, present, reloads, apis, used>>

---------------------------------------------------------------------------
(* Probes *)

Active(p) == {m \in Members : probe[p][m] \in {"waiting", "dialing", "answered", "failed"}}
Recording(m) == \E p \in current : probe[p][m] \in {"answered", "failed"}

\* probe_many_bounded starts the next probe
Start(p, m) ==
  /\ probe[p][m] = "queued" /\ Cardinality(Active(p)) < Concurrency
  /\ probe' = [probe EXCEPT ![p][m] = "waiting"]
  /\ UNCHANGED <<alive, last, current, gen, dialing, loop, seen, lastProbed, present, reloads, apis, used>>

\* A permit of global_delay_probe_limiter is free
FreePermit(p) ==
  Cardinality({pm \in Probers \X Members :
                 probe[pm[1]][pm[2]] \in {"dialing", "answered", "failed"}}) < Permits

\* probe_and_record takes one of the global permits
Acquire(p, m) ==
  /\ probe[p][m] = "waiting" /\ FreePermit(p)
  /\ probe' = [probe EXCEPT ![p][m] = "dialing"]
  /\ UNCHANGED <<alive, last, current, gen, dialing, loop, seen, lastProbed, present, reloads, apis, used>>

\* Faulty variant of MayPush: the history is not locked until the flag is stored
MayPushAny(m) == TRUE

\* record_delay holds the history's lock until it has stored the flag
MayPush(m) == ~Recording(m)

\* The probe ends and record_delay appends its delay; the member may belong to a
\* configuration that is no longer installed
Push(p, m, ok) ==
  /\ probe[p][m] = "dialing" /\ (m \in Works => ok)
  /\ p \in current => MayPush(m)
  /\ probe' = [probe EXCEPT ![p][m] = IF ok THEN "answered" ELSE "failed"]
  /\ last' = IF p \in current THEN [last EXCEPT ![m] = IF ok THEN 1 ELSE 0] ELSE last
  /\ UNCHANGED <<alive, current, gen, dialing, loop, seen, lastProbed, present, reloads, apis, used>>

Flag(p, m) == probe[p][m] = "answered"

\* record_delay stores the flag; the permit and the lock are released
Store(p, m) ==
  /\ probe[p][m] \in {"answered", "failed"}
  /\ alive' = IF p \notin current THEN alive ELSE IF Flag(p, m) THEN alive \cup {m} ELSE alive \ {m}
  /\ probe' = [probe EXCEPT ![p][m] = "none"]
  /\ UNCHANGED <<last, current, gen, dialing, loop, seen, lastProbed, present, reloads, apis, used>>

\* A delay test of the whole group through the API
Api ==
  /\ apis < MaxApi /\ present /\ probe["api"] = NoProbes
  /\ apis' = apis + 1
  /\ probe' = [probe EXCEPT !["api"] = [m \in Members |-> "queued"]]
  /\ current' = current \cup {"api"}
  /\ UNCHANGED <<alive, last, gen, dialing, loop, seen, lastProbed, present, reloads, used>>

---------------------------------------------------------------------------
(* The loop *)

ShouldProbe == ~Lazy \/ (gen # 0 /\ gen # lastProbed)

\* The members a round probes
Probeable == Members

\* A tick that begins a round: the generation is read before the probes
Tick ==
  /\ HasLoop /\ loop = "tick" /\ present /\ ShouldProbe
  /\ loop' = "probing" /\ seen' = gen
  /\ probe' = [probe EXCEPT !["loop"] = [m \in Members |-> IF m \in Probeable THEN "queued" ELSE "none"]]
  /\ current' = current \cup {"loop"}
  /\ used' = FALSE
  /\ UNCHANGED <<alive, last, gen, dialing, lastProbed, present, reloads, apis>>


\* The generation a round accounts for
Probed == seen

\* The round is over and consumes the generation; a tick whose members do not resolve
\* takes neither step
Round ==
  /\ loop = "probing" /\ probe["loop"] = NoProbes
  /\ loop' = "tick" /\ seen' = 0
  /\ lastProbed' = Probed
  /\ current' = current \ {"loop"}
  /\ UNCHANGED <<alive, last, probe, gen, dialing, present, reloads, apis, used>>

\* A configuration is installed: new group, new members, with or without this group
Reload(with) ==
  /\ reloads < MaxReloads /\ reloads' = reloads + 1
  /\ alive' = Members /\ last' = [m \in Members |-> Unprobed]
  /\ gen' = 0 /\ dialing' = "no"
  /\ current' = {} /\ present' = with /\ used' = FALSE
  /\ UNCHANGED <<probe, loop, seen, lastProbed, apis>>

ProbeOf(p, m) ==
  \/ Start(p, m) \/ Acquire(p, m)
  \/ \E ok \in BOOLEAN : Push(p, m, ok)
  \/ Store(p, m)

Next ==
  \/ \E kind \in {"user", "tunnel"} : Dial(kind)
  \/ \E dead \in SUBSET Members : DialEnds(dead)
  \/ \E p \in Probers, m \in Members : ProbeOf(p, m)
  \/ Api
  \/ Tick
  \/ Round
  \/ \E with \in BOOLEAN : Reload(with)

Spec == Init /\ [][Next]_vars

\* The timer ticks, probes end by their timeout, and the semaphore is first come,
\* first served
FairSpec ==
  /\ Spec /\ WF_vars(Tick) /\ WF_vars(Round)
  /\ \A p \in Probers, m \in Members : SF_vars(ProbeOf(p, m))

---------------------------------------------------------------------------
\* The flag and the history agree whenever no probe is between its two writes: a member
\* that looks alive either was never probed or answered its newest probe, although two
\* probes of one member may overlap (record_delay).
HealthConsistent ==
  \A m \in alive : ~Recording(m) => last[m] # 0

\* Every use of a group is followed by a round of probes that begins after it, also a
\* use that arrives while a round is running (run_health_check_loop).
UseIsProbed == used ~> ~used

\* "the next scheduled group probe -- guaranteed to run for a lazy group, because a dial
\* bumps the usage generation -- revives members that failed only transiently"
\* (DialFailureTracker).  It holds of a group that is not lazy.
TransientRevived == \A m \in Works : m \notin alive ~> m \in alive

\* The periodic sweep reaches every member of the group (run_health_check_loop).
Swept == \A m \in Members : <>(last[m] # Unprobed)

\* A lazy group without traffic is left alone: a round begins only after user traffic
\* that no earlier round has accounted for, whatever probes a parent group sends
\* through it (touch_user_traffic, should_probe).
LazySleeps == [][loop = "tick" /\ loop' = "probing" => ~Lazy \/ used]_vars
=============================================================================
