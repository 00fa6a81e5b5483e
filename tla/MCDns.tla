------------------------------- MODULE MCDns -------------------------------
(* The parts of the resolver: a shard of the cache (DnsCache, extended), the  *)
(* race of the upstreams (DnsPipeline), the flights that callers share        *)
(* (DnsFlight), and the server with the connections of its clients            *)
(* (DnsServer).  They share no variable here: the hits of DnsFlight abstract  *)
(* the cache, and the set a flight gets abstracts the pipeline.  So only the  *)
(* one `part` names takes steps.                                              *)
EXTENDS DnsCache, TLC

CONSTANTS a, b, m1, m2, f1, c1, c2, c3, NoSet, None, Open

VARIABLES part,
  want, gatedName, tier, got, done, timedOut, kept, armed, negative, result, sets,
  hit, flight, pc, cwant, lead, box, cresult, evicted,
  serving, queue, rr, worker, left, replies, idle, snow, call, line, opened, sgot

\* One address of each family, shared by the domains
AddressFamily == (a :> "v4") @@ (b :> "v6")

\* Two main servers that race, and one fallback server
P == INSTANCE DnsPipeline WITH
       Clients <- [policy |-> {}, main |-> {m1, m2}, fallback |-> {f1}]

\* Two queries that share a flight, and a dialer that overlaps it
F == INSTANCE DnsFlight WITH
       Callers <- {c1, c2, c3}, Kind <- (c1 :> "A") @@ (c2 :> "A") @@ (c3 :> "ips"),
       want <- cwant, result <- cresult
\* Two dialers that share a flight
G == INSTANCE DnsFlight WITH
       Callers <- {c1, c2}, Kind <- (c1 :> "ips") @@ (c2 :> "ips"),
       want <- cwant, result <- cresult

\* Two workers and four datagrams, three calls over at most four connections
S == INSTANCE DnsServer WITH
       AliasHops <- 4, WorkerIds <- {0, 1}, Depth <- 1, Asked <- 1 .. 4,
       PoolCap <- 1, IdleTime <- 2, Queries <- 1 .. 3, MaxConns <- 4, MaxNow <- 3,
       now <- snow, got <- sgot

ASSUME ResolverAssumptions == P!PipelineAssumption /\ F!FlightAssumption /\ G!FlightAssumption

pipelineVars == <<want, gatedName, tier, got, done, timedOut, kept, armed, negative, result, sets>>
flightVars == <<hit, flight, pc, cwant, lead, box, cresult, evicted>>
serveVars == <<serving, queue, rr, worker, left, replies>>
connVars == <<idle, snow, call, line, opened, sgot>>
MCvars == <<part, vars, pipelineVars, flightVars, serveVars, connVars>>

MCInit ==
  /\ Init /\ P!Init /\ S!ServeInit /\ S!PoolInit
  /\ \/ part \in {"cache", "pipeline", "flight", "serve", "connections", "pure"} /\ F!Init
     \/ part = "dialers" /\ G!Init
  /\ part # "pipeline" => want = {"v4"} /\ ~gatedName

MCNext ==
  \/ part = "cache" /\ Next /\ UNCHANGED <<part, pipelineVars, flightVars, serveVars, connVars>>
  \/ part = "pipeline" /\ P!Next /\ UNCHANGED <<part, vars, flightVars, serveVars, connVars>>
  \/ part = "flight" /\ F!Next /\ UNCHANGED <<part, vars, pipelineVars, serveVars, connVars>>
  \/ part = "dialers" /\ G!Next /\ UNCHANGED <<part, vars, pipelineVars, serveVars, connVars>>
  \/ part = "serve" /\ S!ServeNext /\ UNCHANGED <<part, vars, pipelineVars, flightVars, connVars>>
  \/ part = "connections" /\ S!PoolNext /\ UNCHANGED <<part, vars, pipelineVars, flightVars, serveVars>>

MCSpec == MCInit /\ [][MCNext]_MCvars

Symmetry == Permutations(Domains) \cup Permutations({c1, c2})

---------------------------------------------------------------------------
\* An address the fallback filter rejects is returned only when the fallback servers
\* answered it, a lookup that returns nothing got nothing, and a definitive negative is
\* never given up for a partial failure (DnsPipeline).
TierAnswers ==
  part = "pipeline" =>
    P!TypeOK /\ P!GatedOnlyFromFallback /\ P!NothingMeansNothing /\ P!DefinitiveIsKept

\* One caller queries for a family set, an address it gets reaches every caller whatever
\* the cache loses, and a lookup fails only for a reason: a missed broadcast is none
\* (DnsFlight).
FlightSound ==
  /\ part = "flight" => F!FlightSound
  /\ part = "dialers" => G!FlightSound

=============================================================================
