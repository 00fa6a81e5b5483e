------------------------------ MODULE MCControl ------------------------------
(* The compiled rule set, over rule lists of two labels and two addresses that    *)
(* reach every clean-up pass and both plans; the commits of a configuration; its  *)
(* proxy and rule providers; and what the parser makes of a file.  They share no  *)
(* variable, so only the one `part` names takes steps; "file" is the part without  *)
(* a step, in whose one state the constant properties are evaluated.              *)
EXTENDS ConfigLane, Sequences, TLC

CONSTANTS
  Collapsing,             \* whether logic rules of one part are listed
  Universe, Trees, Hosts, Ips, Sources, Processes, Limits, MaxRules,
  Bad, AllPorts, Malformed, Error

VARIABLES part,
  \* RuleIr
  rules, slots, seen, suffixes, keywords, stars, cover, ipSeen, ended,
  \* ProxyProvider
  pconfig, filter, psource, pcache, ppc, pgot, slot, gpc, view, derived, stale, pcrossed,
  \* RuleProvider
  config, source, cache, gfile, gtmp, stage, boot, prefetched, ctx, prov, installed, rpc, rgot,
  fresh, crashes

I == INSTANCE RuleIr

Node(name, type) == [name |-> name, type |-> type]
NodeLists == {Bad, <<Node("x", "ss"), Node("y", "trojan")>>, <<Node("y", "trojan"), Node("z", "unknown")>>}
P == INSTANCE ProxyProvider WITH
       Refreshers <- {1, 2}, Groups <- {1}, Payloads <- NodeLists, config <- pconfig,
       source <- psource, cache <- pcache, pc <- ppc, got <- pgot, crossed <- pcrossed

Payload(v, k, geo) == [v |-> v, kind |-> k, geo |-> geo]
RuleLists == {Payload(1, "yaml", FALSE), Payload(2, "yaml", TRUE), Payload(3, "text", TRUE), Payload(4, "mrs", FALSE)}
R == INSTANCE RuleProvider WITH
       Refreshers <- {1}, Payloads <- RuleLists, Cut <- Payload(0, "cut", FALSE), MaxCrashes <- 1,
       MaxRedirects <- 2, BodyLimit <- 3

B == INSTANCE ConfigBuild WITH MaxWord <- 60, MaxPort <- 5, Kilo <- 3
D == INSTANCE RuleData WITH AddrBits <- 3, WideBits <- 5, WordBits <- 4, TopPort <- 7, KeyBytes <- 2

ASSUME ConfigAssumption == LaneAssumption

irVars == <<rules, slots, seen, suffixes, keywords, stars, cover, ipSeen, ended>>
proxyVars == <<pconfig, filter, psource, pcache, ppc, pgot, slot, gpc, view, derived, stale, pcrossed>>
ruleVars == <<config, source, cache, gfile, gtmp, stage, boot, prefetched, ctx, prov, installed, rpc,
              rgot, fresh, crashes>>
MCvars == <<part, vars, irVars, proxyVars, ruleVars>>

ProxyConfigs == [vehicle : {"file", "http"}, cached : BOOLEAN, own : {P!NoFilter, [P!NoFilter EXCEPT !.types = {"ss"}]}]
Filters == {[P!NoFilter EXCEPT !.filter = {"x"}], [P!NoFilter EXCEPT !.types = {"ss"}],
            [P!NoFilter EXCEPT !.exclude = {"x"}]}
RuleConfigs == [type : {"http", "file", "inline"}, interval : 0 .. 1, cached : BOOLEAN,
                format : {None, "text"}]
OneOf(S) == {CHOOSE x \in S : TRUE}

MCInit ==
  /\ part \in {"rules", "config", "proxies", "sets", "file"} /\ Init /\ I!Init
  /\ pconfig \in (IF part = "proxies" THEN ProxyConfigs ELSE OneOf(ProxyConfigs))
  /\ filter \in [{1} -> IF part = "proxies" THEN Filters ELSE OneOf(Filters)] /\ P!Init
  /\ config \in (IF part = "sets" THEN RuleConfigs ELSE OneOf(RuleConfigs)) /\ R!Init
  \* one initial state of the parts that stand still
  /\ part # "config" => ~raw.tun
  /\ part # "proxies" => psource = Bad /\ pcache = None
  /\ part # "sets" => source.v = 1 /\ cache = None /\ gfile = None

MCNext ==
  \/ part = "rules" /\ I!Next /\ UNCHANGED <<part, vars, proxyVars, ruleVars>>
  \/ part = "config" /\ Next /\ UNCHANGED <<part, irVars, proxyVars, ruleVars>>
  \/ part = "proxies" /\ P!Next /\ UNCHANGED <<part, vars, irVars, ruleVars>>
  \/ part = "sets" /\ R!Next /\ UNCHANGED <<part, vars, irVars, proxyVars>>

MCSpec == MCInit /\ [][MCNext]_MCvars

Symmetry == Permutations(Requests)

---------------------------------------------------------------------------
(* The rules that are listed                                                      *)

A == <<"a">>
XA == <<"x", "a">>
net0 == <<"IP-CIDR", {0}>>
net1 == <<"IP-CIDR", {1}>>
net01 == <<"IP-CIDR", {0, 1}>>
src0 == <<"SRC-IP-CIDR", {0}>>
domain == <<"DOMAIN", XA>>
suffix == <<"DOMAIN-SUFFIX", A>>
inner == <<"DOMAIN-SUFFIX", XA>>
keyword == <<"DOMAIN-KEYWORD", <<"x">>>>
star == <<"DOMAIN-WILDCARD", A>>
process == <<"PROCESS-NAME", "p">>
uid == <<"UID">>
both == <<"AND", <<suffix, net0>>>>
neither == <<"AND", <<suffix, uid>>>>
either == <<"OR", <<domain, neither>>>>
always == <<"NOT", uid>>
match == <<"MATCH">>
block == <<"SUB-RULE", <<<<inner, "P1">>, <<net1, "P2">>>>>>
oneDomain == <<"AND", <<domain>>>>
oneSuffix == <<"AND", <<inner>>>>

MCTrees == {net0, net1, net01, src0, domain, suffix, inner, keyword, star, process, uid, both,
            either, neither, always, block, oneDomain, oneSuffix, match}

Rule(op, ip, proc) ==
  [type |-> op[1], op |-> op, ip |-> ip, process |-> proc, dead |-> FALSE, adapter |-> "P"]

MCUniverse ==
  {Rule(domain, FALSE, FALSE), Rule(suffix, FALSE, FALSE), Rule(inner, FALSE, FALSE),
   Rule(keyword, FALSE, FALSE), Rule(star, FALSE, FALSE),
   Rule(net01, TRUE, FALSE), Rule(net0, TRUE, FALSE), Rule(net01, FALSE, FALSE),
   Rule(net1, FALSE, FALSE), Rule(src0, FALSE, FALSE),
   Rule(process, FALSE, TRUE), Rule(both, TRUE, FALSE), Rule(block, TRUE, FALSE),
   Rule(either, FALSE, TRUE), Rule(always, FALSE, TRUE),
   [Rule(suffix, TRUE, FALSE) EXCEPT !.type = "GEOSITE", !.dead = TRUE]}
  \cup (IF Collapsing THEN {Rule(oneDomain, FALSE, FALSE), Rule(oneSuffix, FALSE, FALSE)} ELSE {})

MCHosts == {<<>>, A, XA, <<"y", "x", "a">>}

---------------------------------------------------------------------------
\* The compiled rule set picks the first rule of the configuration that matches (RuleIr),
\* and each compiled matcher matches what its rule matches (RuleData).
FirstRuleWins ==
  /\ part = "rules" => I!TypeOK /\ I!FirstMatchWins
  /\ part = "file" => D!TrieExact /\ D!HostMatchersExact /\ D!NumberMatchersExact /\ D!PathsExact /\ D!LoweringExact
\* One round of enrichment is enough for the lazy lookup, and a dropped rule takes no
\* demand with it that matters (RuleIr).
LazyAgrees == part = "rules" => I!DemandsSurvive /\ I!OneRoundSuffices

\* The view of a group follows its proxy provider, and the rules and the API start with
\* one and the same rule set (ProxyProvider, RuleProvider).
ProvidersFollow == /\ part = "proxies" => P!ViewsFollow
                   /\ part = "sets" => R!LoadsAgree
\* A refresh of a rule provider reaches the rules that use it (RuleProvider).
RefreshReachesRules == part = "sets" => R!RulesFollowProvider
=============================================================================
