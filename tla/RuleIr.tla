------------------------------- MODULE RuleIr -------------------------------
(***************************************************************************)
(* The compiled rule set (meow-tunnel: rule_ir.rs, match_engine.rs, and    *)
(* the DomainTrie of meow-trie).  build lowers the rules of a              *)
(* configuration one by one, dropping those that can never win; a lookup   *)
(* scans the surviving slots, for long lists with the domain trie in front *)
(* of the scan, and stops at a slot that needs an address or a process     *)
(* that is not known yet.                                                  *)
(*                                                                         *)
(* A predicate is a tuple <<kind, argument>>: a host pattern is a sequence *)
(* of labels (of a DOMAIN-WILDCARD, what follows the "*."), a network is a *)
(* set of addresses, a logic rule holds predicates, and the block of a     *)
(* SUB-RULE pairs of a predicate and an adapter.  UID is the predicate of  *)
(* a platform without socket owners, where it never holds.  Host names     *)
(* have no trailing dot and wildcards stand outside logic rules.           *)
(***************************************************************************)
EXTENDS Integers, Sequences, SequencesExt, FiniteSetsExt

CONSTANTS
  Universe,      \* rules that may be listed: [type, op, ip, process, dead, adapter]
  Trees,         \* predicates, closed under their parts and under fold
  Hosts,         \* host names; <<>> is a connection to a bare address
  Ips, Sources, Processes, None,
  Limits,        \* values of LINEAR_SCAN_RULE_LIMIT: both execution plans
  MaxRules       \* bound on the length of a configuration

VARIABLES
  rules,         \* the rules the loop of build has been through
  slots,         \* the slots emitted for them
  seen,          \* seen_ops
  suffixes, keywords, stars,   \* ShadowOracle
  cover,         \* dst_coverage and src_coverage
  ipSeen,        \* seen_ip_demand
  ended          \* a terminator was emitted

oracle == <<suffixes, keywords, stars>>
vars == <<rules, slots, seen, oracle, cover, ipSeen, ended>>

\* Metadata; a process is only ever found through the source
Inputs ==
  {m \in [host : Hosts, dst : Ips \cup {None}, src : Sources \cup {None},
          process : Processes \cup {None}] : m.process # None => m.src # None}

Domains == {"DOMAIN", "DOMAIN-SUFFIX", "DOMAIN-WILDCARD"}
Axes == {"IP-CIDR", "SRC-IP-CIDR"}
Never == <<"NEVER">>
Always == <<"MATCH">>

\* match_metadata of a rule, and matches_op of what it is lowered to
holds[op \in Trees, m \in Inputs] ==
  CASE op[1] = "DOMAIN" -> m.host = op[2]
    [] op[1] = "DOMAIN-SUFFIX" -> IsSuffix(op[2], m.host)
    [] op[1] = "DOMAIN-KEYWORD" -> op[2] \in SubSeqs(m.host)
    [] op[1] = "DOMAIN-WILDCARD" -> IsStrictSuffix(op[2], m.host) /\ Tail(m.host) = op[2]
    [] op[1] = "IP-CIDR" -> m.dst \in op[2]
    [] op[1] = "SRC-IP-CIDR" -> m.src \in op[2]
    [] op[1] = "PROCESS-NAME" -> m.process = op[2]
    [] op[1] = "UID" -> FALSE
    [] op[1] = "MATCH" -> TRUE
    [] op[1] = "AND" -> \A i \in DOMAIN op[2] : holds[op[2][i], m]
    [] op[1] = "OR" -> \E i \in DOMAIN op[2] : holds[op[2][i], m]
    [] op[1] = "NOT" -> ~holds[op[2], m]
    [] op[1] = "SUB-RULE" -> \E i \in DOMAIN op[2] : holds[op[2][i][1], m]

\* The connections a predicate holds for
Matching == [op \in Trees |-> {m \in Inputs : holds[op, m]}]
Holds(op, m) == m \in Matching[op]

\* The adapter of a rule that matched; a SUB-RULE has its block's
Target(r, m) ==
  IF r.op[1] = "SUB-RULE"
  THEN r.op[2][SelectInSeq(r.op[2], LAMBDA b : Holds(b[1], m))][2]
  ELSE r.adapter

---------------------------------------------------------------------------
(* CompiledRuleSet::build                                                  *)

\* A folded list of parts: one part that is left stands for the whole
Collapse(kind, parts, empty) ==
  CASE Len(parts) = 0 -> empty [] Len(parts) = 1 -> parts[1] [] OTHER -> <<kind, parts>>

\* fold_op: constants disappear from a logic rule, or decide it
fold[op \in Trees] ==
  LET parts == [i \in DOMAIN op[2] |-> fold[op[2][i]]]
      Kept(c) == SelectSeq(parts, LAMBDA p : p # c)
  IN CASE op[1] = "UID" -> Never
       [] op[1] = "AND" -> IF Never \in ToSet(parts) THEN Never
                           ELSE Collapse("AND", Kept(Always), Always)
       [] op[1] = "OR" -> IF Always \in ToSet(parts) THEN Always
                          ELSE Collapse("OR", Kept(Never), Never)
       [] op[1] = "NOT" -> CASE fold[op[2]] = Never -> Always
                             [] fold[op[2]] = Always -> Never
                             [] OTHER -> <<"NOT", fold[op[2]]>>
       [] OTHER -> op

Folded == [op \in Trees |-> fold[op]]

\* dedup_fingerprint: the text of the payload, without the kind of the predicate
Fingerprint(op) ==
  CASE op[1] \in Domains \cup {"DOMAIN-KEYWORD"} -> <<"text", op[2]>>
    [] op[1] = "PROCESS-NAME" -> <<"text", <<op[2]>>>>
    [] op[1] \in Axes -> <<"net", op[2]>>
    [] op[1] = "MATCH" -> <<"text", <<>>>>
    [] OTHER -> None

Key(r, op) == <<r.type, r.ip, r.process, Fingerprint(op)>>

Duplicate(r, op) == Fingerprint(op) # None /\ Key(r, op) \in seen

SuffixCovers(pattern) == \E s \in suffixes : IsSuffix(s, pattern)
KeywordCovers(pattern) == \E k \in keywords : k \in SubSeqs(pattern)
StarCovers(domain) == Len(domain) > 1 /\ Tail(domain) \in stars

Shadowed(op) ==
  CASE op[1] = "DOMAIN" -> SuffixCovers(op[2]) \/ KeywordCovers(op[2]) \/ StarCovers(op[2])
    [] op[1] \in {"DOMAIN-SUFFIX", "DOMAIN-WILDCARD"} ->
         SuffixCovers(op[2]) \/ KeywordCovers(op[2])
    [] op[1] = "DOMAIN-KEYWORD" -> KeywordCovers(op[2])
    [] OTHER -> FALSE

\* A network in the union of earlier ones, unless the rule is the first with a demand
Covered(r, op) ==
  op[1] \in Axes /\ op[2] \subseteq cover[op[1]] /\ (~r.ip \/ ipSeen)

Init ==
  /\ rules = <<>> /\ slots = <<>> /\ seen = {}
  /\ suffixes = {} /\ keywords = {} /\ stars = {}
  /\ cover = [a \in Axes |-> {}] /\ ipSeen = FALSE /\ ended = FALSE

\* A rule that never matches is dropped with its demands
PruneNever(r) ==
  /\ r.dead \/ Folded[r.op] = Never
  /\ UNCHANGED <<slots, seen, oracle, cover, ipSeen, ended>>

PruneDuplicate(r) ==
  /\ Duplicate(r, Folded[r.op])
  /\ UNCHANGED <<slots, seen, oracle, cover, ipSeen, ended>>

Note(r, op) == seen' = IF Fingerprint(op) = None THEN seen ELSE seen \cup {Key(r, op)}

PruneShadowed(r) ==
  /\ ~Duplicate(r, Folded[r.op]) /\ Shadowed(Folded[r.op])
  /\ Note(r, Folded[r.op])
  /\ UNCHANGED <<slots, oracle, cover, ipSeen, ended>>

PruneCovered(r) ==
  /\ ~Duplicate(r, Folded[r.op]) /\ Covered(r, Folded[r.op])
  /\ Note(r, Folded[r.op])
  /\ UNCHANGED <<slots, oracle, cover, ipSeen, ended>>

\* What the op can claim against later rules
Absorb(op) ==
  /\ suffixes' = IF op[1] = "DOMAIN-SUFFIX" THEN suffixes \cup {op[2]} ELSE suffixes
  /\ keywords' = IF op[1] = "DOMAIN-KEYWORD" THEN keywords \cup {op[2]} ELSE keywords
  /\ stars' = IF op[1] = "DOMAIN-WILDCARD" THEN stars \cup {op[2]} ELSE stars
  /\ cover' = IF op[1] \in Axes THEN [cover EXCEPT ![op[1]] = @ \cup op[2]] ELSE cover

\* The rule gets a slot; a predicate that always holds ends the loop
Emit(r) ==
  /\ ~Duplicate(r, Folded[r.op]) /\ ~Shadowed(Folded[r.op]) /\ ~Covered(r, Folded[r.op])
  /\ Note(r, Folded[r.op]) /\ Absorb(Folded[r.op])
  /\ slots' = Append(slots, [index |-> Len(rules) + 1, rule |-> r, op |-> Folded[r.op]])
  /\ ipSeen' = (ipSeen \/ r.ip)
  /\ ended' = (Folded[r.op] = Always)

\* One rule of the configuration
Next ==
  \E r \in Universe :
    /\ Len(rules) < MaxRules /\ rules' = Append(rules, r)
    /\ \/ ended /\ UNCHANGED <<slots, seen, oracle, cover, ipSeen, ended>>
       \/ ~ended /\ PruneNever(r)
       \/ /\ ~ended /\ ~r.dead /\ Folded[r.op] # Never
          /\ PruneDuplicate(r) \/ PruneShadowed(r) \/ PruneCovered(r) \/ Emit(r)

Spec == Init /\ [][Next]_vars

---------------------------------------------------------------------------
(* The domain index: a trie of labels, read from the right                 *)

Owned(s) == s.op[1] \in Domains /\ s.rule.type = s.op[1]

\* insert_rule: the places of the trie that a pattern takes
Places(s) ==
  {s.op[2]} \X (CASE s.op[1] = "DOMAIN" -> {"exact"}
                  [] s.op[1] = "DOMAIN-SUFFIX" -> {"star", "dot", "exact"}
                  [] s.op[1] = "DOMAIN-WILDCARD" -> {"star"})

\* insert_into_tree: a place keeps its first value
ValueAt(place) ==
  LET at == {i \in DOMAIN slots : Owned(slots[i]) /\ place \in Places(slots[i])}
  IN IF at = {} THEN {} ELSE {Min(at)}

\* Faulty variant of KindsAt: "+." matches one extra label only
KindsShallow(rest) == CASE rest = 0 -> {"exact"} [] rest = 1 -> {"star", "dot"} [] OTHER -> {}

KindsAt(rest) == CASE rest = 0 -> {"exact"} [] rest = 1 -> {"star", "dot"} [] OTHER -> {"dot"}

\* search_min_normalized: the least slot on the way down the host's labels, or 0
SearchMin(host) ==
  LET hits == UNION {UNION {ValueAt(<<SubSeq(host, n, Len(host)), k>>) : k \in KindsAt(n - 1)}
                       : n \in DOMAIN host}
  IN IF hits = {} THEN 0 ELSE Min(hits)

---------------------------------------------------------------------------
(* Lookups                                                                 *)

ip_missing(m) == m.dst = None /\ m.host # <<>>
process_missing(m) == m.process = None /\ m.src # None

slot_blocked(s, m) ==
  (s.rule.ip /\ ip_missing(m)) \/ (s.rule.process /\ process_missing(m))

NoMatch == [found |-> "none", index |-> 0, adapter |-> None]
Matched(s, m) == [found |-> "rule", index |-> s.index, adapter |-> Target(s.rule, m)]

\* scan_range_ctl: the first slot of a range that stops the scan, or 0.  A slot the trie
\* owns is not evaluated when the plan has a trie.
Scan(from, to, m, indexed, stops) ==
  SelectInSubSeq(slots, from, to, LAMBDA s :
    \/ stops /\ slot_blocked(s, m)
    \/ ~(indexed /\ Owned(s)) /\ Holds(s.op, m))

\* Faulty variant of Needed: only the slot that stopped the scan counts
NeededHere(pos, m) ==
  [found |-> "needs",
   ip |-> ip_missing(m) /\ slots[pos].rule.ip,
   process |-> process_missing(m) /\ slots[pos].rule.process]

\* enrichment_needs: what the slots from pos on demand and is missing
Needed(pos, m) ==
  [found |-> "needs",
   ip |-> ip_missing(m) /\ \E i \in pos..Len(slots) : slots[i].rule.ip,
   process |-> process_missing(m) /\ \E i \in pos..Len(slots) : slots[i].rule.process]

\* match_rules (stops = FALSE) and match_rules_lazy (stops = TRUE): on a hit of the trie
\* only the slots before it are scanned
Match(m, limit, stops) ==
  LET indexed == Len(slots) > limit
      hit == IF indexed THEN SearchMin(m.host) ELSE 0
      pos == Scan(1, IF hit = 0 THEN Len(slots) ELSE hit - 1, m, indexed, stops)
  IN IF pos = 0 /\ hit = 0 THEN NoMatch
     ELSE IF pos = 0 THEN Matched(slots[hit], m)
     ELSE IF stops /\ slot_blocked(slots[pos], m) THEN Needed(pos, m)
     ELSE Matched(slots[pos], m)

\* The metadata with what was asked for; resolution and process lookup may come back empty
Enriched(m, needs, ip, process) ==
  [m EXCEPT !.dst = IF needs.ip THEN ip ELSE @, !.process = IF needs.process THEN process ELSE @]

\* resolve_proxy_lazy: one round of enrichment, then the strict match
Decide(m, limit, lazy, ip, process) ==
  IF lazy.found = "needs" THEN Match(Enriched(m, lazy, ip, process), limit, FALSE) ELSE lazy

---------------------------------------------------------------------------
\* Types; slots are rules in their order, and only the last one is a terminator.
TypeOK ==
  /\ rules \in Seq(Universe) /\ Len(rules) <= MaxRules
  /\ \A i \in DOMAIN slots :
       /\ slots[i].index \in DOMAIN rules /\ slots[i].rule = rules[slots[i].index]
       /\ slots[i].op \in Trees /\ (slots[i].op = Always => i = Len(slots) /\ ended)
       /\ \A j \in DOMAIN slots : i < j => slots[i].index < slots[j].index
  /\ cover \in [Axes -> SUBSET (Ips \cup Sources)] /\ ipSeen \in BOOLEAN /\ ended \in BOOLEAN

\* The first rule of the configuration that matches, evaluated as it is written
FirstRule(m) ==
  LET i == SelectInSeq(rules, LAMBDA r : ~r.dead /\ Holds(r.op, m))
  IN IF i = 0 THEN NoMatch ELSE [found |-> "rule", index |-> i, adapter |-> Target(rules[i], m)]

\* "Four semantics-preserving clean-up passes" and the domain index: whatever build
\* dropped, folded or handed to the trie, match_rules returns the rule, and the adapter,
\* that evaluating the rules of the configuration in order returns.
FirstMatchWins ==
  \A m \in Inputs : \A limit \in Limits : Match(m, limit, FALSE) = FirstRule(m)

\* The lazy lookup over the rules as they are written, without those that are constantly
\* false and up to the first that is constantly true
Reached ==
  LET last == SelectInSeq(rules, LAMBDA r : ~r.dead /\ Folded[r.op] = Always)
  IN {i \in DOMAIN rules : /\ ~rules[i].dead /\ Folded[rules[i].op] # Never
                           /\ last = 0 \/ i <= last}
FirstStop(m) ==
  LET Stops(i) == slot_blocked([rule |-> rules[i]], m)
      stop == {i \in Reached : Stops(i) \/ Holds(rules[i].op, m)}
      rest == {i \in Reached : i >= Min(stop)}
  IN IF stop = {} \/ ~Stops(Min(stop)) THEN FirstRule(m)
     ELSE [found |-> "needs",
           ip |-> ip_missing(m) /\ \E i \in rest : rules[i].ip,
           process |-> process_missing(m) /\ \E i \in rest : rules[i].process]

\* A dropped rule does not take a demand with it that matters: the lazy lookup, which
\* enriches at most once, decides as it would over the rules as they are written, whatever
\* resolution and process lookup return ("it must stay live as the demand-stop carrier").
DemandsSurvive ==
  \A m \in Inputs : \A limit \in Limits :
    LET lazy == Match(m, limit, TRUE)
        written == FirstStop(m)
    IN \/ lazy.found # "needs" /\ lazy = written
       \/ \A ip \in Ips \cup {None}, process \in Processes \cup {None} :
            Decide(m, limit, lazy, ip, process) =
              IF written.found = "needs" THEN FirstRule(Enriched(m, written, ip, process))
              ELSE written

\* "One enrichment round suffices before the strict re-match": a lookup that stopped asks
\* for something, and with what it asked for no slot stops it again.
OneRoundSuffices ==
  \A m \in Inputs : \A limit \in Limits :
    LET lazy == Match(m, limit, TRUE)
    IN lazy.found = "needs" =>
         /\ lazy.ip \/ lazy.process
         /\ \A ip \in Ips, process \in Processes :
              Match(Enriched(m, lazy, ip, process), limit, TRUE).found # "needs"
=============================================================================
