---------------------------- MODULE ConfigBuild ----------------------------
(***************************************************************************)
(* How a configuration is put together (meow-config: lib.rs, proxy_parser, *)
(* sub_rules_parser, rule_parser, auth, dns_parser).  Blocks refer to each *)
(* other by name, in any order: groups to proxies and groups, proxies to   *)
(* the proxy that dials for them, sub-rules to sub-rules, hosts to hosts.  *)
(* Each construction is an operator from what is written to what is built, *)
(* or Error.                                                               *)
(*                                                                         *)
(* The last part is how a proxy block becomes an adapter (proxy_parser.rs, *)
(* ech_dns.rs).  Each parse_* is a function from the options of a block to *)
(* the adapter it makes, or Err.  An option is a model value of its cases: *)
(* absent (None), well formed, malformed, unsupported.  What is kept of an *)
(* adapter is what protects the traffic or decides where it goes: the      *)
(* layers of its transport, the mux, the port, the dialer.                 *)
(***************************************************************************)
EXTENDS Integers, Sequences, FiniteSets, SequencesExt

CONSTANTS None, Error, AllPorts, Malformed,
  MaxWord,   \* the largest u64; MaxPort the largest u16
  MaxPort,
  Kilo       \* 1000

Names(seq) == {seq[i].name : i \in DOMAIN seq}
LastOf(seq, name) == CHOOSE i \in DOMAIN seq : /\ seq[i].name = name
                                               /\ \A j \in DOMAIN seq : seq[j].name = name => j <= i
Put(f, k, v) == [x \in DOMAIN f \cup {k} |-> IF x = k THEN v ELSE f[x]]

---------------------------------------------------------------------------
(* The registry: rebuild_from_raw_impl                                     *)

Builtin(name) == [kind |-> "builtin", name |-> name, block |-> 0, via |-> None, members |-> <<>>]
Builtins == [n \in {"DIRECT", "REJECT"} |-> Builtin(n)]

\* The proxies in the order of the file; a block that does not parse is left out, and
\* a name that is used twice has its last block that parses
WithProxies(proxies) ==
  FoldLeft(LAMBDA reg, i :
             IF proxies[i].parses
             THEN Put(reg, proxies[i].name, [kind |-> "proxy", name |-> proxies[i].name, block |-> i,
                                             via |-> None, members |-> <<>>])
             ELSE reg, Builtins, [i \in DOMAIN proxies |-> i])

\* parse_proxy_group_inner: strict, a member that is not there is an error; lenient, it is
\* left out; a group without members is an error, and a relay needs two
parse_proxy_group_inner(g, reg, strict) ==
  LET known == SelectSeq(g.proxies, LAMBDA m : m \in DOMAIN reg)
  IN IF \/ strict /\ Len(known) < Len(g.proxies)
        \/ known = <<>> \/ (g.type = "relay" /\ Len(known) < 2)
     THEN Error
     ELSE [kind |-> "group", name |-> g.name, block |-> 0, via |-> None,
           members |-> [i \in DOMAIN known |-> reg[known[i]]]]

\* One pass over the groups that are left: what was built and what is still left
Pass(groups, reg, strict) ==
  FoldLeft(LAMBDA acc, g :
             LET made == parse_proxy_group_inner(g, acc.reg, strict)
             IN IF made = Error THEN [acc EXCEPT !.left = Append(@, g)]
                ELSE [acc EXCEPT !.reg = Put(@, g.name, made)],
           [reg |-> reg, left |-> <<>>], groups)

\* Faulty variant of WithGroups: every pass is lenient
RECURSIVE GroupsLenient(_, _)
GroupsLenient(groups, reg) ==
  IF groups = <<>> THEN reg
  ELSE LET p == Pass(groups, reg, FALSE)
       IN IF Len(p.left) = Len(groups) THEN p.reg ELSE GroupsLenient(p.left, p.reg)

\* Strict passes for as long as they get on, then one that is lenient
RECURSIVE WithGroups(_, _)
WithGroups(groups, reg) ==
  IF groups = <<>> THEN reg
  ELSE LET p == Pass(groups, reg, TRUE)
       IN IF Len(p.left) = Len(groups) THEN Pass(groups, reg, FALSE).reg
          ELSE WithGroups(p.left, p.reg)

\* primary_global_target: the last MATCH rule's target, else the first group, else the first
\* proxy, that is registered and not built in
primary_global_target(match, groups, proxies, reg) ==
  LET usable(n) == n \in DOMAIN reg /\ n \notin {"DIRECT", "REJECT", "GLOBAL"}
      first(seq) == LET u == {i \in DOMAIN seq : usable(seq[i].name)}
                    IN IF u = {} THEN None ELSE seq[CHOOSE i \in u : \A j \in u : i <= j].name
  IN IF match # None /\ usable(match) THEN match
     ELSE IF first(groups) # None THEN first(groups) ELSE first(proxies)

\* GLOBAL selects from everything there is, in the order of the names but for the primary
WithGlobal(match, groups, proxies, reg) ==
  IF "GLOBAL" \in DOMAIN reg THEN reg
  ELSE LET primary == primary_global_target(match, groups, proxies, reg)
           rest == SetToSeq(DOMAIN reg \ {primary})
           names == IF primary = None THEN rest ELSE <<primary>> \o rest
       IN Put(reg, "GLOBAL", [kind |-> "group", name |-> "GLOBAL", block |-> 0, via |-> None,
                              members |-> [i \in DOMAIN names |-> reg[names[i]]]])

---------------------------------------------------------------------------
(* apply_dialer_proxies                                                    *)

\* The dialer of the last block of each name
Dialer(proxies) == [n \in Names(proxies) |-> proxies[LastOf(proxies, n)].dialer]
Wanted(proxies) == {n \in Names(proxies) : Dialer(proxies)[n] # None}

\* The proxy is parsed again with a dialer, else what it was is wrapped
Rebuilt(proxies, n, reg) ==
  LET i == LastOf(proxies, n)
      through == reg[Dialer(proxies)[n]]
  IN IF proxies[i].threads
     THEN Put(reg, n, [kind |-> "proxy", name |-> n, block |-> i, via |-> through, members |-> <<>>])
     ELSE IF n \in DOMAIN reg
     THEN Put(reg, n, [kind |-> "wrapped", name |-> n, block |-> 0, via |-> through, members |-> <<reg[n]>>])
     ELSE reg

\* Faulty variant of Dial: the order of the file decides
RECURSIVE DialInOrder(_, _, _, _)
DialInOrder(proxies, pending, resolved, reg) ==
  LET ready == pending
  IN CASE pending = {} -> reg
       [] \E n \in ready : Dialer(proxies)[n] = n \/ Dialer(proxies)[n] \notin DOMAIN reg -> Error
       [] OTHER -> LET n == CHOOSE n \in ready : \A m \in ready : LastOf(proxies, n) >= LastOf(proxies, m)
                   IN DialInOrder(proxies, pending \ {n}, resolved \cup {n}, Rebuilt(proxies, n, reg))

\* A proxy waits for the one that dials for it to be rebuilt; nothing left that is ready is a cycle
RECURSIVE Dial(_, _, _, _)
Dial(proxies, pending, resolved, reg) ==
  LET dialer == Dialer(proxies)
      ready == {n \in pending : dialer[n] \notin Wanted(proxies) \/ dialer[n] \in resolved}
  IN CASE pending = {} -> reg
       [] ready = {} -> Error
       [] OTHER -> LET n == CHOOSE n \in ready : \A m \in ready : LastOf(proxies, n) >= LastOf(proxies, m)
                   IN IF dialer[n] \notin DOMAIN reg THEN Error
                      ELSE Dial(proxies, pending \ {n}, resolved \cup {n}, Rebuilt(proxies, n, reg))

apply_dialer_proxies(proxies, reg) ==
  IF \E n \in Wanted(proxies) : Dialer(proxies)[n] = n THEN Error
  ELSE Dial(proxies, Wanted(proxies), {}, reg)

Registry(proxies, groups, match) ==
  apply_dialer_proxies(proxies, WithGlobal(match, groups, proxies, WithGroups(groups, WithProxies(proxies))))

---------------------------------------------------------------------------
(* Sub-rules: parse_sub_rules                                              *)

\* topo_order_with_cycle_check: depth first from each block, in the order of the names;
\* acc is the order so far, or Error
RECURSIVE Dfs(_, _, _, _)
Dfs(node, refs, path, acc) ==
  IF acc = Error \/ node \in ToSet(acc) THEN acc
  ELSE IF node \in path THEN Error
  ELSE LET below == FoldLeft(LAMBDA a, next : Dfs(next, refs, path \cup {node}, a), acc, refs[node])
       IN IF below = Error THEN Error ELSE Append(below, node)

\* build_reference_graph: a reference to a block that is not there is an error
parse_sub_rules(refs) ==
  IF \E b \in DOMAIN refs : \E i \in DOMAIN refs[b] : refs[b][i] \notin DOMAIN refs THEN Error
  ELSE FoldLeft(LAMBDA a, b : Dfs(b, refs, {}, a), <<>>, SetToSeq(DOMAIN refs))

\* parse_rules_full: a line that does not parse is left out, but a reference to a block
\* that is not there fails the configuration
parse_rules(lines, blocks, sets) ==
  IF \E i \in DOMAIN lines : lines[i].type = "SUB-RULE" /\ lines[i].name \notin blocks THEN Error
  ELSE SelectSeq(lines, LAMBDA l : l.type = "RULE-SET" => l.name \in sets)

---------------------------------------------------------------------------
(* Listeners                                                               *)

\* resolve_listener_bind: the port of the address and the one of the block must agree
resolve_listener_bind(listen, port) ==
  LET p == IF port = None THEN 0 ELSE port
  IN CASE ~listen.ip -> Error
       [] listen.port = None -> p
       [] listen.port = 0 -> p
       [] p \in {0, listen.port} -> listen.port
       [] OTHER -> Error

\* add of build_named_listeners
AddListener(acc, name, port) ==
  IF acc = Error \/ port = Error THEN Error
  ELSE IF \E i \in DOMAIN acc : (port # 0 /\ acc[i].port = port) \/ acc[i].name = name THEN Error
  ELSE Append(acc, [name |-> name, port |-> port])

\* build_named_listeners: the shorthand ports, then the named blocks
build_named_listeners(short, blocks) ==
  LET named(acc, b) == AddListener(acc, b.name,
                         IF b.type \notin {"mixed", "http", "socks5", "tproxy", "ss"} THEN Error
                         ELSE IF b.type = "ss" /\ ~b.cipher THEN Error
                         ELSE resolve_listener_bind(b.listen, b.port))
      shorthand(acc, n) == IF short[n] = 0 THEN acc ELSE AddListener(acc, n, short[n])
  IN FoldLeft(named, FoldLeft(shorthand, <<>>, <<"mixed", "socks", "http", "tproxy">>), blocks)

\* parse_tun_config: a size below the stack's minimum, an address that is none, a timeout of zero
\* and an unknown route mode are refused; only a route mode by name sets the scope
TUN_MIN_MTU == 1280
parse_tun_config(t) ==
  IF t.mtu < TUN_MIN_MTU \/ ~t.inet4 \/ t.timeout = 0 \/ t.route = Error THEN Error
  ELSE [enable |-> t.enable, hijack |-> 53 \in t.hijack, auto |-> t.route \notin {None, "off"},
        global |-> t.route = "global"]

\* parse_sniffer_config: without a block the old option stands for TLS on 443; with one the old
\* option is ignored, and what is enabled must have ports
parse_sniffer_config(s, tproxySni) ==
  CASE s = None -> [enable |-> tproxySni, tls |-> IF tproxySni THEN {443} ELSE {}, http |-> {}]
    [] s.timeout \notin 1 .. 60000 -> Error
    [] s.enable /\ s.tls = {} /\ s.http = {} -> Error
    [] OTHER -> [enable |-> s.enable, tls |-> s.tls, http |-> s.http]

\* parse_auth_config: user:pass, the last one of a user counts; loopback needs none
parse_auth_config(entries, skip) ==
  IF (\E i \in DOMAIN entries : entries[i].name = None) \/ Error \in skip THEN Error
  ELSE [users |-> [n \in Names(entries) |-> entries[LastOf(entries, n)].pass],
        skip |-> {"loopback"} \cup skip]

---------------------------------------------------------------------------
(* Hosts and name server policies                                          *)

\* A host or a pattern is [labels, plus]; the trie prefers the name itself, then the
\* longest pattern
Search(trie, name) ==
  LET exact == [labels |-> name, plus |-> FALSE]
      covers == {k \in DOMAIN trie : k.plus /\ k.labels # name /\ IsSuffix(k.labels, name)}
  IN IF exact \in DOMAIN trie THEN trie[exact]
     ELSE IF covers = {} THEN None
     ELSE trie[CHOOSE k \in covers : \A l \in covers : Len(l.labels) <= Len(k.labels)]

\* build_hosts_trie in some order of the map: a wildcard covers its own name too
HostsTrie(hosts, order) ==
  FoldLeft(LAMBDA trie, k :
             LET one == Put(trie, k, hosts[k])
             IN IF k.plus THEN Put(one, [labels |-> k.labels, plus |-> FALSE], hosts[k]) ELSE one,
           <<>>, order)

\* reject_host_alias_cycles: from each alias, until addresses, nothing, or a name seen before
RECURSIVE Follow(_, _, _)
Follow(trie, name, seen) ==
  IF name \in seen THEN Error
  ELSE LET e == Search(trie, name)
       IN IF e = None \/ ~e.alias THEN "ends" ELSE Follow(trie, e.to, seen \cup {name})

build_hosts_trie(hosts, order) ==
  LET trie == HostsTrie(hosts, order)
      own(k) == IF k.plus THEN {} ELSE {k.labels}
  IN IF \E k \in DOMAIN hosts : hosts[k].alias /\ Follow(trie, hosts[k].to, own(k)) = Error
     THEN Error ELSE trie

\* merge_system_hosts: only names the configuration says nothing of
merge_system_hosts(trie, system) ==
  FoldLeft(LAMBDA t, n : IF Search(t, n) = None
                         THEN Put(t, [labels |-> n, plus |-> FALSE], [alias |-> FALSE, to |-> <<>>]) ELSE t,
           trie, system)

\* build_policy_resolvers: servers that do not parse, or whose name cannot be looked up, are
\* skipped; none left is an error.  A proxy that is not there is skipped, not the server.
build_policy_resolvers(servers, bootstrap, proxies) ==
  LET good == SelectSeq(servers, LAMBDA s : s.kind = "ip" \/ (s.kind = "host" /\ bootstrap))
  IN IF good = <<>> THEN Error
     ELSE [i \in DOMAIN good |-> [good[i] EXCEPT !.proxy = IF @ \in proxies THEN @ ELSE None]]

\* build_nameserver_policy, for one entry: keys that cannot be matched are left out, and with
\* them the entry when none is left; a rule set must be there and must be of names
build_nameserver_policy(keys, servers, bootstrap, proxies, geosite, sets) ==
  LET patterns == SelectSeq(keys, LAMBDA k : k.kind \in {"name", "rule-set"} \/ (k.kind = "geosite" /\ geosite))
  IN CASE \E i \in DOMAIN keys : keys[i].kind = "rule-set" /\ keys[i].set \notin sets -> Error
       [] patterns = <<>> -> <<>>
       [] OTHER -> build_policy_resolvers(servers, bootstrap, proxies)

---------------------------------------------------------------------------
(* Properties, over small files                                            *)

SeqsUpTo(S, n) == UNION {[1 .. k -> S] : k \in 0 .. n}
Block(n, parses, threads, dialer) == [name |-> n, parses |-> parses, threads |-> threads, dialer |-> dialer]

\* Files of up to three proxies and two groups, in every order
ProxyBlocks == {Block(n, parses, threads, d) : n \in {"a", "b"}, parses \in BOOLEAN, threads \in {TRUE},
                                               d \in {None, "a", "b", "g", "x"}}
               \cup {Block("a", TRUE, FALSE, "b"), Block("c", TRUE, TRUE, None), Block("c", TRUE, TRUE, "a")}
GroupBlocks == {[name |-> n, type |-> t, proxies |-> m] : n \in {"g", "h"}, t \in {"select"},
                                                          m \in {<<"a">>, <<"g", "a">>, <<"h">>, <<"x", "c">>}}
               \cup {[name |-> "h", type |-> "relay", proxies |-> <<"a", "x">>]}
DistinctNames(seq) == \A i, j \in DOMAIN seq : seq[i].name = seq[j].name => i = j

\* What the file asks for: the proxies reached from n by following dialers
RECURSIVE Chain(_, _, _)
Chain(proxies, n, seen) ==
  IF n \notin Wanted(proxies) THEN seen \cup {n}
  ELSE IF n \in seen THEN seen
  ELSE Chain(proxies, Dialer(proxies)[n], seen \cup {n})
Cyclic(proxies, n) == Chain(proxies, n, {}) \subseteq Wanted(proxies)

\* A proxy with a dialer-proxy is reached through the final form of that dialer, whatever the
\* order of the file and however long the chain; a file whose dialers form a cycle, or name
\* nothing, is refused, and no other (lib.rs:560, "a configured chain cannot be silently
\* bypassed")
ChainsHold ==
  \A proxies \in SeqsUpTo(ProxyBlocks, 3) :
    LET before == WithGroups(<<[name |-> "g", type |-> "select", proxies |-> <<"a", "DIRECT">>]>>, WithProxies(proxies))
        reg == apply_dialer_proxies(proxies, before)
        there(n) == n \in DOMAIN before \/ (n \in Wanted(proxies) /\ proxies[LastOf(proxies, n)].threads)
    IN /\ (reg = Error) <=> \E n \in Wanted(proxies) : Cyclic(proxies, n) \/ ~there(Dialer(proxies)[n])
       /\ reg # Error =>
            \A n \in Wanted(proxies) \cap DOMAIN reg :
              /\ reg[n].via = reg[Dialer(proxies)[n]]
              /\ reg[n].block \in {0, LastOf(proxies, n)}

\* A group whose members are all there in the end has all of them, in its order, wherever in
\* the file it stands; GLOBAL has everything, with the primary choice first
RECURSIVE Complete(_, _, _)
Complete(groups, base, k) ==
  IF k = 0 THEN base
  ELSE LET c == Complete(groups, base, k - 1)
       IN c \cup {groups[i].name : i \in {j \in DOMAIN groups : ToSet(groups[j].proxies) \subseteq c}}
GroupsComplete ==
  LET proxies == <<Block("a", TRUE, TRUE, None), Block("c", FALSE, TRUE, None)>>
      base == DOMAIN WithProxies(proxies)
  IN \A groups \in {s \in SeqsUpTo(GroupBlocks, 2) : DistinctNames(s)}, match \in {None, "DIRECT", "a", "h"} :
       LET reg == Registry(proxies, groups, match)
           global == reg["GLOBAL"].members
       IN /\ \A i \in DOMAIN groups :
               groups[i].name \in Complete(groups, base, 2) =>
                 /\ groups[i].name \in DOMAIN reg
                 /\ [j \in DOMAIN groups[i].proxies |-> reg[groups[i].proxies[j]]] = reg[groups[i].name].members
          /\ {global[i].name : i \in DOMAIN global} = DOMAIN reg \ {"GLOBAL"}
          /\ Len(global) = Cardinality(DOMAIN reg) - 1
          /\ global[1].name = CASE match \in DOMAIN reg \ {"DIRECT"} -> match
                                [] \E i \in DOMAIN groups : groups[i].name \in DOMAIN reg ->
                                     groups[CHOOSE i \in DOMAIN groups :
                                              /\ groups[i].name \in DOMAIN reg
                                              /\ \A j \in 1 .. i - 1 : groups[j].name \notin DOMAIN reg].name
                                [] OTHER -> "a"

\* Sub-rules are built after those they refer to, and are refused exactly when one is not
\* there or leads back to itself
SubRulesOrdered ==
  \A refs \in [{"p", "q", "r"} -> SeqsUpTo({"p", "q", "r", "x"}, 2)] :
    LET order == parse_sub_rules(refs)
        known == \A b \in DOMAIN refs : ToSet(refs[b]) \subseteq DOMAIN refs
        inOrder(o) == \A i \in DOMAIN o : \A d \in ToSet(refs[o[i]]) : \E j \in 1 .. i - 1 : o[j] = d
    IN IF order = Error
       THEN known => ~\E o \in SetToSeqs(DOMAIN refs) : inOrder(o)
       ELSE known /\ Len(order) = 3 /\ ToSet(order) = DOMAIN refs /\ inOrder(order)

\* Hosts that are accepted can be followed to an end from every name, whatever the order the
\* map is walked in, and the hosts of the system do not change what the file says
HostsEnd ==
  LET x == <<"x">>  ax == <<"a", "x">>  y == <<"y">>
      keys == {[labels |-> x, plus |-> FALSE], [labels |-> x, plus |-> TRUE], [labels |-> ax, plus |-> FALSE],
               [labels |-> y, plus |-> FALSE]}
      values == {[alias |-> FALSE, to |-> <<>>]} \cup {[alias |-> TRUE, to |-> t] : t \in {x, ax, y}}
  IN \A used \in SUBSET keys : \A hosts \in [used -> values], order \in SetToSeqs(used) :
       LET trie == build_hosts_trie(hosts, order)
           whole == merge_system_hosts(trie, <<y, ax>>)
       IN trie # Error =>
            \A n \in {x, ax, y, <<"b", "x">>} : /\ Follow(whole, n, {}) # Error
                                               /\ Search(trie, n) # None => Search(whole, n) = Search(trie, n)

\* No two listeners have a port or a name in common, none that is asked for is left out, and
\* what a block says of its port is what it gets
ListenersDistinct ==
  LET listens == {[ip |-> TRUE, port |-> p] : p \in {None, 0, 1}}
      blocks == {[name |-> n, type |-> t, listen |-> l, port |-> p, cipher |-> TRUE] :
                   n \in {"mixed", "l"}, t \in {"mixed", "ss"}, l \in listens, p \in {None, 0, 1, 2}}
  IN \A short \in [{"mixed", "socks", "http", "tproxy"} -> 0 .. 1], bs \in SeqsUpTo(blocks, 2) :
       LET built == build_named_listeners(short, bs)
       IN built # Error =>
            /\ DistinctNames(built)
            /\ \A i, j \in DOMAIN built : built[i].port = built[j].port /\ built[i].port # 0 => i = j
            /\ Len(built) = Len(bs) + Cardinality({n \in DOMAIN short : short[n] # 0})
            /\ \A i \in DOMAIN bs : bs[i].port \notin {None, 0} => built[Len(built) - Len(bs) + i].port = bs[i].port

\* A policy that is accepted never leaves its names without servers of its own
PolicyHasServers ==
  LET servers == {[kind |-> k, proxy |-> p] : k \in {"ip", "host", "malformed"}, p \in {None, "a", "x"}}
      keys == {[kind |-> k, set |-> s] : k \in {"name", "geosite", "rule-set", "unknown"}, s \in {"names", "gone"}}
  IN \A ks \in SeqsUpTo(keys, 2), ss \in SeqsUpTo(servers, 2), boot, geo \in BOOLEAN :
       LET p == build_nameserver_policy(ks, ss, boot, {"a"}, geo, {"names"})
       IN (\E i \in DOMAIN ks : ks[i].kind = "name") => p = Error \/ Len(p) > 0

\* What a file switches on is on or the file is refused: a listener's scope never widens by
\* default, an enabled sniffer has something to look at, each user has the password last
\* given, and rules keep their order and refer only to what is there
SwitchesHold ==
  /\ \A t \in [enable : BOOLEAN, mtu : {1279, 1280}, inet4 : BOOLEAN, timeout : {0, 1},
              hijack : SUBSET {53, 5353}, route : {None, "off", "on", "fake-ip", "global", Error}] :
       LET r == parse_tun_config(t)
       IN r # Error => /\ r.enable = t.enable /\ (r.global => r.auto /\ t.route = "global")
                       /\ r.hijack = (53 \in t.hijack) /\ t.mtu >= TUN_MIN_MTU
  /\ \A s \in [timeout : {0, 1, 60000, 60001}, enable : BOOLEAN, tls : SUBSET {443}, http : SUBSET {80}],
       old \in BOOLEAN :
       LET r == parse_sniffer_config(s, old)
       IN r # Error => r.enable = s.enable /\ (r.enable => r.tls \cup r.http # {})
  /\ \A es \in SeqsUpTo([name : {"u", "v", None}, pass : {"1", "2"}], 3), skip \in SUBSET {"net", Error} :
       LET r == parse_auth_config(es, skip)
       IN r # Error => /\ "loopback" \in r.skip
                       /\ \A i \in DOMAIN es : (\A j \in DOMAIN es : j > i => es[j].name # es[i].name)
                                                => r.users[es[i].name] = es[i].pass
  /\ \A lines \in SeqsUpTo([type : {"DOMAIN", "RULE-SET", "SUB-RULE"}, name : {"x", "gone"}], 3) :
       LET r == parse_rules(lines, {"x"}, {"x"})
       IN r # Error => /\ \A i \in DOMAIN r : r[i].type # "DOMAIN" => r[i].name = "x"
                       /\ SelectSeq(r, LAMBDA l : l.name = "x") = SelectSeq(lines, LAMBDA l : l.name = "x")

\* What is built from a file is what the file says, in whatever order it says it
ConfigSound == /\ ChainsHold /\ GroupsComplete /\ SubRulesOrdered
               /\ HostsEnd /\ ListenersDistinct /\ PolicyHasServers /\ SwitchesHold

---------------------------------------------------------------------------
(* The options of a proxy                                                  *)

Err == [ok |-> FALSE]
Ok(a) == [ok |-> TRUE, adapter |-> a]

required_port(p) == p # None /\ p <= MaxPort /\ p # 0

Default(v, d) == IF v = None THEN d ELSE v

---------------------------------------------------------------------------
(* Options several types share                                             *)

\* mux_config_block: smux is preferred to mux, and must be a mapping
MuxBlock(o) == Default(o.smux, o.mux)

MuxProtocols == {"smux", "yamux", "h2mux", "muxcool"}

\* parse_mux_options: whether the block is in error, and the protocol of a mux that is enabled
parse_mux_options(o) ==
  LET b == MuxBlock(o)
  IN CASE b = None -> [ok |-> TRUE, protocol |-> None]
       [] ~b.mapping \/ b.enabled = "malformed" -> Err
       [] b.enabled # "yes" -> [ok |-> TRUE, protocol |-> None]
       [] Default(b.protocol, "h2mux") \notin MuxProtocols \/ b.numbers = "malformed" -> Err
       [] OTHER -> [ok |-> TRUE, protocol |-> Default(b.protocol, "h2mux")]

\* Shadowsocks and Trojan have no mux.cool
SingMuxOnly(m) == m.ok /\ m.protocol # "muxcool"

\* username and password come together or not at all
Paired(o) == (o.username = None) = (o.password = None)

\* default_transport_alpn
default_transport_alpn(network, alpn) ==
  CASE alpn # <<>> -> alpn
    [] network = "ws" -> <<"http/1.1">>
    [] network \in {"grpc", "h2", "xhttp"} -> <<"h2">>
    [] OTHER -> alpn

---------------------------------------------------------------------------
(* ECH                                                                     *)

\* fetch_ech_from_dns: the first server that answers decides, ECH or not
fetch_ech_from_dns(answers) ==
  LET heard == {i \in DOMAIN answers : answers[i] # "error"}
  IN IF heard = {} THEN None
     ELSE LET a == answers[CHOOSE i \in heard : \A j \in heard : i <= j]
          IN IF a = "ech" THEN "fetched" ELSE None

\* preresolve_ech: the config of an enabled block is looked up and put into it
preresolve_ech(ech, answers) ==
  IF ech = None \/ ~ech.enable \/ ech.config # None THEN ech
  ELSE [ech EXCEPT !.config = fetch_ech_from_dns(answers)]

\* The part of parse_vless that reads the result
Ech(ech) ==
  IF ech = None \/ ~ech.enable \/ ech.config = None THEN [ok |-> TRUE, ech |-> FALSE]
  ELSE [ok |-> ech.config # "malformed", ech |-> TRUE]

---------------------------------------------------------------------------
(* VLESS                                                                   *)

\* parse_reality_short_id, of the number of hex digits; a bare number is its decimal digits
parse_reality_short_id(s) == s.hex /\ s.len % 2 = 0 /\ s.len \div 2 <= 8

\* parse_vless_reality_opts
parse_vless_reality_opts(r) ==
  r = None \/ (r.key = "good" /\ (r.short = None \/ parse_reality_short_id(r.short)))

\* parse_vless_encryption, and the flow
Encryption(e) == CASE e \in {None, "none"} -> [ok |-> TRUE, on |-> FALSE]
                   [] e = "mlkem768x25519plus" -> [ok |-> TRUE, on |-> TRUE]
                   [] OTHER -> Err

Flow(f) == CASE f \in {None, ""} -> [ok |-> TRUE, vision |-> FALSE]
             [] f = "xtls-rprx-vision" -> [ok |-> TRUE, vision |-> TRUE]
             [] OTHER -> Err

\* A flow needs TLS or a network that is taken to bring it
FlowAllowed(o) == Flow(o.flow).vision => o.tls \/ o.network \in {"grpc", "h2"}

\* parse_vless_xhttp_config: the hosts, the mode and the range of the padding
XhttpOk(x) ==
  \/ x = None
  \/ /\ x.hosts \notin {"empty", "malformed"} /\ x.mode \in {None, "stream-one"}
     /\ x.padding # Malformed /\ (x.padding # None => x.padding[1] <= x.padding[2])

\* The layer a network adds on top of TLS
NetworkLayer(o) ==
  CASE o.network \in {None, "tcp"} -> [ok |-> TRUE, layers |-> <<>>]
    [] o.network \in {"ws", "grpc", "httpupgrade"} -> [ok |-> TRUE, layers |-> <<o.network>>]
    [] o.network = "h2" -> [ok |-> o.hosts # "empty", layers |-> <<"h2">>]
    [] o.network = "xhttp" -> [ok |-> XhttpOk(o.xhttp), layers |-> <<"xhttp">>]
    [] OTHER -> [ok |-> FALSE, layers |-> <<>>]

TlsLayer(o, reality, ech) ==
  IF o.tls THEN <<[layer |-> "tls", reality |-> reality, ech |-> ech,
                   alpn |-> default_transport_alpn(o.network, o.alpn), fp |-> o.fp]>>
  ELSE <<>>

LayerChain(tls, net) == tls \o [i \in DOMAIN net |-> [layer |-> net[i]]]

\* Vision is multiplexed by mux.cool only
VisionMux(vision, mux) == mux.ok /\ (vision => mux.protocol \in {None, "muxcool"})

parse_vless(o) ==
  LET ech == IF o.tls THEN Ech(o.ech) ELSE [ok |-> TRUE, ech |-> FALSE]
      net == NetworkLayer(o)
      mux == parse_mux_options(o)
      vision == Flow(o.flow).vision
  IN IF /\ required_port(o.port) /\ o.uuid = "good"
        /\ parse_vless_reality_opts(o.reality)
        /\ o.reality # None => o.tls /\ o.fp # None
        /\ Encryption(o.encryption).ok /\ Flow(o.flow).ok /\ FlowAllowed(o)
        /\ ech.ok /\ net.ok /\ VisionMux(vision, mux)
     THEN Ok([chain |-> LayerChain(TlsLayer(o, o.reality # None, ech.ech), net.layers),
              vision |-> vision, encrypted |-> Encryption(o.encryption).on,
              mux |-> mux.protocol, dialer |-> o.dialer])
     ELSE Err

---------------------------------------------------------------------------
(* VMess and the plain types                                               *)

parse_vmess(o) ==
  LET mux == parse_mux_options(o)
  IN IF /\ required_port(o.port) /\ o.uuid = "good"
        /\ Default(o.cipher, "auto") \in {"auto", "aes-128-gcm", "chacha20-poly1305", "none"}
        /\ o.network \in {None, "tcp", "ws"} /\ mux.ok
     THEN Ok([chain |-> LayerChain(TlsLayer(o, FALSE, FALSE), NetworkLayer(o).layers),
              clear |-> o.cipher = "none", mux |-> mux.protocol, dialer |-> o.dialer])
     ELSE Err

\* is_external_sip003_plugin: any plugin but the built-in ones
is_external_sip003_plugin(p) == p \notin {None, "", "obfs", "v2ray-plugin", "ech-tls-tunnel"}

ParseSs(o) ==
  LET mux == parse_mux_options(o)
  IN IF /\ required_port(o.port) /\ o.password # None /\ o.cipher # None
        /\ ~(o.dialer # None /\ is_external_sip003_plugin(o.plugin)) /\ SingMuxOnly(mux)
     THEN Ok([chain |-> <<>>, mux |-> mux.protocol, dialer |-> o.dialer]) ELSE Err

ParseTrojan(o) ==
  LET mux == parse_mux_options(o)
  IN IF required_port(o.port) /\ o.password # None /\ SingMuxOnly(mux)
     THEN Ok([chain |-> <<[layer |-> "tls"]>>, mux |-> mux.protocol, dialer |-> o.dialer]) ELSE Err

parse_http(o) ==
  IF required_port(o.port) /\ Paired(o)
  THEN Ok([chain |-> IF o.tls THEN <<[layer |-> "tls"]>> ELSE <<>>, auth |-> o.username # None,
           mux |-> None, dialer |-> o.dialer]) ELSE Err

parse_socks5(o) == parse_http(o)

\* parse_snell: a version other than 3, 4 and 5 and an unknown obfuscation are errors
parse_snell(o) ==
  IF /\ required_port(o.port) /\ o.psk # None
     /\ Default(o.version, "4") \in {"3", "4", "5"} /\ o.obfs \in {None, "off", "http", "tls"}
  THEN Ok([chain |-> IF o.obfs \in {"http", "tls"} THEN <<[layer |-> o.obfs]>> ELSE <<>>,
           version |-> Default(o.version, "4"), mux |-> None, dialer |-> o.dialer]) ELSE Err

\* reject_unthreaded_dialer: these types do not dial through the dialer they are given
Unthreaded == {"direct", "anytls", "hysteria2"}

parse_direct(o) ==
  IF o.timeout # "malformed" /\ o.dns \notin {"malformed", "empty"}
  THEN Ok([chain |-> <<>>, mux |-> None, dialer |-> None, dns |-> o.dns # None]) ELSE Err

parse_anytls(o) ==
  IF required_port(o.port) /\ o.password # None
  THEN Ok([chain |-> <<[layer |-> "tls"]>>, mux |-> None, dialer |-> None]) ELSE Err

---------------------------------------------------------------------------
(* Hysteria2                                                               *)

Prefix == [none |-> 1, K |-> Kilo, M |-> Kilo * Kilo, G |-> Kilo * Kilo * Kilo]

\* mbps_to_bytes_per_second saturates
mbps_to_bytes_per_second(n) ==
  (IF n * Prefix.M > MaxWord THEN MaxWord ELSE n * Prefix.M) \div 8

\* parse_hy2_bandwidth: of a bare number, or of a number with its unit; None is an error
parse_hy2_bandwidth(r) ==
  CASE r = None -> 0
    [] r.unit = "" -> mbps_to_bytes_per_second(r.n)
    [] r.n * Prefix[r.prefix] > MaxWord -> None
    [] r.unit = "b" -> (r.n * Prefix[r.prefix]) \div 8
    [] OTHER -> r.n * Prefix[r.prefix]

\* A list of ports is all of them or ranges; validate_hy2_ports
validate_hy2_ports(ports) ==
  ports \in {None, AllPorts} \/ \A i \in DOMAIN ports : \A p \in {ports[i][1], ports[i][2]} : p \in 0 .. MaxPort

first_hy2_port(ports) ==
  IF ports \in {None, AllPorts} \/ ports[1][1] = 0 THEN None ELSE ports[1][1]

\* hy2_dial_port: the port of the block, else the first of the list; None is an error
hy2_dial_port(port, ports) ==
  CASE port # None /\ (port > MaxPort \/ (port = 0 /\ ports = None)) -> None
    [] port \notin {None, 0} -> port
    [] OTHER -> first_hy2_port(ports)

\* normalize_hy2_hop_interval
normalize_hy2_hop_interval(start, end) ==
  LET s == IF start = 0 THEN 30 ELSE IF start < 5 THEN 5 ELSE start
      e == IF end = 0 \/ end < s THEN s ELSE end
  IN <<s, e>>

\* parse_hy2_hop_interval: one number or one range; None is an error
parse_hy2_hop_interval(h) ==
  CASE h = Malformed -> None
    [] Len(h) = 1 -> normalize_hy2_hop_interval(h[1], 0)
    [] Len(h) = 2 -> normalize_hy2_hop_interval(h[1], h[2])
    [] OTHER -> None

\* parse_hy2_fingerprint: what follows the last "=", without colons and spaces
parse_hy2_fingerprint(f) == f = None \/ (f.hex /\ f.digits = 64)

validate_hy2_alpn(a) == \A i \in DOMAIN a : a[i] = "h3"

\* reject_unsupported_hy2_options: some keys are refused when they are there, some when they
\* are enabled (which a map is unless it says no), some when they are not zero
reject_unsupported_hy2_options(u) == ~u.key /\ u.ech \notin {"enabled", "unsaid"} /\ u.cwnd \in {None, 0}

parse_hysteria2(o) ==
  IF /\ validate_hy2_ports(o.ports) /\ hy2_dial_port(o.port, o.ports) # None /\ o.password # None
     /\ parse_hy2_bandwidth(o.up) # None
     /\ o.obfs \in {None, "salamander"} /\ (o.obfs # None => o.obfspassword # None)
     /\ parse_hy2_hop_interval(o.hop) # None /\ parse_hy2_fingerprint(o.fingerprint)
     /\ validate_hy2_alpn(o.alpn) /\ reject_unsupported_hy2_options(o.more)
  THEN Ok([chain |-> IF o.obfs = None THEN <<>> ELSE <<[layer |-> o.obfs]>>,
           port |-> hy2_dial_port(o.port, o.ports), up |-> parse_hy2_bandwidth(o.up),
           hop |-> parse_hy2_hop_interval(o.hop), pinned |-> o.fingerprint # None, mux |-> None, dialer |-> None])
  ELSE Err

---------------------------------------------------------------------------
\* Faulty variant of parse_proxy_with_dialer: the dialer of a type that does not use it
\* is ignored
ParseUnchecked(type, o) ==
  CASE type = "ss" -> ParseSs(o) [] type = "trojan" -> ParseTrojan(o)
    [] type = "vless" -> parse_vless(o) [] type = "vmess" -> parse_vmess(o)
    [] type = "http" -> parse_http(o) [] type = "socks5" -> parse_socks5(o)
    [] type = "snell" -> parse_snell(o) [] type = "direct" -> parse_direct(o)
    [] type = "anytls" -> parse_anytls(o) [] type = "hysteria2" -> parse_hysteria2(o)

parse_proxy_with_dialer(type, o) ==
  IF type \in Unthreaded /\ o.dialer # None THEN Err
  ELSE CASE type = "ss" -> ParseSs(o) [] type = "trojan" -> ParseTrojan(o)
         [] type = "vless" -> parse_vless(o) [] type = "vmess" -> parse_vmess(o)
         [] type = "http" -> parse_http(o) [] type = "socks5" -> parse_socks5(o)
         [] type = "snell" -> parse_snell(o) [] type = "direct" -> parse_direct(o)
         [] type = "anytls" -> parse_anytls(o) [] type = "hysteria2" -> parse_hysteria2(o)

---------------------------------------------------------------------------
(* The blocks that are enumerated                                          *)

NoOptions ==
  [port |-> 1, uuid |-> "good", password |-> "p", username |-> "u", cipher |-> "auto", psk |-> "p",
   tls |-> FALSE, fp |-> None, alpn |-> <<>>, network |-> None, reality |-> None, ech |-> None,
   encryption |-> None, flow |-> None, hosts |-> None, xhttp |-> None, smux |-> None, mux |-> None,
   dialer |-> None, plugin |-> None, version |-> None, obfs |-> None, obfspassword |-> None,
   timeout |-> None, dns |-> None, ports |-> None, up |-> None, fingerprint |-> None,
   hop |-> <<0>>, more |-> [key |-> FALSE, ech |-> None, cwnd |-> None]]

Mux(protocol) == [mapping |-> TRUE, enabled |-> "yes", protocol |-> protocol, numbers |-> "good"]
Muxes == {None, Mux(None), Mux("muxcool"), Mux("unknown"), [Mux(None) EXCEPT !.enabled = "no"],
          [Mux(None) EXCEPT !.enabled = "malformed"], [Mux(None) EXCEPT !.mapping = FALSE]}
Dialers == {None, "d"}

VlessBlocks ==
  {[NoOptions EXCEPT !.tls = x[1], !.network = x[2], !.flow = x[3], !.reality = x[4], !.fp = x[5],
     !.encryption = x[6], !.mux = x[7], !.dialer = x[8]] :
     x \in BOOLEAN \X {None, "tcp", "ws", "grpc", "h2", "xhttp", "quic"}
           \X {None, "xtls-rprx-vision", "xtls-rprx-direct"}
           \X {None, [key |-> "good", short |-> None], [key |-> "good", short |-> [hex |-> TRUE, len |-> 3]],
               [key |-> "malformed", short |-> None]}
           \X {None, "chrome"} \X {None, "none", "mlkem768x25519plus", "aes"} \X Muxes \X Dialers}

EchBlocks ==
  {[NoOptions EXCEPT !.tls = x[1], !.ech = preresolve_ech(x[2], x[6]), !.network = x[3], !.alpn = x[4], !.xhttp = x[5]] :
     x \in BOOLEAN \X {None, [enable |-> FALSE, config |-> "inline"], [enable |-> TRUE, config |-> "inline"],
                       [enable |-> TRUE, config |-> "malformed"], [enable |-> TRUE, config |-> None]}
           \X {None, "ws", "grpc", "h2", "xhttp"} \X {<<>>, <<"custom">>}
           \X {None, [hosts |-> None, mode |-> "packet-up", padding |-> None],
               [hosts |-> "given", mode |-> "stream-one", padding |-> <<2, 1>>],
               [hosts |-> None, mode |-> None, padding |-> <<1, 2>>]}
           \X {<<"error", "ech">>, <<"plain", "ech">>, <<"error", "error">>}}

PlainBlocks ==
  {[NoOptions EXCEPT !.tls = x[1], !.dialer = x[2], !.mux = x[3], !.plugin = x[4], !.username = x[5],
     !.port = x[6], !.network = x[7]] :
     x \in BOOLEAN \X Dialers \X Muxes \X {None, "obfs", "kcptun"} \X {None, "u"}
           \X {None, 0, 1, MaxPort, MaxPort + 1} \X {None, "ws", "grpc"}}

HyBlocks ==
  {[NoOptions EXCEPT !.port = x[1], !.ports = x[2], !.obfs = x[3], !.obfspassword = x[4],
     !.fingerprint = x[5], !.more = x[6], !.dialer = x[7], !.hop = x[8]] :
     x \in {None, 0, 1, MaxPort + 1} \X {None, AllPorts, <<<<2, 3>>>>, <<<<0, 3>>>>, <<<<2, MaxPort + 1>>>>}
           \X {None, "salamander", "gecko"} \X {None, "p"}
           \X {None, [hex |-> TRUE, digits |-> 64], [hex |-> TRUE, digits |-> 40]}
           \X [key : BOOLEAN, ech : {None, "enabled", "unsaid", "disabled"}, cwnd : {None, 0, 1}]
           \X Dialers \X {<<0>>, <<3, 20>>, <<1, 2, 3>>}}

Blocks(type) ==
  CASE type = "vless" -> VlessBlocks \cup EchBlocks
    [] type = "hysteria2" -> HyBlocks
    [] OTHER -> PlainBlocks

HasLayer(a, l) == \E i \in DOMAIN a.chain : a.chain[i].layer = l

\* A block is refused or does what it asks for; it is never accepted with a protection left
\* out. TLS is the innermost layer when it is asked for, with REALITY and an ECH config if
\* they are given; the network is there, over an ALPN it can run on unless the block sets
\* one; encryption, flow, mux and obfuscation are on; a flow has TLS or a network that is
\* taken to bring it; vision never carries sing-mux; and a dialer is used or refused.
NoSilentDowngrade ==
  \A type \in {"ss", "trojan", "vless", "vmess", "http", "socks5", "snell", "direct", "anytls", "hysteria2"} :
    \A o \in Blocks(type) :
      LET r == parse_proxy_with_dialer(type, o)
          a == r.adapter
      IN r.ok =>
         /\ a.dialer = o.dialer
         /\ type \in {"vless", "vmess", "http", "socks5"} =>
              (o.tls <=> (a.chain # <<>> /\ a.chain[1].layer = "tls"))
         /\ type \in {"vless", "vmess"} /\ o.network \notin {None, "tcp"} => Last(a.chain).layer = o.network
         /\ type \in {"vless", "vmess"} /\ o.tls /\ o.network \in {"grpc", "h2", "xhttp"} /\ o.alpn = <<>> =>
              a.chain[1].alpn = <<"h2">>
         /\ type = "vless" =>
              /\ o.reality # None => HasLayer(a, "tls") /\ a.chain[1].reality /\ a.chain[1].fp # None
              /\ o.tls /\ o.ech # None /\ o.ech.enable /\ o.ech.config # None => a.chain[1].ech
              /\ o.network = "xhttp" /\ o.xhttp # None => o.xhttp.mode # "packet-up" /\ o.xhttp.padding # <<2, 1>>
              /\ (o.flow # None) = a.vision /\ (o.encryption = "mlkem768x25519plus") = a.encrypted
              /\ a.vision => /\ o.tls \/ o.network \in {"grpc", "h2"}
                             /\ a.mux \in {None, "muxcool"}
         /\ type \in {"ss", "trojan", "vless", "vmess"} =>
              /\ a.mux # None <=> (o.mux # None /\ o.mux.enabled = "yes")
              /\ a.mux = "muxcool" => type \in {"vless", "vmess"}
         /\ type = "ss" /\ o.dialer # None => ~is_external_sip003_plugin(o.plugin)
         /\ type = "hysteria2" =>
              /\ a.port \in 1 .. MaxPort /\ (o.port \notin {None, 0} => a.port = o.port)
              /\ (o.obfs # None) = HasLayer(a, "salamander")
              /\ ~o.more.key /\ o.more.ech \in {None, "disabled"} /\ o.more.cwnd # 1
              /\ a.hop[1] >= 5 /\ a.hop[1] <= a.hop[2]
              /\ a.pinned = (o.fingerprint # None)

\* A bandwidth is the exact number of bytes, or an error, or the largest number there is: it
\* grows with what is written and never wraps. A hop interval is a range of at least five
\* seconds, and normalizing it twice changes nothing.
RatesExact ==
  /\ \A u \in {"b", "B"}, p \in DOMAIN Prefix, m \in 0 .. MaxWord, n \in 0 .. MaxWord :
       LET rate(k) == parse_hy2_bandwidth([n |-> k, prefix |-> p, unit |-> u])
       IN m <= n /\ rate(n) # None => rate(m) # None /\ rate(m) <= rate(n)
  /\ \A m \in 0 .. MaxWord, n \in 0 .. MaxWord :
       /\ m <= n => mbps_to_bytes_per_second(m) <= mbps_to_bytes_per_second(n)
       /\ LET r == parse_hy2_bandwidth([n |-> n, prefix |-> "M", unit |-> "b"])
          IN r # None => r = mbps_to_bytes_per_second(n)
  /\ \A s \in 0 .. 40, e \in 0 .. 40 :
       LET h == normalize_hy2_hop_interval(s, e)
       IN h[1] >= 5 /\ h[1] <= h[2] /\ normalize_hy2_hop_interval(h[1], h[2]) = h
============================================================================
