------------------------------ MODULE RuleData ------------------------------
(* What stands behind a rule: the domain trie, the rule sets and the files they    *)
(* come from (MRS, geosite .mrs and .dat, country and ASN databases), the parser    *)
(* of rule lines, the matchers of the rules and their compiled forms, and the       *)
(* process lookup.  Everything here is a function of its inputs; the properties     *)
(* compare an algorithm with what it is to compute.                                 *)
(*                                                                                 *)
(* A text is a sequence of bytes.  The bytes that occur are small numbers: 1 and 2  *)
(* are the upper case of 3 and 4, as 'A' and 'B' sort before 'a' and 'b'.           *)
(* IPv4 addresses have AddrBits bits (32 in the code), IPv6 ones WideBits (128), a  *)
(* word of a bitmap has WordBits (64), a port is at most TopPort (65535), a country *)
(* key holds KeyBytes bytes (8).  A reader that may fail returns the set of its     *)
(* result, empty on an error.                                                       *)
EXTENDS Integers, Sequences, FiniteSets, SequencesExt

CONSTANTS AddrBits, WideBits, WordBits, TopPort, KeyBytes

Dot == 0
Star == 5
Lower(c) == IF c \in {1, 2} THEN c + 2 ELSE c
LowerText(s) == [i \in DOMAIN s |-> Lower(s[i])]
EqIgnoreCase(s, t) == LowerText(s) = LowerText(t)
StartsAt(s, t, i) == i + Len(t) - 1 <= Len(s) /\ EqIgnoreCase(SubSeq(s, i, i + Len(t) - 1), t)
Holds(s, t) == \E i \in 1 .. Len(s) + 1 : StartsAt(s, t, i)
Words(S, n) == UNION {[1 .. k -> S] : k \in 0 .. n}
Sorted(S, less(_, _)) ==
  [k \in 1 .. Cardinality(S) |-> CHOOSE x \in S : Cardinality({y \in S : less(y, x)}) = k - 1]
Concat(ss) == FoldLeft(LAMBDA x, y : x \o y, <<>>, ss)

---------------------------------------------------------------------------
(* The domain trie.  A node is the path of labels from the top level down; the      *)
(* trie maps the paths to the kinds of entry that end there.                        *)

\* children.sort_by(bytes) and the comparison the search uses: a negative number, zero
\* or a positive one
CompareBytes(a, b, fold(_)) ==
  LET d == {i \in 1 .. (IF Len(a) < Len(b) THEN Len(a) ELSE Len(b)) : a[i] # fold(b[i])}
  IN IF d = {} THEN Len(a) - Len(b)
     ELSE LET i == CHOOSE i \in d : \A j \in d : i <= j IN a[i] - fold(b[i])
CompareFolding(lower, mixed) ==
  LET d == {i \in 1 .. (IF Len(lower) < Len(mixed) THEN Len(lower) ELSE Len(mixed)) : lower[i] # Lower(mixed[i])}
  IN IF d = {} THEN 0 ELSE LET i == CHOOSE i \in d : \A j \in d : i <= j IN lower[i] - Lower(mixed[i])
cmp_ascii_lower_to_mixed(lower, mixed) == CompareBytes(lower, mixed, Lower)
cmp(a, b) == CompareBytes(a, b, LAMBDA c : c)

\* DomainTrie::insert: what a pattern, its mark and its labels, puts under which path
Marks == {"", "*.", ".", "+."}
Path(labels) == [i \in DOMAIN labels |-> LowerText(labels[Len(labels) + 1 - i])]
insert(mark, labels) ==
  LET kinds == CASE mark = "" -> {"exact"} [] mark = "*." -> {"star"} [] mark = "." -> {"dot"}
                 [] mark = "+." -> {"star", "dot"}
  IN IF labels = <<>> THEN {} ELSE {[kind |-> k, path |-> Path(labels)] : k \in kinds}
BuildNode(entries) ==
  LET paths == {<<>>} \cup UNION {{SubSeq(e.path, 1, k) : k \in 1 .. Len(e.path)} : e \in entries}
  IN [p \in paths |-> {e.kind : e \in {e \in entries : e.path = p}}]

Children(trie, p) == {q[Len(q)] : q \in {q \in DOMAIN trie : Len(q) = Len(p) + 1 /\ IsPrefix(p, q)}}
into_sealed(trie) ==
  [p \in DOMAIN trie |->
     [kinds |-> trie[p], children |-> Sorted(Children(trie, p), LAMBDA a, b : cmp(a, b) < 0)]]

\* slice::binary_search_by (external): the probe says whether the element is less (< 0),
\* equal or greater than what is looked for
BinarySearch(s, probe(_)) ==
  LET f[lo \in 1 .. Len(s) + 1, hi \in 0 .. Len(s)] ==
        IF lo > hi THEN 0
        ELSE LET mid == (lo + hi) \div 2
             IN CASE probe(s[mid]) = 0 -> mid
                  [] probe(s[mid]) < 0 -> f[mid + 1, hi]
                  [] OTHER -> f[lo, mid - 1]
  IN f[1, Len(s)]

\* What the walk over the labels, the top level first, finds: a name at its end, a "*."
\* one label before it, a "+." or "." anywhere before.  step(p, label) is the child.
Lost == <<<<>>>>
Walk(kinds(_), step(_, _), labels) ==
  LET n == Len(labels)
      at[d \in 0 .. n] == IF d = 0 THEN <<>>
                          ELSE LET p == at[d - 1] IN IF p = Lost THEN Lost ELSE step(p, labels[n + 1 - d])
  IN \E d \in 1 .. n : LET p == at[d] IN p # Lost /\
       CASE d = n -> "exact" \in kinds(p)
         [] d = n - 1 -> kinds(p) \cap {"star", "dot"} # {}
         [] OTHER -> "dot" \in kinds(p)

Child(p, found) == IF found = {} THEN Lost ELSE Append(p, CHOOSE l \in found : TRUE)
search_build(trie, labels) ==
  Walk(LAMBDA p : trie[p], LAMBDA p, l : Child(p, {l} \cap Children(trie, p)), labels)
search_build_case_insensitive(trie, labels) ==
  Walk(LAMBDA p : trie[p], LAMBDA p, l : Child(p, {k \in Children(trie, p) : EqIgnoreCase(k, l)}), labels)
Descend(sealed, p, probe(_)) ==
  LET i == BinarySearch(sealed[p].children, probe)
  IN IF i = 0 THEN Lost ELSE Append(p, sealed[p].children[i])
search_sealed(sealed, labels) ==
  Walk(LAMBDA p : sealed[p].kinds, LAMBDA p, l : Descend(sealed, p, LAMBDA k : cmp(k, l)), labels)
search_sealed_case_insensitive(sealed, labels) ==
  Walk(LAMBDA p : sealed[p].kinds,
       LAMBDA p, l : Descend(sealed, p, LAMBDA k : cmp_ascii_lower_to_mixed(k, l)), labels)

Mixed(labels) == \E i \in DOMAIN labels : \E j \in DOMAIN labels[i] : labels[i][j] \in {1, 2}
search(trie, labels) ==
  IF Mixed(labels) THEN search_build_case_insensitive(trie, labels) ELSE search_build(trie, labels)
searchSealed(sealed, labels) ==
  IF Mixed(labels) THEN search_sealed_case_insensitive(sealed, labels) ELSE search_sealed(sealed, labels)

---------------------------------------------------------------------------
(* Rule sets                                                                       *)

\* DomainRuleSet::from_entries: "+.x" stands for x itself, too
DomainEntries(e) == insert(e.mark, e.labels) \cup (IF e.mark = "+." THEN insert("", e.labels) ELSE {})
DomainRuleSet(entries) == into_sealed(BuildNode(UNION {DomainEntries(e) : e \in entries}))

\* Reference: a pattern covers a name
CoversName(e, name) ==
  LET x == Reverse([i \in DOMAIN name |-> LowerText(name[i])])
      y == Path(e.labels)
      below == Len(x) - Len(y)
  IN /\ IsPrefix(y, x)
     /\ CASE e.mark = "" -> below = 0 [] e.mark = "*." -> below = 1 [] e.mark = "." -> below > 0
          [] e.mark = "+." -> below >= 0

\* The entries and names of the comparison: labels where one begins another, and where
\* upper and lower case sort apart
TrieLabels == {<<3>>, <<3, 3>>, <<3, 4>>, <<4>>}
TrieEntries == [mark : Marks, labels : {<<l>> : l \in TrieLabels} \cup {<<<<3>>, <<4>>>>, <<<<4>>, <<3, 3>>>>}]
TrieSets == {{e, f} : e \in TrieEntries, f \in TrieEntries}
              \cup {{[mark |-> m, labels |-> <<l>>] : l \in TrieLabels} : m \in Marks}
NameLabels == TrieLabels \cup {<<1>>, <<1, 3>>, <<3, 2>>, <<2>>}
TrieNames == {<<l>> : l \in NameLabels} \cup ({<<3>>, <<1, 3>>, <<4>>} \X NameLabels)
               \cup {<<<<4>>, k, l>> : k \in {<<3>>, <<2>>}, l \in NameLabels}

\* A domain rule set matches the names its lines cover and no other, in whatever case
\* the name is asked for, and so does the trie before it is sealed: sorting the labels of
\* a node, the binary search for one in another case, and the walk lose no entry.
TrieExact ==
  \A S \in TrieSets :
    LET built == BuildNode(UNION {DomainEntries(e) : e \in S})
        sealed == DomainRuleSet(S)
    IN \A name \in TrieNames :
         LET covered == \E e \in S : CoversName(e, name)
         IN searchSealed(sealed, name) = covered /\ search(built, name) = covered

---------------------------------------------------------------------------
(* Rule-set files                                                                  *)

\* ByteReader: big-endian numbers; whatever is beyond Huge is longer than every file
Huge == 2 ^ 16
BE(b) == FoldLeft(LAMBDA v, x : IF v >= Huge THEN Huge ELSE v * 256 + x, 0, b)
Bytes(n, v) == [i \in 1 .. n |-> IF n - i > 2 THEN 0 ELSE (v \div 256 ^ (n - i)) % 256]
First(d, n) == SubSeq(d, 1, n)
Drop(d, n) == SubSeq(d, n + 1, Len(d))
Negative(b) == b[1] >= 128
utf8(b) == 255 \notin ToSet(b)

MRS_MAGIC == <<77, 82, 83, 33>>
UPSTREAM_MRS_MAGIC == <<77, 82, 83, 1>>
ZSTD_MAGIC == <<40, 181, 47, 253>>
TYPE_DOMAIN == 0
TYPE_IPCIDR == 1
TYPE_CLASSICAL == 2

\* zstd (external): a frame opens with its magic number, and a cut one is an error
Compressed(b) == ZSTD_MAGIC \o Bytes(2, Len(b)) \o b
decompress_payload(c) ==
  IF Len(c) >= 6 /\ First(c, 4) = ZSTD_MAGIC /\ Len(c) = 6 + BE(SubSeq(c, 5, 6)) THEN {Drop(c, 6)} ELSE {}

parse_header(d) ==
  IF Len(d) < 10 \/ First(d, 4) # MRS_MAGIC \/ d[5] # 1 THEN {} ELSE {[type |-> d[6], rest |-> Drop(d, 10)]}

\* a length of 16 bits and as many bytes, until the payload ends
RECURSIVE parse_string_list_payload(_)
parse_string_list_payload(d) ==
  LET n == BE(First(d, 2))
  IN CASE d = <<>> -> {<<>>}
       [] Len(d) < 2 -> {}
       [] Len(d) < 2 + n \/ ~utf8(SubSeq(d, 3, 2 + n)) -> {}
       [] OTHER -> {<<SubSeq(d, 3, 2 + n)>> \o rest : rest \in parse_string_list_payload(Drop(d, 2 + n))}

\* a family, an address (of one byte here) and a prefix length
Net(family, addr, prefix) == [family |-> family, addr |-> addr, prefix |-> prefix]
RECURSIVE parse_ipcidr_payload(_)
parse_ipcidr_payload(d) ==
  CASE d = <<>> -> {<<>>}
    [] d[1] \notin {4, 16} \/ Len(d) < 3 -> {}
    [] OTHER -> {<<Net(d[1], d[2], d[3])>> \o rest : rest \in parse_ipcidr_payload(Drop(d, 3))}

\* IpCidrRuleSet: an entry whose prefix is too long is skipped; simplifying the ranges
\* (external) keeps the addresses
Width(family) == IF family = 4 THEN AddrBits ELSE WideBits
InNet(net, family, a) ==
  net.family = family /\ LET b == 2 ^ (Width(family) - net.prefix) IN a \div b = net.addr \div b
IpCidrRuleSet(entries) == {e \in ToSet(entries) : e.prefix <= Width(e.family)}
matches_ip(set, family, a) == \E net \in set : InNet(net, family, a)

\* write_ruleset_mrs and its reader
write_ruleset_mrs(type, entries) ==
  MRS_MAGIC \o <<1, type>> \o Bytes(4, Len(entries))
    \o Compressed(Concat([i \in DOMAIN entries |-> Bytes(2, Len(entries[i])) \o entries[i]]))

---------------------------------------------------------------------------
(* The domain set of an upstream file: a trie of reversed names, level by level.    *)
(* Every node writes a zero for each of its labels, then a one.                     *)

get_bit(words, i) == i \div WordBits < Len(words) /\ (words[i \div WordBits + 1] \div 2 ^ (i % WordBits)) % 2 = 1
Ones(words, upto) == Cardinality({i \in 0 .. upto - 1 : get_bit(words, i)})
DomainSetIndex(words) ==
  [rank |-> [w \in 1 .. Len(words) + 1 |-> Ones(words, (w - 1) * WordBits)],
   select |-> Sorted({i \in 0 .. Len(words) * WordBits - 1 : get_bit(words, i)}, <)]
count_zeros(index, words, n) ==
  LET upto == IF n < Len(words) * WordBits THEN n ELSE Len(words) * WordBits
      w == upto \div WordBits
  IN upto - index.rank[w + 1] - Cardinality({i \in w * WordBits .. upto - 1 : get_bit(words, i)})

\* traverse(0, 0): the words below a node; `select` counts from 1, the nodes from 0
RECURSIVE traverse(_, _, _, _)
traverse(t, node, first, current) ==
  LET label(i) == IF i < node THEN 1 ELSE i - node + 1
      next(i) == count_zeros(t.index, t.bitmap, i + 1)
      stops(i) == get_bit(t.bitmap, i) \/ label(i) > Len(t.labels) \/ next(i) > Len(t.index.select)
      run == {i \in first .. node + Len(t.labels) : \A j \in first .. i : ~stops(j)}
  IN (IF get_bit(t.leaves, node) THEN {current} ELSE {})
       \cup UNION {traverse(t, next(i), t.index.select[next(i)] + 1, Append(current, t.labels[label(i)])) : i \in run}

\* read_u64_vec: what is read, and the rest
read_u64_vec(d) ==
  IF Len(d) < 8 THEN {}
  ELSE LET n == BE(First(d, 8))
       IN IF Negative(d) \/ n < 1 \/ Len(d) < 8 + 8 * n THEN {}
          ELSE {[words |-> [i \in 1 .. n |-> BE(SubSeq(d, 8 * i + 1, 8 * i + 8))], rest |-> Drop(d, 8 + 8 * n)]}
parse_upstream_domain_set(d) ==
  IF d = <<>> \/ d[1] # 1 THEN {}
  ELSE UNION {UNION {
         LET n == BE(First(b.rest, 8))
             t == [leaves |-> a.words, bitmap |-> b.words, index |-> DomainSetIndex(b.words),
                   labels |-> SubSeq(b.rest, 9, 8 + n)]
         IN IF Len(b.rest) < 8 \/ Negative(b.rest) \/ n < 1 \/ Len(b.rest) < 8 + n THEN {}
            ELSE {{Reverse(w) : w \in {w \in traverse(t, 0, 0, <<>>) : utf8(w)}}}
         : b \in read_u64_vec(a.rest)} : a \in read_u64_vec(Drop(d, 1))}

---------------------------------------------------------------------------
(* The address set of an upstream file: ranges, split into aligned blocks           *)

TrailingZeros(bits, n) == IF n = 0 THEN bits ELSE CHOOSE k \in 0 .. bits : n % 2 ^ k = 0 /\ n % 2 ^ (k + 1) # 0
Log2(n) == CHOOSE k \in 0 .. 30 : 2 ^ k <= n /\ n < 2 ^ (k + 1)
Least(a, b) == IF a < b THEN a ELSE b
BlockBitsUnaligned(bits, start, left) == Log2(left)

BlockBits(bits, start, left) == Least(TrailingZeros(bits, start), Log2(left))

\* from `start`: the largest block that is aligned and fits; 1 << bits is 1 in a word of
\* `bits` bits
RECURSIVE Blocks(_, _, _, _)
Blocks(family, bits, start, end) ==
  LET left == end - start + 1
      b == BlockBits(bits, start, left)
      step == 2 ^ (b % bits)
      next == Least(start + step, 2 ^ bits - 1)
  IN IF start > end THEN <<>>
     ELSE <<Net(family, start, bits - b)>>
            \o (IF left = step THEN <<>> ELSE Blocks(family, bits, next, end))
push_v4_range(from, to) ==
  IF from = 0 /\ to = 2 ^ AddrBits - 1 THEN <<Net(4, 0, 0)>> ELSE Blocks(4, AddrBits, from, to)
push_v6_range(from, to) ==
  IF from = 0 /\ to = 2 ^ WideBits - 1 THEN <<Net(16, 0, 0)>> ELSE Blocks(16, WideBits, from, to)

\* the IPv4 addresses mapped into IPv6 are the block from 2^AddrBits on
Mapped(a) == a \div 2 ^ AddrBits = 1
push_range_prefixes(from, to) ==
  IF Mapped(from) /\ Mapped(to) THEN push_v4_range(from % 2 ^ AddrBits, to % 2 ^ AddrBits)
  ELSE push_v6_range(from, to)

RECURSIVE Ranges(_, _)
Ranges(d, n) ==
  IF n = 0 THEN {<<>>}
  ELSE IF Len(d) < 2 THEN {}
  ELSE {push_range_prefixes(d[1], d[2]) \o rest : rest \in Ranges(Drop(d, 2), n - 1)}
parse_upstream_ipcidr_set(d) ==
  IF Len(d) < 9 \/ d[1] # 1 \/ Negative(Drop(d, 1)) \/ BE(SubSeq(d, 2, 9)) < 1 THEN {}
  ELSE Ranges(Drop(d, 9), BE(SubSeq(d, 2, 9)))

\* the entries of an upstream file, a sequence of nets or a set of names
parse_upstream_ruleset_mrs(bytes) ==
  UNION {LET extra == BE(SubSeq(d, 14, 21))
             body == Drop(d, 21 + extra)
         IN IF \/ Len(d) < 21 \/ First(d, 4) # UPSTREAM_MRS_MAGIC
               \/ Negative(Drop(d, 5)) \/ Negative(Drop(d, 13)) \/ Len(d) < 21 + extra
               \/ d[5] \notin {TYPE_DOMAIN, TYPE_IPCIDR} THEN {}
            ELSE {[behavior |-> d[5],
                   names |-> IF d[5] = TYPE_DOMAIN THEN parse_upstream_domain_set(body) ELSE {{}},
                   nets |-> IF d[5] = TYPE_IPCIDR THEN parse_upstream_ipcidr_set(body) ELSE {<<>>}]}
         : d \in decompress_payload(bytes)}

\* build_rule_set_from_mrs_with_behavior: the lines of the set that is built; the file has
\* to be of the behavior that is asked for
FileSet(behavior, names, lines, nets) ==
  {[behavior |-> behavior, names |-> x, lines |-> y, nets |-> IpCidrRuleSet(z)] : x \in names, y \in lines, z \in nets}
build_rule_set_from_mrs_with_behavior(bytes, expected) ==
  IF Len(bytes) >= 4 /\ First(bytes, 4) = ZSTD_MAGIC
  THEN UNION {IF u.behavior # expected THEN {} ELSE FileSet(u.behavior, u.names, {<<>>}, u.nets)
              : u \in parse_upstream_ruleset_mrs(bytes)}
  ELSE UNION {IF h.type # expected \/ h.type \notin TYPE_DOMAIN .. TYPE_CLASSICAL THEN {}
              ELSE UNION {IF h.type = TYPE_IPCIDR
                          THEN FileSet(h.type, {{}}, {<<>>}, parse_ipcidr_payload(d))
                          ELSE FileSet(h.type, {{}}, parse_string_list_payload(d), {<<>>})
                          : d \in decompress_payload(h.rest)}
              : h \in parse_header(bytes)}

---------------------------------------------------------------------------
(* What is written is what is read                                                 *)

\* Reference (external, the writer of upstream files): the trie of a set of reversed words
Before(a, b) == Len(a) < Len(b) \/ (Len(a) = Len(b) /\ cmp(a, b) < 0)
Pack(bits) ==
  [w \in 1 .. (Len(bits) + WordBits - 1) \div WordBits |->
     LET on == {i \in 0 .. WordBits - 1 : (w - 1) * WordBits + i < Len(bits) /\ bits[(w - 1) * WordBits + i + 1] = 1}
     IN FoldLeft(LAMBDA v, i : v + 2 ^ i, 0, Sorted(on, <))]
Words64(words) == Bytes(8, Len(words)) \o Concat([i \in DOMAIN words |-> Bytes(8, words[i])])
DomainSetBytes(K) ==
  LET nodes == Sorted(UNION {{First(w, k) : k \in 0 .. Len(w)} : w \in K}, Before)
      kids(p) == Sorted({q[Len(q)] : q \in {q \in ToSet(nodes) : Len(q) = Len(p) + 1 /\ IsPrefix(p, q)}}, <)
      labels == Concat([i \in DOMAIN nodes |-> kids(nodes[i])])
  IN <<1>> \o Words64(Pack([i \in DOMAIN nodes |-> IF nodes[i] \in K THEN 1 ELSE 0]))
       \o Words64(Pack(Concat([i \in DOMAIN nodes |-> [k \in 1 .. Len(kids(nodes[i])) |-> 0] \o <<1>>])))
       \o Bytes(8, Len(labels)) \o labels
UpstreamFile(behavior, count, body) ==
  Compressed(UPSTREAM_MRS_MAGIC \o <<behavior>> \o Bytes(8, count) \o Bytes(8, 2) \o <<9, 9>> \o body)

SomeWords == (Words({3, 4}, 2) \ {<<>>}) \cup {<<3, 3, 4>>, <<4, 3, 3, 4>>}
SomeLists == {<<>>, <<<<3>>>>, <<<<>>>>, <<<<3, 4>>, <<>>, <<4>>>>}
Cut(d) == {First(d, k) : k \in 0 .. Len(d) - 1}

\* A rule-set file holds what was written into it: every set of names comes back from the
\* level-order trie, whatever words of the bitmap its nodes fall into; a file of another
\* behavior than the configuration names is refused; and a payload that is cut gives an
\* error or the entries before the cut, never another entry.
FilesExact ==
  /\ \A K \in SUBSET SomeWords :
       Cardinality(K) \in 1 .. 4 =>
         LET file == UpstreamFile(TYPE_DOMAIN, Cardinality(K), DomainSetBytes(K))
         IN /\ build_rule_set_from_mrs_with_behavior(file, TYPE_DOMAIN) =
                 FileSet(TYPE_DOMAIN, {{Reverse(w) : w \in K}}, {<<>>}, {<<>>})
            /\ build_rule_set_from_mrs_with_behavior(file, TYPE_IPCIDR) = {}
  /\ \A lines \in SomeLists, type \in {TYPE_DOMAIN, TYPE_CLASSICAL} :
       LET file == write_ruleset_mrs(type, lines)
       IN /\ build_rule_set_from_mrs_with_behavior(file, type) = FileSet(type, {{}}, {lines}, {<<>>})
          /\ \A other \in (TYPE_DOMAIN .. TYPE_CLASSICAL) \ {type} :
               build_rule_set_from_mrs_with_behavior(file, other) = {}
          /\ \A h \in parse_header(file) : \A d \in decompress_payload(h.rest) : \A c \in Cut(d) :
               \A got \in parse_string_list_payload(c) : IsPrefix(got, lines)

\* The prefixes a range is split into cover exactly its addresses, each of them once, at
\* both ends of the address space and for IPv4 ranges mapped into IPv6.
RangesExact ==
  \A from, to \in 0 .. 2 ^ WideBits - 1 :
    LET v4 == Mapped(from) /\ Mapped(to)
        file == UpstreamFile(TYPE_IPCIDR, 1, <<1>> \o Bytes(8, 1) \o <<from, to>>)
        nets == push_range_prefixes(from, to)
    IN /\ \A a \in 0 .. 2 ^ WideBits - 1 :
            Cardinality({i \in DOMAIN nets : IF v4 THEN Mapped(a) /\ InNet(nets[i], 4, a % 2 ^ AddrBits)
                                             ELSE InNet(nets[i], 16, a)})
              = IF a \in from .. to THEN 1 ELSE 0
       /\ \A i \in DOMAIN nets : nets[i].addr % 2 ^ (Width(nets[i].family) - nets[i].prefix) = 0
       /\ build_rule_set_from_mrs_with_behavior(file, TYPE_IPCIDR) = FileSet(TYPE_IPCIDR, {{}}, {<<>>}, {nets})

---------------------------------------------------------------------------
(* Geosite databases.  A database maps a category to its patterns, its keywords and *)
(* its regular expressions; "c@a" holds the entries of c with the attribute a.      *)

Plus == 6
At == 7
Split(t, sep) ==
  LET cuts == <<0>> \o Sorted({i \in DOMAIN t : t[i] = sep}, <) \o <<Len(t) + 1>>
  IN [k \in 1 .. Len(cuts) - 1 |-> SubSeq(t, cuts[k] + 1, cuts[k + 1] - 1)]
Pattern(t) ==
  CASE IsPrefix(<<Plus, Dot>>, t) -> [mark |-> "+.", labels |-> Split(Drop(t, 2), Dot)]
    [] IsPrefix(<<Star, Dot>>, t) -> [mark |-> "*.", labels |-> Split(Drop(t, 2), Dot)]
    [] IsPrefix(<<Dot>>, t) -> [mark |-> ".", labels |-> Split(Drop(t, 1), Dot)]
    [] OTHER -> [mark |-> "", labels |-> Split(t, Dot)]
Inserted(texts) == UNION {LET e == Pattern(t) IN insert(e.mark, e.labels) : t \in texts}
Bucket(texts, keywords, regexes) ==
  [trie |-> into_sealed(BuildNode(Inserted(texts))), keywords |-> keywords, regexes |-> regexes]

\* the allow-list of categories; one that holds the empty name stands for none
Permits(allowed, name) == <<>> \in allowed \/ name \in allowed

\* parse_geosite_payload: the categories that are allowed; the domains of another are read
\* over.  A text is a length of 16 bits and its bytes.
ReadText(d) ==
  IF Len(d) < 2 \/ Len(d) < 2 + BE(First(d, 2)) THEN {}
  ELSE {[text |-> SubSeq(d, 3, 2 + BE(First(d, 2))), rest |-> Drop(d, 2 + BE(First(d, 2)))]}
RECURSIVE ReadTexts(_, _, _)
ReadTexts(d, n, keep) ==
  IF n = 0 THEN {[texts |-> <<>>, rest |-> d]}
  ELSE UNION {IF keep /\ ~utf8(t.text) THEN {}
              ELSE {[texts |-> <<LowerText(t.text)>> \o r.texts, rest |-> r.rest] : r \in ReadTexts(t.rest, n - 1, keep)}
              : t \in ReadText(d)}
RECURSIVE Categories(_, _, _)
Categories(d, n, allowed) ==
  IF n = 0 THEN {<<>>}
  ELSE UNION {LET name == LowerText(t.text)
                  kept == Permits(allowed, name)
              IN IF ~utf8(t.text) \/ Len(t.rest) < 4 THEN {}
                 ELSE UNION {{(IF kept THEN <<[name |-> name, domains |-> ds.texts]>> ELSE <<>>) \o more :
                              more \in Categories(ds.rest, n - 1, allowed)}
                             : ds \in ReadTexts(Drop(t.rest, 4), BE(First(t.rest, 4)), kept)}
              : t \in ReadText(d)}
parse_geosite_payload(d, allowed) ==
  IF Len(d) < 4 THEN {} ELSE Categories(Drop(d, 4), BE(First(d, 4)), allowed)

Text16(t) == Bytes(2, Len(t)) \o t
encode_geosite_payload(cats) ==
  Bytes(4, Len(cats))
    \o Concat([i \in DOMAIN cats |-> Text16(cats[i].name) \o Bytes(4, Len(cats[i].domains))
                 \o Concat([k \in DOMAIN cats[i].domains |-> Text16(cats[i].domains[k])])])
write_geosite_mrs(cats) ==
  MRS_MAGIC \o <<1, TYPE_DOMAIN>> \o Bytes(4, Len(cats)) \o Compressed(encode_geosite_payload(cats))

\* categories.insert(name, trie): of two categories of one name the later one stays
MrsDb(cats) ==
  [c \in {cats[i].name : i \in DOMAIN cats} |->
     LET last == CHOOSE i \in DOMAIN cats : cats[i].name = c /\ \A j \in DOMAIN cats : cats[j].name = c => j <= i
     IN Bucket(ToSet(cats[last].domains), {}, {})]

---------------------------------------------------------------------------
(* The .dat form, a protobuf message                                               *)

\* PbReader::read_varint: seven bits a byte, at most ten bytes
read_varint(d) ==
  LET ends == {k \in 1 .. Least(Len(d), 10) : d[k] < 128}
  IN IF ends = {} THEN {}
     ELSE LET k == CHOOSE k \in ends : \A j \in ends : k <= j
              value == FoldLeft(LAMBDA v, i : IF v >= Huge THEN Huge ELSE v * 128 + (d[k + 1 - i] % 128), 0, [i \in 1 .. k |-> i])
          IN {[value |-> value, rest |-> Drop(d, k)]}

\* The fields of a message: read_tag, then the varint, the bytes, or the eight or four
\* bytes that the wire type names.  read_length_delimited and skip_field go over the same
\* bytes.
Field(f, w, v, b) == [field |-> f, wire |-> w, value |-> v, bytes |-> b]
RECURSIVE Fields(_)
Fields(d) ==
  IF d = <<>> THEN {<<>>}
  ELSE UNION {
    LET f == t.value \div 8
        w == t.value % 8
        fixed == IF w = 1 THEN 8 ELSE 4
    IN CASE w = 0 -> UNION {{<<Field(f, w, v.value, <<>>)>> \o more : more \in Fields(v.rest)} : v \in read_varint(t.rest)}
         [] w = 2 -> UNION {IF Len(v.rest) < v.value THEN {}
                            ELSE {<<Field(f, w, 0, First(v.rest, v.value))>> \o more : more \in Fields(Drop(v.rest, v.value))}
                            : v \in read_varint(t.rest)}
         [] w \in {1, 5} -> IF Len(t.rest) < fixed THEN {}
                            ELSE {<<Field(f, w, 0, <<>>)>> \o more : more \in Fields(Drop(t.rest, fixed))}
         [] OTHER -> {}
    : t \in read_varint(d)}
Having(fs, f, w) == {i \in DOMAIN fs : fs[i].field = f /\ fs[i].wire = w}
LastField(fs, f, w) == CHOOSE i \in Having(fs, f, w) : \A j \in Having(fs, f, w) : j <= i

DOMAIN_TYPE_PLAIN == 0
DOMAIN_TYPE_REGEX == 1
DOMAIN_TYPE_DOMAIN == 2
DOMAIN_TYPE_FULL == 3
BadRegex == 250

AllUtf8(fs, f) == \A i \in Having(fs, f, 2) : utf8(fs[i].bytes)
parse_attribute_key(d) ==
  {LET keys == {i \in Having(fs, 1, 2) : fs[i].bytes # <<>>}
   IN IF keys = {} THEN <<>> ELSE LowerText(fs[CHOOSE i \in keys : \A j \in keys : j <= i].bytes)
   : fs \in {fs \in Fields(d) : AllUtf8(fs, 1)}}
\* the empty value stands for an entry that is left out; without a type it is a keyword
parse_domain_entry(d) ==
  UNION {LET keys == [i \in Having(fs, 3, 2) |-> parse_attribute_key(fs[i].bytes)]
         IN IF \E i \in DOMAIN keys : keys[i] = {} THEN {}
            ELSE {[type |-> IF Having(fs, 1, 0) = {} THEN DOMAIN_TYPE_PLAIN ELSE fs[LastField(fs, 1, 0)].value,
                   value |-> IF Having(fs, 2, 2) = {} THEN <<>> ELSE LowerText(fs[LastField(fs, 2, 2)].bytes),
                   attrs |-> UNION {keys[i] : i \in DOMAIN keys} \ {<<>>}]}
         : fs \in {fs \in Fields(d) : AllUtf8(fs, 2)}}

\* parse_geosite_entry: the country may come after its domains, which are kept until then;
\* the items are what insert_domain_entry is called with
RECURSIVE Collect(_, _)
Collect(country, datas) ==
  IF datas = <<>> THEN {{}}
  ELSE UNION {{(IF e.value = <<>> THEN {}
                ELSE {[cat |-> c, type |-> e.type, value |-> e.value] :
                      c \in {country} \cup {country \o <<At>> \o a : a \in e.attrs}}) \cup more :
               more \in Collect(country, Tail(datas))} : e \in parse_domain_entry(Head(datas))}
parse_geosite_entry(d, allowed) ==
  UNION {LET code(i) == LowerText(fs[i].bytes)
             denied == {i \in Having(fs, 1, 2) : ~Permits(allowed, code(i))}
             domains == Sorted({i \in Having(fs, 2, 2) : \A j \in denied : i < j}, <)
         IN CASE Having(fs, 1, 2) = {} -> {{}}
              [] ~Permits(allowed, code(LastField(fs, 1, 2))) -> {{}}
              [] OTHER -> Collect(code(LastField(fs, 1, 2)), [k \in DOMAIN domains |-> fs[domains[k]].bytes])
         : fs \in {fs \in Fields(d) : AllUtf8(fs, 1)}}

\* insert_domain_entry and from_parts: a domain is its own name, too; a regular expression
\* that does not compile is left out, its category is not
DatBucket(items) ==
  LET of(type) == {x.value : x \in {x \in items : x.type = type}}
  IN Bucket(of(DOMAIN_TYPE_FULL) \cup of(DOMAIN_TYPE_DOMAIN) \cup {<<Plus, Dot>> \o v : v \in of(DOMAIN_TYPE_DOMAIN)},
            of(DOMAIN_TYPE_PLAIN), {v \in of(DOMAIN_TYPE_REGEX) : BadRegex \notin ToSet(v)})
RECURSIVE Items(_, _)
Items(fs, allowed) ==
  IF fs = <<>> THEN {{}}
  ELSE IF fs[1].field # 1 \/ fs[1].wire # 2 THEN Items(Tail(fs), allowed)
  ELSE {x \cup more : x \in parse_geosite_entry(fs[1].bytes, allowed), more \in Items(Tail(fs), allowed)}
from_dat_bytes(d, allowed) ==
  UNION {{[c \in {x.cat : x \in items} |-> DatBucket({x \in items : x.cat = c})] : items \in Items(fs, allowed)}
         : fs \in Fields(d)}

\* GeositeDB::from_bytes: what does not open with the MRS magic is taken for a .dat
from_bytes(d, allowed) ==
  IF Len(d) < 4 \/ First(d, 4) # MRS_MAGIC THEN from_dat_bytes(d, allowed)
  ELSE UNION {IF h.type # TYPE_DOMAIN THEN {}
              ELSE UNION {{MrsDb(cats) : cats \in parse_geosite_payload(p, allowed)} : p \in decompress_payload(h.rest)}
              : h \in parse_header(d)}

---------------------------------------------------------------------------
(* Lookups in a geosite database                                                   *)

UpperIn(t) == ToSet(t) \cap {1, 2} # {}
Found(s, t) == \E i \in 1 .. Len(s) + 1 : i + Len(t) - 1 <= Len(s) /\ SubSeq(s, i, i + Len(t) - 1) = t
split_category_attrs(c) ==
  LET parts == Split(c, At)
  IN [base |-> parts[1], attrs |-> {LowerText(parts[i]) : i \in 2 .. Len(parts)} \ {<<>>}]
Needed(c) ==
  LET s == split_category_attrs(c)
  IN IF s.attrs = {} THEN {s.base} ELSE {s.base \o <<At>> \o a : a \in s.attrs}
\* a key in upper case is looked for without its case
category_key(db, c) ==
  IF UpperIn(c) THEN {k \in DOMAIN db : EqIgnoreCase(k, c)} ELSE {c}
\* a regular expression (external) is taken for its text
lookup_resolved(db, key, host) ==
  key \in DOMAIN db /\ \/ searchSealed(db[key].trie, Split(host, Dot))
                       \/ \E k \in db[key].keywords \cup db[key].regexes : Found(host, k)
lookup_one(db, c, host) == \E key \in category_key(db, c) : lookup_resolved(db, key, host)
lookup(db, c, host) == \A k \in Needed(c) : lookup_one(db, k, host)
bucket_exists(db, key) == key \in DOMAIN db
\* the keys of the compiled rule, or none
resolve_keys(db, c) ==
  IF split_category_attrs(c).base = <<>> \/ \E k \in Needed(c) : ~\E key \in category_key(db, k) : bucket_exists(db, key)
  THEN {} ELSE {UNION {category_key(db, k) : k \in Needed(c)}}

GeoSiteRule(db, payload, host) ==
  LET c == LowerText(payload) IN c # <<>> /\ host # <<>> /\ lookup(db, c, host)
never_matches(db, payload) == LowerText(payload) = <<>> \/ resolve_keys(db, LowerText(payload)) = {}
CompiledGeoSite(db, keys, host) == host # <<>> /\ \A k \in keys : lookup_resolved(db, k, host)

---------------------------------------------------------------------------
(* Databases of up to two categories, written in several orders of their fields     *)

LenField(f, b) == <<f * 8 + 2, Len(b)>> \o b
Unknown == {<<>>, <<9 * 8, 200, 1>>, <<9 * 8 + 5, 1, 1, 1, 1>>}
DomainBytes(e, junk) ==
  Concat([i \in DOMAIN e.attrs |-> LenField(3, LenField(1, e.attrs[i]))]) \o junk
    \o (IF e.type = DOMAIN_TYPE_PLAIN THEN <<>> ELSE <<8, e.type>>) \o LenField(2, e.value)
EntryBytes(c, first, junk) ==
  LET code == LenField(1, c.name)
      domains == Concat([i \in DOMAIN c.domains |-> LenField(2, DomainBytes(c.domains[i], junk))])
  IN LenField(1, IF first THEN code \o junk \o domains ELSE domains \o junk \o code)
DatBytes(cats, first, junk) == Concat([i \in DOMAIN cats |-> EntryBytes(cats[i], first, junk) \o junk])

E(type, value, attrs) == [type |-> type, value |-> value, attrs |-> attrs]
SomeEntries == {E(DOMAIN_TYPE_PLAIN, <<4, 3>>, <<>>), E(DOMAIN_TYPE_REGEX, <<BadRegex>>, <<>>),
                E(DOMAIN_TYPE_DOMAIN, <<1>>, <<<<4>>>>), E(DOMAIN_TYPE_FULL, <<3, Dot, 4>>, <<<<3>>, <<4>>>>)}
EntryLists == {<<>>} \cup {<<e>> : e \in SomeEntries} \cup {<<E(DOMAIN_TYPE_FULL, <<4>>, <<<<3>>>>), e>> : e \in SomeEntries}
Category(name, domains) == [name |-> name, domains |-> domains]
DatFiles == {<<Category(<<1>>, l), Category(<<4>>, m)>> : l \in EntryLists, m \in {<<>>, <<E(DOMAIN_TYPE_DOMAIN, <<4>>, <<>>)>>}}
Allows == {{<<>>}, {<<3>>}, {<<4>>}}
Asked == {<<3>>, <<1>>, <<4>>, <<3, At, 3>>, <<1, At, 2>>, <<3, At, 4, At, 1>>, <<At, 3>>, <<>>}
GeoHosts == {<<>>, <<3>>, <<4>>, <<1, Dot, 4>>, <<4, Dot, 3>>, <<4, 3, Dot, 4>>}

\* Reference: some entry of the category, with the attribute, covers the host
Covered(cats, allowed, name, attr, host) ==
  \E i \in DOMAIN cats :
    /\ LowerText(cats[i].name) = name /\ Permits(allowed, name)
    /\ \E k \in DOMAIN cats[i].domains :
         LET e == cats[i].domains[k]
         IN /\ attr = <<>> \/ attr \in {LowerText(e.attrs[j]) : j \in DOMAIN e.attrs}
            /\ CASE e.type = DOMAIN_TYPE_PLAIN -> Found(host, LowerText(e.value))
                 [] e.type = DOMAIN_TYPE_REGEX -> FALSE
                 [] e.type = DOMAIN_TYPE_DOMAIN -> CoversName([mark |-> "+.", labels |-> Split(e.value, Dot)], Split(host, Dot))
                 [] OTHER -> CoversName([mark |-> "", labels |-> Split(e.value, Dot)], Split(host, Dot))

\* A GEOSITE rule matches the hosts of its category that carry all of its attributes and
\* no other, however the file orders and pads its fields, and whether or not the file was
\* cut down to the categories in use; the compiled rule agrees, and a rule that is dropped
\* because it never matches matched nothing.  A file that is cut is refused or is the file
\* of fewer categories.
GeositeExact ==
  \A cats \in DatFiles :
    /\ \A allowed \in Allows, first \in BOOLEAN, junk \in Unknown :
         \E db \in from_bytes(DatBytes(cats, first, junk), allowed) :
           \A c \in Asked, host \in GeoHosts :
             LET want == LET s == split_category_attrs(LowerText(c))
                         IN /\ host # <<>> /\ s.base # <<>>
                            /\ \A a \in (IF s.attrs = {} THEN {<<>>} ELSE s.attrs) : Covered(cats, allowed, s.base, a, host)
             IN /\ GeoSiteRule(db, c, host) = want
                /\ never_matches(db, c) => ~want
                /\ \A keys \in resolve_keys(db, LowerText(c)) : CompiledGeoSite(db, keys, host) = want
    /\ \A d \in Cut(DatBytes(cats, TRUE, <<>>)) :
         from_bytes(d, {<<>>}) \subseteq {CHOOSE db \in from_bytes(DatBytes(First(cats, k), TRUE, <<>>), {<<>>}) : TRUE : k \in 0 .. 1}

\* The .mrs form: what is written is read, less the categories that are not in use, and
\* no file that is cut is taken for a smaller database.
MrsCats == {<<>>, <<Category(<<1>>, <<<<3>>, <<Plus, Dot, 4>>>>)>>,
            <<Category(<<3>>, <<<<Star, Dot, 3>>>>), Category(<<4>>, <<>>), Category(<<3, 4>>, <<<<2>>>>)>>}
GeositePayloadExact ==
  \A cats \in MrsCats, allowed \in Allows :
    /\ parse_geosite_payload(encode_geosite_payload(cats), allowed) =
         {LET low == [i \in DOMAIN cats |-> Category(LowerText(cats[i].name), [k \in DOMAIN cats[i].domains |-> LowerText(cats[i].domains[k])])]
          IN SelectSeq(low, LAMBDA c : Permits(allowed, c.name))}
    /\ \A d \in Cut(encode_geosite_payload(cats)) : parse_geosite_payload(d, allowed) = {}
    /\ Cardinality(from_bytes(write_geosite_mrs(cats), allowed)) = 1

---------------------------------------------------------------------------
(* Rule lines.  A line is a sequence of tokens: "(", ")", ",", " " and words.  A    *)
(* rule is its type, its inner rules, its payload, its adapter and whether it says  *)
(* no-resolve.                                                                     *)

Earliest(I) == CHOOSE i \in I : \A j \in I : i <= j
Latest(I) == CHOOSE i \in I : \A j \in I : i >= j
trim(s) ==
  LET w == {i \in DOMAIN s : s[i] # " "}
  IN IF w = {} THEN <<>> ELSE SubSeq(s, Earliest(w), Latest(w))
RECURSIVE splitn(_, _)
splitn(s, n) ==
  LET c == {i \in DOMAIN s : s[i] = ","}
  IN IF n = 1 \/ c = {} THEN <<s>>
     ELSE <<First(s, Earliest(c) - 1)>> \o splitn(Drop(s, Earliest(c)), n - 1)

Upper(word) == CASE word = "and" -> "AND" [] word = "or" -> "OR" [] word = "not" -> "NOT" [] OTHER -> word
LogicTypes == {"AND", "OR", "NOT"}
LogicType(s) == {t \in LogicTypes : Len(splitn(s, 2)) = 2 /\ [i \in DOMAIN trim(splitn(s, 2)[1]) |-> Upper(trim(splitn(s, 2)[1])[i])] = <<t>>}
Resolving == {"IP-CIDR", "SRC-IP-CIDR", "GEOIP", "GEOSITE", "IP-SUFFIX", "SRC-IP-SUFFIX", "IP-ASN"}
Sure == {"DOMAIN", "DOMAIN-SUFFIX", "DOMAIN-KEYWORD", "PROCESS-NAME"}
NeedsGeoip == {"GEOIP", "SRC-GEOIP"}
NeedsAsn == {"IP-ASN", "SRC-IP-ASN"}
Checked == {"DOMAIN-REGEX", "DOMAIN-WILDCARD", "PROCESS-PATH", "IP-CIDR", "SRC-IP-CIDR", "SRC-PORT", "DST-PORT",
            "NETWORK", "GEOSITE", "IN-PORT", "IN-NAME", "IN-TYPE", "IN-USER", "DSCP", "UID",
            "IP-SUFFIX", "SRC-IP-SUFFIX"}
\* whether the constructor of a rule takes its payload: "bad" is one it refuses
Accepts(type, payload, ctx) ==
  \/ type \in Sure
  \/ type \in Checked \cup (NeedsAsn \cap ctx) /\ payload # <<"bad">>
  \/ type \in NeedsGeoip \cap ctx
RuleOf(type, kids, payload, adapter, noResolve) ==
  [type |-> type, kids |-> kids, payload |-> payload, adapter |-> adapter, noResolve |-> noResolve]

\* the places where the parentheses opened so far, depth of them, are all closed
Depth(s, i) == Cardinality({k \in 1 .. i : s[k] = "("}) - Cardinality({k \in 1 .. i : s[k] = ")"})
Closes(s, depth) == {i \in DOMAIN s : s[i] = ")" /\ depth + Depth(s, i) = 0}
\* a group would end at the first parenthesis
GroupsShallow(s) ==
  LET k == {i \in DOMAIN s : s[i] = "("}
      e == {i \in DOMAIN s : s[i] = ")"}
  IN IF k = {} \/ e = {} THEN {} ELSE {<<SubSeq(s, Earliest(k) + 1, Earliest(e) - 1)>>}
RECURSIVE split_logic_groups(_)
split_logic_groups(s) ==
  LET k == {i \in DOMAIN s : s[i] \notin {" ", ","}}
      rest == Drop(s, Earliest(k))
      e == Closes(rest, 1)
  IN IF k = {} THEN {<<>>}
     ELSE IF s[Earliest(k)] # "(" \/ e = {} THEN {}
     ELSE {<<First(rest, Earliest(e) - 1)>> \o g : g \in split_logic_groups(Drop(rest, Earliest(e)))}

Placeholder == <<"PLACEHOLDER">>
\* rule_set.rs and parser.rs: an entry without adapter gets one, before what follows the
\* payload
splice_placeholder_adapter(entry) ==
  LET p == splitn(entry, 3)
  IN CASE Len(p) = 2 -> trim(p[1]) \o <<",">> \o trim(p[2]) \o <<",">> \o Placeholder
       [] Len(p) = 3 -> trim(p[1]) \o <<",">> \o trim(p[2]) \o <<",">> \o Placeholder \o <<",">> \o trim(p[3])
       [] OTHER -> entry
splice_inner_adapter(entry) ==
  IF LogicType(entry) # {} THEN entry \o <<",">> \o Placeholder ELSE splice_placeholder_adapter(entry)

ParseLeaf(line, ctx) ==
  LET p == [i \in DOMAIN splitn(line, 4) |-> trim(splitn(line, 4)[i])]
      extra == Len(p) = 4 /\ p[4] \in {<<"no-resolve">>, <<"NO-RESOLVE">>}
  IN CASE Len(p) < 2 -> {}
       [] Len(p) >= 2 /\ p[1] = <<"MATCH">> -> {RuleOf("MATCH", <<>>, <<>>, p[2], FALSE)}
       [] Len(p) = 2 /\ p[1] # <<"MATCH">> -> {}
       [] OTHER -> {RuleOf(t, <<>>, p[2], p[3], extra /\ t \in Resolving) :
                      t \in {t \in Sure \cup Checked \cup NeedsGeoip \cup NeedsAsn : p[1] = <<t>> /\ Accepts(t, p[2], ctx)}}
RECURSIVE parse_rule(_, _)
parse_logic_rule(type, text, ctx) ==
  LET rest == trim(text)
      e == Closes(rest, 0)
      tail == trim(Drop(rest, Earliest(e)))
      adapter == trim(Drop(tail, 1))
      Inner(g) == parse_rule(splice_inner_adapter(trim(g)), ctx)
  IN IF rest = <<>> \/ Head(rest) # "(" \/ e = {} THEN {}
     ELSE IF tail = <<>> \/ Head(tail) # "," \/ adapter = <<>> THEN {}
     ELSE {RuleOf(type, [i \in DOMAIN g |-> CHOOSE r \in Inner(g[i]) : TRUE], <<>>, adapter, FALSE) :
             g \in {g \in split_logic_groups(SubSeq(rest, 2, Earliest(e) - 1)) :
                      /\ g # <<>> /\ (type = "NOT" => Len(g) = 1)
                      /\ \A i \in DOMAIN g : Inner(g[i]) # {}}}
parse_rule(line, ctx) ==
  IF LogicType(line) = {} THEN ParseLeaf(line, ctx)
  ELSE parse_logic_rule(CHOOSE t \in LogicType(line) : TRUE, splitn(line, 2)[2], ctx)

\* ClassicalRuleSet::from_entries: an entry that does not parse is left out
ClassicalRuleSet(entries, ctx) ==
  Concat([i \in DOMAIN entries |->
            LET e == trim(entries[i])
                r == parse_rule(splice_placeholder_adapter(e), ctx)
            IN IF e = <<>> \/ r = {} THEN <<>> ELSE <<CHOOSE x \in r : TRUE>>])

\* how a rule of the tree t is written, nested ones in parentheses; spaced: with blanks
\* wherever they may stand; small: with the logic types in lower case
Lowered(t) == CASE t = "AND" -> "and" [] t = "OR" -> "or" [] t = "NOT" -> "not" [] OTHER -> t
RECURSIVE Written(_, _)
Written(t, small) ==
  IF t.type \in LogicTypes
  THEN <<IF small THEN Lowered(t.type) ELSE t.type, ",", "(">>
       \o Concat([i \in DOMAIN t.kids |-> (IF i = 1 THEN <<"(">> ELSE <<",", "(">>) \o Written(t.kids[i], small) \o <<")">>]) \o <<")">>
  ELSE <<t.type, ",">> \o t.payload \o (IF t.noResolve THEN <<",", "no-resolve">> ELSE <<>>)
WrittenTop(t, small) ==
  IF t.type \in LogicTypes THEN Written(t, small) \o <<",">> \o t.adapter
  ELSE <<t.type, ",">> \o t.payload \o <<",">> \o t.adapter \o (IF t.noResolve THEN <<",", "NO-RESOLVE">> ELSE <<>>)
Spaced(s) == Concat([i \in DOMAIN s |-> IF s[i] \in {",", "(", ")"} THEN <<" ", s[i], " ">> ELSE <<s[i]>>])

LeafTrees(adapter) ==
  {RuleOf(t, <<>>, <<"x">>, adapter, FALSE) : t \in {"DOMAIN", "DST-PORT"}}
    \cup {RuleOf("GEOIP", <<>>, <<"x">>, adapter, b) : b \in BOOLEAN}
LogicTrees(inner, adapter) ==
  {RuleOf("NOT", <<k>>, <<>>, adapter, FALSE) : k \in inner}
    \cup {RuleOf(t, <<k, l>>, <<>>, adapter, FALSE) : t \in {"AND", "OR"}, k, l \in inner}
Deep == LET one == LogicTrees({RuleOf("DOMAIN", <<>>, <<"x">>, Placeholder, FALSE)}, Placeholder)
        IN LogicTrees(one \cup LeafTrees(Placeholder), <<"P">>)
Shallow == LeafTrees(<<"P">>)
WithoutAt(s, i) == First(s, i - 1) \o Drop(s, i)

\* A rule line is read as the tree it writes, whatever the case of its logic types and
\* wherever blanks stand; a line that has lost one of its parentheses, or whose payload a
\* constructor refuses, is refused and never read as another rule.  An entry of a classical
\* rule set is read as the same line with an adapter, and an entry that does not parse
\* takes no other entry with it.
ParsedExact ==
  /\ \A t \in Deep \cup Shallow, small, spaced \in BOOLEAN :
       LET line == IF spaced THEN Spaced(WrittenTop(t, small)) ELSE WrittenTop(t, small)
       IN parse_rule(line, NeedsGeoip) = {t}
  /\ \A t \in Deep : LET line == WrittenTop(t, FALSE)
                     IN \A i \in {i \in DOMAIN line : line[i] \in {"(", ")"}} :
                          parse_rule(WithoutAt(line, i), NeedsGeoip) = {}
  /\ \A t \in Shallow : parse_rule(WrittenTop([t EXCEPT !.payload = <<"bad">>], FALSE), {}) # {} => t.type \in Sure
  /\ \A t \in LeafTrees(Placeholder), u \in LeafTrees(Placeholder) :
       ClassicalRuleSet(<<Written(t, FALSE), <<"junk">>, <<" ">>, Spaced(Written(u, FALSE))>>, NeedsGeoip) = <<t, u>>

---------------------------------------------------------------------------
(* The matchers of the rules and what CompiledRuleSet makes of them.  A host is     *)
(* what rule_host returns: the sniffed name if there is one, else the host.         *)

rule_host(m) == IF m.sniffed = <<>> THEN m.host ELSE m.sniffed
DomainRule(domain, host) == EqIgnoreCase(host, LowerText(domain))
EndsWith(host, s) == Len(host) >= Len(s) /\ EqIgnoreCase(Drop(host, Len(host) - Len(s)), s)
DomainSuffixRule(suffix, host) ==
  EndsWith(host, suffix) /\ (Len(host) = Len(suffix) \/ host[Len(host) - Len(suffix)] = Dot)
DomainKeywordRule(keyword, host) == Holds(host, keyword)

\* regex (external): a literal matches itself, "[^.]+" one or more bytes but the dot, both
\* in any case; the dot of a plain pattern any byte.  '*' stands for "[^.]+" here.
RECURSIVE WildcardRegex(_, _)
WildcardRegex(p, h) ==
  IF p = <<>> THEN h = <<>>
  ELSE IF Head(p) = Star
       THEN \E k \in 1 .. Len(h) : (\A i \in 1 .. k : h[i] # Dot) /\ WildcardRegex(Tail(p), Drop(h, k))
       ELSE h # <<>> /\ Lower(Head(p)) = Lower(Head(h)) /\ WildcardRegex(Tail(p), Tail(h))
PlainRegex(p, h) ==
  \E i \in 0 .. Len(h) - Len(p) : \A k \in DOMAIN p : p[k] \in {Dot, h[i + k]}
DomainWildcardRule(p, host) == host # <<>> /\ WildcardRegex(p, host)
DomainRegexRule(p, host) == PlainRegex(p, host)

\* the compiled forms
required_literal_from_plain_regex(p) == IF p = <<>> \/ \E i \in DOMAIN p : p[i] = Dot THEN {} ELSE {LowerText(p)}
RegexMatcher(literal, matches, host) == (\A l \in literal : Holds(host, l)) /\ matches
required_literal_from_wildcard(p) ==
  LET parts == {t \in {Split(p, Star)[i] : i \in DOMAIN Split(p, Star)} : t # <<>>}
      longest == {t \in parts : \A u \in parts : Len(u) <= Len(t)}
  IN IF parts = {} THEN {} ELSE {LowerText(CHOOSE t \in longest : TRUE)}
GapAcross(host, pos, needle) ==
  {i \in pos + 1 .. Len(host) - Len(needle) : StartsAt(host, needle, i + 1)}
find_after_dotfree_gap(host, pos, needle) ==
  {i \in pos + 1 .. Len(host) - Len(needle) :
     StartsAt(host, needle, i + 1) /\ \A k \in pos + 1 .. i : host[k] # Dot}
GlobMatcher(pieces, host) ==
  LET n == Len(pieces)
      \* where the text up to piece k ends, -1 if it is not found
      end[k \in 1 .. n] ==
        IF k = 1 THEN (IF StartsAt(host, pieces[1], 1) THEN Len(pieces[1]) ELSE -1)
        ELSE IF end[k - 1] = -1 THEN -1
        ELSE LET at == find_after_dotfree_gap(host, end[k - 1], pieces[k])
             IN IF at = {} THEN -1 ELSE Earliest(at) + Len(pieces[k])
      tail == Len(host) - Len(pieces[n])
  IN IF n = 1 THEN EqIgnoreCase(host, pieces[1])
     ELSE /\ end[n - 1] # -1 /\ tail > end[n - 1]
          /\ EndsWith(host, pieces[n])
          /\ \A k \in end[n - 1] + 1 .. tail : host[k] # Dot
compile_domain_wildcard(p, host) ==
  LET pieces == Split(p, Star)
  IN IF \E i \in 2 .. Len(pieces) - 1 : pieces[i] = <<>>
     THEN RegexMatcher(required_literal_from_wildcard(p), WildcardRegex(p, host), host)
     ELSE GlobMatcher(pieces, host)
compile_domain_regex(p, host) == RegexMatcher(required_literal_from_plain_regex(p), DomainRegexRule(p, host), host)

\* DomainIndex: which payloads the trie takes over, and what it is asked for
indexable_any(p) == p # <<>>
indexable_pattern(p) ==
  /\ p # <<>> /\ p[1] \notin {Dot, Star, Plus} /\ p[Len(p)] # Dot
  /\ \A i \in 1 .. Len(p) - 1 : ~(p[i] = Dot /\ p[i + 1] = Dot)
star_wildcard_indexable(p) ==
  /\ Len(p) >= 2 /\ p[1] = Star /\ p[2] = Dot
  /\ indexable_pattern(Drop(p, 2)) /\ \A i \in 3 .. Len(p) : p[i] # Star
insert_rule(type, p) ==
  CASE type = "DOMAIN" -> IF indexable_pattern(p) THEN Inserted({p}) ELSE {}
    [] type = "DOMAIN-SUFFIX" -> IF indexable_pattern(p) THEN Inserted({<<Plus, Dot>> \o p, p}) ELSE {}
    [] type = "DOMAIN-WILDCARD" -> IF star_wildcard_indexable(p) THEN Inserted({p}) ELSE {}
DomainIndex(type, p, host) == search_sealed(into_sealed(BuildNode(insert_rule(type, p))), Split(host, Dot))
RuleMatches(type, p, host) ==
  CASE type = "DOMAIN" -> DomainRule(p, host) [] type = "DOMAIN-SUFFIX" -> DomainSuffixRule(p, host)
    [] type = "DOMAIN-WILDCARD" -> DomainWildcardRule(p, host)

\* Hosts as connections have them: lower case, labels not empty
Wilds == Words({3, Dot, Star}, 4)
WildHosts == Words({1, 4, 3, Dot}, 3) \cup [1 .. 4 -> {1, Dot}] \cup [1 .. 5 -> {3, Dot}]
Indexed == Words({3, 1, Dot, Star, Plus}, 3) \cup {<<Star, Dot>> \o w : w \in Words({3, Dot, Star}, 3)}
IndexHosts == {h \in Words({3, 4, Dot}, 4) : \A l \in Range(Split(h, Dot)) : l # <<>>}

\* A DOMAIN-WILDCARD, compiled to a comparison of pieces or to a regular expression with a
\* literal searched first, matches the hosts its rule matches; so does a DOMAIN-REGEX
\* behind its literal; and a payload that the trie takes over from the scan matches in the
\* trie what the rule matches, whatever dots, stars and plus signs it has.
HostMatchersExact ==
  /\ \A p \in Wilds, h \in WildHosts \ {<<>>} : compile_domain_wildcard(p, h) = DomainWildcardRule(p, h)
  /\ \A p \in Words({1, 3, Dot}, 2), h \in WildHosts : compile_domain_regex(p, h) = DomainRegexRule(p, h)
  /\ \A type \in {"DOMAIN", "DOMAIN-SUFFIX", "DOMAIN-WILDCARD"}, p \in Indexed :
       insert_rule(type, p) # {} => \A h \in IndexHosts : DomainIndex(type, p, h) = RuleMatches(type, p, h)

---------------------------------------------------------------------------
(* Ports, addresses and processes                                                  *)

\* A payload of ports is its parts: none, a port, or the ends of a range
PortPart(part) == Len(part) <= 2 /\ (\A i \in DOMAIN part : part[i] <= TopPort) /\ (Len(part) = 2 => part[1] <= part[2])
PortSpans(parts) == [i \in DOMAIN parts |-> <<parts[i][1], parts[i][Len(parts[i])]>>]
Filled(parts) == SelectSeq(parts, LAMBDA part : part # <<>>)
PortRule(parts) ==
  IF (\E i \in DOMAIN parts : ~PortPart(parts[i])) \/ Filled(parts) = <<>> THEN {} ELSE {PortSpans(Filled(parts))}
matches_port(spans, port) == \E i \in DOMAIN spans : spans[i][1] <= port /\ port <= spans[i][2]
InPortRule(parts, port) == \E spans \in PortRule(parts) : port # 0 /\ matches_port(spans, port)

\* a span would end where the last one of those it takes in ends
MergeShrinking(merged, span) ==
  IF merged # <<>> /\ span[1] <= merged[Len(merged)][2] + 1
  THEN [merged EXCEPT ![Len(merged)][2] = span[2]] ELSE Append(merged, span)
Merge(merged, span) ==
  IF merged # <<>> /\ span[1] <= merged[Len(merged)][2] + 1
  THEN [merged EXCEPT ![Len(merged)][2] = IF span[2] > @ THEN span[2] ELSE @] ELSE Append(merged, span)
SpanBefore(x, y) == x[1] < y[1] \/ (x[1] = y[1] /\ x[2] < y[2])
compile_port_matcher(parts) ==
  LET spans == PortSpans(Filled(parts))
      sorted == SortSeq(spans, SpanBefore)
  IN IF (\E i \in DOMAIN parts : ~PortPart(parts[i])) \/ spans = <<>> THEN {} ELSE {FoldLeft(Merge, <<>>, sorted)}

\* IpCidrRule keeps the network as it is written; the compiled one is truncated
trunc(net) == LET b == 2 ^ (Width(net.family) - net.prefix) IN [net EXCEPT !.addr = (net.addr \div b) * b]
IpCidrRule(net, ip) == \E a \in ip : InNet(net, a.family, a.addr)
CompiledIpCidr(net, ip) == \E a \in ip : InNet(trunc(net), a.family, a.addr)
\* IP-SUFFIX: the low bits, as many as the prefix says
SuffixMask(family, prefix) ==
  IF prefix = 0 THEN 0 ELSE IF prefix >= Width(family) THEN 2 ^ Width(family) - 1 ELSE 2 ^ prefix - 1
And(a, mask) == a % (mask + 1)
IpSuffixMatcher(net, a) ==
  /\ net.family = a.family
  /\ And(a.addr, SuffixMask(net.family, net.prefix)) = And(net.addr, SuffixMask(net.family, net.prefix))
IpSuffixRule(net, ip) == \E a \in ip : IpSuffixMatcher(net, a)
\* GEOIP, SRC-GEOIP, IP-ASN and their compiled form
ip_ranges_contain(ranges, ip) == \E a \in ip : matches_ip(ranges, a.family, a.addr)

SomeIps == {{}} \cup {{[family |-> f, addr |-> a]} : f \in {4}, a \in 0 .. 2 ^ AddrBits - 1}
         \cup {{[family |-> f, addr |-> a]} : f \in {16}, a \in 0 .. 2 ^ WideBits - 1}
Nets == {Net(4, a, p) : a \in 0 .. 2 ^ AddrBits - 1, p \in 0 .. AddrBits}
          \cup {Net(16, a, p) : a \in {0, 5, 2 ^ WideBits - 1}, p \in 0 .. WideBits}
Bit(n, i) == (n \div 2 ^ i) % 2
PortParts == {<<>>} \cup {<<p>> : p \in {0, 3, TopPort, TopPort + 1}} \cup ({0, 2, 3, TopPort} \X {1, 2, 4, TopPort})

\* The compiled form of a list of ports, sorted and with its spans run together, matches
\* the ports the rule matches, to the last port there is, and is refused when the rule is;
\* an address block and an IP-SUFFIX compare the bits they name, none and all of them too.
NumberMatchersExact ==
  /\ \A parts \in UNION {[1 .. n -> PortParts] : n \in 0 .. 3} :
       /\ compile_port_matcher(parts) = {} <=> PortRule(parts) = {}
       /\ \A spans \in PortRule(parts), merged \in compile_port_matcher(parts), port \in 0 .. TopPort :
            matches_port(spans, port) <=> matches_port(merged, port)
  /\ \A net \in Nets, ip \in SomeIps :
       /\ CompiledIpCidr(net, ip) = IpCidrRule(net, ip)
       /\ IpSuffixRule(net, ip) <=>
            \E a \in ip : a.family = net.family /\ \A i \in 0 .. net.prefix - 1 : Bit(a.addr, i) = Bit(net.addr, i)

\* PROCESS-PATH.  A path is a sequence of parts and separators; '*' stands for anything
\* but a separator
Slash == 8
RECURSIVE PathGlob(_, _)
PathGlob(p, h) ==
  IF p = <<>> THEN h = <<>>
  ELSE IF Head(p) = Star
       THEN \E k \in 0 .. Len(h) : (\A i \in 1 .. k : h[i] # Slash) /\ PathGlob(Tail(p), Drop(h, k))
       ELSE h # <<>> /\ Lower(Head(p)) = Lower(Head(h)) /\ PathGlob(Tail(p), Tail(h))
FileName(path) == \* Path::file_name (external): the last part, unless the path is only separators
  LET parts == SelectSeq(Split(path, Slash), LAMBDA t : t # <<>>)
  IN IF parts = <<>> THEN path ELSE parts[Len(parts)]
ProcessPathRule(payload, path) ==
  /\ path # <<>>
  /\ CASE \E i \in DOMAIN payload : payload[i] = Star -> PathGlob(payload, path)
       [] payload # <<>> /\ (\A i \in DOMAIN payload : payload[i] # Star) /\ payload[1] = Slash ->
            IsPrefix(payload, path) /\ (Len(path) = Len(payload) \/ path[Len(payload) + 1] = Slash)
       [] OTHER -> FileName(path) = payload
ProcessRule(name, process) == EqIgnoreCase(process, name)
Paths == Words({3, 4, Slash}, 4)

\* A PROCESS-PATH that begins with a separator matches that file and what lies below it,
\* never a neighbour whose name it begins.
PathsExact ==
  \A payload \in {p \in Words({3, Slash}, 3) : p # <<>> /\ p[1] = Slash /\ p[Len(p)] # Slash}, path \in Paths :
    ProcessPathRule(payload, path) <=> path = payload \/ \E rest \in Words({3, 4, Slash}, 3) : path = payload \o <<Slash>> \o rest

---------------------------------------------------------------------------
(* The country and the ASN index: the networks of a database, in its order, each    *)
(* with the offset of its record; the record names a country, a number, or neither. *)

CountryKey(code) == LET n == IF Len(code) < KeyBytes THEN Len(code) ELSE KeyBytes IN LowerText(First(code, n))
Position(keys, k) == LET at == {i \in DOMAIN keys : keys[i] = k} IN IF at = {} THEN 0 ELSE Earliest(at)
\* the cache would hold what the record of the first network said
ResolveOnce(records, keys, cache, offset) ==
  IF DOMAIN cache # {} THEN cache[CHOOSE o \in DOMAIN cache : TRUE]
  ELSE LET r == records[offset] IN IF r = {} THEN 0 ELSE Position(keys, CHOOSE c \in r : TRUE)
\* 0 is no bucket
ResolveOffset(records, keys, cache, offset) ==
  IF offset \in DOMAIN cache THEN cache[offset]
  ELSE LET r == records[offset] IN IF r = {} THEN 0 ELSE Position(keys, CHOOSE c \in r : TRUE)
Buckets(records, networks, keys) ==
  LET Step(st, n) ==
        LET b == ResolveOffset(records, keys, st.cache, n.offset)
        IN [cache |-> [o \in DOMAIN st.cache \cup {n.offset} |-> IF o = n.offset THEN b ELSE st.cache[o]],
            buckets |-> IF b = 0 THEN st.buckets ELSE [st.buckets EXCEPT ![b] = @ \cup {n.net}]]
  IN FoldLeft(Step, [cache |-> <<>>, buckets |-> [k \in DOMAIN keys |-> {}]], networks).buckets
ranges_for(keys, buckets, k) == UNION {buckets[i] : i \in {i \in DOMAIN keys : keys[i] = k}}
CountryIndex(db, allowed, code) ==
  LET keys == [i \in DOMAIN allowed |-> CountryKey(allowed[i])]
      records == [o \in DOMAIN db.records |-> {CountryKey(c) : c \in db.records[o]}]
  IN ranges_for(keys, Buckets(records, db.networks, keys), LowerText(code))
AsnIndex(db, allowed, asn) == ranges_for(allowed, Buckets(db.records, db.networks, allowed), asn)

IndexCodes == {<<1, 2>>, <<3>>, <<4, 4>>}
IndexDbs(values) ==
  {[records |-> r, networks |-> [i \in 1 .. 3 |-> [offset |-> o[i], net |-> Net(4, 2 * i, 2)]]] :
     r \in [1 .. 2 -> {{}} \cup {{c} : c \in values}], o \in [1 .. 3 -> 1 .. 2]}
Allowed == {<<>>, <<<<3, 4>>>>, <<<<3>>, <<3, 4>>>>, <<<<2, 2>>, <<1, 2>>, <<3>>>>}
\* the addresses the database gives to the records of which Is holds
Given(db, Is(_), ip) ==
  \E i \in DOMAIN db.networks : /\ \E c \in db.records[db.networks[i].offset] : Is(c)
                                /\ \E a \in ip : InNet(db.networks[i].net, 4, a.addr)
V4Ips == {i \in SomeIps : \A a \in i : a.family = 4}

\* A GEOIP or IP-ASN rule matches the addresses its database gives to its country or
\* number, when the configuration names it, and no other; that records are shared by
\* networks and read once makes no difference.
IndexesExact ==
  /\ \A db \in IndexDbs(IndexCodes \cup {<<3, 4>>}), allowed \in Allowed, code \in IndexCodes :
       LET index == CountryIndex(db, allowed, code)
           wanted == \E i \in DOMAIN allowed : EqIgnoreCase(allowed[i], code)
       IN \A ip \in V4Ips :
            ip_ranges_contain(index, ip) <=> wanted /\ Given(db, LAMBDA c : EqIgnoreCase(c, code), ip)
  /\ \A db \in IndexDbs(1 .. 3), allowed \in {<<>>, <<2>>, <<3, 1>>}, asn \in 1 .. 3 :
       LET index == AsnIndex(db, allowed, asn)
           wanted == \E i \in DOMAIN allowed : allowed[i] = asn
       IN \A ip \in V4Ips : ip_ranges_contain(index, ip) <=> wanted /\ Given(db, LAMBDA n : n = asn, ip)

---------------------------------------------------------------------------
(* The remaining predicates, the logic rules, and their compiled forms.  A          *)
(* connection says where it came in, what it is, and what is known of its process;  *)
(* an unknown value is the empty set.                                               *)

InTypes(type) ==
  CASE type = "HTTP" -> {"http", "https"} [] type = "HTTPS" -> {"https"} [] type = "SOCKS5" -> {"socks5"}
    [] type = "TPROXY" -> {"tproxy"} [] type = "INNER" -> {"inner"}
InTypeRule(type, m) == m.connType \in InTypes(type)
NetworkRule(network, m) == m.network = network
UidRule(uid, m) == m.uid = {uid}
DscpRule(value, m) == m.dscp = {value}
InNameRule(name, m) == m.inName # "" /\ m.inName = name
InUserRule(user, m) == m.inUser = {user}
FinalRule(m) == TRUE

RECURSIVE match_metadata(_, _)
match_metadata(r, m) ==
  CASE r.type = "AND" -> \A i \in DOMAIN r.kids : match_metadata(r.kids[i], m)
    [] r.type = "OR" -> \E i \in DOMAIN r.kids : match_metadata(r.kids[i], m)
    [] r.type = "NOT" -> ~match_metadata(r.kids[1], m)
    [] r.type = "SUB-RULE" -> \E i \in DOMAIN r.kids : match_metadata(r.kids[i], m)
    [] r.type = "IN-PORT" -> InPortRule(r.value, m.inPort)
    [] r.type = "IN-TYPE" -> InTypeRule(r.value, m)
    [] r.type = "NETWORK" -> NetworkRule(r.value, m)
    [] r.type = "UID" -> UidRule(r.value, m)
    [] r.type = "DSCP" -> DscpRule(r.value, m)
    [] r.type = "IN-NAME" -> InNameRule(r.value, m)
    [] r.type = "IN-USER" -> InUserRule(r.value, m)
    [] r.type = "MATCH" -> FinalRule(m)

\* compile_op and lower_native: an operation, or none for a rule that stays as it is
Op(op, value, kids) == [op |-> op, value |-> value, kids |-> kids]
compile_op(r) ==
  CASE r.type = "IN-PORT" -> {Op("in_port", spans, <<>>) : spans \in compile_port_matcher(r.value)}
    [] r.type = "IN-TYPE" -> {Op("in_type", InTypes(r.value), <<>>)}
    [] r.type \in {"NETWORK", "UID", "DSCP", "IN-NAME", "IN-USER"} -> {Op(r.type, r.value, <<>>)}
    [] r.type = "MATCH" -> {Op("match", 0, <<>>)}
    [] OTHER -> {}
RECURSIVE lower_rule(_)
lower_children(kids) ==
  IF \E i \in DOMAIN kids : lower_rule(kids[i]) = {} THEN {}
  ELSE {[i \in DOMAIN kids |-> CHOOSE op \in lower_rule(kids[i]) : TRUE]}
lower_native(r) ==
  CASE r.type = "AND" -> {Op("all", 0, k) : k \in lower_children(r.kids)}
    [] r.type = "OR" -> {Op("any", 0, k) : k \in lower_children(r.kids)}
    [] r.type = "NOT" -> {Op("not", 0, k) : k \in lower_children(r.kids)}
    [] OTHER -> {}
lower_rule(r) == compile_op(r) \cup lower_native(r)
RECURSIVE matches_op(_, _)
matches_op(o, m) ==
  CASE o.op = "all" -> \A i \in DOMAIN o.kids : matches_op(o.kids[i], m)
    [] o.op = "any" -> \E i \in DOMAIN o.kids : matches_op(o.kids[i], m)
    [] o.op = "not" -> ~matches_op(o.kids[1], m)
    [] o.op = "in_port" -> m.inPort # 0 /\ matches_port(o.value, m.inPort)
    [] o.op = "in_type" -> m.connType \in o.value
    [] o.op = "NETWORK" -> m.network = o.value
    [] o.op = "UID" -> m.uid = {o.value}
    [] o.op = "DSCP" -> m.dscp = {o.value}
    [] o.op = "IN-NAME" -> m.inName # "" /\ m.inName = o.value
    [] o.op = "IN-USER" -> m.inUser = {o.value}
    [] o.op = "match" -> TRUE

Facts == [inPort : {0, 3, TopPort}, connType : {"http", "https", "tun"}, network : {"udp"}, uid : {{}, {0}},
          dscp : {{}, {0}}, inName : {"", "n"}, inUser : {{"u"}}]
Predicate(type, value) == [type |-> type, value |-> value, kids |-> <<>>]
Predicates == {Predicate("IN-PORT", parts) : parts \in {<<<<0>>>>, <<<<0, 3>>, <<4>>>>, <<<<TopPort>>, <<2, 3>>>>}}
                \cup {Predicate("IN-TYPE", t) : t \in {"HTTP", "HTTPS"}}
                \cup {Predicate("UID", 0), Predicate("DSCP", 0), Predicate("IN-NAME", "n"), Predicate("IN-NAME", ""),
                      Predicate("IN-USER", "u"), Predicate("NETWORK", "udp"), Predicate("MATCH", 0)}
LogicOf(inner) == {[type |-> t, value |-> 0, kids |-> <<k>>] : t \in {"NOT", "SUB-RULE"}, k \in inner}
                    \cup {[type |-> t, value |-> 0, kids |-> <<k, l>>] : t \in {"AND", "OR"}, k, l \in inner}
\* A rule that is lowered, alone or inside logic rules, matches the connections it matched
\* before; whatever holds a rule that cannot be lowered is left as it is.
LoweringExact ==
  \A r \in Predicates \cup LogicOf(Predicates \cup LogicOf({Predicate("UID", 0), Predicate("IN-PORT", <<<<0>>>>)})) :
    /\ \A o \in lower_rule(r), m \in Facts : matches_op(o, m) <=> match_metadata(r, m)
    /\ lower_rule(r) = {} <=> r.type = "SUB-RULE" \/ \E i \in DOMAIN r.kids : lower_rule(r.kids[i]) = {}

---------------------------------------------------------------------------
(* The process lookup: which process owns the socket of a client's address.  An     *)
(* address is the sequence of its bytes, four or sixteen.                           *)

Unspecified(a) == \A i \in DOMAIN a : a[i] = 0
MappedForm(a) == [i \in 1 .. 10 |-> 0] \o <<255, 255>> \o a
\* addr_matches, the same on every platform
addr_matches(found, target) ==
  found = target \/ Unspecified(found) \/ (Len(found) = 16 /\ Len(target) = 4 /\ found = MappedForm(target))
\* the kernel (external) prints each word of four bytes as a number of the machine
Printed(a) == Concat([w \in 1 .. Len(a) \div 4 |-> Reverse(SubSeq(a, 4 * w - 3, 4 * w))])
parse_hex_ipv4(text) == IF Len(text) # 4 THEN {} ELSE {Reverse(text)}
parse_hex_ipv6(text) ==
  IF Len(text) # 16 THEN {} ELSE {Concat([w \in 1 .. 4 |-> Reverse(SubSeq(text, 4 * w - 3, 4 * w))])}

\* Linux.  A row of /proc/net: too short, with fields that do not parse, or good
ParseHex(row, target) == IF Len(target.addr) = 16 THEN parse_hex_ipv6(row.local) ELSE parse_hex_ipv4(row.local)
RECURSIVE scan_proc_net(_, _)
scan_proc_net(rows, target) ==
  IF rows = <<>> THEN {}
  ELSE LET row == rows[1]
           a == ParseHex(row, target)
           rest == scan_proc_net(Tail(rows), target)
       IN CASE row.form = "short" -> rest
            [] row.form = "bad" -> {}
            [] row.form = "good" /\ row.port # target.port -> rest
            [] row.form = "good" /\ row.port = target.port ->
                 IF a = {} THEN {}
                 ELSE IF ~addr_matches(CHOOSE x \in a : TRUE, target.addr) THEN rest ELSE {row.inode}
find_pid_by_inode(procs, inode) ==
  LET at == {i \in DOMAIN procs : procs[i].readable /\ inode \in procs[i].inodes}
  IN IF at = {} THEN {} ELSE {procs[Earliest(at)].name}
find_process(rows, procs, target) ==
  UNION {find_pid_by_inode(procs, inode) : inode \in scan_proc_net(rows, target)}

\* Windows.  The buffer is sized by one call and filled by the next; a table that has
\* grown meanwhile is asked for again, three times in all
MAX_RETRIES == 3
parse_table(rows, room, target) ==
  LET hit == {i \in DOMAIN rows : i <= room /\ rows[i].port = target.port /\ addr_matches(rows[i].addr, target.addr)}
  IN IF hit = {} THEN {} ELSE {rows[Earliest(hit)].name}
RECURSIVE walk_table(_, _, _)
walk_table(tries, answers, target) ==
  IF tries = 0 THEN {}
  ELSE LET a == answers[MAX_RETRIES - tries + 1]
       IN CASE a.rows = "failed" -> {}
            [] a.rows = "filled" -> parse_table(a.table, a.room, target)
            [] a.rows = "grown" -> walk_table(tries - 1, answers, target)
\* macOS: the processes in turn and their sockets in turn
matches_socket(network, target, socket) ==
  socket.kind = network /\ socket.port = target.port /\ addr_matches(socket.addr, target.addr)
find_process_macos(procs, network, target) ==
  LET at == {i \in DOMAIN procs : procs[i].readable /\ \E k \in procs[i].sockets : matches_socket(network, target, k)}
  IN IF at = {} THEN {} ELSE {procs[Earliest(at)].name}

Home == <<127, 0, 0, 1>>
Peer == <<10, 0, 0, 2>>
Here == [addr |-> Home, port |-> 1]
SocketAddrs == {Home, Peer, <<0, 0, 0, 0>>}
Rows == [form : {"good"}, local : {Printed(a) : a \in SocketAddrs}, port : {1, 2}, inode : {1, 2}]
          \cup [form : {"short", "bad"}, local : {<<>>}, port : {1}, inode : {1}]
Procs == {<<[name |-> "p", inodes |-> i, readable |-> r], [name |-> "q", inodes |-> {2}, readable |-> TRUE]>> :
            i \in {{}, {1}}, r \in BOOLEAN}
Owns(procs, name, inode) == \E i \in DOMAIN procs : procs[i].name = name /\ inode \in procs[i].inodes
WinRows == [port : {1, 2}, addr : SocketAddrs, name : {"p", "q"}]
WinAnswers == {[rows |-> "failed", table |-> <<>>, room |-> 0], [rows |-> "grown", table |-> <<>>, room |-> 0]}
                \cup [rows : {"filled"}, table : [1 .. 2 -> WinRows], room : {2}]
MacSockets == [kind : {"tcp"}, port : {1}, addr : SocketAddrs \cup {MappedForm(Home)}]
                \cup {[kind |-> "udp", port |-> 1, addr |-> Home], [kind |-> "tcp", port |-> 2, addr |-> Home]}
\* The process found for a connection owns a socket bound to the connection's address (or
\* to all of them), in the table read, and the one process that has such a socket is
\* found; the addresses of the table are the ones the kernel printed.
ProcessExact ==
  /\ \A a \in SocketAddrs : parse_hex_ipv4(Printed(a)) = {a} /\ parse_hex_ipv6(Printed(MappedForm(a))) = {MappedForm(a)}
  /\ \A rows \in UNION {[1 .. n -> Rows] : n \in 0 .. 2}, procs \in Procs :
       LET fits == {i \in DOMAIN rows : /\ rows[i].form = "good" /\ rows[i].port = Here.port
                                        /\ rows[i].local \in {Printed(Home), <<0, 0, 0, 0>>}}
           got == find_process(rows, procs, Here)
       IN /\ \A name \in got : \E i \in fits : Owns(procs, name, rows[i].inode)
          /\ \A i \in fits : (Cardinality(fits) = 1 /\ \A k \in 1 .. i : rows[k].form # "bad") =>
               \A k \in DOMAIN procs : rows[i].inode \in procs[k].inodes /\ procs[k].readable => got = {procs[k].name}
  /\ \A first, last \in WinAnswers :
       LET got == walk_table(MAX_RETRIES, <<first, [rows |-> "grown", table |-> <<>>, room |-> 0], last>>, Here)
           read == IF first.rows = "grown" THEN last ELSE first
       IN /\ \A name \in got : \E i \in DOMAIN read.table : read.table[i].name = name /\ read.table[i].port = Here.port
          /\ got = {} => \A i \in DOMAIN read.table : read.table[i].port # Here.port \/ read.table[i].addr = Peer
  /\ \A p, q \in SUBSET MacSockets, r \in BOOLEAN :
       LET Binds(S) == \E k \in S : k.kind = "tcp" /\ k.port = 1 /\ k.addr \in {Home, <<0, 0, 0, 0>>, MappedForm(Home)}
           procs == <<[name |-> "p", sockets |-> p, readable |-> r], [name |-> "q", sockets |-> q, readable |-> TRUE]>>
       IN find_process_macos(procs, "tcp", Here) =
            IF r /\ Binds(p) THEN {"p"} ELSE IF Binds(q) THEN {"q"} ELSE {}
=============================================================================
