--------------------------- MODULE ProxyProvider ---------------------------
(***************************************************************************)
(* A proxy provider (meow-config: proxy_provider.rs, safe_path.rs).  A     *)
(* refresh fetches the list, parses it, replaces the content of every      *)
(* registered view and then of the slot, each under its own lock.  A group *)
(* with a filter makes its view by reading the slot and then registering   *)
(* it.  Refreshes are requests of the API; groups are built and dropped by *)
(* reloads, on other threads.                                              *)
(*                                                                         *)
(* A node is a record; a regular expression is the set of names it         *)
(* matches.  A payload is a list of nodes or a text that is no list.       *)
(***************************************************************************)
EXTENDS Integers, Sequences, FiniteSets, SequencesExt

CONSTANTS
  Refreshers,   \* requests that refresh the provider
  Groups,       \* groups with a filter that use it
  Payloads,     \* what the source may hold
  Bad,          \* the payload that is not a list of proxies
  None

VARIABLES
  config,       \* [vehicle, cached, own]: the kind, has it a cache path, its filter
  filter,       \* the filter of each group
  source,       \* the payload the URL or the file holds
  cache,        \* the cache file
  pc, got,      \* of each refresh: where it is and the list it carries
  slot,         \* the proxies of the provider
  gpc, view,    \* of each group: where it is and its view
  derived,      \* the groups whose view is registered
  stale,        \* history: views registered while a refresh passed them by
  crossed       \* history: two refreshes installed their lists at once

vars == <<config, filter, source, cache, pc, got, slot, gpc, view, derived, stale, crossed>>

---------------------------------------------------------------------------
(* Filters                                                                 *)

NoFilter == [filter |-> None, exclude |-> None, types |-> {}]

NamesPass(f, name) ==
  /\ f.filter # None => name \in f.filter
  /\ f.exclude # None => name \notin f.exclude

\* adapter_type_matches: "ss" is also a name of a Shadowsocks adapter
adapter_type_matches(token, type) ==
  token = type \/ (type = "shadowsocks" /\ token = "ss")

\* The type an adapter says it has, of the type its block is written with
AdapterType(raw) == IF raw = "ss" THEN "shadowsocks" ELSE raw

\* GroupFilter::keep
keep(f, node) ==
  /\ NamesPass(f, node.name)
  /\ \A t \in f.types : ~adapter_type_matches(t, AdapterType(node.type))

\* parse_proxies: the provider's own filter reads the block, and a block that
\* does not parse is left out
parse_proxies(own, payload) ==
  IF payload = Bad THEN <<>>
  ELSE SelectSeq(payload, LAMBDA n : /\ NamesPass(own, n.name) /\ n.type \notin own.types
                                     /\ n.type # "unknown")

Seen(g, list) == SelectSeq(list, LAMBDA n : keep(filter[g], n))

---------------------------------------------------------------------------
(* Where a file of a provider may be                                       *)

\* normalize_absolute: a parent of the root is the root
normalize_absolute(path) ==
  FoldLeft(LAMBDA out, c : CASE c = "." -> out
                             [] c = ".." -> IF out = <<>> THEN out ELSE Front(out)
                             [] OTHER -> Append(out, c), <<>>, path)

\* canonicalize_existing_prefix: the first component of a symbolic link is replaced
Canonical(path, link) ==
  IF path # <<>> /\ Head(path) = link.from THEN link.to \o Tail(path) ELSE path

\* resolve_contained: the resolved path, or None
resolve_contained(base, requested, absolute, link, skip) ==
  LET absBase == normalize_absolute(base)
      joined == normalize_absolute(IF absolute THEN requested ELSE absBase \o requested)
      inside == /\ IsPrefix(absBase, joined)
                /\ IsPrefix(Canonical(absBase, link), Canonical(joined, link))
  IN IF inside \/ skip THEN joined ELSE None

\* What a block asks for: its path, or the name an http provider has by default
Asked(path) == IF path # None THEN path ELSE [comps |-> <<"provider">>, absolute |-> FALSE]

Resolve(path, dir, link) ==
  resolve_contained(dir, Asked(path).comps, Asked(path).absolute, link, FALSE)

\* ProxyProvider::new: is the block accepted, and with which path
New(vehicle, path, dir, link) ==
  LET accept(p) == [ok |-> TRUE, path |-> p]
      reject == [ok |-> FALSE, path |-> None]
  IN CASE vehicle = "file" /\ (path = None \/ dir = None) -> reject
       [] vehicle = "http" /\ dir = None -> accept(None)
       [] vehicle \notin {"file", "http"} -> reject
       [] OTHER -> LET p == Resolve(path, dir, link)
                   IN IF p = None THEN reject ELSE accept(p)

\* validate_paths: before anything is fetched, a path that leaves the directory is an error
validate_paths(vehicle, path, dir, link) ==
  \/ dir = None
  \/ vehicle \notin {"file", "http"} \/ (vehicle = "file" /\ path = None)
  \/ Resolve(path, dir, link) # None

---------------------------------------------------------------------------
(* A refresh                                                               *)

\* load_proxy_providers: the slot is empty until the first refresh
Init ==
  /\ config.vehicle = "file" => ~config.cached
  /\ source \in Payloads /\ cache \in IF config.cached THEN Payloads \cup {None} ELSE {None}
  /\ pc = [t \in Refreshers |-> "idle"] /\ got = [t \in Refreshers |-> <<>>]
  /\ slot = <<>> /\ derived = {}
  /\ gpc = [g \in Groups |-> "none"] /\ view = [g \in Groups |-> <<>>]
  /\ stale = {} /\ crossed = FALSE

groupState == <<gpc, view, derived, stale>>

\* External: the list at the source changes
SourceChanges ==
  /\ source' \in Payloads \ {source}
  /\ UNCHANGED <<config, filter, cache, pc, got, slot, groupState, crossed>>

Parsed(t, payload) ==
  /\ got' = [got EXCEPT ![t] = parse_proxies(config.own, payload)]
  /\ pc' = [pc EXCEPT ![t] = "parsed"]

\* fetch_content succeeds; the text is written to the cache, or the write fails silently
Fetch(t) ==
  /\ pc[t] = "idle" /\ Parsed(t, source)
  /\ cache' \in IF config.cached THEN {source, cache} ELSE {cache}
  /\ UNCHANGED <<config, filter, source, slot, groupState, crossed>>

\* fetch_content fails: read_cache; with neither the refresh returns the error
FetchCached(t) ==
  /\ pc[t] = "idle" /\ cache # None /\ Parsed(t, cache)
  /\ UNCHANGED <<config, filter, source, cache, slot, groupState, crossed>>

Installing(t) == pc[t] = "derived"

\* Faulty variant of UpdateDerived: a view that has become empty is dropped from the register
UpdateDerivedPruned(t) ==
  /\ pc[t] = "parsed"
  /\ LET live == {g \in derived : gpc[g] = "live"}
     IN /\ derived' = {g \in live : Seen(g, got[t]) # <<>>}
        /\ view' = [g \in Groups |-> IF g \in live THEN Seen(g, got[t]) ELSE view[g]]
        /\ stale' = stale \ live
  /\ crossed' = (\E u \in Refreshers : Installing(u))
  /\ pc' = [pc EXCEPT ![t] = "derived"]
  /\ UNCHANGED <<config, filter, source, cache, got, slot, gpc>>

\* update_derived: a view that no group holds is dropped from the register
UpdateDerived(t) ==
  /\ pc[t] = "parsed"
  /\ LET live == {g \in derived : gpc[g] = "live"}
     IN /\ derived' = live
        /\ view' = [g \in Groups |-> IF g \in live THEN Seen(g, got[t]) ELSE view[g]]
        /\ stale' = stale \ live
  /\ crossed' = (\E u \in Refreshers : Installing(u))
  /\ pc' = [pc EXCEPT ![t] = "derived"]
  /\ UNCHANGED <<config, filter, source, cache, got, slot, gpc>>

\* The slot; a group that is between its two steps has read the list this replaces
WriteSlot(t) ==
  /\ Installing(t)
  /\ slot' = got[t]
  /\ pc' = [pc EXCEPT ![t] = "idle"] /\ got' = [got EXCEPT ![t] = <<>>]
  /\ stale' = stale \cup {g \in Groups : gpc[g] = "seeded"}
  /\ UNCHANGED <<config, filter, source, cache, gpc, view, derived, crossed>>

---------------------------------------------------------------------------
(* The view of a group                                                     *)

\* derived_slot reads the slot
Seed(g) ==
  /\ gpc[g] = "none"
  /\ gpc' = [gpc EXCEPT ![g] = "seeded"] /\ view' = [view EXCEPT ![g] = Seen(g, slot)]
  /\ UNCHANGED <<config, filter, source, cache, pc, got, slot, derived, stale, crossed>>

\* and registers the view, which a refresh past update_derived will not reach
Register(g) ==
  /\ gpc[g] = "seeded"
  /\ gpc' = [gpc EXCEPT ![g] = "live"] /\ derived' = derived \cup {g}
  /\ stale' = IF \E t \in Refreshers : Installing(t) THEN stale \cup {g} ELSE stale
  /\ UNCHANGED <<config, filter, source, cache, pc, got, slot, view, crossed>>

\* The group is dropped with the routing that held it; a new one has a view of its own
DropGroup(g) ==
  /\ gpc[g] = "live"
  /\ gpc' = [gpc EXCEPT ![g] = "dropped"] /\ stale' = stale \ {g}
  /\ view' = [view EXCEPT ![g] = <<>>]
  /\ UNCHANGED <<config, filter, source, cache, pc, got, slot, derived, crossed>>

Next ==
  \/ SourceChanges
  \/ \E t \in Refreshers : Fetch(t) \/ FetchCached(t) \/ UpdateDerived(t) \/ WriteSlot(t)
  \/ \E g \in Groups : Seed(g) \/ Register(g) \/ DropGroup(g)

Spec == Init /\ [][Next]_vars

---------------------------------------------------------------------------

\* While no refresh is between its two writes, a group's view shows what its filter
\* keeps of the slot. A view is behind only if it was registered while a refresh
\* passed it by, or if two refreshes wrote at once, and then until the next refresh.
ViewsFollow ==
  (~crossed /\ ~\E t \in Refreshers : Installing(t)) =>
    \A g \in Groups \ stale : gpc[g] = "live" => view[g] = Seen(g, slot)

\* resolve_contained accepts exactly the paths that stay in the provider's directory.
\* Where a path leads is said without walking it: a component is in force unless some
\* later stretch of the path climbs out of it.
InForce(c, i) ==
  /\ c[i] \notin {".", ".."}
  /\ \A j \in i + 1 .. Len(c) :
       Cardinality({k \in i + 1 .. j : c[k] = ".."})
         <= Cardinality({k \in i + 1 .. j : c[k] \notin {".", ".."}})

PathsContained ==
  /\ \A n \in 0 .. 4 : \A c \in [1 .. n -> {".", "..", "a", "b"}], absolute \in BOOLEAN :
       LET base == <<"a", "b">>
           whole == IF absolute THEN c ELSE base \o c
           end == [i \in 1 .. Cardinality({k \in DOMAIN whole : InForce(whole, k)}) |->
                     whole[CHOOSE k \in DOMAIN whole : InForce(whole, k) /\
                             Cardinality({m \in 1 .. k : InForce(whole, m)}) = i]]
       IN resolve_contained(base, c, absolute, [from |-> None, to |-> <<>>], FALSE)
            = IF IsPrefix(base, end) THEN end ELSE None
  \* what validate_paths lets through, new accepts, with a path that no link leads out
  /\ \A c \in [1 .. 2 -> {"..", "a", "b", "l"}], absolute \in BOOLEAN,
        vehicle \in {"file", "http"}, link \in {[from |-> "l", to |-> <<"a">>], [from |-> "a", to |-> <<>>]} :
       LET path == [comps |-> c, absolute |-> absolute]
           new == New(vehicle, path, <<"a">>, link)
       IN validate_paths(vehicle, path, <<"a">>, link) =>
            new.ok /\ IsPrefix(Canonical(<<"a">>, link), Canonical(new.path, link))
============================================================================
