---------------------------- MODULE RuleProvider ----------------------------
(***************************************************************************)
(* One rule provider, from the start of the process to the rules that use  *)
(* it (meow-config: rule_provider.rs, geodata.rs, internal_http.rs and the *)
(* build order of lib.rs; meow-app: main.rs, geodata_fetch.rs).  A build   *)
(* reads the payload once, scans it for GEOIP lines to load the database   *)
(* they need, parses it for the provider the API and the DNS policies see, *)
(* and once more for the rules, which keep the set they were built with.   *)
(* A reload builds new rules; a refresh replaces the set of the provider.  *)
(*                                                                         *)
(* A payload is its version, the format it is written in and whether it    *)
(* has GEOIP lines.  A crash may cut a file that is being written.         *)
(***************************************************************************)
EXTENDS Integers, Sequences, FiniteSets, SequencesExt

CONSTANTS
  Refreshers,   \* the refresh loop and the refresh request
  Payloads,     \* what the URL may serve
  Cut,          \* a payload of which only a part was written
  MaxCrashes, None

VARIABLES
  config,       \* [type, interval, cached, format]
  source,       \* the payload served
  cache,        \* the cache file
  gfile, gtmp,  \* the GeoIP database and its .tmp: None, "torn" or "whole"
  stage, boot,  \* where the build is; is it the one of the start
  prefetched,   \* the payload the build has read
  ctx,          \* has the build loaded the GeoIP index
  prov,         \* the set of the provider, or None
  installed,    \* the set the running rules were built with
  rpc, rgot,    \* of each refresh
  fresh,        \* history: no refresh and no reload since the start
  crashes

vars == <<config, source, cache, gfile, gtmp, stage, boot, prefetched, ctx, prov, installed,
          rpc, rgot, fresh, crashes>>
geo == <<gfile, gtmp>>
refresh == <<rpc, rgot>>

---------------------------------------------------------------------------
(* internal_http                                                           *)

CONSTANTS MaxRedirects, BodyLimit

\* Faulty variant of fetch_capped: only the last hop decides about the sensitive headers
FetchLastHop(origins) ==
  LET asked == SubSeq(origins, 1, IF Len(origins) > MaxRedirects + 1 THEN MaxRedirects + 1 ELSE Len(origins))
      step(acc, o) == Append(acc, [origin |-> o, secrets |-> acc = <<>> \/ Last(acc).origin = o])
  IN [asked |-> FoldLeft(step, <<>>, asked), ok |-> Len(origins) <= MaxRedirects + 1]

\* fetch_capped over the origins a chain of redirects leads through: the origins
\* asked, each with whether the sensitive headers were still sent
fetch_capped(origins) ==
  LET asked == SubSeq(origins, 1, IF Len(origins) > MaxRedirects + 1 THEN MaxRedirects + 1 ELSE Len(origins))
      step(acc, o) == LET same == acc = <<>> \/ Last(acc).origin = o
                      IN Append(acc, [origin |-> o, secrets |-> same /\ (acc = <<>> \/ Last(acc).secrets)])
  IN [asked |-> FoldLeft(step, <<>>, asked), ok |-> Len(origins) <= MaxRedirects + 1]

\* decode_chunked: the sizes of the chunks as they follow, the last one 0, and what is
\* left of the input
decode_chunked(chunks) ==
  LET ends == {i \in DOMAIN chunks : chunks[i].size = 0}
      end == CHOOSE i \in ends : \A j \in ends : i <= j
      size == FoldLeft(LAMBDA n, c : n + c.size, 0, SubSeq(chunks, 1, end))
  IN IF ends = {} THEN None
     ELSE IF \E i \in 1 .. end : ~chunks[i].whole THEN None
     ELSE IF size > BodyLimit THEN None ELSE size

\* parse_response: a redirect, the length of the body that is returned, or None
parse_response(r) ==
  CASE ~r.complete -> None
    [] r.status = 3 -> IF r.location THEN "redirect" ELSE None
    [] r.status # 2 -> None
    [] \E i \in DOMAIN r.lengths : r.lengths[i] > BodyLimit \/ r.lengths[i] # r.lengths[1] -> None
    [] r.chunked -> decode_chunked(r.chunks)
    [] r.lengths # <<>> /\ r.lengths[1] # r.read -> None
    [] OTHER -> IF r.read > BodyLimit THEN None ELSE r.read

---------------------------------------------------------------------------
(* Payloads                                                                *)

\* parse_bytes_to_ruleset_with_format: the set, with its GEOIP entries if the index
\* is at hand, or None
Parse(payload, format, index) ==
  LET as == IF format = "mrs" \/ payload.kind = "mrs" THEN "mrs"
            ELSE IF format = None THEN "yaml" ELSE format
  IN IF payload.kind = as \/ (as = "text" /\ payload.kind = "yaml")
     THEN [v |-> payload.v, as |-> as, lost |-> payload.geo /\ ~index]
     ELSE None

\* An http provider with an interval takes its cache file when there is one
PrefersCache == config.type = "http" /\ config.interval > 0 /\ cache # None

\* The payload read_payload_bytes may get: the file, the cache, or what is fetched;
\* None when it gets none
ReadNow ==
  CASE config.type = "file" -> {source, None}
    [] config.type = "http" -> IF PrefersCache THEN {cache} ELSE {source, cache}
    [] OTHER -> {None}

\* load_one: an inline provider has its payload in the configuration
Loaded(payload) ==
  IF config.type = "inline"
  THEN (IF config.interval > 0 THEN None ELSE Parse([source EXCEPT !.kind = "yaml"], None, ctx))
  ELSE IF payload = None THEN None ELSE Parse(payload, config.format, ctx)

---------------------------------------------------------------------------
(* A build                                                                 *)

Init ==
  /\ config.type # "http" => ~config.cached
  /\ config.type = "inline" => config.format = None
  /\ source \in Payloads /\ cache \in IF config.cached THEN {None, Cut} \cup Payloads ELSE {None}
  /\ gfile \in {None, "whole"} /\ gtmp = None
  /\ stage = "prefetch" /\ boot = TRUE /\ prefetched = None /\ ctx = FALSE
  /\ prov = None /\ installed = None
  /\ rpc = [t \in Refreshers |-> "idle"] /\ rgot = [t \in Refreshers |-> None]
  /\ fresh = TRUE /\ crashes = 0

Goto(s) == stage' = s

\* External: the list at the URL changes
SourceChanges ==
  /\ stage = "running" /\ source' \in Payloads \ {source}
  /\ UNCHANGED <<config, cache, geo, stage, boot, prefetched, ctx, prov, installed, refresh, fresh, crashes>>

\* fetch_http_blocking_with_cache keeps what it has fetched; a write may fail
Fetches == config.type = "http" /\ ~PrefersCache
Caches(p) == cache' \in IF Fetches /\ config.cached /\ p = source THEN {cache, p} ELSE {cache}

\* prefetch_payloads
Prefetch ==
  /\ stage = "prefetch"
  /\ \E p \in ReadNow : prefetched' = p /\ Caches(p)
  /\ Goto("geo")
  /\ UNCHANGED <<config, source, geo, boot, ctx, prov, installed, refresh, fresh, crashes>>

\* collect_geo_scan_lines: the payloads that are text, and the inline ones
Scanned ==
  \/ prefetched # None /\ prefetched.kind # "mrs" /\ prefetched.geo
  \/ config.type = "inline" /\ source.geo

\* ensure_geodata, at the start only: download_and_replace, or the download fails
DownloadGeo ==
  /\ stage = "geo" /\ boot /\ Scanned /\ gfile = None
  /\ gtmp' = "torn" /\ Goto("tmp")
  /\ UNCHANGED <<config, source, cache, gfile, boot, prefetched, ctx, prov, installed, refresh, fresh, crashes>>

RenameGeo ==
  /\ stage = "tmp"
  /\ gfile' = "whole" /\ gtmp' = None /\ Goto("context")
  /\ UNCHANGED <<config, source, cache, boot, prefetched, ctx, prov, installed, refresh, fresh, crashes>>

SkipGeo ==
  /\ stage = "geo" /\ Goto("context")
  /\ UNCHANGED <<config, source, cache, geo, boot, prefetched, ctx, prov, installed, refresh, fresh, crashes>>

\* build_parser_context_at: a line that needs a database which cannot be opened fails the build
BuildContext ==
  /\ stage = "context"
  /\ IF Scanned /\ gfile # "whole"
     THEN Goto(IF boot THEN "failed" ELSE "running") /\ prefetched' = None /\ UNCHANGED ctx
     ELSE Goto(IF boot THEN "load" ELSE "install") /\ ctx' = Scanned /\ UNCHANGED prefetched
  /\ UNCHANGED <<config, source, cache, geo, boot, prov, installed, refresh, fresh, crashes>>

\* Faulty variant of LoadPayloads: every pass reads the payload again
LoadAgain == ReadNow

\* The payload of a load pass: the one that was prefetched, else it is read again
LoadPayloads == IF prefetched # None THEN {prefetched} ELSE ReadNow

\* load_rule_providers_async, for the API and the DNS policies
Load ==
  /\ stage = "load"
  /\ \E p \in LoadPayloads : prov' = Loaded(p) /\ (IF prefetched = None THEN Caches(p) ELSE UNCHANGED cache)
  /\ Goto("install")
  /\ UNCHANGED <<config, source, geo, boot, prefetched, ctx, installed, refresh, fresh, crashes>>

\* rebuild_from_raw_impl: a RULE-SET line whose provider did not load is left out
Install ==
  /\ stage = "install"
  /\ \E p \in LoadPayloads : installed' = Loaded(p) /\ (IF prefetched = None THEN Caches(p) ELSE UNCHANGED cache)
  /\ Goto("running") /\ boot' = FALSE /\ prefetched' = None /\ ctx' = FALSE
  /\ fresh' = (boot /\ prefetched # None)
  /\ UNCHANGED <<config, source, geo, prov, refresh, crashes>>

\* PUT /configs with the same document
Reload ==
  /\ stage = "running" /\ Goto("prefetch")
  /\ UNCHANGED <<config, source, cache, geo, boot, prefetched, ctx, prov, installed, refresh, fresh, crashes>>

\* The process ends, maybe amid a write of the cache file, and is started again
Crash ==
  /\ crashes < MaxCrashes /\ crashes' = crashes + 1
  /\ stage' = "prefetch" /\ boot' = TRUE /\ prefetched' = None /\ ctx' = FALSE
  /\ prov' = None /\ installed' = None /\ fresh' = TRUE
  /\ rpc' = [t \in Refreshers |-> "idle"] /\ rgot' = [t \in Refreshers |-> None]
  /\ cache' \in {cache} \cup (IF config.cached /\ Fetches /\ stage \in {"prefetch", "load", "install"}
                              THEN {Cut} ELSE {})
  /\ UNCHANGED <<config, source, geo>>

---------------------------------------------------------------------------
(* RuleProvider::refresh                                                   *)

Up == stage \notin {"failed"} /\ ~boot /\ prov # None

\* Only an http provider; a fetch that fails leaves the set as it is
RefreshFetch(t) ==
  /\ Up /\ rpc[t] = "idle" /\ config.type = "http"
  /\ rpc' = [rpc EXCEPT ![t] = "fetched"] /\ rgot' = [rgot EXCEPT ![t] = source]
  /\ UNCHANGED <<config, source, cache, geo, stage, boot, prefetched, ctx, prov, installed, fresh, crashes>>

\* parse_bytes_to_ruleset: no format is given, and the context is empty
RefreshSwap(t) ==
  /\ Up /\ rpc[t] = "fetched"
  /\ LET set == Parse(rgot[t], None, FALSE) IN prov' = IF set = None THEN prov ELSE set
  /\ rpc' = [rpc EXCEPT ![t] = "idle"] /\ rgot' = [rgot EXCEPT ![t] = None]
  /\ fresh' = FALSE
  /\ UNCHANGED <<config, source, cache, geo, stage, boot, prefetched, ctx, installed, crashes>>

Next ==
  \/ SourceChanges \/ Prefetch \/ DownloadGeo \/ RenameGeo \/ SkipGeo
  \/ BuildContext \/ Load \/ Install \/ Reload \/ Crash
  \/ \E t \in Refreshers : RefreshFetch(t) \/ RefreshSwap(t)

Spec == Init /\ [][Next]_vars

---------------------------------------------------------------------------

\* A start gives the rules and the provider the same set, read once, with every GEOIP
\* entry it has; a database is never half a file, whenever the process ends.
LoadsAgree ==
  /\ fresh /\ stage = "running" => prov = installed
  /\ fresh /\ installed # None => ~installed.lost
  /\ gfile # "torn"

\* The rules match by the set the provider has, of a provider whose cache file is good:
\* docs/specs/rule-provider-upgrade.md has the match engine read the provider.
RulesFollowProvider ==
  (stage = "running" /\ PrefersCache /\ installed # None /\ prov # None) => installed = prov

\* The headers a provider sends with its secrets go to no origin but the first one, nor
\* back to it after a detour; at most MAX_REDIRECTS are followed; and a body is returned
\* only whole: of the declared length, or up to the final chunk.
FetchExact ==
  /\ \A n \in 1 .. MaxRedirects + 2 : \A origins \in [1 .. n -> {"a", "b"}] :
       LET f == fetch_capped(origins)
       IN /\ f.ok = (n <= MaxRedirects + 1)
          /\ \A i \in DOMAIN f.asked :
               f.asked[i].secrets = (\A j \in 1 .. i : origins[j] = origins[1])
  /\ \A lengths \in {<<>>} \cup [1 .. 1 -> 0 .. 3] \cup [1 .. 2 -> 0 .. 3], read \in 0 .. 3,
        chunked \in BOOLEAN, sizes \in [1 .. 2 -> 0 .. 2], whole \in [1 .. 2 -> BOOLEAN] :
       LET chunks == [i \in 1 .. 2 |-> [size |-> sizes[i], whole |-> whole[i]]]
           body == parse_response([complete |-> TRUE, status |-> 2, location |-> FALSE,
                     lengths |-> lengths, read |-> read, chunked |-> chunked, chunks |-> chunks])
       IN body # None =>
            /\ body <= BodyLimit
            /\ ~chunked => \A i \in DOMAIN lengths : lengths[i] = read
            /\ chunked => \E i \in 1 .. 2 : /\ sizes[i] = 0 /\ \A j \in 1 .. i : whole[j]
                                            /\ body = IF i = 1 THEN 0 ELSE sizes[1]
============================================================================
