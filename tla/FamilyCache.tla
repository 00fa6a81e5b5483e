---------------------------- MODULE FamilyCache ----------------------------
(***************************************************************************)
(* What the DNS cache promises the resolver: for every domain, two         *)
(* independent answers, one per address family, each until its own expiry. *)
(* A cache may forget a domain.  It may not serve what expired, let one    *)
(* family's answer touch the other's, or replace addresses or an NXDOMAIN  *)
(* that are still fresh by an empty answer.                                *)
(***************************************************************************)
EXTENDS Naturals

CONSTANTS Domains, Families, Miss
VARIABLES now, hit      \* hit[d][f]: the answer the cache would serve, or Miss

Nothing == [f \in Families |-> Miss]

Init == now = 0 /\ hit = [d \in Domains |-> Nothing]

\* Every answer served is fresh
Live == \A d \in Domains, f \in Families : hit[d][f] # Miss => hit[d][f].expire > now

Kept(d) == hit'[d] = hit[d] \/ hit'[d] = Nothing

NoDowngrade(d, f) ==
  hit[d][f] # Miss /\ hit[d][f].kind # "nodata" /\ hit'[d][f] # Miss
    => hit'[d][f].kind # "nodata"

\* One family of one domain is answered
Answer(d, f) ==
  /\ now' = now
  /\ \A x \in Domains \ {d} : Kept(x)
  /\ \/ hit'[d] = Nothing
     \/ NoDowngrade(d, f) /\ \A g \in Families \ {f} : hit'[d][g] = hit[d][g]

Forget == now' = now /\ \A d \in Domains : Kept(d)

Tick ==
  /\ now' = now + 1
  /\ hit' = [d \in Domains |-> [f \in Families |->
               IF hit[d][f] # Miss /\ hit[d][f].expire > now' THEN hit[d][f] ELSE Miss]]

Next == Live' /\ ((\E d \in Domains, f \in Families : Answer(d, f)) \/ Forget \/ Tick)

Spec == Init /\ [][Next]_<<now, hit>>
=============================================================================
