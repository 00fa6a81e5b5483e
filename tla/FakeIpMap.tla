----------------------------- MODULE FakeIpMap -----------------------------
(***************************************************************************)
(* What a fake-IP pool promises: every address has at most one host and    *)
(* every host at most one address, and an address is given only while it   *)
(* is free, to a host that has none.  Nothing is ever moved silently: an   *)
(* address is taken from a host before it is given to another.             *)
(***************************************************************************)
CONSTANTS Hosts, Addrs, None

VARIABLE owner    \* the host of each address, or None

Init == owner = [a \in Addrs |-> None]

\* A host gets a free address; to stay within its capacity the pool may
\* release one other address in the same step
Give(h, a) ==
  /\ owner[a] = None
  /\ \A b \in Addrs : owner[b] # h
  /\ \/ owner' = [owner EXCEPT ![a] = h]
     \/ \E b \in Addrs \ {a} : owner' = [owner EXCEPT ![a] = h, ![b] = None]

Release(a) ==
  /\ owner[a] # None
  /\ owner' = [owner EXCEPT ![a] = None]

Clear == owner' = [a \in Addrs |-> None]

Next ==
  \/ \E h \in Hosts, a \in Addrs : Give(h, a)
  \/ \E a \in Addrs : Release(a)
  \/ Clear

Spec == Init /\ [][Next]_owner
=============================================================================
