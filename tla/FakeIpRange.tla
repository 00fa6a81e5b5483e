---------------------------- MODULE FakeIpRange ----------------------------
(***************************************************************************)
(* Address arithmetic of the fake-IP pools (meow-dns: fakeip.rs).  An      *)
(* address is a number below Word; a prefix is a pair of its network       *)
(* address and its size.                                                   *)
(***************************************************************************)
EXTENDS Integers

CONSTANT Word     \* number of addresses of the family

ASSUME WordAssumption == Word \in Nat \ {0}

NextAddr(ip) == (ip + 1) % Word
PrevAddr(ip) == (ip - 1) % Word

\* anchor_addrs: network + 1, network + 4 and the broadcast address
Gateway(prefix) == NextAddr(prefix[1])
FirstAddr(prefix) == NextAddr(NextAddr(NextAddr(Gateway(prefix))))
Broadcast(prefix) == prefix[1] + prefix[2] - 1

\* A prefix lies within the family, and Pool::new accepts it
Usable(prefix) ==
  /\ prefix[1] \in Nat /\ prefix[2] \in Nat
  /\ prefix[1] + prefix[2] <= Word
  /\ FirstAddr(prefix) < Broadcast(prefix)

ContainedInRange(ip, prefix) == FirstAddr(prefix) <= ip /\ ip < Broadcast(prefix)

Allocatable(prefix) == FirstAddr(prefix)..(Broadcast(prefix) - 1)

\* allocate: the cursor steps, and wraps to the first address
Wraps(offset, prefix) == ~(NextAddr(offset) < Broadcast(prefix))
Candidate(offset, prefix) ==
  IF Wraps(offset, prefix) THEN FirstAddr(prefix) ELSE NextAddr(offset)
=============================================================================
