----------------------------- MODULE MCFakeIp -----------------------------
(* The two stores of a fake-IP pool: in memory (FakeIpMemory, extended) and *)
(* in a file (FakeIpFile), the latter without and with a concurrent flush.   *)
(* They share no variable, so only the one `part` names takes steps.         *)
EXTENDS FakeIpMemory

CONSTANTS h1, h2, h3, h4, n1, n2, n3, n4, N1, g1, g2, g3, g4, looker, flusher

VARIABLES part, entries, savedOffset, savedCycle, reverse, dirty, permit, prefix,
  fOffset, fCycle, fLock, fHost, fCand, victim, fPc, fpc, bpc, bsnap, dpc, tmp, disk,
  failures, restarts, allocs

\* Two spellings of one host
LowerNames == (n1 :> h1) @@ (N1 :> h1) @@ (n2 :> h2) @@ (n3 :> h3) @@ (n4 :> h4)
\* A /29 has three allocatable addresses
Slash29 == <<8, 8>>

\* One task looks up, recycles, persists, fails, stops and restarts
F == INSTANCE FakeIpFile WITH
       Lookers <- {looker}, Flushers <- {}, Hosts <- {g1, g2, g3, g4}, Networks <- {Slash29},
       MaxFailures <- 1, MaxRestarts <- 1, MaxAllocs <- 5,
       offset <- fOffset, cycle <- fCycle, lock <- fLock, host <- fHost, cand <- fCand,
       pc <- fPc
\* A second task flushes
C == INSTANCE FakeIpFile WITH
       Lookers <- {looker}, Flushers <- {flusher}, Hosts <- {h1, h2}, Networks <- {Slash29},
       MaxFailures <- 0, MaxRestarts <- 0, MaxAllocs <- 2,
       offset <- fOffset, cycle <- fCycle, lock <- fLock, host <- fHost, cand <- fCand,
       pc <- fPc

ASSUME FileAssumptions ==
  /\ F!FilePrefixAssumption /\ F!FileNoneAssumption
  /\ C!FilePrefixAssumption /\ C!FileNoneAssumption

fileVars == <<entries, savedOffset, savedCycle, reverse, dirty, permit, prefix,
              fOffset, fCycle, fLock, fHost, fCand, victim, fPc, fpc, bpc, bsnap, dpc,
              tmp, disk, failures, restarts, allocs>>
MCvars == <<part, vars, fileVars>>

MCInit ==
  /\ Init
  /\ \/ part \in {"memory", "file"} /\ F!Init
     \/ part = "flush" /\ C!Init

MCNext ==
  \/ part = "memory" /\ Next /\ UNCHANGED <<part, fileVars>>
  \/ part = "file" /\ F!Next /\ UNCHANGED <<part, vars>>
  \/ part = "flush" /\ C!Next /\ UNCHANGED <<part, vars>>

MCSpec == MCInit /\ [][MCNext]_MCvars

Symmetry == Permutations({g1, g2, g3, g4})

---------------------------------------------------------------------------
=============================================================================
