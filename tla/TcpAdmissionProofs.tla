------------------------ MODULE TcpAdmissionProofs ------------------------
(***************************************************************************)
(* Proofs about TcpAdmission, for any number of connections, API tasks and *)
(* cold reloads.                                                           *)
(***************************************************************************)
EXTENDS TcpAdmission, TLAPS


\* The generation lock: no reader beside a writer, a reader has validated its
\* generation, the tail of reload_routing runs under the write lock.
LockInv ==
  /\ writer # None => readers = {} /\ apc[writer] \in {"retain", "retainNotify", "install", "setmode"}
  /\ \A c \in Conns : pc[c] = "insert" => c \in readers /\ adm[c] = generation
  /\ \A a \in Admins : apc[a] \in {"install", "setmode"} => writer = a
  /\ \A c \in Conns : adm[c] <= generation
  /\ writer # None => \A c \in Conns : adm[c] < generation

\* A closer knows whom it closes, and has set the flag before it notifies
CloserInv ==
  \A a \in Admins :
    /\ apc[a] \in {"store", "notify", "retainNotify"} => target[a] \in Conns
    /\ apc[a] \in {"notify", "retainNotify"} => closed[target[a]]

\* A flow of an older generation is cancelled, or the reload that made it old
\* still has it on its list.
StaleInv ==
  \A c \in Conns :
    pc[c] \in Guarded /\ adm[c] # generation =>
      \/ closed[c] \/ Closing(c)
      \/ /\ writer # None /\ apc[writer] \in {"retain", "retainNotify"}
         /\ c \in todo[writer] /\ c \in connections

\* What was read before the last cold publication belongs to an older generation
OldInv ==
  \A c \in old : pc[c] \in Deciding \cup Guarded /\ adm[c] # generation

\* A task that has looked at the flag is registered for the wake-up
WakeInv ==
  /\ \A c \in Conns : pc[c] \in {"check", "run"} => waiter[c] # "none"
  /\ NoLostWakeup

IndInv == TypeOK /\ LockInv /\ CloserInv /\ TableIsComplete /\ StaleInv /\ OldInv /\ WakeInv

---------------------------------------------------------------------------
\* Every step keeps the types; a closer's target is a connection
LEMMA TypeStep == TypeOK /\ CloserInv /\ [Next]_vars => TypeOK'
<1> SUFFICES ASSUME TypeOK /\ CloserInv, [Next]_vars PROVE TypeOK'
    OBVIOUS
<1> USE NoneAssumption, ModesAssumption
    DEF TypeOK, ConnStates, Deciding, Guarded, AdminStates, CloserInv,
        Goto, Exit, AdminGoto, vars, lockVars, policyVars, localVars, flowVars, adminVars
<1>1. ASSUME NEW c \in Conns, Capture(c) PROVE TypeOK'
      BY <1>1 DEF Capture
<1>2. ASSUME NEW c \in Conns, ReadModeLazy(c) PROVE TypeOK'
      BY <1>2 DEF ReadModeLazy
<1>3. ASSUME NEW c \in Conns, ReadMode(c) PROVE TypeOK'
      BY <1>3 DEF ReadMode
<1>4. ASSUME NEW c \in Conns, ReadRouteLazy(c) PROVE TypeOK'
      BY <1>4 DEF ReadRouteLazy
<1>5. ASSUME NEW c \in Conns, ReadRoute(c) PROVE TypeOK'
      BY <1>5 DEF ReadRoute
<1>6. ASSUME NEW c \in Conns, ResolveDone(c) PROVE TypeOK'
      BY <1>6 DEF ResolveDone
<1>7. ASSUME NEW c \in Conns, Validate(c) PROVE TypeOK'
      BY <1>7 DEF Validate
<1>8. ASSUME NEW c \in Conns, Insert(c) PROVE TypeOK'
      BY <1>8 DEF Insert
<1>9. ASSUME NEW c \in Conns, Enable(c) PROVE TypeOK'
      BY <1>9 DEF Enable
<1>10. ASSUME NEW c \in Conns, CheckClosed(c) PROVE TypeOK'
      BY <1>10 DEF CheckClosed
<1>11. ASSUME NEW c \in Conns, Cancelled(c) PROVE TypeOK'
      BY <1>11 DEF Cancelled
<1>12. ASSUME NEW c \in Conns, DropGuard(c) PROVE TypeOK'
      BY <1>12 DEF DropGuard
<1>13. ASSUME NEW c \in Conns, AbortSetup(c) PROVE TypeOK'
      BY <1>13 DEF AbortSetup
<1>14. ASSUME NEW c \in Conns, FutureEnds(c) PROVE TypeOK'
      BY <1>14 DEF FutureEnds
<1>15. ASSUME NEW a \in Admins, StoreClosed(a) PROVE TypeOK'
      BY <1>15 DEF StoreClosed
<1>16. ASSUME NEW a \in Admins, NotifyWaiters(a) PROVE TypeOK'
      BY <1>16 DEF NotifyWaiters, Notified
<1>17. ASSUME NEW a \in Admins, RetainNotify(a) PROVE TypeOK'
      BY <1>17 DEF RetainNotify, Notified
<1>18. ASSUME NEW a \in Admins, RetainEnd(a) PROVE TypeOK'
      BY <1>18 DEF RetainEnd
<1>19. ASSUME NEW a \in Admins, Install(a) PROVE TypeOK'
      BY <1>19 DEF Install
<1>20. ASSUME NEW a \in Admins, Release(a) PROVE TypeOK'
      BY <1>20 DEF Release
<1>21. ASSUME NEW a \in Admins, CloseAll(a) PROVE TypeOK'
      BY <1>21 DEF CloseAll
<1>22. ASSUME NEW a \in Admins, Reload(a) PROVE TypeOK'
      BY <1>22 DEF Reload
<1>23. ASSUME NEW a \in Admins, UpdateRouting(a) PROVE TypeOK'
      BY <1>23 DEF UpdateRouting
<1>24. ASSUME NEW a \in Admins, PatchMode(a) PROVE TypeOK'
      BY <1>24 DEF PatchMode
<1>25. ASSUME NEW a \in Admins, NEW c \in Conns, RetainStore(a, c) PROVE TypeOK'
      BY <1>25 DEF RetainStore
<1>26. ASSUME NEW a \in Admins, NEW c \in Conns, CloseConnection(a, c) PROVE TypeOK'
      BY <1>26 DEF CloseConnection
<1>27. CASE UNCHANGED vars
     BY <1>27, SMTT(30)
<1>28. QED BY <1>1, <1>2, <1>3, <1>4, <1>5, <1>6, <1>7, <1>8, <1>9, <1>10, <1>11, <1>12, <1>13, <1>14, <1>15, <1>16, <1>17, <1>18, <1>19, <1>20, <1>21, <1>22, <1>23, <1>24, <1>25, <1>26, <1>27, Zenon
     DEF Next, ConnNext, AdminNext, TaskStep, AdminStep

\* Validate reads the generation under the lock that Reload needs exclusively
LEMMA LockStep == TypeOK /\ LockInv /\ [Next]_vars => LockInv'
<1> SUFFICES ASSUME TypeOK /\ LockInv, [Next]_vars PROVE LockInv'
    OBVIOUS
<1> USE NoneAssumption, ModesAssumption
    DEF TypeOK, ConnStates, Deciding, Guarded, AdminStates, LockInv,
        Goto, Exit, AdminGoto, vars, lockVars, policyVars, localVars, flowVars, adminVars
<1>1. ASSUME NEW c \in Conns, Capture(c) PROVE LockInv'
      BY <1>1 DEF Capture
<1>2. ASSUME NEW c \in Conns, ReadModeLazy(c) PROVE LockInv'
      BY <1>2 DEF ReadModeLazy
<1>3. ASSUME NEW c \in Conns, ReadMode(c) PROVE LockInv'
      BY <1>3 DEF ReadMode
<1>4. ASSUME NEW c \in Conns, ReadRouteLazy(c) PROVE LockInv'
      BY <1>4 DEF ReadRouteLazy
<1>5. ASSUME NEW c \in Conns, ReadRoute(c) PROVE LockInv'
      BY <1>5 DEF ReadRoute
<1>6. ASSUME NEW c \in Conns, ResolveDone(c) PROVE LockInv'
      BY <1>6 DEF ResolveDone
<1>7. ASSUME NEW c \in Conns, Validate(c) PROVE LockInv'
      BY <1>7 DEF Validate
<1>8. ASSUME NEW c \in Conns, Insert(c) PROVE LockInv'
      BY <1>8 DEF Insert
<1>9. ASSUME NEW c \in Conns, Enable(c) PROVE LockInv'
      BY <1>9 DEF Enable
<1>10. ASSUME NEW c \in Conns, CheckClosed(c) PROVE LockInv'
      BY <1>10 DEF CheckClosed
<1>11. ASSUME NEW c \in Conns, Cancelled(c) PROVE LockInv'
      BY <1>11 DEF Cancelled
<1>12. ASSUME NEW c \in Conns, DropGuard(c) PROVE LockInv'
      BY <1>12 DEF DropGuard
<1>13. ASSUME NEW c \in Conns, AbortSetup(c) PROVE LockInv'
      BY <1>13 DEF AbortSetup
<1>14. ASSUME NEW c \in Conns, FutureEnds(c) PROVE LockInv'
      BY <1>14 DEF FutureEnds
<1>15. ASSUME NEW a \in Admins, StoreClosed(a) PROVE LockInv'
      BY <1>15 DEF StoreClosed
<1>16. ASSUME NEW a \in Admins, NotifyWaiters(a) PROVE LockInv'
      BY <1>16 DEF NotifyWaiters, Notified
<1>17. ASSUME NEW a \in Admins, RetainNotify(a) PROVE LockInv'
      BY <1>17 DEF RetainNotify, Notified
<1>18. ASSUME NEW a \in Admins, RetainEnd(a) PROVE LockInv'
      BY <1>18 DEF RetainEnd
<1>19. ASSUME NEW a \in Admins, Install(a) PROVE LockInv'
      BY <1>19 DEF Install
<1>20. ASSUME NEW a \in Admins, Release(a) PROVE LockInv'
      BY <1>20 DEF Release
<1>21. ASSUME NEW a \in Admins, CloseAll(a) PROVE LockInv'
      BY <1>21 DEF CloseAll
<1>22. ASSUME NEW a \in Admins, Reload(a) PROVE LockInv'
      BY <1>22 DEF Reload
<1>23. ASSUME NEW a \in Admins, UpdateRouting(a) PROVE LockInv'
      BY <1>23 DEF UpdateRouting
<1>24. ASSUME NEW a \in Admins, PatchMode(a) PROVE LockInv'
      BY <1>24 DEF PatchMode
<1>25. ASSUME NEW a \in Admins, NEW c \in Conns, RetainStore(a, c) PROVE LockInv'
      BY <1>25 DEF RetainStore
<1>26. ASSUME NEW a \in Admins, NEW c \in Conns, CloseConnection(a, c) PROVE LockInv'
      BY <1>26 DEF CloseConnection
<1>27. CASE UNCHANGED vars
     BY <1>27
<1>28. QED BY <1>1, <1>2, <1>3, <1>4, <1>5, <1>6, <1>7, <1>8, <1>9, <1>10, <1>11, <1>12, <1>13, <1>14, <1>15, <1>16, <1>17, <1>18, <1>19, <1>20, <1>21, <1>22, <1>23, <1>24, <1>25, <1>26, <1>27, Zenon
     DEF Next, ConnNext, AdminNext, TaskStep, AdminStep

\* ConnCounters::close stores the flag before it notifies, and nothing clears it
LEMMA CloserStep == TypeOK /\ CloserInv /\ [Next]_vars => CloserInv'
<1> SUFFICES ASSUME TypeOK /\ CloserInv, [Next]_vars PROVE CloserInv'
    OBVIOUS
<1> USE NoneAssumption, ModesAssumption
    DEF TypeOK, ConnStates, Deciding, Guarded, AdminStates, CloserInv,
        Goto, Exit, AdminGoto, vars, lockVars, policyVars, localVars, flowVars, adminVars
<1>1. ASSUME NEW c \in Conns, Capture(c) PROVE CloserInv'
      BY <1>1 DEF Capture
<1>2. ASSUME NEW c \in Conns, ReadModeLazy(c) PROVE CloserInv'
      BY <1>2 DEF ReadModeLazy
<1>3. ASSUME NEW c \in Conns, ReadMode(c) PROVE CloserInv'
      BY <1>3 DEF ReadMode
<1>4. ASSUME NEW c \in Conns, ReadRouteLazy(c) PROVE CloserInv'
      BY <1>4 DEF ReadRouteLazy
<1>5. ASSUME NEW c \in Conns, ReadRoute(c) PROVE CloserInv'
      BY <1>5 DEF ReadRoute
<1>6. ASSUME NEW c \in Conns, ResolveDone(c) PROVE CloserInv'
      BY <1>6 DEF ResolveDone
<1>7. ASSUME NEW c \in Conns, Validate(c) PROVE CloserInv'
      BY <1>7 DEF Validate
<1>8. ASSUME NEW c \in Conns, Insert(c) PROVE CloserInv'
      BY <1>8 DEF Insert
<1>9. ASSUME NEW c \in Conns, Enable(c) PROVE CloserInv'
      BY <1>9 DEF Enable
<1>10. ASSUME NEW c \in Conns, CheckClosed(c) PROVE CloserInv'
      BY <1>10 DEF CheckClosed
<1>11. ASSUME NEW c \in Conns, Cancelled(c) PROVE CloserInv'
      BY <1>11 DEF Cancelled
<1>12. ASSUME NEW c \in Conns, DropGuard(c) PROVE CloserInv'
      BY <1>12 DEF DropGuard
<1>13. ASSUME NEW c \in Conns, AbortSetup(c) PROVE CloserInv'
      BY <1>13 DEF AbortSetup
<1>14. ASSUME NEW c \in Conns, FutureEnds(c) PROVE CloserInv'
      BY <1>14 DEF FutureEnds
<1>15. ASSUME NEW a \in Admins, StoreClosed(a) PROVE CloserInv'
      BY <1>15 DEF StoreClosed
<1>16. ASSUME NEW a \in Admins, NotifyWaiters(a) PROVE CloserInv'
      BY <1>16 DEF NotifyWaiters, Notified
<1>17. ASSUME NEW a \in Admins, RetainNotify(a) PROVE CloserInv'
      BY <1>17 DEF RetainNotify, Notified
<1>18. ASSUME NEW a \in Admins, RetainEnd(a) PROVE CloserInv'
      BY <1>18 DEF RetainEnd
<1>19. ASSUME NEW a \in Admins, Install(a) PROVE CloserInv'
      BY <1>19 DEF Install
<1>20. ASSUME NEW a \in Admins, Release(a) PROVE CloserInv'
      BY <1>20 DEF Release
<1>21. ASSUME NEW a \in Admins, CloseAll(a) PROVE CloserInv'
      BY <1>21 DEF CloseAll
<1>22. ASSUME NEW a \in Admins, Reload(a) PROVE CloserInv'
      BY <1>22 DEF Reload
<1>23. ASSUME NEW a \in Admins, UpdateRouting(a) PROVE CloserInv'
      BY <1>23 DEF UpdateRouting
<1>24. ASSUME NEW a \in Admins, PatchMode(a) PROVE CloserInv'
      BY <1>24 DEF PatchMode
<1>25. ASSUME NEW a \in Admins, NEW c \in Conns, RetainStore(a, c) PROVE CloserInv'
      BY <1>25 DEF RetainStore
<1>26. ASSUME NEW a \in Admins, NEW c \in Conns, CloseConnection(a, c) PROVE CloserInv'
      BY <1>26 DEF CloseConnection
<1>27. CASE UNCHANGED vars
     BY <1>27, SMTT(30)
<1>28. QED BY <1>1, <1>2, <1>3, <1>4, <1>5, <1>6, <1>7, <1>8, <1>9, <1>10, <1>11, <1>12, <1>13, <1>14, <1>15, <1>16, <1>17, <1>18, <1>19, <1>20, <1>21, <1>22, <1>23, <1>24, <1>25, <1>26, <1>27
     DEF Next, ConnNext, AdminNext, TaskStep, AdminStep

\* An entry leaves the table only with its signal, or with its task
LEMMA TableStep == TypeOK /\ CloserInv /\ TableIsComplete /\ [Next]_vars => TableIsComplete'
<1> SUFFICES ASSUME TypeOK /\ CloserInv /\ TableIsComplete, [Next]_vars PROVE TableIsComplete'
    OBVIOUS
<1> USE NoneAssumption, ModesAssumption
    DEF TypeOK, ConnStates, Deciding, Guarded, AdminStates, CloserInv, TableIsComplete, Closing, ShardLocked,
        Goto, Exit, AdminGoto, vars, lockVars, policyVars, localVars, flowVars, adminVars
<1>1. ASSUME NEW c \in Conns, Capture(c) PROVE TableIsComplete'
      BY <1>1 DEF Capture
<1>2. ASSUME NEW c \in Conns, ReadModeLazy(c) PROVE TableIsComplete'
      BY <1>2 DEF ReadModeLazy
<1>3. ASSUME NEW c \in Conns, ReadMode(c) PROVE TableIsComplete'
      BY <1>3 DEF ReadMode
<1>4. ASSUME NEW c \in Conns, ReadRouteLazy(c) PROVE TableIsComplete'
      BY <1>4 DEF ReadRouteLazy
<1>5. ASSUME NEW c \in Conns, ReadRoute(c) PROVE TableIsComplete'
      BY <1>5 DEF ReadRoute
<1>6. ASSUME NEW c \in Conns, ResolveDone(c) PROVE TableIsComplete'
      BY <1>6 DEF ResolveDone
<1>7. ASSUME NEW c \in Conns, Validate(c) PROVE TableIsComplete'
      BY <1>7 DEF Validate
<1>8. ASSUME NEW c \in Conns, Insert(c) PROVE TableIsComplete'
      BY <1>8 DEF Insert
<1>9. ASSUME NEW c \in Conns, Enable(c) PROVE TableIsComplete'
      BY <1>9 DEF Enable
<1>10. ASSUME NEW c \in Conns, CheckClosed(c) PROVE TableIsComplete'
      BY <1>10 DEF CheckClosed
<1>11. ASSUME NEW c \in Conns, Cancelled(c) PROVE TableIsComplete'
      BY <1>11 DEF Cancelled
<1>12. ASSUME NEW c \in Conns, DropGuard(c) PROVE TableIsComplete'
      BY <1>12 DEF DropGuard
<1>13. ASSUME NEW c \in Conns, AbortSetup(c) PROVE TableIsComplete'
      BY <1>13 DEF AbortSetup
<1>14. ASSUME NEW c \in Conns, FutureEnds(c) PROVE TableIsComplete'
      BY <1>14 DEF FutureEnds
<1>15. ASSUME NEW a \in Admins, StoreClosed(a) PROVE TableIsComplete'
      BY <1>15 DEF StoreClosed
<1>16. ASSUME NEW a \in Admins, NotifyWaiters(a) PROVE TableIsComplete'
      BY <1>16 DEF NotifyWaiters, Notified
<1>17. ASSUME NEW a \in Admins, RetainNotify(a) PROVE TableIsComplete'
      BY <1>17 DEF RetainNotify, Notified
<1>18. ASSUME NEW a \in Admins, RetainEnd(a) PROVE TableIsComplete'
      BY <1>18 DEF RetainEnd
<1>19. ASSUME NEW a \in Admins, Install(a) PROVE TableIsComplete'
      BY <1>19 DEF Install
<1>20. ASSUME NEW a \in Admins, Release(a) PROVE TableIsComplete'
      BY <1>20 DEF Release
<1>21. ASSUME NEW a \in Admins, CloseAll(a) PROVE TableIsComplete'
      BY <1>21 DEF CloseAll
<1>22. ASSUME NEW a \in Admins, Reload(a) PROVE TableIsComplete'
      BY <1>22 DEF Reload
<1>23. ASSUME NEW a \in Admins, UpdateRouting(a) PROVE TableIsComplete'
      BY <1>23 DEF UpdateRouting
<1>24. ASSUME NEW a \in Admins, PatchMode(a) PROVE TableIsComplete'
      BY <1>24 DEF PatchMode
<1>25. ASSUME NEW a \in Admins, NEW c \in Conns, RetainStore(a, c) PROVE TableIsComplete'
      BY <1>25 DEF RetainStore
<1>26. ASSUME NEW a \in Admins, NEW c \in Conns, CloseConnection(a, c) PROVE TableIsComplete'
      BY <1>26 DEF CloseConnection
<1>27. CASE UNCHANGED vars
     BY <1>27, SMTT(30)
<1>28. QED BY <1>1, <1>2, <1>3, <1>4, <1>5, <1>6, <1>7, <1>8, <1>9, <1>10, <1>11, <1>12, <1>13, <1>14, <1>15, <1>16, <1>17, <1>18, <1>19, <1>20, <1>21, <1>22, <1>23, <1>24, <1>25, <1>26, <1>27, ZenonT(30)
     DEF Next, ConnNext, AdminNext, TaskStep, AdminStep

\* Reload puts every older flow on its list, and leaves none there
LEMMA StaleStep == TypeOK /\ LockInv /\ CloserInv /\ TableIsComplete /\ StaleInv /\ [Next]_vars => StaleInv'
<1> SUFFICES ASSUME TypeOK /\ LockInv /\ CloserInv /\ TableIsComplete /\ StaleInv, [Next]_vars PROVE StaleInv'
    OBVIOUS
<1> USE NoneAssumption, ModesAssumption
    DEF TypeOK, ConnStates, Deciding, Guarded, AdminStates, LockInv, CloserInv, TableIsComplete, StaleInv, Closing, ShardLocked,
        Goto, Exit, AdminGoto, vars, lockVars, policyVars, localVars, flowVars, adminVars
<1>1. ASSUME NEW c \in Conns, Capture(c) PROVE StaleInv'
      BY <1>1 DEF Capture
<1>2. ASSUME NEW c \in Conns, ReadModeLazy(c) PROVE StaleInv'
      BY <1>2 DEF ReadModeLazy
<1>3. ASSUME NEW c \in Conns, ReadMode(c) PROVE StaleInv'
      BY <1>3 DEF ReadMode
<1>4. ASSUME NEW c \in Conns, ReadRouteLazy(c) PROVE StaleInv'
      BY <1>4 DEF ReadRouteLazy
<1>5. ASSUME NEW c \in Conns, ReadRoute(c) PROVE StaleInv'
      BY <1>5 DEF ReadRoute
<1>6. ASSUME NEW c \in Conns, ResolveDone(c) PROVE StaleInv'
      BY <1>6 DEF ResolveDone
<1>7. ASSUME NEW c \in Conns, Validate(c) PROVE StaleInv'
      BY <1>7 DEF Validate
<1>8. ASSUME NEW c \in Conns, Insert(c) PROVE StaleInv'
      BY <1>8 DEF Insert
<1>9. ASSUME NEW c \in Conns, Enable(c) PROVE StaleInv'
      BY <1>9 DEF Enable
<1>10. ASSUME NEW c \in Conns, CheckClosed(c) PROVE StaleInv'
      BY <1>10 DEF CheckClosed
<1>11. ASSUME NEW c \in Conns, Cancelled(c) PROVE StaleInv'
      BY <1>11 DEF Cancelled
<1>12. ASSUME NEW c \in Conns, DropGuard(c) PROVE StaleInv'
      BY <1>12 DEF DropGuard
<1>13. ASSUME NEW c \in Conns, AbortSetup(c) PROVE StaleInv'
      BY <1>13 DEF AbortSetup
<1>14. ASSUME NEW c \in Conns, FutureEnds(c) PROVE StaleInv'
      BY <1>14 DEF FutureEnds
<1>15. ASSUME NEW a \in Admins, StoreClosed(a) PROVE StaleInv'
      BY <1>15 DEF StoreClosed
<1>16. ASSUME NEW a \in Admins, NotifyWaiters(a) PROVE StaleInv'
      BY <1>16 DEF NotifyWaiters, Notified
<1>17. ASSUME NEW a \in Admins, RetainNotify(a) PROVE StaleInv'
      BY <1>17 DEF RetainNotify, Notified
<1>18. ASSUME NEW a \in Admins, RetainEnd(a) PROVE StaleInv'
      BY <1>18 DEF RetainEnd
<1>19. ASSUME NEW a \in Admins, Install(a) PROVE StaleInv'
      BY <1>19 DEF Install
<1>20. ASSUME NEW a \in Admins, Release(a) PROVE StaleInv'
      BY <1>20 DEF Release
<1>21. ASSUME NEW a \in Admins, CloseAll(a) PROVE StaleInv'
      BY <1>21 DEF CloseAll
<1>22. ASSUME NEW a \in Admins, Reload(a) PROVE StaleInv'
      BY <1>22 DEF Reload
<1>23. ASSUME NEW a \in Admins, UpdateRouting(a) PROVE StaleInv'
      BY <1>23 DEF UpdateRouting
<1>24. ASSUME NEW a \in Admins, PatchMode(a) PROVE StaleInv'
      BY <1>24 DEF PatchMode
<1>25. ASSUME NEW a \in Admins, NEW c \in Conns, RetainStore(a, c) PROVE StaleInv'
      BY <1>25 DEF RetainStore
<1>26. ASSUME NEW a \in Admins, NEW c \in Conns, CloseConnection(a, c) PROVE StaleInv'
      BY <1>26 DEF CloseConnection
<1>27. CASE UNCHANGED vars
     BY <1>27
<1>28. QED BY <1>1, <1>2, <1>3, <1>4, <1>5, <1>6, <1>7, <1>8, <1>9, <1>10, <1>11, <1>12, <1>13, <1>14, <1>15, <1>16, <1>17, <1>18, <1>19, <1>20, <1>21, <1>22, <1>23, <1>24, <1>25, <1>26, <1>27, Zenon
     DEF Next, ConnNext, AdminNext, TaskStep, AdminStep

\* No setup captures the new generation before both publications
LEMMA OldStep == TypeOK /\ LockInv /\ OldInv /\ [Next]_vars => OldInv'
<1> SUFFICES ASSUME TypeOK /\ LockInv /\ OldInv, [Next]_vars PROVE OldInv'
    OBVIOUS
<1> USE NoneAssumption, ModesAssumption
    DEF TypeOK, ConnStates, Deciding, Guarded, AdminStates, LockInv, OldInv,
        Goto, Exit, AdminGoto, vars, lockVars, policyVars, localVars, flowVars, adminVars
<1>1. ASSUME NEW c \in Conns, Capture(c) PROVE OldInv'
      BY <1>1 DEF Capture
<1>2. ASSUME NEW c \in Conns, ReadModeLazy(c) PROVE OldInv'
      BY <1>2 DEF ReadModeLazy
<1>3. ASSUME NEW c \in Conns, ReadMode(c) PROVE OldInv'
      BY <1>3 DEF ReadMode
<1>4. ASSUME NEW c \in Conns, ReadRouteLazy(c) PROVE OldInv'
      BY <1>4 DEF ReadRouteLazy
<1>5. ASSUME NEW c \in Conns, ReadRoute(c) PROVE OldInv'
      BY <1>5 DEF ReadRoute
<1>6. ASSUME NEW c \in Conns, ResolveDone(c) PROVE OldInv'
      BY <1>6 DEF ResolveDone
<1>7. ASSUME NEW c \in Conns, Validate(c) PROVE OldInv'
      BY <1>7 DEF Validate
<1>8. ASSUME NEW c \in Conns, Insert(c) PROVE OldInv'
      BY <1>8 DEF Insert
<1>9. ASSUME NEW c \in Conns, Enable(c) PROVE OldInv'
      BY <1>9 DEF Enable
<1>10. ASSUME NEW c \in Conns, CheckClosed(c) PROVE OldInv'
      BY <1>10 DEF CheckClosed
<1>11. ASSUME NEW c \in Conns, Cancelled(c) PROVE OldInv'
      BY <1>11 DEF Cancelled
<1>12. ASSUME NEW c \in Conns, DropGuard(c) PROVE OldInv'
      BY <1>12 DEF DropGuard
<1>13. ASSUME NEW c \in Conns, AbortSetup(c) PROVE OldInv'
      BY <1>13 DEF AbortSetup
<1>14. ASSUME NEW c \in Conns, FutureEnds(c) PROVE OldInv'
      BY <1>14 DEF FutureEnds
<1>15. ASSUME NEW a \in Admins, StoreClosed(a) PROVE OldInv'
      BY <1>15 DEF StoreClosed
<1>16. ASSUME NEW a \in Admins, NotifyWaiters(a) PROVE OldInv'
      BY <1>16 DEF NotifyWaiters, Notified
<1>17. ASSUME NEW a \in Admins, RetainNotify(a) PROVE OldInv'
      BY <1>17 DEF RetainNotify, Notified
<1>18. ASSUME NEW a \in Admins, RetainEnd(a) PROVE OldInv'
      BY <1>18 DEF RetainEnd
<1>19. ASSUME NEW a \in Admins, Install(a) PROVE OldInv'
      BY <1>19 DEF Install
<1>20. ASSUME NEW a \in Admins, Release(a) PROVE OldInv'
      BY <1>20 DEF Release
<1>21. ASSUME NEW a \in Admins, CloseAll(a) PROVE OldInv'
      BY <1>21 DEF CloseAll
<1>22. ASSUME NEW a \in Admins, Reload(a) PROVE OldInv'
      BY <1>22 DEF Reload
<1>23. ASSUME NEW a \in Admins, UpdateRouting(a) PROVE OldInv'
      BY <1>23 DEF UpdateRouting
<1>24. ASSUME NEW a \in Admins, PatchMode(a) PROVE OldInv'
      BY <1>24 DEF PatchMode
<1>25. ASSUME NEW a \in Admins, NEW c \in Conns, RetainStore(a, c) PROVE OldInv'
      BY <1>25 DEF RetainStore
<1>26. ASSUME NEW a \in Admins, NEW c \in Conns, CloseConnection(a, c) PROVE OldInv'
      BY <1>26 DEF CloseConnection
<1>27. CASE UNCHANGED vars
     BY <1>27, SMTT(30)
<1>28. QED BY <1>1, <1>2, <1>3, <1>4, <1>5, <1>6, <1>7, <1>8, <1>9, <1>10, <1>11, <1>12, <1>13, <1>14, <1>15, <1>16, <1>17, <1>18, <1>19, <1>20, <1>21, <1>22, <1>23, <1>24, <1>25, <1>26, <1>27
     DEF Next, ConnNext, AdminNext, TaskStep, AdminStep

\* A registered waiter is woken by whoever sets its flag
LEMMA WakeStep == TypeOK /\ CloserInv /\ WakeInv /\ [Next]_vars => WakeInv'
<1> SUFFICES ASSUME TypeOK /\ CloserInv /\ WakeInv, [Next]_vars PROVE WakeInv'
    OBVIOUS
<1> USE NoneAssumption, ModesAssumption
    DEF TypeOK, ConnStates, Deciding, Guarded, AdminStates, CloserInv, WakeInv, NoLostWakeup, Closing, ShardLocked,
        Goto, Exit, AdminGoto, vars, lockVars, policyVars, localVars, flowVars, adminVars
<1>1. ASSUME NEW c \in Conns, Capture(c) PROVE WakeInv'
      BY <1>1 DEF Capture
<1>2. ASSUME NEW c \in Conns, ReadModeLazy(c) PROVE WakeInv'
      BY <1>2 DEF ReadModeLazy
<1>3. ASSUME NEW c \in Conns, ReadMode(c) PROVE WakeInv'
      BY <1>3 DEF ReadMode
<1>4. ASSUME NEW c \in Conns, ReadRouteLazy(c) PROVE WakeInv'
      BY <1>4 DEF ReadRouteLazy
<1>5. ASSUME NEW c \in Conns, ReadRoute(c) PROVE WakeInv'
      BY <1>5 DEF ReadRoute
<1>6. ASSUME NEW c \in Conns, ResolveDone(c) PROVE WakeInv'
      BY <1>6 DEF ResolveDone
<1>7. ASSUME NEW c \in Conns, Validate(c) PROVE WakeInv'
      BY <1>7 DEF Validate
<1>8. ASSUME NEW c \in Conns, Insert(c) PROVE WakeInv'
      BY <1>8 DEF Insert
<1>9. ASSUME NEW c \in Conns, Enable(c) PROVE WakeInv'
      BY <1>9 DEF Enable
<1>10. ASSUME NEW c \in Conns, CheckClosed(c) PROVE WakeInv'
      BY <1>10 DEF CheckClosed
<1>11. ASSUME NEW c \in Conns, Cancelled(c) PROVE WakeInv'
      BY <1>11 DEF Cancelled
<1>12. ASSUME NEW c \in Conns, DropGuard(c) PROVE WakeInv'
      BY <1>12 DEF DropGuard
<1>13. ASSUME NEW c \in Conns, AbortSetup(c) PROVE WakeInv'
      BY <1>13 DEF AbortSetup
<1>14. ASSUME NEW c \in Conns, FutureEnds(c) PROVE WakeInv'
      BY <1>14 DEF FutureEnds
<1>15. ASSUME NEW a \in Admins, StoreClosed(a) PROVE WakeInv'
      BY <1>15 DEF StoreClosed
<1>16. ASSUME NEW a \in Admins, NotifyWaiters(a) PROVE WakeInv'
      BY <1>16 DEF NotifyWaiters, Notified
<1>17. ASSUME NEW a \in Admins, RetainNotify(a) PROVE WakeInv'
      BY <1>17 DEF RetainNotify, Notified
<1>18. ASSUME NEW a \in Admins, RetainEnd(a) PROVE WakeInv'
      BY <1>18 DEF RetainEnd
<1>19. ASSUME NEW a \in Admins, Install(a) PROVE WakeInv'
      BY <1>19 DEF Install
<1>20. ASSUME NEW a \in Admins, Release(a) PROVE WakeInv'
      BY <1>20 DEF Release
<1>21. ASSUME NEW a \in Admins, CloseAll(a) PROVE WakeInv'
      BY <1>21 DEF CloseAll
<1>22. ASSUME NEW a \in Admins, Reload(a) PROVE WakeInv'
      BY <1>22 DEF Reload
<1>23. ASSUME NEW a \in Admins, UpdateRouting(a) PROVE WakeInv'
      BY <1>23 DEF UpdateRouting
<1>24. ASSUME NEW a \in Admins, PatchMode(a) PROVE WakeInv'
      BY <1>24 DEF PatchMode
<1>25. ASSUME NEW a \in Admins, NEW c \in Conns, RetainStore(a, c) PROVE WakeInv'
      BY <1>25 DEF RetainStore
<1>26. ASSUME NEW a \in Admins, NEW c \in Conns, CloseConnection(a, c) PROVE WakeInv'
      BY <1>26 DEF CloseConnection
<1>27. CASE UNCHANGED vars
     BY <1>27
<1>28. QED BY <1>1, <1>2, <1>3, <1>4, <1>5, <1>6, <1>7, <1>8, <1>9, <1>10, <1>11, <1>12, <1>13, <1>14, <1>15, <1>16, <1>17, <1>18, <1>19, <1>20, <1>21, <1>22, <1>23, <1>24, <1>25, <1>26, <1>27, ZenonT(30)
     DEF Next, ConnNext, AdminNext, TaskStep, AdminStep

---------------------------------------------------------------------------
LEMMA IndInvInit == Init => IndInv
  BY NoneAssumption, ModesAssumption, BoundAssumption
  DEF Init, IndInv, TypeOK, ConnStates, AdminStates, Deciding, Guarded, LockInv, CloserInv,
      TableIsComplete, StaleInv, OldInv, WakeInv, NoLostWakeup

\* The inductive invariant holds in every behaviour
THEOREM Inductive == Spec => []IndInv
<1>1. IndInv /\ [Next]_vars => IndInv'
  BY TypeStep, LockStep, CloserStep, TableStep, StaleStep, OldStep, WakeStep DEF IndInv
<1>2. QED
  BY IndInvInit, <1>1, PTL DEF Spec

\* Every variable of the admission machinery keeps its type
THEOREM TypeCorrect == Spec => []TypeOK
  BY Inductive, PTL DEF IndInv

\* No flow decided by an older generation outlives a cold reload unsignalled,
\* whatever the number of connections, API tasks and reloads: reload_routing
\* and TcpAdmission::track exclude each other on the generation lock.
THEOREM NoFlowSurvivesReload == Spec => []NoStaleFlow
<1>1. IndInv => NoStaleFlow
  BY DEF IndInv, StaleInv, NoStaleFlow
<1>2. QED
  BY Inductive, <1>1, PTL

\* A flow of the current generation was decided from the policy the last cold
\* reload published, or a later one: the token is taken before the reads.
THEOREM DecisionIsCurrent == Spec => []DecidedFromCurrentPolicy
<1>1. IndInv => DecidedFromCurrentPolicy
  BY DEF IndInv, OldInv, DecidedFromCurrentPolicy
<1>2. QED
  BY Inductive, <1>1, PTL

\* ConnCounters::closed never sleeps through a closure
THEOREM WakeupIsNotLost == Spec => []NoLostWakeup
  BY Inductive, PTL DEF IndInv, WakeInv

\* The connection table lists every flow that has not been signalled, and none
\* whose task has ended.
THEOREM TableComplete == Spec => []TableIsComplete
  BY Inductive, PTL DEF IndInv
=============================================================================
