------------------------ MODULE ActorInterfaceProofs ------------------------
(***************************************************************************)
(* Safety of ActorInterface for any number of clients and operations.      *)
(***************************************************************************)
EXTENDS ActorInterface, FiniteSetTheorems, TLAPS

Announced == {c \in Clients : pc[c] \in {"extlock", "incall"}}

\* _externalAcquired counts the callers between request and release.
AcquiredCount == externalAcquired = Cardinality(Announced)

TypeInv == TypeOK /\ AcquiredCount

\* A constructed block: every field has its type, nobody has announced a call.
THEOREM InitTypeInv == Init => TypeInv
<1> SUFFICES ASSUME Init PROVE TypeInv
  OBVIOUS
<1>1. Announced = {}
  BY ThreadsAssumption DEF Init, Announced, Threads
<1>2. Cardinality({}) = 0
  BY FS_EmptySet
<1>3. Cardinality(Clients) \in Nat
  BY ThreadsAssumption, FS_CardinalityType
<1>4. AcquiredCount
  BY <1>1, <1>2 DEF Init, AcquiredCount
<1>5. /\ pc \in [Threads -> WorkerPCs \cup ClientPCs]
      /\ pc[Worker] \in WorkerPCs
      /\ \A c \in Clients : pc[c] \in ClientPCs
  BY DEF Init, Threads, WorkerPCs, ClientPCs
<1>6. /\ opsLeft \in [Clients -> 0..MaxOps]
      /\ overtaken \in [Clients -> Nat]
  BY BoundsAssumption DEF Init
<1>7. changeFlagged \in BOOLEAN /\ waitModeEnabled \in BOOLEAN
      /\ poolWaits \in BOOLEAN /\ waitEnabled \in BOOLEAN
  BY DEF Init
<1>8. externalAcquired \in 0..Cardinality(Clients) /\ inbox \in Nat
  BY <1>3 DEF Init
<1>9. TypeOK
  BY <1>5, <1>6, <1>7, <1>8 DEF Init, TypeOK
<1>10. QED BY <1>4, <1>9 DEF TypeInv

\* One more caller, one caller less.
LEMMA CountCallers ==
    ASSUME NEW S \in SUBSET Clients, NEW c \in Clients
    PROVE  /\ Cardinality(S) \in 0..Cardinality(Clients)
           /\ c \notin S => Cardinality(S \cup {c}) = Cardinality(S) + 1
           /\ c \in S => Cardinality(S \ {c}) = Cardinality(S) - 1
<1>1. IsFiniteSet(Clients)
  BY ThreadsAssumption
<1>2. IsFiniteSet(S) /\ Cardinality(S) <= Cardinality(Clients)
  BY <1>1, FS_Subset
<1>3. Cardinality(S) \in Nat /\ Cardinality(Clients) \in Nat
  BY <1>1, <1>2, FS_CardinalityType
<1>4. c \notin S => Cardinality(S \cup {c}) = Cardinality(S) + 1
  BY <1>2, FS_AddElement
<1>5. c \in S => Cardinality(S \ {c}) = Cardinality(S) - 1
  BY <1>2, FS_RemoveElement
<1>6. QED BY <1>2, <1>3, <1>4, <1>5

\* Every access of a flag, a mutex or the condition variable keeps the types,
\* and _externalAcquired moves with the set of announced callers.
LEMMA StepTypeInv == TypeInv /\ [Next]_vars => TypeInv'
<1> SUFFICES ASSUME TypeInv, [Next]_vars PROVE TypeInv'
  OBVIOUS
<1> USE ThreadsAssumption, BoundsAssumption
<1> USE DEF TypeInv, TypeOK, Threads, Goto, Lock, Unlock, StartOp, TestAndSet,
            flagVars, mutexes, modeVars, ghostVars, WorkerPCs, ClientPCs
<1>1. CASE CheckExternal
  BY <1>1 DEF CheckExternal, AcquiredCount, Announced
<1>2. CASE BlockOnExternal
  BY <1>2 DEF BlockOnExternal, AcquiredCount, Announced
<1>3. CASE BailOut
  BY <1>3 DEF BailOut, AcquiredCount, Announced
<1>4. CASE FastCheck
  BY <1>4 DEF FastCheck, AcquiredCount, Announced
<1>5. CASE LockAcquire
  BY <1>5 DEF LockAcquire, AcquiredCount, Announced
<1>6. CASE Recheck
  BY <1>6 DEF Recheck, AcquiredCount, Announced
<1>7. CASE Wait
  BY <1>7 DEF Wait, AcquiredCount, Announced
<1>8. CASE SpuriousWakeup
  BY <1>8 DEF SpuriousWakeup, AcquiredCount, Announced
<1>9. CASE Reacquire
  BY <1>9 DEF Reacquire, AcquiredCount, Announced
<1>10. CASE LastCheck
  BY <1>10 DEF LastCheck, AcquiredCount, Announced
<1>11. CASE LockContext
  BY <1>11 DEF LockContext, AcquiredCount, Announced
<1>12. CASE WorkTask
  <2>1. changeFlagged' \in BOOLEAN
    BY <1>12 DEF WorkTask
  <2>2. inbox' \in Nat
    <3>1. inbox' = inbox \/ (inbox > 0 /\ inbox' = inbox - 1)
      BY <1>12, Zenon DEF WorkTask
    <3>2. QED BY <3>1
  <2>3. QED BY <1>12, <2>1, <2>2 DEF WorkTask, AcquiredCount, Announced
<1>13. CASE Release
  BY <1>13 DEF Release, AcquiredCount, Announced
<1>14. ASSUME NEW c \in Clients, Post(c) PROVE TypeInv'
  <2>1. opsLeft' \in [Clients -> 0..MaxOps]
    BY <1>14 DEF Post
  <2>2. inbox' \in Nat
    BY <1>14 DEF Post
  <2>3. QED BY <1>14, <2>1, <2>2 DEF Post, AcquiredCount, Announced
<1>15. ASSUME NEW c \in Clients, ExternalRequest(c) PROVE TypeInv'
  <2>1. Announced' = Announced \cup {c} /\ c \notin Announced
    BY <1>15 DEF ExternalRequest, Announced
  <2>2. Announced \in SUBSET Clients /\ Announced' \in SUBSET Clients
    BY DEF Announced
  <2>3. externalAcquired' = Cardinality(Announced')
    BY <1>15, <2>1, <2>2, CountCallers DEF ExternalRequest, AcquiredCount
  <2>4. externalAcquired' \in 0..Cardinality(Clients)
    BY <2>2, <2>3, CountCallers
  <2>5. opsLeft' \in [Clients -> 0..MaxOps]
    BY <1>15 DEF ExternalRequest
  <2>6. QED BY <1>15, <2>3, <2>4, <2>5 DEF ExternalRequest, AcquiredCount
<1>16. ASSUME NEW c \in Clients, StartWake(c) PROVE TypeInv'
  <2>1. opsLeft' \in [Clients -> 0..MaxOps]
    BY <1>16 DEF StartWake
  <2>2. QED BY <1>16, <2>1 DEF StartWake, AcquiredCount, Announced
<1>17. ASSUME NEW c \in Clients, Unregister(c) PROVE TypeInv'
  BY <1>17 DEF Unregister, AcquiredCount, Announced
<1>18. ASSUME NEW c \in Clients, ExternalLock(c) PROVE TypeInv'
  BY <1>18 DEF ExternalLock, AcquiredCount, Announced
<1>19. ASSUME NEW c \in Clients, ExternalCall(c) PROVE TypeInv'
  <2>1. Announced' = Announced \ {c} /\ c \in Announced
    BY <1>19 DEF ExternalCall, Announced
  <2>2. Announced \in SUBSET Clients /\ Announced' \in SUBSET Clients
    BY DEF Announced
  <2>3. externalAcquired' = Cardinality(Announced')
    BY <1>19, <2>1, <2>2, CountCallers DEF ExternalCall, AcquiredCount
  <2>4. externalAcquired' \in 0..Cardinality(Clients)
    BY <1>19, <2>2, <2>3, CountCallers
  <2>5. inbox' \in Nat
    BY <1>19 DEF ExternalCall
  <2>6. QED BY <1>19, <2>3, <2>4, <2>5 DEF ExternalCall, AcquiredCount
<1>20. ASSUME NEW c \in Clients, ExternalUnlock(c) PROVE TypeInv'
  BY <1>20 DEF ExternalUnlock, AcquiredCount, Announced
<1>21. ASSUME NEW c \in Clients, FlagChange(c) PROVE TypeInv'
  BY <1>21 DEF FlagChange, AcquiredCount, Announced
<1>22. ASSUME NEW c \in Clients, CheckWaitMode(c) PROVE TypeInv'
  BY <1>22 DEF CheckWaitMode, AcquiredCount, Announced
<1>23. ASSUME NEW c \in Clients, TryContext(c) PROVE TypeInv'
  BY <1>23 DEF TryContext, AcquiredCount, Announced
<1>24. ASSUME NEW c \in Clients, UntryContext(c) PROVE TypeInv'
  BY <1>24 DEF UntryContext, AcquiredCount, Announced
<1>25. ASSUME NEW c \in Clients, NotifyLock(c) PROVE TypeInv'
  BY <1>25 DEF NotifyLock, AcquiredCount, Announced
<1>26. ASSUME NEW c \in Clients, Notify(c) PROVE TypeInv'
  BY <1>26 DEF Notify, AcquiredCount, Announced
<1>27. ASSUME NEW c \in Clients, Register(c) PROVE TypeInv'
  <2>1. /\ pc[c] = "register" /\ c # Worker
        /\ pc' = [pc EXCEPT ![c] = "enable", ![Worker] = "idle"]
    BY <1>27 DEF Register
  <2>2. Announced' = Announced
    BY <2>1 DEF Announced
  <2>3. AcquiredCount'
    BY <1>27, <2>2 DEF Register, AcquiredCount
  <2>4. /\ pc' \in [Threads -> WorkerPCs \cup ClientPCs]
        /\ pc'[Worker] \in WorkerPCs
        /\ \A d \in Clients : pc'[d] \in ClientPCs
    BY <2>1
  <2>5. QED BY <1>27, <2>3, <2>4 DEF Register
<1>28. ASSUME NEW c \in Clients, EnableWaitMode(c) PROVE TypeInv'
  BY <1>28 DEF EnableWaitMode, AcquiredCount, Announced
<1>29. CASE UNCHANGED vars
  BY <1>29 DEF vars, AcquiredCount, Announced
<1>30. QED
  BY <1>1, <1>2, <1>3, <1>4, <1>5, <1>6, <1>7, <1>8, <1>9, <1>10, <1>11,
     <1>12, <1>13, <1>14, <1>15, <1>16, <1>17, <1>18, <1>19, <1>20, <1>21,
     <1>22, <1>23, <1>24, <1>25, <1>26, <1>27, <1>28, <1>29
     DEF Next, WorkerNext, ClientStart, ClientStep

\* The fields of ActorInterface keep their types, and _externalAcquired is at
\* all times the number of callers between their request and their release.
THEOREM TypeCorrect == Spec => []TypeInv
<1>1. TypeInv /\ [Next]_vars => TypeInv'
  BY StepTypeInv
<1>2. QED BY <1>1, InitTypeInv, PTL DEF Spec

\* The fields keep their types; in particular _externalAcquired, decremented
\* without a guard, never leaves 0..Cardinality(Clients).
THEOREM TypesHold == Spec => []TypeOK
<1>1. TypeInv => TypeOK
  BY DEF TypeInv
<1>2. QED BY <1>1, TypeCorrect, PTL

(***************************************************************************)
(* Who holds which mutex follows from the program counters; so does whether *)
(* the block is between two thread pools.                                  *)
(***************************************************************************)
LockOwners ==
    /\ \A c \in Clients : contextMutex = c <=> pc[c] \in {"incall", "extunlock", "untry"}
    /\ contextMutex = Worker <=> pc[Worker] \in {"bail", "work", "release"}
    /\ \A c \in Clients : acquireMutex = c <=> pc[c] = "notify"
    /\ pc[Worker] \in {"recheck", "beforewait", "lastcheck"} => acquireMutex = Worker
    /\ acquireMutex = Worker =>
           pc[Worker] \in {"recheck", "beforewait", "lastcheck", "lockcontext"}
    /\ \A c \in Clients : pc[c] = "register" => pc[Worker] = "stopped"
    /\ \A c, d \in Clients : /\ pc[c] \in {"register", "enable"}
                             /\ pc[d] \in {"register", "enable"}
                             => c = d

\* Every step leaves each mutex with the thread whose program counter says so.
LEMMA StepLockOwners == TypeInv /\ LockOwners /\ [Next]_vars => LockOwners'
<1> SUFFICES ASSUME TypeInv, LockOwners, [Next]_vars PROVE LockOwners'
  OBVIOUS
<1> USE ThreadsAssumption, BoundsAssumption
<1> USE DEF TypeInv, TypeOK, Threads, Goto, Lock, Unlock, StartOp, TestAndSet,
            flagVars, mutexes, modeVars, ghostVars, WorkerPCs, ClientPCs, LockOwners
<1>1. CASE CheckExternal
  BY <1>1 DEF CheckExternal
<1>2. CASE BlockOnExternal
  BY <1>2 DEF BlockOnExternal
<1>3. CASE BailOut
  BY <1>3 DEF BailOut
<1>4. CASE FastCheck
  BY <1>4 DEF FastCheck
<1>5. CASE LockAcquire
  BY <1>5 DEF LockAcquire
<1>6. CASE Recheck
  BY <1>6 DEF Recheck
<1>7. CASE Wait
  BY <1>7 DEF Wait
<1>8. CASE SpuriousWakeup
  BY <1>8 DEF SpuriousWakeup
<1>9. CASE Reacquire
  BY <1>9 DEF Reacquire
<1>10. CASE LastCheck
  BY <1>10 DEF LastCheck
<1>11. CASE LockContext
  BY <1>11 DEF LockContext
<1>12. CASE WorkTask
  BY <1>12 DEF WorkTask
<1>13. CASE Release
  BY <1>13 DEF Release
<1>14. ASSUME NEW c \in Clients, Post(c) PROVE LockOwners'
  BY <1>14 DEF Post
<1>15. ASSUME NEW c \in Clients, ExternalRequest(c) PROVE LockOwners'
  BY <1>15 DEF ExternalRequest
<1>16. ASSUME NEW c \in Clients, StartWake(c) PROVE LockOwners'
  BY <1>16 DEF StartWake
<1>17. ASSUME NEW c \in Clients, Unregister(c) PROVE LockOwners'
  BY <1>17 DEF Unregister
<1>18. ASSUME NEW c \in Clients, ExternalLock(c) PROVE LockOwners'
  BY <1>18 DEF ExternalLock
<1>19. ASSUME NEW c \in Clients, ExternalCall(c) PROVE LockOwners'
  BY <1>19 DEF ExternalCall
<1>20. ASSUME NEW c \in Clients, ExternalUnlock(c) PROVE LockOwners'
  BY <1>20 DEF ExternalUnlock
<1>21. ASSUME NEW c \in Clients, FlagChange(c) PROVE LockOwners'
  BY <1>21 DEF FlagChange
<1>22. ASSUME NEW c \in Clients, CheckWaitMode(c) PROVE LockOwners'
  BY <1>22 DEF CheckWaitMode
<1>23. ASSUME NEW c \in Clients, TryContext(c) PROVE LockOwners'
  BY <1>23 DEF TryContext
<1>24. ASSUME NEW c \in Clients, UntryContext(c) PROVE LockOwners'
  BY <1>24 DEF UntryContext
<1>25. ASSUME NEW c \in Clients, NotifyLock(c) PROVE LockOwners'
  BY <1>25 DEF NotifyLock
<1>26. ASSUME NEW c \in Clients, Notify(c) PROVE LockOwners'
  BY <1>26 DEF Notify
<1>27. ASSUME NEW c \in Clients, Register(c) PROVE LockOwners'
  BY <1>27 DEF Register
<1>28. ASSUME NEW c \in Clients, EnableWaitMode(c) PROVE LockOwners'
  BY <1>28 DEF EnableWaitMode
<1>29. CASE UNCHANGED vars
  BY <1>29 DEF vars
<1>30. QED
  BY <1>1, <1>2, <1>3, <1>4, <1>5, <1>6, <1>7, <1>8, <1>9, <1>10, <1>11,
     <1>12, <1>13, <1>14, <1>15, <1>16, <1>17, <1>18, <1>19, <1>20, <1>21,
     <1>22, <1>23, <1>24, <1>25, <1>26, <1>27, <1>28, <1>29
     DEF Next, WorkerNext, ClientStart, ClientStep

\* A mutex of the actor is held exactly where the code says it is: what each
\* function locked it has unlocked on every path out of it.
THEOREM LockOwnersHold == Spec => []LockOwners
<1>1. Init => LockOwners
  BY ThreadsAssumption DEF Init, LockOwners, Threads
<1>2. TypeInv /\ LockOwners /\ [Next]_vars => LockOwners'
  BY StepLockOwners
<1>3. QED BY <1>1, <1>2, TypeCorrect, PTL DEF Spec

\* work() and the external calls exclude each other: a consequence of who owns
\* the context mutex.
THEOREM ContextIsExclusive == Spec => []ExclusiveContext
<1>1. TypeInv /\ LockOwners => ExclusiveContext
  BY ThreadsAssumption
     DEF TypeInv, TypeOK, LockOwners, ExclusiveContext, InContext, Threads
<1>2. QED BY <1>1, TypeCorrect, LockOwnersHold, PTL

(***************************************************************************)
(* An announced caller: Worker cannot have passed its look at the count of *)
(* external callers without being about to make its one last pass.         *)
(***************************************************************************)
PassedCheck == {"fastcheck", "lockacquire", "recheck", "beforewait", "waiting",
                "woken", "lastcheck", "lockcontext"}

Overtaking ==
    \A c \in Clients :
        /\ overtaken[c] <= 1
        /\ pc[c] = "extlock" /\ pc[Worker] \in PassedCheck => overtaken[c] = 0

\* work() passes an announced caller only if the worker had looked at
\* _externalAcquired before the caller counted itself in, hence once.
LEMMA StepOvertaking == TypeInv /\ TypeInv' /\ Overtaking /\ [Next]_vars => Overtaking'
<1> SUFFICES ASSUME TypeInv, TypeInv', Overtaking, [Next]_vars PROVE Overtaking'
  OBVIOUS
<1> USE ThreadsAssumption, BoundsAssumption
<1> USE DEF TypeInv, TypeOK, Threads, Goto, Lock, Unlock, StartOp, TestAndSet,
            flagVars, mutexes, modeVars, ghostVars, WorkerPCs, ClientPCs,
            Overtaking, PassedCheck
<1>1. CASE CheckExternal
  <2>1. CASE externalAcquired = 0
    <3>1. IsFiniteSet(Announced) /\ Cardinality(Announced) = 0
      BY <2>1, FS_Subset DEF AcquiredCount, Announced
    <3>2. \A c \in Clients : pc[c] # "extlock"
      BY <3>1, FS_EmptySet DEF Announced
    <3>3. QED BY <1>1, <3>2 DEF CheckExternal
  <2>2. CASE externalAcquired # 0
    BY <1>1, <2>2 DEF CheckExternal
  <2>3. QED BY <2>1, <2>2
<1>2. CASE BlockOnExternal
  BY <1>2 DEF BlockOnExternal
<1>3. CASE BailOut
  BY <1>3 DEF BailOut
<1>4. CASE FastCheck
  BY <1>4 DEF FastCheck
<1>5. CASE LockAcquire
  BY <1>5 DEF LockAcquire
<1>6. CASE Recheck
  BY <1>6 DEF Recheck
<1>7. CASE Wait
  BY <1>7 DEF Wait
<1>8. CASE SpuriousWakeup
  BY <1>8 DEF SpuriousWakeup
<1>9. CASE Reacquire
  BY <1>9 DEF Reacquire
<1>10. CASE LastCheck
  BY <1>10 DEF LastCheck
<1>11. CASE LockContext
  BY <1>11 DEF LockContext
<1>12. CASE WorkTask
  BY <1>12 DEF WorkTask
<1>13. CASE Release
  BY <1>13 DEF Release
<1>14. ASSUME NEW c \in Clients, Post(c) PROVE Overtaking'
  BY <1>14 DEF Post
<1>15. ASSUME NEW c \in Clients, ExternalRequest(c) PROVE Overtaking'
  BY <1>15 DEF ExternalRequest
<1>16. ASSUME NEW c \in Clients, StartWake(c) PROVE Overtaking'
  BY <1>16 DEF StartWake
<1>17. ASSUME NEW c \in Clients, Unregister(c) PROVE Overtaking'
  BY <1>17 DEF Unregister
<1>18. ASSUME NEW c \in Clients, ExternalLock(c) PROVE Overtaking'
  BY <1>18 DEF ExternalLock
<1>19. ASSUME NEW c \in Clients, ExternalCall(c) PROVE Overtaking'
  BY <1>19 DEF ExternalCall
<1>20. ASSUME NEW c \in Clients, ExternalUnlock(c) PROVE Overtaking'
  BY <1>20 DEF ExternalUnlock
<1>21. ASSUME NEW c \in Clients, FlagChange(c) PROVE Overtaking'
  BY <1>21 DEF FlagChange
<1>22. ASSUME NEW c \in Clients, CheckWaitMode(c) PROVE Overtaking'
  BY <1>22 DEF CheckWaitMode
<1>23. ASSUME NEW c \in Clients, TryContext(c) PROVE Overtaking'
  BY <1>23 DEF TryContext
<1>24. ASSUME NEW c \in Clients, UntryContext(c) PROVE Overtaking'
  BY <1>24 DEF UntryContext
<1>25. ASSUME NEW c \in Clients, NotifyLock(c) PROVE Overtaking'
  BY <1>25 DEF NotifyLock
<1>26. ASSUME NEW c \in Clients, Notify(c) PROVE Overtaking'
  BY <1>26 DEF Notify
<1>27. ASSUME NEW c \in Clients, Register(c) PROVE Overtaking'
  BY <1>27 DEF Register
<1>28. ASSUME NEW c \in Clients, EnableWaitMode(c) PROVE Overtaking'
  BY <1>28 DEF EnableWaitMode
<1>29. CASE UNCHANGED vars
  BY <1>29 DEF vars
<1>30. QED
  BY <1>1, <1>2, <1>3, <1>4, <1>5, <1>6, <1>7, <1>8, <1>9, <1>10, <1>11,
     <1>12, <1>13, <1>14, <1>15, <1>16, <1>17, <1>18, <1>19, <1>20, <1>21,
     <1>22, <1>23, <1>24, <1>25, <1>26, <1>27, <1>28, <1>29
     DEF Next, WorkerNext, ClientStart, ClientStep

\* One more work() pass at most while a caller waits for the context.
THEOREM OvertakingIsBounded == Spec => []BoundedOvertaking
<1>1. Init => Overtaking
  BY ThreadsAssumption DEF Init, Overtaking, Threads, PassedCheck
<1>2. TypeInv /\ TypeInv' /\ Overtaking /\ [Next]_vars => Overtaking'
  BY StepOvertaking
<1>3. Overtaking => BoundedOvertaking
  BY DEF Overtaking, BoundedOvertaking
<1>4. QED BY <1>1, <1>2, <1>3, TypeCorrect, PTL DEF Spec

\* Every item in a port has a flag, or somebody, that looks after it.
LEMMA InitNoLostItem == Init => NoLostItem
  BY DEF Init, NoLostItem

\* No step forgets an item: who takes the flag away goes on to work().
LEMMA StepNoLostItem == TypeInv /\ LockOwners /\ NoLostItem /\ [Next]_vars => NoLostItem'
<1> SUFFICES ASSUME TypeInv, LockOwners, NoLostItem, [Next]_vars PROVE NoLostItem'
  OBVIOUS
<1> USE ThreadsAssumption, BoundsAssumption
<1> USE DEF TypeInv, TypeOK, Threads, Goto, Lock, Unlock, StartOp, TestAndSet,
            flagVars, mutexes, modeVars, ghostVars, WorkerPCs, ClientPCs,
            LockOwners, NoLostItem
<1>1. CASE CheckExternal
  BY <1>1 DEF CheckExternal
<1>2. CASE BlockOnExternal
  BY <1>2 DEF BlockOnExternal
<1>3. CASE BailOut
  BY <1>3 DEF BailOut
<1>4. CASE FastCheck
  BY <1>4 DEF FastCheck
<1>5. CASE LockAcquire
  BY <1>5 DEF LockAcquire
<1>6. CASE Recheck
  BY <1>6 DEF Recheck
<1>7. CASE Wait
  BY <1>7 DEF Wait
<1>8. CASE SpuriousWakeup
  BY <1>8 DEF SpuriousWakeup
<1>9. CASE Reacquire
  BY <1>9 DEF Reacquire
<1>10. CASE LastCheck
  BY <1>10 DEF LastCheck
<1>11. CASE LockContext
  BY <1>11 DEF LockContext
<1>12. CASE WorkTask
  <2>1. CASE inbox > 0
    <3>1. changeFlagged'
      BY <1>12, <2>1 DEF WorkTask
    <3>2. QED BY <3>1
  <2>2. CASE ~(inbox > 0)
    <3>1. ~(inbox' > 0)
      BY <1>12, <2>2 DEF WorkTask
    <3>2. QED BY <3>1
  <2>3. QED BY <2>1, <2>2
<1>13. CASE Release
  BY <1>13 DEF Release
<1>14. ASSUME NEW c \in Clients, Post(c) PROVE NoLostItem'
  BY <1>14 DEF Post
<1>15. ASSUME NEW c \in Clients, ExternalRequest(c) PROVE NoLostItem'
  BY <1>15 DEF ExternalRequest
<1>16. ASSUME NEW c \in Clients, StartWake(c) PROVE NoLostItem'
  BY <1>16 DEF StartWake
<1>17. ASSUME NEW c \in Clients, Unregister(c) PROVE NoLostItem'
  BY <1>17 DEF Unregister
<1>18. ASSUME NEW c \in Clients, ExternalLock(c) PROVE NoLostItem'
  BY <1>18 DEF ExternalLock
<1>19. ASSUME NEW c \in Clients, ExternalCall(c) PROVE NoLostItem'
  BY <1>19 DEF ExternalCall
<1>20. ASSUME NEW c \in Clients, ExternalUnlock(c) PROVE NoLostItem'
  BY <1>20 DEF ExternalUnlock
<1>21. ASSUME NEW c \in Clients, FlagChange(c) PROVE NoLostItem'
  BY <1>21 DEF FlagChange
<1>22. ASSUME NEW c \in Clients, CheckWaitMode(c) PROVE NoLostItem'
  BY <1>22 DEF CheckWaitMode
<1>23. ASSUME NEW c \in Clients, TryContext(c) PROVE NoLostItem'
  BY <1>23 DEF TryContext
<1>24. ASSUME NEW c \in Clients, UntryContext(c) PROVE NoLostItem'
  BY <1>24 DEF UntryContext
<1>25. ASSUME NEW c \in Clients, NotifyLock(c) PROVE NoLostItem'
  BY <1>25 DEF NotifyLock
<1>26. ASSUME NEW c \in Clients, Notify(c) PROVE NoLostItem'
  BY <1>26 DEF Notify
<1>27. ASSUME NEW c \in Clients, Register(c) PROVE NoLostItem'
  BY <1>27 DEF Register
<1>28. ASSUME NEW c \in Clients, EnableWaitMode(c) PROVE NoLostItem'
  BY <1>28 DEF EnableWaitMode
<1>29. CASE UNCHANGED vars
  BY <1>29 DEF vars
<1>30. QED
  BY <1>1, <1>2, <1>3, <1>4, <1>5, <1>6, <1>7, <1>8, <1>9, <1>10, <1>11,
     <1>12, <1>13, <1>14, <1>15, <1>16, <1>17, <1>18, <1>19, <1>20, <1>21,
     <1>22, <1>23, <1>24, <1>25, <1>26, <1>27, <1>28, <1>29
     DEF Next, WorkerNext, ClientStart, ClientStep

\* No item pushed into a port is forgotten, whatever the pools' yield modes.
THEOREM ItemsAreNotLost == Spec => []NoLostItem
<1>1. TypeInv /\ LockOwners /\ NoLostItem /\ [Next]_vars => NoLostItem'
  BY StepNoLostItem
<1>2. QED BY <1>1, InitNoLostItem, TypeCorrect, LockOwnersHold, PTL DEF Spec

(***************************************************************************)
(* The sleeping worker.  As long as no block ever moves from a pool that   *)
(* spins to one that waits, a worker that may sleep has an actor that      *)
(* wakes; and from its last look at the flag on, whoever flags a change    *)
(* has still to notify, or somebody else in the context has.               *)
(***************************************************************************)
WaitPath == {"lockacquire", "recheck", "beforewait", "waiting", "woken", "lastcheck"}

WakeMode ==
    /\ FALSE \notin YieldModes => poolWaits /\ waitModeEnabled
    /\ poolWaits => waitModeEnabled
    /\ pc[Worker] \in WaitPath => poolWaits
    /\ pc[Worker] = "fastcheck" /\ waitEnabled => poolWaits

Sleep ==
    pc[Worker] \in {"beforewait", "waiting"} /\ changeFlagged =>
        \E c \in Clients : WillWake(c)

\* With pools of one yield mode, a worker that may sleep has an actor that wakes.
LEMMA StepWakeMode ==
    YieldModes # {TRUE, FALSE} /\ TypeInv /\ LockOwners /\ WakeMode /\ [Next]_vars =>
        WakeMode'
<1> SUFFICES ASSUME YieldModes # {TRUE, FALSE}, TypeInv, LockOwners, WakeMode, [Next]_vars
             PROVE  WakeMode'
  OBVIOUS
<1> USE ThreadsAssumption, BoundsAssumption
<1> USE DEF TypeInv, TypeOK, Threads, Goto, Lock, Unlock, StartOp, TestAndSet,
            flagVars, mutexes, modeVars, ghostVars, WorkerPCs, ClientPCs,
            LockOwners, WakeMode, WaitPath
<1>1. CASE CheckExternal
  <2>1. waitEnabled' => poolWaits
    <3>1. PICK w \in {FALSE, poolWaits} : waitEnabled' = w
      BY <1>1 DEF CheckExternal
    <3>2. w = FALSE \/ w = poolWaits
      OBVIOUS
    <3>3. QED BY <3>1, <3>2, Zenon
  <2>2. UNCHANGED <<poolWaits, waitModeEnabled>> /\ pc'[Worker] \in {"blocked", "fastcheck"}
    BY <1>1 DEF CheckExternal
  <2>3. QED BY <2>1, <2>2
<1>2. CASE BlockOnExternal
  BY <1>2 DEF BlockOnExternal
<1>3. CASE BailOut
  BY <1>3 DEF BailOut
<1>4. CASE FastCheck
  BY <1>4 DEF FastCheck
<1>5. CASE LockAcquire
  BY <1>5 DEF LockAcquire
<1>6. CASE Recheck
  BY <1>6 DEF Recheck
<1>7. CASE Wait
  BY <1>7 DEF Wait
<1>8. CASE SpuriousWakeup
  BY <1>8 DEF SpuriousWakeup
<1>9. CASE Reacquire
  BY <1>9 DEF Reacquire
<1>10. CASE LastCheck
  BY <1>10 DEF LastCheck
<1>11. CASE LockContext
  BY <1>11 DEF LockContext
<1>12. CASE WorkTask
  BY <1>12 DEF WorkTask
<1>13. CASE Release
  BY <1>13 DEF Release
<1>14. ASSUME NEW c \in Clients, Post(c) PROVE WakeMode'
  BY <1>14 DEF Post
<1>15. ASSUME NEW c \in Clients, ExternalRequest(c) PROVE WakeMode'
  BY <1>15 DEF ExternalRequest
<1>16. ASSUME NEW c \in Clients, StartWake(c) PROVE WakeMode'
  BY <1>16 DEF StartWake
<1>17. ASSUME NEW c \in Clients, Unregister(c) PROVE WakeMode'
  BY <1>17 DEF Unregister
<1>18. ASSUME NEW c \in Clients, ExternalLock(c) PROVE WakeMode'
  BY <1>18 DEF ExternalLock
<1>19. ASSUME NEW c \in Clients, ExternalCall(c) PROVE WakeMode'
  BY <1>19 DEF ExternalCall
<1>20. ASSUME NEW c \in Clients, ExternalUnlock(c) PROVE WakeMode'
  BY <1>20 DEF ExternalUnlock
<1>21. ASSUME NEW c \in Clients, FlagChange(c) PROVE WakeMode'
  BY <1>21 DEF FlagChange
<1>22. ASSUME NEW c \in Clients, CheckWaitMode(c) PROVE WakeMode'
  BY <1>22 DEF CheckWaitMode
<1>23. ASSUME NEW c \in Clients, TryContext(c) PROVE WakeMode'
  BY <1>23 DEF TryContext
<1>24. ASSUME NEW c \in Clients, UntryContext(c) PROVE WakeMode'
  BY <1>24 DEF UntryContext
<1>25. ASSUME NEW c \in Clients, NotifyLock(c) PROVE WakeMode'
  BY <1>25 DEF NotifyLock
<1>26. ASSUME NEW c \in Clients, Notify(c) PROVE WakeMode'
  BY <1>26 DEF Notify
<1>27. ASSUME NEW c \in Clients, Register(c) PROVE WakeMode'
  BY <1>27 DEF Register
<1>28. ASSUME NEW c \in Clients, EnableWaitMode(c) PROVE WakeMode'
  BY <1>28 DEF EnableWaitMode
<1>29. CASE UNCHANGED vars
  BY <1>29 DEF vars
<1>30. QED
  BY <1>1, <1>2, <1>3, <1>4, <1>5, <1>6, <1>7, <1>8, <1>9, <1>10, <1>11,
     <1>12, <1>13, <1>14, <1>15, <1>16, <1>17, <1>18, <1>19, <1>20, <1>21,
     <1>22, <1>23, <1>24, <1>25, <1>26, <1>27, <1>28, <1>29
     DEF Next, WorkerNext, ClientStart, ClientStep

\* Between the worker's last look at the flag and its sleep acquireMutex is
\* held, so that whoever flags a change in between notifies it afterwards.
LEMMA StepSleep == TypeInv /\ LockOwners /\ WakeMode /\ Sleep /\ [Next]_vars => Sleep'
<1> SUFFICES ASSUME TypeInv, LockOwners, WakeMode, Sleep, [Next]_vars PROVE Sleep'
  OBVIOUS
<1> USE ThreadsAssumption, BoundsAssumption
<1> USE DEF TypeInv, TypeOK, Threads, Goto, Lock, Unlock, StartOp, TestAndSet,
            flagVars, mutexes, modeVars, ghostVars, WorkerPCs, ClientPCs,
            LockOwners, WakeMode, WaitPath, Sleep, WillWake
<1>1. CASE CheckExternal
  BY <1>1 DEF CheckExternal
<1>2. CASE BlockOnExternal
  BY <1>2 DEF BlockOnExternal
<1>3. CASE BailOut
  BY <1>3 DEF BailOut
<1>4. CASE FastCheck
  BY <1>4 DEF FastCheck
<1>5. CASE LockAcquire
  BY <1>5 DEF LockAcquire
<1>6. CASE Recheck
  BY <1>6 DEF Recheck
<1>7. CASE Wait
  BY <1>7 DEF Wait
<1>8. CASE SpuriousWakeup
  BY <1>8 DEF SpuriousWakeup
<1>9. CASE Reacquire
  BY <1>9 DEF Reacquire
<1>10. CASE LastCheck
  BY <1>10 DEF LastCheck
<1>11. CASE LockContext
  BY <1>11 DEF LockContext
<1>12. CASE WorkTask
  BY <1>12 DEF WorkTask
<1>13. CASE Release
  BY <1>13 DEF Release
<1>14. ASSUME NEW c \in Clients, Post(c) PROVE Sleep'
  BY <1>14 DEF Post
<1>15. ASSUME NEW c \in Clients, ExternalRequest(c) PROVE Sleep'
  BY <1>15 DEF ExternalRequest
<1>16. ASSUME NEW c \in Clients, StartWake(c) PROVE Sleep'
  BY <1>16 DEF StartWake
<1>17. ASSUME NEW c \in Clients, Unregister(c) PROVE Sleep'
  BY <1>17 DEF Unregister
<1>18. ASSUME NEW c \in Clients, ExternalLock(c) PROVE Sleep'
  BY <1>18 DEF ExternalLock
<1>19. ASSUME NEW c \in Clients, ExternalCall(c) PROVE Sleep'
  BY <1>19 DEF ExternalCall
<1>20. ASSUME NEW c \in Clients, ExternalUnlock(c) PROVE Sleep'
  BY <1>20 DEF ExternalUnlock
<1>21. ASSUME NEW c \in Clients, FlagChange(c) PROVE Sleep'
  BY <1>21 DEF FlagChange
<1>22. ASSUME NEW c \in Clients, CheckWaitMode(c) PROVE Sleep'
  BY <1>22 DEF CheckWaitMode
<1>23. ASSUME NEW c \in Clients, TryContext(c) PROVE Sleep'
  BY <1>23 DEF TryContext
<1>24. ASSUME NEW c \in Clients, UntryContext(c) PROVE Sleep'
  BY <1>24 DEF UntryContext
<1>25. ASSUME NEW c \in Clients, NotifyLock(c) PROVE Sleep'
  BY <1>25 DEF NotifyLock
<1>26. ASSUME NEW c \in Clients, Notify(c) PROVE Sleep'
  BY <1>26 DEF Notify
<1>27. ASSUME NEW c \in Clients, Register(c) PROVE Sleep'
  BY <1>27 DEF Register
<1>28. ASSUME NEW c \in Clients, EnableWaitMode(c) PROVE Sleep'
  BY <1>28 DEF EnableWaitMode
<1>29. CASE UNCHANGED vars
  BY <1>29 DEF vars
<1>30. QED
  BY <1>1, <1>2, <1>3, <1>4, <1>5, <1>6, <1>7, <1>8, <1>9, <1>10, <1>11,
     <1>12, <1>13, <1>14, <1>15, <1>16, <1>17, <1>18, <1>19, <1>20, <1>21,
     <1>22, <1>23, <1>24, <1>25, <1>26, <1>27, <1>28, <1>29
     DEF Next, WorkerNext, ClientStart, ClientStep

\* No wakeup is lost while the pools either all wait or all spin.
THEOREM WakeupsAreNotLost ==
    ASSUME YieldModes # {TRUE, FALSE}
    PROVE  Spec => []NoLostWakeup
<1>1. Init => WakeMode /\ Sleep
  BY ThreadsAssumption DEF Init, WakeMode, Sleep, Threads, WaitPath
<1>2. TypeInv /\ LockOwners /\ WakeMode /\ [Next]_vars => WakeMode'
  BY StepWakeMode
<1>3. TypeInv /\ LockOwners /\ WakeMode /\ Sleep /\ [Next]_vars => Sleep'
  BY StepSleep
<1>4. Sleep => NoLostWakeup
  BY DEF Sleep, NoLostWakeup
<1>5. QED BY <1>1, <1>2, <1>3, <1>4, TypeCorrect, LockOwnersHold, PTL DEF Spec
(***************************************************************************)
(* The safety half of the refinement: every step of the mutexes, the flag  *)
(* and the condition variable is a step of ActorContext, or none at all.   *)
(***************************************************************************)
OwnerFacts ==
    /\ pc[Worker] = "work" => ContextOwner = Worker
    /\ \A c \in Clients : pc[c] = "incall" => ContextOwner = c
    /\ pc[Worker] # "work" /\ (\A c \in Clients : pc[c] # "incall") =>
           ContextOwner = NoThread

\* The mutexes determine the one thread that the abstract context belongs to.
LEMMA OwnerIsUnique == TypeInv /\ LockOwners => OwnerFacts
<1> SUFFICES ASSUME TypeInv, LockOwners PROVE OwnerFacts
  OBVIOUS
<1>1. pc[Worker] = "work" => ContextOwner = Worker
  BY DEF ContextOwner
<1>2. ASSUME NEW c \in Clients, pc[c] = "incall" PROVE ContextOwner = c
  <2>1. contextMutex = c /\ pc[Worker] # "work"
    BY <1>2, ThreadsAssumption DEF LockOwners
  <2>2. \A d \in Clients : pc[d] = "incall" => d = c
    BY <2>1 DEF LockOwners
  <2>3. QED BY <1>2, <2>1, <2>2 DEF ContextOwner
<1>3. pc[Worker] # "work" /\ (\A c \in Clients : pc[c] # "incall") =>
          ContextOwner = NoThread
  BY DEF ContextOwner
<1>4. QED BY <1>1, <1>2, <1>3 DEF OwnerFacts

\* A step that neither enters nor leaves the context, nor touches the ports.
LEMMA OwnerUnchanged ==
    ASSUME OwnerFacts, OwnerFacts',
           pc'[Worker] = "work" <=> pc[Worker] = "work",
           \A c \in Clients : pc'[c] = "incall" <=> pc[c] = "incall",
           inbox' = inbox
    PROVE  UNCHANGED <<ContextOwner, inbox>>
  BY Zenon DEF OwnerFacts

\* Every step of the actor is a step of the abstract context, or a stutter.
LEMMA StepPromise ==
    TypeInv /\ TypeInv' /\ LockOwners /\ OwnerFacts /\ OwnerFacts' /\ [Next]_vars =>
        [Promise!Next]_<<ContextOwner, inbox>>
<1> SUFFICES ASSUME TypeInv, TypeInv', LockOwners, OwnerFacts, OwnerFacts', [Next]_vars
             PROVE  Promise!Next \/ UNCHANGED <<ContextOwner, inbox>>
  OBVIOUS
<1> USE ThreadsAssumption
<1> USE DEF TypeInv, TypeOK, Threads, Goto, Lock, Unlock, StartOp, TestAndSet,
            flagVars, mutexes, modeVars, ghostVars, WorkerPCs, ClientPCs
<1>1. CASE CheckExternal
  BY <1>1, OwnerUnchanged DEF CheckExternal
<1>2. CASE BlockOnExternal
  BY <1>2, OwnerUnchanged DEF BlockOnExternal
<1>3. CASE BailOut
  BY <1>3, OwnerUnchanged DEF BailOut
<1>4. CASE FastCheck
  BY <1>4, OwnerUnchanged DEF FastCheck
<1>5. CASE LockAcquire
  BY <1>5, OwnerUnchanged DEF LockAcquire
<1>6. CASE Recheck
  BY <1>6, OwnerUnchanged DEF Recheck
<1>7. CASE Wait
  BY <1>7, OwnerUnchanged DEF Wait
<1>8. CASE SpuriousWakeup
  BY <1>8, OwnerUnchanged DEF SpuriousWakeup
<1>9. CASE Reacquire
  BY <1>9, OwnerUnchanged DEF Reacquire
<1>10. CASE LastCheck
  BY <1>10, OwnerUnchanged DEF LastCheck
<1>11. CASE LockContext
  <2>1. ContextOwner = NoThread
    BY <1>11 DEF LockContext, LockOwners, OwnerFacts
  <2>2. ContextOwner' = Worker /\ inbox' = inbox
    BY <1>11 DEF LockContext, OwnerFacts
  <2>3. QED BY <2>1, <2>2 DEF Promise!Next, Promise!Enter
<1>12. CASE WorkTask
  <2>1. ContextOwner = Worker
    BY <1>12 DEF WorkTask, OwnerFacts
  <2>2. pc' = [pc EXCEPT ![Worker] = "release"] /\ contextMutex = Worker
    BY <1>12 DEF WorkTask, LockOwners
  <2>3. \A c \in Clients : pc[c] # "incall"
    BY <2>2 DEF LockOwners
  <2>4. ContextOwner' = NoThread
    BY <2>2, <2>3 DEF OwnerFacts
  <2>5. inbox' = IF inbox > 0 THEN inbox - 1 ELSE inbox
    BY <1>12, Zenon DEF WorkTask
  <2>6. QED BY <2>1, <2>4, <2>5 DEF Promise!Next, Promise!Serve
<1>13. CASE Release
  BY <1>13, OwnerUnchanged DEF Release
<1>14. ASSUME NEW c \in Clients, Post(c)
      PROVE  Promise!Next \/ UNCHANGED <<ContextOwner, inbox>>
  <2>1. ContextOwner' = ContextOwner
    BY <1>14 DEF Post, OwnerFacts
  <2>2. QED BY <1>14, <2>1 DEF Post, Promise!Next, Promise!Post
<1>15. ASSUME NEW c \in Clients, ExternalRequest(c)
      PROVE  Promise!Next \/ UNCHANGED <<ContextOwner, inbox>>
  BY <1>15, OwnerUnchanged DEF ExternalRequest
<1>16. ASSUME NEW c \in Clients, StartWake(c)
      PROVE  Promise!Next \/ UNCHANGED <<ContextOwner, inbox>>
  BY <1>16, OwnerUnchanged DEF StartWake
<1>17. ASSUME NEW c \in Clients, Unregister(c)
      PROVE  Promise!Next \/ UNCHANGED <<ContextOwner, inbox>>
  BY <1>17, OwnerUnchanged DEF Unregister
<1>18. ASSUME NEW c \in Clients, ExternalLock(c)
      PROVE  Promise!Next \/ UNCHANGED <<ContextOwner, inbox>>
  <2>1. ContextOwner = NoThread
    BY <1>18 DEF ExternalLock, LockOwners, OwnerFacts
  <2>2. ContextOwner' = c /\ inbox' = inbox
    BY <1>18 DEF ExternalLock, OwnerFacts
  <2>3. QED BY <2>1, <2>2 DEF Promise!Next, Promise!Enter
<1>19. ASSUME NEW c \in Clients, ExternalCall(c)
      PROVE  Promise!Next \/ UNCHANGED <<ContextOwner, inbox>>
  <2>1. ContextOwner = c
    BY <1>19 DEF ExternalCall, OwnerFacts
  <2>2. contextMutex = c /\ pc' = [pc EXCEPT ![c] = "extunlock"]
    BY <1>19 DEF ExternalCall, LockOwners
  <2>3. pc[Worker] # "work" /\ \A d \in Clients : pc[d] = "incall" => d = c
    BY <2>2 DEF LockOwners
  <2>4. ContextOwner' = NoThread
    BY <2>2, <2>3 DEF OwnerFacts
  <2>5. QED BY <1>19, <2>1, <2>4 DEF ExternalCall, Promise!Next, Promise!Leave
<1>20. ASSUME NEW c \in Clients, ExternalUnlock(c)
      PROVE  Promise!Next \/ UNCHANGED <<ContextOwner, inbox>>
  BY <1>20, OwnerUnchanged DEF ExternalUnlock
<1>21. ASSUME NEW c \in Clients, FlagChange(c)
      PROVE  Promise!Next \/ UNCHANGED <<ContextOwner, inbox>>
  BY <1>21, OwnerUnchanged DEF FlagChange
<1>22. ASSUME NEW c \in Clients, CheckWaitMode(c)
      PROVE  Promise!Next \/ UNCHANGED <<ContextOwner, inbox>>
  BY <1>22, OwnerUnchanged DEF CheckWaitMode
<1>23. ASSUME NEW c \in Clients, TryContext(c)
      PROVE  Promise!Next \/ UNCHANGED <<ContextOwner, inbox>>
  BY <1>23, OwnerUnchanged DEF TryContext
<1>24. ASSUME NEW c \in Clients, UntryContext(c)
      PROVE  Promise!Next \/ UNCHANGED <<ContextOwner, inbox>>
  BY <1>24, OwnerUnchanged DEF UntryContext
<1>25. ASSUME NEW c \in Clients, NotifyLock(c)
      PROVE  Promise!Next \/ UNCHANGED <<ContextOwner, inbox>>
  BY <1>25, OwnerUnchanged DEF NotifyLock
<1>26. ASSUME NEW c \in Clients, Notify(c)
      PROVE  Promise!Next \/ UNCHANGED <<ContextOwner, inbox>>
  BY <1>26, OwnerUnchanged DEF Notify
<1>27. ASSUME NEW c \in Clients, Register(c)
      PROVE  Promise!Next \/ UNCHANGED <<ContextOwner, inbox>>
  BY <1>27, OwnerUnchanged DEF Register, LockOwners
<1>28. ASSUME NEW c \in Clients, EnableWaitMode(c)
      PROVE  Promise!Next \/ UNCHANGED <<ContextOwner, inbox>>
  BY <1>28, OwnerUnchanged DEF EnableWaitMode
<1>29. CASE UNCHANGED vars
  BY <1>29, OwnerUnchanged DEF vars
<1>30. QED
  BY <1>1, <1>2, <1>3, <1>4, <1>5, <1>6, <1>7, <1>8, <1>9, <1>10, <1>11,
     <1>12, <1>13, <1>14, <1>15, <1>16, <1>17, <1>18, <1>19, <1>20, <1>21,
     <1>22, <1>23, <1>24, <1>25, <1>26, <1>27, <1>28, <1>29
     DEF Next, WorkerNext, ClientStart, ClientStep

\* The implementation takes only the steps the abstract context allows.
THEOREM ImplementsContextSafety ==
    Spec => Promise!Init /\ [][Promise!Next]_<<ContextOwner, inbox>>
<1>1. Init => Promise!Init
  BY ThreadsAssumption DEF Init, Promise!Init, ContextOwner, Threads
<1>2. TypeInv /\ LockOwners => OwnerFacts
  BY OwnerIsUnique
<1>3. TypeInv /\ TypeInv' /\ LockOwners /\ OwnerFacts /\ OwnerFacts' /\ [Next]_vars =>
          [Promise!Next]_<<ContextOwner, inbox>>
  BY StepPromise
<1>4. QED BY <1>1, <1>2, <1>3, TypeCorrect, LockOwnersHold, PTL DEF Spec
=============================================================================
