---------------------- MODULE ThreadEnvironmentProofs ----------------------
(***************************************************************************)
(* ThreadEnvironment for every number of tasks and every pool size: no two *)
(* threads are ever in one task, and none is left in a task, or able to    *)
(* get back into it, once unregisterTask() has returned.                   *)
(***************************************************************************)
EXTENDS ThreadEnvironment, FiniteSetTheorems, WellFoundedInduction, TLAPS

(***************************************************************************)
(* The inductive invariant.                                                *)
(***************************************************************************)

\* The task an unregisterTask() in progress has taken out of the map.
Retired == IF mgr.step \in {"retire", "wake", "relinquish"} THEN {mgr.handle} ELSE {}

\* The call in progress, and where it has put its task.
CallInProgress ==
    /\ mgr.step = "idle" => mgr = Idle
    /\ mgr.step # "idle" => mgr.handle \in Tasks
    /\ mgr.handle \in Retired => mgr.handle \notin handleToTask

\* A thread's copy of the map holds nothing that is not registered, but for
\* the task being retired.
CopiesKnown == \A t \in Threads : local[t].tasks \subseteq handleToTask \cup Retired

\* The pcs of a thread that holds the task at its iterator: in processTask(),
\* or past it and yet to clear the flag.
Holding == {"task", "sleeping", "woken", "working", "wakeall", "probing", "leave"}

\* A running thread's iterator is inside its own copy of the map, or at its end.
\* It looks at the other tasks of the copy.
IteratorsValid ==
    \A t \in Threads :
        /\ pc[t] \notin {"none", "exited"} => local[t].it \in local[t].tasks \cup {End}
        /\ pc[t] \in Holding => local[t].it \in local[t].tasks
        /\ pc[t] \in {"wakeall", "probing"} =>
              local[t].toWake \subseteq local[t].tasks \ {local[t].it}
        /\ pc[t] = "probing" => local[t].toWake # {}

\* A thread per task never leaves its task and takes no flag.
OwnTaskOnly ==
    ~PoolMode => \A t \in Threads :
        /\ pc[t] # "none" => local[t].it \in {t, End}
        /\ pc[t] \notin {"wakeall", "probing", "leave"}

\* The tasks whose flags thread t has taken: its own, and one it looks at.
Claims(t) ==
    {a \in Tasks : \/ pc[t] \in Holding /\ a = local[t].it
                   \/ pc[t] = "probing" /\ a = Probed(t)}

\* What a pool thread claims it has by the flag, and has alone.
FlagsGuard ==
    PoolMode => \A t \in Threads, a \in Tasks :
        a \in Claims(t) =>
            /\ flag[a]
            /\ \A u \in Threads : a \in Claims(u) => u = t

Inv == CallInProgress /\ CopiesKnown /\ IteratorsValid /\ OwnTaskOnly /\ FlagsGuard

(***************************************************************************)
(* Facts about the operators of the loop.                                  *)
(***************************************************************************)

\* A nonempty set of naturals has a minimum: among the intervals 1..x, one is
\* included in no other.
LEMMA LeastElement ==
    ASSUME NEW S \in SUBSET Nat, S # {}
    PROVE  Min(S) \in S /\ \A x \in S : Min(S) <= x
<1> DEFINE Below == {1..x : x \in S}
<1>1. Below \subseteq FiniteSubsetsOf(Nat) /\ Below # {}
<2>1. \A x \in S : IsFiniteSet(1..x) /\ 1..x \subseteq Nat
  BY FS_Interval
<2>2. QED BY <2>1 DEF FiniteSubsetsOf
<1>2. PICK B \in Below : \A C \in Below : <<C, B>> \notin StrictSubsetOrdering(Nat)
  BY <1>1, FS_StrictSubsetOrderingWellFounded, WFMin
<1>3. PICK m \in S : B = 1..m
  OBVIOUS
<1>4. ASSUME NEW x \in S, x < m PROVE FALSE
<2>1. 1..x \in Below /\ 1..x \subseteq 1..m /\ m \in 1..m /\ m \notin 1..x
  BY <1>4
<2>2. <<1..x, B>> \in StrictSubsetOrdering(Nat)
  BY <2>1, <1>3 DEF StrictSubsetOrdering
<2>3. QED BY <2>1, <2>2, <1>2
<1>5. \A x \in S : m <= x
  BY <1>4
<1>6. QED BY <1>5 DEF Min

\* What the assumption on the constants says of handles, threads and the end.
LEMMA Constants ==
    /\ NumTasks \in Nat \ {0}
    /\ Tasks = Threads /\ Tasks \subseteq Nat /\ End \notin Tasks /\ NoTask \notin Tasks
    /\ \A n \in PoolSizes : n \in 0..NumTasks
  BY SizesAssumption DEF Tasks, Threads, End, NoTask

\* Sets of tasks are finite, so size() is a number, and zero for none.
LEMMA TaskSets ==
    ASSUME NEW S \in SUBSET Tasks
    PROVE  /\ Cardinality(S) \in 0..NumTasks
           /\ Cardinality(S) = 0 <=> S = {}
<1>1. IsFiniteSet(Tasks) /\ Cardinality(Tasks) = NumTasks
  BY Constants, FS_Interval DEF Tasks
<1>2. IsFiniteSet(S) /\ Cardinality(S) <= NumTasks
  BY <1>1, FS_Subset
<1>3. Cardinality(S) \in Nat
  BY <1>2, FS_CardinalityType
<1>4. Cardinality(S) = 0 <=> S = {}
  BY <1>2, FS_EmptySet
<1>5. QED BY <1>1, <1>2, <1>3, <1>4, Constants

\* The iterator of a thread that does not exit is dereferenced inside its copy.
LEMMA CurrentInCopy ==
    ASSUME TypeOK, NEW t \in Threads, ~MustExit(t), PoolMode,
           local[t].it \in local[t].tasks \cup {End}
    PROVE  Current(t) \in local[t].tasks /\ Current(t) \in Tasks
<1>1. local[t].tasks \subseteq Tasks
  BY DEF TypeOK
<1>2. local[t].tasks # {}
<2>1. Cardinality(local[t].tasks) \in 0..NumTasks
  BY <1>1, TaskSets
<2>2. Cardinality(local[t].tasks) # 0
  BY <2>1, Constants DEF MustExit, Threads
<2>3. Cardinality({}) = 0
  BY FS_EmptySet
<2>4. QED BY <2>2, <2>3
<1>3. Min(local[t].tasks) \in local[t].tasks
  BY <1>1, <1>2, LeastElement, Constants
<1>4. QED BY <1>1, <1>3 DEF Current

\* An iterator moved on is inside the copy, or at its end.
LEMMA AfterInCopy ==
    ASSUME TypeOK, NEW t \in Threads, NEW a \in Tasks
    PROVE  After(t, a) \in local[t].tasks \cup {End}
<1> DEFINE later == {b \in local[t].tasks : b > a}
<1>1. later \in SUBSET Nat /\ later \subseteq local[t].tasks
  BY Constants DEF TypeOK
<1>2. CASE later = {}
  BY <1>2 DEF After
<1>3. CASE later # {}
<2>1. Min(later) \in later
  BY <1>1, <1>3, LeastElement
<2>2. QED BY <1>1, <1>3, <2>1 DEF After
<1>4. QED BY <1>2, <1>3

\* The count of failed acquisitions stays in its range.
LEMMA FailsInRange ==
    ASSUME TypeOK, NEW t \in Threads
    PROVE  MoreFails(t) \in 0..NumTasks
<1>1. local[t].fails \in 0..NumTasks
  BY DEF TypeOK
<1>2. /\ {local[t].fails + 1, NumTasks} \in SUBSET Nat
      /\ \A x \in {local[t].fails + 1, NumTasks} : x \in Nat
  BY <1>1, Constants
<1>3. /\ MoreFails(t) \in {local[t].fails + 1, NumTasks}
      /\ MoreFails(t) <= NumTasks
  BY <1>2, LeastElement DEF MoreFails
<1>4. QED BY <1>2, <1>3, Constants

(***************************************************************************)
(* Types.                                                                  *)
(***************************************************************************)

\* A pool begins well typed, and every step keeps it so.
LEMMA InitTypes == Init => TypeOK
  BY SizesAssumption, Constants DEF Init, TypeOK, Fresh, Idle, End, NoTask

\* Notification keeps the pcs in their set.
LEMMA NotifiedTypes ==
    ASSUME NEW PC, NEW S, NEW pcs \in [Threads -> PC], "woken" \in PC
    PROVE  Notified(S, pcs) \in [Threads -> PC]
  BY DEF Notified

\* Iterators that are dereferenced are handles, and so are the flags they reach.
LEMMA StepTypes == TypeOK /\ CallInProgress /\ IteratorsValid /\ [Next]_vars => TypeOK'
<1> SUFFICES ASSUME TypeOK, CallInProgress, IteratorsValid, [Next]_vars PROVE TypeOK'
  OBVIOUS
<1> DEFINE Pcs == {"none", "top", "loaded", "task", "sleeping", "woken",
                   "working", "wakeall", "probing", "leave", "exited"}
<1> DEFINE Local == [signature : Nat, tasks : SUBSET Tasks, it : Tasks \cup {End},
                     fails : 0..NumTasks, waitOnce : BOOLEAN, toWake : SUBSET Tasks]
<1>a. pc \in [Threads -> Pcs] /\ local \in [Threads -> Local]
  BY DEF TypeOK
<1>b. /\ changesLeft \in Nat /\ changesLeft <= MaxChanges
      /\ unregistersLeft \in Nat /\ unregistersLeft <= MaxUnregister
  BY SizesAssumption DEF TypeOK
<1>c. ASSUME NEW n \in Nat, n <= MaxChanges PROVE n \in 0..MaxChanges
  BY <1>c, SizesAssumption
<1> USE DEF TypeOK
<1>1. ASSUME NEW t \in Threads, Reload(t) PROVE TypeOK'
  BY <1>1, Constants DEF Reload, Goto, configVars, budgets
<1>2. ASSUME NEW t \in Threads, NoReload(t) PROVE TypeOK'
  BY <1>2 DEF NoReload, Goto, configVars, budgets
<1>3. ASSUME NEW t \in Threads, Exit(t) PROVE TypeOK'
  BY <1>3 DEF Exit, Goto, configVars, budgets
<1>4. ASSUME NEW t \in Threads, EnterSingle(t) PROVE TypeOK'
  BY <1>4, SizesAssumption DEF EnterSingle, Goto, configVars, budgets
<1>5. ASSUME NEW t \in Threads, TakeChange(t) PROVE TypeOK'
  BY <1>5 DEF TakeChange, configVars, budgets
<1>6. ASSUME NEW t \in Threads, Sleep(t) PROVE TypeOK'
  BY <1>6 DEF Sleep, Goto, configVars, budgets
<1>7. ASSUME NEW t \in Threads, FailAcquire(t) PROVE TypeOK'
  BY <1>7, FailsInRange, Constants DEF FailAcquire, FailedAcquire, configVars, budgets
<1>8. ASSUME NEW t \in Threads, BailOut(t) PROVE TypeOK'
<2>1. changesLeft' \in Nat /\ changesLeft' <= MaxChanges
  BY <1>8, <1>b, SizesAssumption DEF BailOut
<2>5. changed' \in [Tasks -> BOOLEAN]
  BY <1>8 DEF BailOut
<2>2. UNCHANGED <<numThreads, handleToTask, signature, poolSize, flag, mgr, unregistersLeft>>
  BY <1>8 DEF BailOut, configVars
<2>3. pc' \in [Threads -> {"none", "top", "loaded", "task", "sleeping", "woken",
                           "working", "wakeall", "probing", "leave", "exited"}]
  BY <1>8 DEF BailOut, FailedAcquire
<2>4. local' = [local EXCEPT ![t].fails = IF local[t].waitOnce THEN 0 ELSE MoreFails(t)]
  BY <1>8 DEF BailOut, FailedAcquire
<2>6. local' \in [Threads -> Local]
  BY <2>4, <1>a, FailsInRange, Constants
<2>7. QED BY <1>c, <2>1, <2>2, <2>3, <2>5, <2>6
<1>9. ASSUME NEW t \in Threads, SpuriousWakeup(t) PROVE TypeOK'
  BY <1>9 DEF SpuriousWakeup, Goto, configVars, budgets
<1>10. ASSUME NEW t \in Threads, EnterPool(t) PROVE TypeOK'
<2>1. Current(t) \in Tasks
  BY <1>10, CurrentInCopy DEF EnterPool, Goto, IteratorsValid
<2>2. UNCHANGED <<numThreads, handleToTask, signature, poolSize, changed, mgr,
                  changesLeft, unregistersLeft>>
  BY <1>10 DEF EnterPool, configVars, budgets
<2>3. flag' \in [Tasks -> BOOLEAN] /\ pc' \in [Threads -> Pcs]
  BY <1>10 DEF EnterPool, Goto
<2>4. \E w \in BOOLEAN :
         local' = [local EXCEPT ![t].it = Current(t), ![t].waitOnce = w]
  BY <1>10 DEF EnterPool
<2>5. local' \in [Threads -> Local]
<3> HIDE DEF TypeOK
<3>1. PICK w \in BOOLEAN : local' = [local EXCEPT ![t].it = Current(t), ![t].waitOnce = w]
  BY <2>4
<3>2. [local[t] EXCEPT !.it = Current(t), !.waitOnce = w] \in Local
  BY <1>a, <2>1
<3> HIDE DEF Local
<3>3. local' = [local EXCEPT ![t] = [local[t] EXCEPT !.it = Current(t), !.waitOnce = w]]
  BY <1>a, <3>1
<3>4. QED BY <1>a, <3>2, <3>3
<2>6. QED BY <2>2, <2>3, <2>5
<1>11. ASSUME NEW t \in Threads, SkipBusy(t) PROVE TypeOK'
<2>1. Current(t) \in Tasks
  BY <1>11, CurrentInCopy DEF SkipBusy, Goto, IteratorsValid
<2>2. After(t, Current(t)) \in Tasks \cup {End}
  BY <2>1, AfterInCopy
<2>3. MoreFails(t) \in 0..NumTasks
  BY FailsInRange
<2>4. UNCHANGED <<numThreads, handleToTask, signature, poolSize, flag, changed, mgr,
                  changesLeft, unregistersLeft>>
  BY <1>11 DEF SkipBusy, configVars, budgets
<2>5. /\ pc' \in [Threads -> Pcs]
      /\ local' = [local EXCEPT ![t].it = After(t, Current(t)), ![t].fails = MoreFails(t)]
  BY <1>11 DEF SkipBusy, Goto
<2>6. local' \in [Threads -> Local]
<3> HIDE DEF TypeOK
<3>1. [local[t] EXCEPT !.it = After(t, Current(t)), !.fails = MoreFails(t)] \in Local
  BY <1>a, <2>2, <2>3
<3> HIDE DEF Local
<3>2. local' = [local EXCEPT ![t] = [local[t] EXCEPT !.it = After(t, Current(t)),
                                                     !.fails = MoreFails(t)]]
  BY <1>a, <2>5
<3>3. QED BY <1>a, <3>1, <3>2
<2>7. QED BY <2>4, <2>5, <2>6
<1>12. ASSUME NEW t \in Threads, Leave(t) PROVE TypeOK'
<2>1. local[t].it \in Tasks
  BY <1>12 DEF Leave, Goto, IteratorsValid, Holding
<2>2. After(t, local[t].it) \in Tasks \cup {End}
  BY <2>1, AfterInCopy
<2>3. /\ pc' \in [Threads -> Pcs] /\ flag' \in [Tasks -> BOOLEAN]
      /\ local' = [local EXCEPT ![t].it = After(t, local[t].it)]
      /\ UNCHANGED <<numThreads, handleToTask, signature, poolSize, changed, mgr,
                     changesLeft, unregistersLeft>>
  BY <1>12 DEF Leave, Goto, configVars, budgets
<2>4. local' \in [Threads -> Local]
<3> HIDE DEF TypeOK
<3>1. [local[t] EXCEPT !.it = After(t, local[t].it)] \in Local
  BY <1>a, <2>2
<3> HIDE DEF Local
<3>2. local' = [local EXCEPT ![t] = [local[t] EXCEPT !.it = After(t, local[t].it)]]
  BY <1>a, <2>3
<3>3. QED BY <1>a, <3>1, <3>2
<2>5. QED BY <2>3, <2>4
<1>13. ASSUME NEW t \in Threads, Work(t) PROVE TypeOK'
<2>1. local[t].it \in Tasks
  BY <1>13 DEF Work, IteratorsValid, Holding
<2>2. PICK produced \in {{}} \cup IF changesLeft = 0 THEN {}
                                 ELSE {{a} : a \in handleToTask \cup {local[t].it}} :
         /\ changed' = [a \in Tasks |-> changed[a] \/ a \in produced]
         /\ changesLeft' = changesLeft - Cardinality(produced)
         /\ pc' = Notified(produced, [pc EXCEPT ![t] = IF PoolMode THEN "wakeall" ELSE "top"])
  BY <1>13 DEF Work
<2>3. Cardinality({}) = 0 /\ \A x : Cardinality({x}) = 1
  BY FS_EmptySet, FS_Singleton
<2>4. changesLeft' \in Nat /\ changesLeft' <= MaxChanges
<3>1. CASE produced = {}
  BY <1>b, <2>2, <2>3, <3>1
<3>2. CASE produced # {}
<4>1. PICK a : produced = {a} /\ changesLeft # 0
  BY <2>2, <3>2
<4>2. changesLeft' = changesLeft - 1
  BY <2>2, <2>3, <4>1
<4>3. QED BY <1>b, <4>1, <4>2, SizesAssumption
<3>3. QED BY <3>1, <3>2
<2>5. changed' \in [Tasks -> BOOLEAN]
  BY <2>2
<2>6. pc' \in [Threads -> Pcs]
  BY <2>2, NotifiedTypes
<2>7. /\ UNCHANGED <<numThreads, handleToTask, signature, poolSize, flag, mgr, unregistersLeft>>
      /\ \E w \in SUBSET Tasks : local' = [local EXCEPT ![t].fails = 0, ![t].toWake = w]
  BY <1>13 DEF Work, configVars
<2>8. local' \in [Threads -> Local]
<3> HIDE DEF TypeOK
<3>1. PICK w \in SUBSET Tasks : local' = [local EXCEPT ![t].fails = 0, ![t].toWake = w]
  BY <2>7
<3>2. 0 \in 0..NumTasks
  BY Constants
<3>3. [local[t] EXCEPT !.fails = 0, !.toWake = w] \in Local
  BY <1>a, <3>2
<3> HIDE DEF Local
<3>4. local' = [local EXCEPT ![t] = [local[t] EXCEPT !.fails = 0, !.toWake = w]]
  BY <1>a, <3>1
<3>5. QED BY <1>a, <3>3, <3>4
<2>9. QED BY <1>c, <2>4, <2>5, <2>6, <2>7, <2>8
<1>14. ASSUME NEW t \in Threads, WakeBusy(t) \/ ClearProbed(t) PROVE TypeOK'
<2>1. pc' \in [Threads -> Pcs]
<3>1. Notified({Probed(t)}, pc) \in [Threads -> Pcs]
  BY <1>a, NotifiedTypes
<3>2. QED BY <1>a, <1>14, <3>1 DEF WakeBusy, ClearProbed, Goto
<2>2. \E w \in SUBSET Tasks : local' = [local EXCEPT ![t].toWake = w]
  BY <1>14 DEF WakeBusy, ClearProbed
<2>3. local' \in [Threads -> Local]
<3> HIDE DEF TypeOK
<3>1. PICK w \in SUBSET Tasks : local' = [local EXCEPT ![t].toWake = w]
  BY <2>2
<3>2. [local[t] EXCEPT !.toWake = w] \in Local
  BY <1>a
<3> HIDE DEF Local
<3>3. local' = [local EXCEPT ![t] = [local[t] EXCEPT !.toWake = w]]
  BY <1>a, <3>1
<3>4. QED BY <1>a, <3>2, <3>3
<2>4. flag' \in [Tasks -> BOOLEAN]
  BY <1>14 DEF WakeBusy, ClearProbed
<2>5. QED BY <1>14, <2>1, <2>3, <2>4 DEF WakeBusy, ClearProbed, configVars, budgets
<1>15. ASSUME NEW t \in Threads, WokenAll(t) PROVE TypeOK'
  BY <1>15 DEF WokenAll, Goto, configVars, budgets
<1>16. ASSUME NEW a \in Tasks, RegisterTask(a) PROVE TypeOK'
<2>1. mgr' = [Idle EXCEPT !.step = "announce", !.handle = a]
  BY <1>16 DEF RegisterTask
<2>2. mgr' = [step |-> "announce", handle |-> a, wakes |-> {}]
  BY ONLY <2>1 DEF Idle
<2>3. handleToTask' \subseteq Tasks /\ flag' \in [Tasks -> BOOLEAN]
  BY <1>16 DEF RegisterTask
<2>4. changed' \in [Tasks -> BOOLEAN]
  BY <1>16 DEF RegisterTask
<2>5. UNCHANGED <<numThreads, signature, poolSize, pc, local, changesLeft, unregistersLeft>>
  BY <1>16 DEF RegisterTask, budgets
<2>6. QED BY <2>2, <2>3, <2>4, <2>5
<1>17. ASSUME NEW a \in Tasks, UnregisterTask(a) PROVE TypeOK'
<2>1. unregistersLeft' \in 0..MaxUnregister
  BY <1>17, <1>b, SizesAssumption DEF UnregisterTask
<2>2. mgr' = [Idle EXCEPT !.step = "retire", !.handle = a]
  BY <1>17 DEF UnregisterTask
<2>3. mgr'.step = "retire" /\ mgr'.handle = a
  BY <2>2 DEF Idle
<2>4. /\ handleToTask' = handleToTask \ {a}
      /\ UNCHANGED <<numThreads, signature, poolSize, flag, changed, pc, local, changesLeft>>
  BY <1>17 DEF UnregisterTask
<2>5. QED BY <2>1, <2>2, <2>3, <2>4 DEF Idle
<1>18. ASSUME NEW a \in Tasks, ExternalChange(a) PROVE TypeOK'
<2>1. pc' \in [Threads -> Pcs]
  BY <1>18, NotifiedTypes DEF ExternalChange
<2>2. changesLeft' \in Nat /\ changesLeft' <= MaxChanges
  BY <1>18, <1>b, SizesAssumption DEF ExternalChange
<2>3. changed' \in [Tasks -> BOOLEAN]
  BY <1>18 DEF ExternalChange
<2>4. QED BY <1>18, <1>c, <2>1, <2>2, <2>3 DEF ExternalChange, configVars
<1>19. CASE Announce
  BY <1>19 DEF Announce, budgets
<1>20. CASE SpawnThread
<2>1. pc' \in [Threads -> Pcs]
  BY <1>20 DEF SpawnThread
<2>2. local' \in [Threads -> [signature : Nat, tasks : SUBSET Tasks,
                              it : Tasks \cup {End}, fails : 0..NumTasks,
                              waitOnce : BOOLEAN, toWake : SUBSET Tasks]]
  BY <1>20, Constants DEF SpawnThread, Fresh
<2>3. poolSize' \in 0..numThreads
<3>1. CASE PoolMode /\ poolSize < numThreads
<4>1. Cardinality(Spawned) = 1
  BY <3>1, FS_Singleton DEF Spawned
<4>2. QED BY <1>20, <3>1, <4>1, Constants DEF SpawnThread, PoolMode
<3>2. CASE PoolMode /\ ~(poolSize < numThreads)
<4>1. Cardinality(Spawned) = 0
  BY <3>2, FS_EmptySet DEF Spawned
<4>2. QED BY <1>20, <3>2, <4>1, Constants DEF SpawnThread, PoolMode
<3>3. CASE ~PoolMode
  BY <1>20, <3>3 DEF SpawnThread
<3>4. QED BY <3>1, <3>2, <3>3
<2>4. QED BY <1>20, <2>1, <2>2, <2>3, Constants DEF SpawnThread, Idle, budgets
<1>21. CASE Retire
<2>1. mgr' = [mgr EXCEPT !.step = "wake", !.wakes = handleToTask \cup {mgr.handle}]
  BY <1>21 DEF Retire
<2>2. mgr.handle \in Tasks
  BY <1>21 DEF Retire, CallInProgress
<2>3. mgr' \in [step : {"idle", "announce", "spawn", "retire", "wake", "relinquish"},
                handle : Tasks \cup {NoTask}, wakes : SUBSET Tasks]
  BY <2>1, <2>2
<2>4. QED BY <1>21, <2>3 DEF Retire, budgets
<1>22. CASE WakeTask
  BY <1>22, NotifiedTypes DEF WakeTask, configVars, budgets
<1>23. CASE JoinThread
<2>1. Cardinality(handleToTask) \in Nat
  BY TaskSets
<2>2. poolSize' \in 0..numThreads
  BY <1>23, <2>1, Constants DEF JoinThread, Joined, PoolMode
<2>3. pc' \in [Threads -> Pcs]
  BY <1>23 DEF JoinThread
<2>4. QED BY <1>23, <2>2, <2>3 DEF JoinThread, budgets
<1>24. CASE Unregistered
  BY <1>24, Constants DEF Unregistered, Idle, configVars, budgets
<1>25. CASE UNCHANGED vars
  BY <1>25 DEF vars, configVars, budgets
<1>26. ASSUME NEW t \in Threads, ProbeFree(t) PROVE TypeOK'
  BY <1>26 DEF ProbeFree, Goto, configVars, budgets
<1>27. QED
  BY <1>1, <1>2, <1>3, <1>4, <1>5, <1>6, <1>7, <1>8, <1>9, <1>10, <1>11, <1>12, <1>13,
     <1>14, <1>15, <1>16, <1>17, <1>18, <1>19, <1>20, <1>21, <1>22, <1>23, <1>24, <1>25, <1>26
     DEF Next, ThreadStep, MgrStep

(***************************************************************************)
(* The parts of the invariant, step by step.                               *)
(***************************************************************************)

\* An empty pool satisfies the invariant.
LEMMA InitInv == Init => Inv
<1> SUFFICES ASSUME Init PROVE Inv
  OBVIOUS
<1>1. CallInProgress /\ CopiesKnown
  BY DEF Init, CallInProgress, CopiesKnown, Idle, Fresh, Retired
<1>2. IteratorsValid /\ OwnTaskOnly
  BY DEF Init, IteratorsValid, OwnTaskOnly, Fresh, Holding
<1>3. \A t \in Threads : Claims(t) = {}
  BY DEF Init, Claims, Holding
<1>4. QED BY <1>1, <1>2, <1>3 DEF Inv, FlagsGuard

\* Only registerTask() and unregisterTask() touch the map, the call's record
\* and the pool.
LEMMA ThreadsLeaveTheMap ==
    ASSUME NEW t \in Threads, ThreadStep(t) \/ BailOut(t) \/ SpuriousWakeup(t)
    PROVE  UNCHANGED <<numThreads, handleToTask, mgr>>
  BY DEF ThreadStep, Reload, NoReload, Exit, EnterSingle, EnterPool, SkipBusy, TakeChange, Sleep,
         FailAcquire, Work, WakeBusy, ProbeFree, ClearProbed, WokenAll, Leave, BailOut, SpuriousWakeup, configVars

\* One call at a time is between its steps.
LEMMA StepCall == TypeOK /\ CallInProgress /\ [Next]_vars => CallInProgress'
<1> SUFFICES ASSUME TypeOK, CallInProgress, [Next]_vars PROVE CallInProgress'
  OBVIOUS
<1> USE DEF CallInProgress, Retired
<1>1. ASSUME NEW t \in Threads, ThreadStep(t) \/ BailOut(t) \/ SpuriousWakeup(t)
      PROVE  CallInProgress'
  BY <1>1, ThreadsLeaveTheMap
<1>2. ASSUME NEW a \in Tasks, RegisterTask(a) PROVE CallInProgress'
  BY <1>2 DEF RegisterTask, Idle
<1>3. ASSUME NEW a \in Tasks, UnregisterTask(a) PROVE CallInProgress'
  BY <1>3 DEF UnregisterTask, Idle
<1>4. ASSUME NEW a \in Tasks, ExternalChange(a) PROVE CallInProgress'
  BY <1>4 DEF ExternalChange, configVars
<1>5. CASE Announce
  BY <1>5 DEF Announce, TypeOK
<1>6. CASE SpawnThread
  BY <1>6 DEF SpawnThread, Idle
<1>7. CASE Retire
  BY <1>7 DEF Retire, TypeOK
<1>8. CASE WakeTask
  BY <1>8 DEF WakeTask, configVars, TypeOK
<1>9. CASE JoinThread
  BY <1>9 DEF JoinThread, TypeOK
<1>10. CASE Unregistered
  BY <1>10 DEF Unregistered, Idle, configVars
<1>11. CASE UNCHANGED vars
  BY <1>11 DEF vars, configVars
<1>12. QED
  BY <1>1, <1>2, <1>3, <1>4, <1>5, <1>6, <1>7, <1>8, <1>9, <1>10, <1>11 DEF Next, MgrStep

\* Only Reload() gives a thread handles, and only what the map holds.
LEMMA ThreadCopies ==
    ASSUME TypeOK, NEW t \in Threads, ThreadStep(t) \/ BailOut(t) \/ SpuriousWakeup(t)
    PROVE  \A u \in Threads : \/ local'[u].tasks = local[u].tasks
                              \/ local'[u].tasks \subseteq handleToTask
<1> USE DEF TypeOK
<1>1. CASE Reload(t)
  BY <1>1 DEF Reload
<1>2. CASE Exit(t)
  BY <1>2 DEF Exit
<1>3. CASE NoReload(t) \/ TakeChange(t) \/ Sleep(t) \/ WokenAll(t) \/ SpuriousWakeup(t)
  BY <1>3 DEF NoReload, TakeChange, Sleep, WokenAll, SpuriousWakeup
<1>4. CASE EnterSingle(t) \/ EnterPool(t) \/ SkipBusy(t) \/ Leave(t)
  BY <1>4 DEF EnterSingle, EnterPool, SkipBusy, Leave
<1>5. CASE FailAcquire(t) \/ BailOut(t) \/ Work(t)
  BY <1>5 DEF FailAcquire, BailOut, FailedAcquire, Work
<1>6. CASE WakeBusy(t) \/ ProbeFree(t) \/ ClearProbed(t)
  BY <1>6 DEF WakeBusy, ProbeFree, ClearProbed
<1>7. QED BY <1>1, <1>2, <1>3, <1>4, <1>5, <1>6 DEF ThreadStep

\* A handle stays in the map, or is the one being retired, while a copy has it.
LEMMA StepCopies ==
    TypeOK /\ CallInProgress /\ CopiesKnown /\ [Next]_vars => CopiesKnown'
<1> SUFFICES ASSUME TypeOK, CallInProgress, CopiesKnown, [Next]_vars PROVE CopiesKnown'
  OBVIOUS
<1> USE DEF CopiesKnown, Retired
<1>1. ASSUME NEW t \in Threads, ThreadStep(t) \/ BailOut(t) \/ SpuriousWakeup(t)
      PROVE  CopiesKnown'
  BY <1>1, ThreadsLeaveTheMap, ThreadCopies
<1>2. ASSUME NEW a \in Tasks, RegisterTask(a) PROVE CopiesKnown'
  BY <1>2 DEF RegisterTask, Idle
<1>3. ASSUME NEW a \in Tasks, UnregisterTask(a) PROVE CopiesKnown'
  BY <1>3 DEF UnregisterTask, Idle
<1>4. ASSUME NEW a \in Tasks, ExternalChange(a) PROVE CopiesKnown'
  BY <1>4 DEF ExternalChange, configVars
<1>5. CASE Announce
  BY <1>5 DEF Announce, TypeOK
<1>6. CASE SpawnThread
  BY <1>6 DEF SpawnThread, Idle, Fresh
<1>7. CASE Retire
  BY <1>7 DEF Retire, TypeOK
<1>8. CASE WakeTask
  BY <1>8 DEF WakeTask, configVars, TypeOK
<1>9. CASE JoinThread
  BY <1>9 DEF JoinThread, TypeOK
<1>10. CASE Unregistered
  BY <1>10 DEF Unregistered, Idle, configVars
<1>11. CASE UNCHANGED vars
  BY <1>11 DEF vars, configVars
<1>12. QED
  BY <1>1, <1>2, <1>3, <1>4, <1>5, <1>6, <1>7, <1>8, <1>9, <1>10, <1>11 DEF Next, MgrStep

\* A thread of which no step is taken: a notification may wake it.
Undisturbed(u) ==
    /\ local'[u].tasks = local[u].tasks /\ local'[u].it = local[u].it
    /\ local'[u].toWake = local[u].toWake
    /\ pc'[u] = pc[u] \/ (pc[u] = "sleeping" /\ pc'[u] = "woken")

\* A thread's step disturbs no other thread.
LEMMA OthersUndisturbed ==
    ASSUME TypeOK, NEW t \in Threads, ThreadStep(t) \/ BailOut(t) \/ SpuriousWakeup(t)
    PROVE  \A u \in Threads \ {t} : Undisturbed(u)
<1> USE DEF TypeOK, Undisturbed
<1>1. CASE Reload(t) \/ NoReload(t) \/ Exit(t) \/ EnterSingle(t)
  BY <1>1 DEF Reload, NoReload, Exit, EnterSingle, Goto
<1>2. CASE EnterPool(t) \/ SkipBusy(t) \/ Leave(t)
  BY <1>2 DEF EnterPool, SkipBusy, Leave, Goto
<1>3. CASE TakeChange(t) \/ Sleep(t) \/ WokenAll(t) \/ SpuriousWakeup(t)
  BY <1>3 DEF TakeChange, Sleep, WokenAll, SpuriousWakeup, Goto
<1>4. CASE FailAcquire(t) \/ BailOut(t)
  BY <1>4 DEF FailAcquire, BailOut, FailedAcquire
<1>5. CASE Work(t)
  BY <1>5 DEF Work, Notified
<1>6. CASE WakeBusy(t) \/ ProbeFree(t) \/ ClearProbed(t)
  BY <1>6 DEF WakeBusy, ProbeFree, ClearProbed, Notified, Goto
<1>7. QED BY <1>1, <1>2, <1>3, <1>4, <1>5, <1>6 DEF ThreadStep

\* What a thread's own step may do to its iterator and the tasks it has to look at.
LEMMA OwnStep ==
    ASSUME TypeOK, IteratorsValid, OwnTaskOnly, NEW t \in Threads,
           ThreadStep(t) \/ BailOut(t) \/ SpuriousWakeup(t)
    PROVE  /\ \/ (* it keeps its place, inside a task or outside *)
                 /\ local'[t].tasks = local[t].tasks /\ local'[t].it = local[t].it
                 /\ pc'[t] \in Holding => pc[t] \in Holding
                 /\ pc[t] \notin {"none", "exited"}
                 /\ ~PoolMode => pc'[t] \notin {"wakeall", "probing", "leave"}
              \/ (* it enters the task at its iterator *)
                 /\ local'[t].tasks = local[t].tasks
                 /\ local'[t].it \in local[t].tasks
                 /\ pc[t] = "loaded" /\ pc'[t] = "task"
                 /\ ~PoolMode => local'[t].it = local[t].it
              \/ (* outside any task, it moves its iterator *)
                 /\ pc'[t] \in {"top", "loaded"}
                 /\ local'[t].it \in local'[t].tasks \cup {End}
                 /\ ~PoolMode => local'[t].it \in {t, End}
              \/ (* it exits *)
                 /\ pc[t] = "loaded" /\ pc'[t] = "exited"
                 /\ local'[t].it = local[t].it
           /\ pc'[t] \in {"wakeall", "probing"} =>
                 local'[t].toWake \subseteq local'[t].tasks \ {local'[t].it}
           /\ pc'[t] = "probing" => local'[t].toWake # {}
<1> USE DEF TypeOK, Holding
<1>1. CASE Reload(t)
  BY <1>1 DEF Reload, Goto
<1>2. CASE NoReload(t) \/ TakeChange(t) \/ Sleep(t) \/ WokenAll(t) \/ SpuriousWakeup(t)
  BY <1>2 DEF NoReload, TakeChange, Sleep, WokenAll, SpuriousWakeup, Goto, OwnTaskOnly
<1>3. CASE Exit(t)
  BY <1>3 DEF Exit, Goto
<1>4. CASE EnterSingle(t)
  BY <1>4 DEF EnterSingle, Goto, MustExit, IteratorsValid
<1>5. CASE EnterPool(t)
<2>1. Current(t) \in local[t].tasks
  BY <1>5, CurrentInCopy DEF EnterPool, Goto, IteratorsValid
<2>2. QED BY <1>5, <2>1 DEF EnterPool, Goto
<1>6. CASE SkipBusy(t)
<2>1. Current(t) \in Tasks
  BY <1>6, CurrentInCopy DEF SkipBusy, Goto, IteratorsValid
<2>2. After(t, Current(t)) \in local[t].tasks \cup {End}
  BY <2>1, AfterInCopy
<2>3. QED BY <1>6, <2>2 DEF SkipBusy, Goto
<1>7. CASE FailAcquire(t) \/ BailOut(t)
  BY <1>7 DEF FailAcquire, BailOut, FailedAcquire
<1>8. CASE Work(t)
  BY <1>8 DEF Work, Notified
<1>9. CASE WakeBusy(t)
  BY <1>9 DEF WakeBusy, Notified, OwnTaskOnly, IteratorsValid
<1>10. CASE ProbeFree(t) \/ ClearProbed(t)
<2>1. /\ pc[t] \in {"wakeall", "probing"} /\ pc'[t] \in {"wakeall", "probing"}
      /\ local'[t].tasks = local[t].tasks /\ local'[t].it = local[t].it
      /\ local'[t].toWake \subseteq local[t].toWake
      /\ pc'[t] = "probing" => local'[t].toWake # {}
  BY <1>10 DEF ProbeFree, ClearProbed, Goto
<2>2. PoolMode
  BY <2>1 DEF OwnTaskOnly
<2>3. QED BY <2>1, <2>2 DEF IteratorsValid
<1>11. CASE Leave(t)
<2>1. PoolMode /\ local[t].it \in Tasks
  BY <1>11 DEF Leave, Goto, IteratorsValid, OwnTaskOnly
<2>2. After(t, local[t].it) \in local[t].tasks \cup {End}
  BY <2>1, AfterInCopy
<2>3. QED BY <1>11, <2>1, <2>2 DEF Leave, Goto
<1>12. QED
  BY <1>1, <1>2, <1>3, <1>4, <1>5, <1>6, <1>7, <1>8, <1>9, <1>10, <1>11 DEF ThreadStep

\* A pool thread takes the flag of what it claims, and clears that of what it
\* lets go.
LEMMA OwnClaims ==
    ASSUME TypeOK, IteratorsValid, PoolMode, NEW t \in Threads,
           ThreadStep(t) \/ BailOut(t) \/ SpuriousWakeup(t)
    PROVE  \/ Claims(t)' \subseteq Claims(t) /\ flag' = flag
           \/ \E a \in Tasks : /\ ~flag[a] /\ flag' = [flag EXCEPT ![a] = TRUE]
                               /\ Claims(t)' \subseteq Claims(t) \cup {a}
           \/ \E a \in Tasks : /\ a \in Claims(t) /\ flag' = [flag EXCEPT ![a] = FALSE]
                               /\ Claims(t)' \subseteq Claims(t) \ {a}
<1> USE DEF TypeOK, Holding, Claims
<1>1. CASE Reload(t) \/ NoReload(t) \/ Exit(t) \/ EnterSingle(t)
  BY <1>1 DEF Reload, NoReload, Exit, EnterSingle, Goto
<1>2. CASE EnterPool(t)
<2>1. Current(t) \in Tasks
  BY <1>2, CurrentInCopy DEF EnterPool, Goto, IteratorsValid
<2>2. /\ pc[t] = "loaded" /\ pc'[t] = "task" /\ local'[t].it = Current(t)
      /\ ~flag[Current(t)] /\ flag' = [flag EXCEPT ![Current(t)] = TRUE]
  BY <1>2 DEF EnterPool, Goto
<2>3. Claims(t)' \subseteq Claims(t) \cup {Current(t)}
  BY <2>2
<2>4. QED BY <2>1, <2>2, <2>3
<1>3. CASE SkipBusy(t)
  BY <1>3 DEF SkipBusy, Goto
<1>4. CASE TakeChange(t) \/ Sleep(t) \/ WokenAll(t) \/ SpuriousWakeup(t)
  BY <1>4 DEF TakeChange, Sleep, WokenAll, SpuriousWakeup, Goto
<1>5. CASE FailAcquire(t) \/ BailOut(t)
  BY <1>5 DEF FailAcquire, BailOut, FailedAcquire
<1>6. CASE Work(t)
  BY <1>6 DEF Work, Notified
<1>7. CASE WakeBusy(t)
  BY <1>7 DEF WakeBusy, Notified
<1>8. CASE ProbeFree(t)
<2>1. Probed(t) \in Tasks
<3>1. local[t].toWake \in SUBSET Nat /\ local[t].toWake # {} /\ local[t].toWake \subseteq Tasks
  BY <1>8, Constants DEF ProbeFree
<3>2. QED BY <3>1, LeastElement DEF Probed
<2>2. pc' = [pc EXCEPT ![t] = "probing"] /\ pc[t] = "wakeall" /\ local' = local
  BY <1>8 DEF ProbeFree, Goto
<2>3. Probed(t)' = Probed(t)
  BY <2>2 DEF Probed
<2>4. ~flag[Probed(t)] /\ flag' = [flag EXCEPT ![Probed(t)] = TRUE]
  BY <1>8 DEF ProbeFree
<2>5. Claims(t)' \subseteq Claims(t) \cup {Probed(t)}
  BY <2>2, <2>3
<2>6. QED BY <2>1, <2>4, <2>5
<1>9. CASE ClearProbed(t)
<2>1. Probed(t) \in Tasks /\ Probed(t) # local[t].it
<3>1. /\ local[t].toWake \in SUBSET Nat /\ local[t].toWake # {} /\ local[t].toWake \subseteq Tasks
      /\ local[t].it \notin local[t].toWake
  BY <1>9, Constants DEF ClearProbed, Goto, IteratorsValid
<3>2. QED BY <3>1, LeastElement DEF Probed
<2>2. /\ pc' = [pc EXCEPT ![t] = "wakeall"] /\ pc[t] = "probing"
      /\ local'[t].it = local[t].it
  BY <1>9 DEF ClearProbed, Goto
<2>3. flag' = [flag EXCEPT ![Probed(t)] = FALSE]
  BY <1>9 DEF ClearProbed
<2>4. Claims(t)' \subseteq Claims(t) \ {Probed(t)}
  BY <2>1, <2>2
<2>5. QED BY <2>1, <2>2, <2>3, <2>4
<1>10. CASE Leave(t)
<2>1. local[t].it \in Tasks
  BY <1>10 DEF Leave, Goto, IteratorsValid
<2>2. QED BY <1>10, <2>1 DEF Leave, Goto
<1>11. QED
  BY <1>1, <1>2, <1>3, <1>4, <1>5, <1>6, <1>7, <1>8, <1>9, <1>10 DEF ThreadStep

\* A thread that steps stays inside its copy; nobody moves another's iterator.
LEMMA StepIterators ==
    TypeOK /\ IteratorsValid /\ OwnTaskOnly /\ [Next]_vars => IteratorsValid'
<1> SUFFICES ASSUME TypeOK, IteratorsValid, OwnTaskOnly, [Next]_vars PROVE IteratorsValid'
  OBVIOUS
<1>1. ASSUME NEW t \in Threads, ThreadStep(t) \/ BailOut(t) \/ SpuriousWakeup(t)
      PROVE  IteratorsValid'
<2>1. \A u \in Threads \ {t} : Undisturbed(u)
  BY <1>1, OthersUndisturbed
<2>2. /\ pc'[t] \notin {"none", "exited"} => local'[t].it \in local'[t].tasks \cup {End}
      /\ pc'[t] \in Holding => local'[t].it \in local'[t].tasks
      /\ pc'[t] \in {"wakeall", "probing"} =>
            local'[t].toWake \subseteq local'[t].tasks \ {local'[t].it}
      /\ pc'[t] = "probing" => local'[t].toWake # {}
  BY <1>1, OwnStep DEF IteratorsValid, Holding
<2>3. QED BY <2>1, <2>2 DEF IteratorsValid, Undisturbed, Holding
<1>2. CASE UNCHANGED <<pc, local>>
  BY <1>2 DEF IteratorsValid
<1>3. CASE \E S : pc' = Notified(S, pc) /\ UNCHANGED local
  BY <1>3 DEF IteratorsValid, Notified, Holding
<1>4. CASE SpawnThread
  BY <1>4 DEF SpawnThread, Fresh, IteratorsValid, Holding
<1>5. CASE JoinThread
  BY <1>5 DEF JoinThread, IteratorsValid, Holding
<1>6. QED
  BY <1>1, <1>2, <1>3, <1>4, <1>5
     DEF Next, MgrStep, RegisterTask, UnregisterTask, ExternalChange, Announce, Retire, WakeTask,
         Unregistered, vars

\* numThreads never changes: a pool stays a pool.
LEMMA PoolSizeIsFixed == [Next]_vars => numThreads' = numThreads
  BY ThreadsLeaveTheMap
     DEF Next, MgrStep, RegisterTask, UnregisterTask, ExternalChange, Announce, SpawnThread, Retire,
         WakeTask, JoinThread, Unregistered, vars, configVars

\* A thread of a thread-per-task pool visits its own task only.
LEMMA StepOwnTask ==
    TypeOK /\ IteratorsValid /\ OwnTaskOnly /\ [Next]_vars => OwnTaskOnly'
<1> SUFFICES ASSUME TypeOK, IteratorsValid, OwnTaskOnly, [Next]_vars PROVE OwnTaskOnly'
  OBVIOUS
<1>0. numThreads' = numThreads
  BY PoolSizeIsFixed
<1>1. ASSUME NEW t \in Threads, ThreadStep(t) \/ BailOut(t) \/ SpuriousWakeup(t)
      PROVE  OwnTaskOnly'
<2>1. \A u \in Threads \ {t} : Undisturbed(u)
  BY <1>1, OthersUndisturbed
<2>2. ~PoolMode => local'[t].it \in {t, End} /\ pc'[t] \notin {"wakeall", "probing", "leave"}
  BY <1>1, OwnStep DEF OwnTaskOnly, Holding
<2>3. QED BY <1>0, <2>1, <2>2 DEF OwnTaskOnly, Undisturbed, PoolMode
<1>2. CASE UNCHANGED <<pc, local>>
  BY <1>0, <1>2 DEF OwnTaskOnly, PoolMode
<1>3. CASE \E S : pc' = Notified(S, pc) /\ UNCHANGED local
  BY <1>0, <1>3 DEF OwnTaskOnly, Notified, PoolMode
<1>4. CASE SpawnThread
  BY <1>0, <1>4 DEF SpawnThread, Fresh, OwnTaskOnly, PoolMode
<1>5. CASE JoinThread
  BY <1>0, <1>5 DEF JoinThread, OwnTaskOnly, PoolMode
<1>6. QED
  BY <1>1, <1>2, <1>3, <1>4, <1>5
     DEF Next, MgrStep, RegisterTask, UnregisterTask, ExternalChange, Announce, Retire, WakeTask,
         Unregistered, vars

\* What a thread claims is in its copy of the map.
LEMMA ClaimsInCopy ==
    ASSUME TypeOK, IteratorsValid, NEW t \in Threads PROVE Claims(t) \subseteq local[t].tasks
<1>1. CASE pc[t] # "probing"
  BY <1>1 DEF Claims, IteratorsValid
<1>2. CASE pc[t] = "probing"
<2>1. /\ local[t].toWake \in SUBSET Nat /\ local[t].toWake # {}
      /\ local[t].toWake \subseteq local[t].tasks
  BY <1>2, Constants DEF TypeOK, IteratorsValid
<2>2. Probed(t) \in local[t].tasks
  BY <2>1, LeastElement DEF Probed
<2>3. QED BY <2>2 DEF Claims, IteratorsValid
<1>3. QED BY <1>1, <1>2

\* A thread enters by a clear flag; registerTask() clears a flag nobody holds.
LEMMA StepFlags == TypeOK /\ Inv /\ [Next]_vars => FlagsGuard'
<1> SUFFICES ASSUME TypeOK, Inv, [Next]_vars, PoolMode PROVE FlagsGuard'
  BY PoolSizeIsFixed DEF FlagsGuard, PoolMode
<1>1. ASSUME NEW t \in Threads, ThreadStep(t) \/ BailOut(t) \/ SpuriousWakeup(t)
      PROVE  FlagsGuard'
<2>1. \A u \in Threads \ {t} : Undisturbed(u)
  BY <1>1, OthersUndisturbed
<2>2. \A u \in Threads \ {t} : Claims(u)' \subseteq Claims(u)
  BY <2>1 DEF Claims, Undisturbed, Probed, Holding
<2>3. \/ Claims(t)' \subseteq Claims(t) /\ flag' = flag
      \/ \E a \in Tasks : /\ ~flag[a] /\ flag' = [flag EXCEPT ![a] = TRUE]
                          /\ Claims(t)' \subseteq Claims(t) \cup {a}
      \/ \E a \in Tasks : /\ a \in Claims(t) /\ flag' = [flag EXCEPT ![a] = FALSE]
                          /\ Claims(t)' \subseteq Claims(t) \ {a}
  BY <1>1, OwnClaims DEF Inv
<2>4. flag \in [Tasks -> BOOLEAN]
  BY DEF TypeOK
<2>5. QED BY <2>2, <2>3, <2>4 DEF Inv, FlagsGuard
<1>2. ASSUME \A t \in Threads : Claims(t)' \subseteq Claims(t), flag' = flag PROVE FlagsGuard'
  BY <1>2 DEF FlagsGuard, Inv
<1>3. CASE UNCHANGED <<pc, local, flag>>
  BY <1>2, <1>3 DEF Claims, Probed
<1>4. CASE \E S : pc' = Notified(S, pc) /\ UNCHANGED <<local, flag>>
<2>1. \A t \in Threads : Claims(t)' \subseteq Claims(t)
  BY <1>4 DEF Claims, Probed, Notified, Holding
<2>2. QED BY <1>2, <1>4, <2>1
<1>5. CASE SpawnThread \/ JoinThread
<2>1. \A t \in Threads : Claims(t)' \subseteq Claims(t)
  BY <1>5 DEF SpawnThread, JoinThread, Claims, Probed, Holding
<2>2. QED BY <1>2, <1>5, <2>1 DEF SpawnThread, JoinThread
<1>6. ASSUME NEW a \in Tasks, RegisterTask(a) PROVE FlagsGuard'
<2>1. \A t \in Threads : a \notin local[t].tasks
  BY <1>6 DEF RegisterTask, Idle, Inv, CopiesKnown, Retired
<2>2. \A t \in Threads : a \notin Claims(t)
  BY <2>1, ClaimsInCopy DEF Inv
<2>3. \A t \in Threads : Claims(t)' = Claims(t)
  BY <1>6 DEF RegisterTask, Claims, Probed
<2>4. \A b \in Tasks \ {a} : flag'[b] = flag[b]
  BY <1>6 DEF RegisterTask, TypeOK
<2>5. QED BY <2>2, <2>3, <2>4 DEF FlagsGuard, Inv
<1>7. QED
  BY <1>1, <1>2, <1>3, <1>4, <1>5, <1>6
     DEF Next, MgrStep, UnregisterTask, ExternalChange, Announce, Retire, WakeTask,
         Unregistered, vars

\* Every step keeps every part of the invariant.
LEMMA StepInv == TypeOK /\ Inv /\ [Next]_vars => Inv'
  BY StepCall, StepCopies, StepIterators, StepOwnTask, StepFlags DEF Inv

(***************************************************************************)
(* The theorems.                                                           *)
(***************************************************************************)

\* The types and the invariant together: the ranges of the iterators rest on both.
THEOREM AlwaysInv == Spec => [](TypeOK /\ Inv)
<1>1. Init => TypeOK /\ Inv
  BY InitTypes, InitInv
<1>2. TypeOK /\ Inv /\ [Next]_vars => TypeOK' /\ Inv'
  BY StepTypes, StepInv DEF Inv
<1>3. QED BY <1>1, <1>2, PTL DEF Spec

\* The pool's fields and the locals of its threads keep their types; the pool
\* never has more threads than ThreadPoolArgs::numThreads.
THEOREM TypesHold == Spec => []TypeOK
  BY AlwaysInv, PTL

\* Whatever the number of threads, tasks and changes of configuration, a task's
\* processTask() runs in one thread at a time.
THEOREM OneThreadPerTask == Spec => []ExclusiveTask
<1>1. TypeOK /\ Inv => ExclusiveTask
<2> SUFFICES ASSUME TypeOK, Inv, NEW t \in Threads, NEW u \in Threads, NEW a \in Tasks,
                    Inside(t, a), Inside(u, a)
             PROVE  t = u
  BY DEF ExclusiveTask
<2>1. pc[t] \in Holding /\ pc[u] \in Holding /\ local[t].it = a /\ local[u].it = a
  BY DEF Inside, Holding
<2>2. CASE PoolMode
  BY <2>1, <2>2 DEF Inv, FlagsGuard, Claims
<2>3. CASE ~PoolMode
  BY <2>1, <2>3, Constants DEF Inv, OwnTaskOnly, Holding
<2>4. QED BY <2>2, <2>3
<1>2. QED BY <1>1, AlwaysInv, PTL

\* When unregisterTask() returns, the task is in no thread's copy of the map, and
\* no thread is in it: its actor may be freed.
THEOREM TaskLeftAlone == Spec => []NoThreadLeftBehind
<1>1. TypeOK /\ Inv => NoThreadLeftBehind
  BY DEF Inv, CopiesKnown, IteratorsValid, NoThreadLeftBehind, Inside, Holding, Retired
<1>2. QED BY <1>1, AlwaysInv, PTL
=============================================================================
