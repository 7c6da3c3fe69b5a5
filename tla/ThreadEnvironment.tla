------------------------- MODULE ThreadEnvironment -------------------------
(***************************************************************************)
(* lib/Framework/ThreadEnvironment.cpp: the threads of a ThreadPool, the   *)
(* tasks (one per block) they run, and registerTask() / unregisterTask().  *)
(*                                                                         *)
(* A task is WorkerActor::processTask(), and of its actor this module      *)
(* keeps what ActorInterface shows it to be: a flag, which a thread either *)
(* takes or atomically goes to sleep on, and a wake that reaches the       *)
(* sleeper.  The process loop is modelled at the grain of its accesses to  *)
(* shared state: a registration may happen between any two of them.        *)
(***************************************************************************)
EXTENDS Naturals, FiniteSets, FiniteSetsExt

CONSTANTS NumTasks,       \* handles are 1..NumTasks, in the order of the map's keys
          PoolSizes,      \* values of ThreadPoolArgs::numThreads; 0 is a thread per task
          WaitModeEnabled,\* the pool's yieldMode is not "SPIN"
          MaxChanges,     \* changes flagged from outside the pool, or by work()
          MaxUnregister   \* calls of unregisterTask()

ASSUME SizesAssumption ==
    /\ NumTasks \in Nat \ {0}
    /\ PoolSizes \subseteq 0..NumTasks
    /\ WaitModeEnabled \in BOOLEAN
    /\ MaxChanges \in Nat
    /\ MaxUnregister \in Nat

Tasks == 1..NumTasks
Threads == 1..NumTasks   \* pool mode: index + 1; otherwise the handle
End == 0                 \* localTasks.end()
NoTask == 0

VARIABLES
    numThreads,    \* _args.numThreads
    handleToTask,  \* the handles registered
    signature,     \* _configurationSignature
    poolSize,      \* _threadPool.size()
    flag,          \* TaskData::flag: a pool thread is in the task
    changed,       \* the task's actor has a flagged change
    pc,            \* where each thread is in its loop
    local,         \* and its local variables
    mgr,           \* the caller that holds _registrationMutex: step, handle, wakes due
    changesLeft, unregistersLeft

configVars == <<numThreads, handleToTask, signature, poolSize>>
budgets == <<changesLeft, unregistersLeft>>
vars == <<configVars, flag, changed, pc, local, mgr, budgets>>

Idle == [step |-> "idle", handle |-> NoTask, wakes |-> {}]

\* toWake holds the tasks wakeAllBusyTasks() has yet to look at.
Fresh == [signature |-> 0, tasks |-> {}, it |-> End, fails |-> 0,
          waitOnce |-> FALSE, toWake |-> {}]

Init ==
    /\ numThreads \in PoolSizes
    /\ handleToTask = {} /\ signature = 0 /\ poolSize = 0
    /\ flag = [a \in Tasks |-> FALSE]
    /\ changed = [a \in Tasks |-> FALSE]
    /\ pc = [t \in Threads |-> "none"]
    /\ local = [t \in Threads |-> Fresh]
    /\ mgr = Idle
    /\ changesLeft = MaxChanges /\ unregistersLeft = MaxUnregister

PoolMode == numThreads > 0

Goto(t, from, to) ==
    /\ pc[t] = from
    /\ pc' = [pc EXCEPT ![t] = to]

\* Thread pcs once the tasks in S have been notified: only sleepers hear it.
Notified(S, pcs) ==
    [t \in Threads |-> IF pcs[t] = "sleeping" /\ local[t].it \in S THEN "woken" ELSE pcs[t]]

\* The task after a in t's map, or the end.
After(t, a) ==
    LET later == {b \in local[t].tasks : b > a}
    IN  IF later = {} THEN End ELSE Min(later)

(***************************************************************************)
(* A thread's loop: poolProcessLoop() or singleProcessLoop().              *)
(***************************************************************************)

\* Single mode keeps its own handle, pool mode starts over.
Reload(t) ==
    /\ signature # local[t].signature
    /\ Goto(t, "top", "loaded")
    /\ local' = [local EXCEPT
          ![t].tasks = handleToTask,
          ![t].signature = signature,
          ![t].it = IF ~PoolMode /\ t \in handleToTask THEN t ELSE End,
          ![t].fails = 0]
    /\ UNCHANGED <<configVars, flag, changed, mgr, budgets>>

NoReload(t) ==
    /\ signature = local[t].signature
    /\ Goto(t, "top", "loaded")
    /\ UNCHANGED <<configVars, flag, changed, local, mgr, budgets>>

\* The thread exits when its index or its handle is out of range.
MustExit(t) ==
    IF PoolMode THEN t > Cardinality(local[t].tasks) ELSE local[t].it = End

Exit(t) ==
    /\ MustExit(t)
    /\ Goto(t, "loaded", "exited")
    /\ local' = [local EXCEPT ![t].tasks = {}]
    /\ UNCHANGED <<configVars, flag, changed, mgr, budgets>>

EnterSingle(t) ==
    /\ ~PoolMode /\ ~MustExit(t)
    /\ Goto(t, "loaded", "task")
    /\ local' = [local EXCEPT ![t].waitOnce = WaitModeEnabled]
    /\ UNCHANGED <<configVars, flag, changed, mgr, budgets>>

\* failAcquireCount is only ever compared with a number of tasks.
MoreFails(t) == Min({local[t].fails + 1, NumTasks})

Current(t) == IF local[t].it = End THEN Min(local[t].tasks) ELSE local[t].it

\* Mutant: the result of the flag's test_and_set() is ignored.
EnterPoolMutant(t) ==
    /\ PoolMode /\ ~MustExit(t)
    /\ Goto(t, "loaded", "task")
    /\ flag' = [flag EXCEPT ![Current(t)] = TRUE]
    /\ local' = [local EXCEPT ![t].it = Current(t)]
    /\ UNCHANGED <<configVars, changed, mgr, budgets>>

\* The flag's test_and_set() succeeds: the thread may wait if all else failed.
EnterPool(t) ==
    /\ PoolMode /\ ~MustExit(t)
    /\ Goto(t, "loaded", "task")
    /\ ~flag[Current(t)]
    /\ flag' = [flag EXCEPT ![Current(t)] = TRUE]
    /\ local' = [local EXCEPT
          ![t].it = Current(t),
          ![t].waitOnce = WaitModeEnabled /\ local[t].fails >= Cardinality(local[t].tasks)]
    /\ UNCHANGED <<configVars, changed, mgr, budgets>>

\* Another thread is in the task.
SkipBusy(t) ==
    /\ PoolMode /\ ~MustExit(t)
    /\ Goto(t, "loaded", "top")
    /\ flag[Current(t)]
    /\ local' = [local EXCEPT ![t].it = After(t, Current(t)), ![t].fails = MoreFails(t)]
    /\ UNCHANGED <<configVars, flag, changed, mgr, budgets>>

\* processTask(): a flagged change is taken, ...
TakeChange(t) ==
    /\ pc[t] \in {"task", "woken"}
    /\ changed[local[t].it]
    /\ changed' = [changed EXCEPT ![local[t].it] = FALSE]
    /\ pc' = [pc EXCEPT ![t] = "working"]
    /\ UNCHANGED <<configVars, flag, local, mgr, budgets>>

\* ... or slept on, ...
Sleep(t) ==
    /\ Goto(t, "task", "sleeping")
    /\ local[t].waitOnce /\ ~changed[local[t].it]
    /\ UNCHANGED <<configVars, flag, changed, local, mgr, budgets>>

\* ... or the call fails.
FailedAcquire(t) ==
    /\ pc' = [pc EXCEPT ![t] = IF PoolMode THEN "leave" ELSE "top"]
    /\ local' = [local EXCEPT ![t].fails = IF local[t].waitOnce THEN 0 ELSE MoreFails(t)]

FailAcquire(t) ==
    /\ pc[t] = "woken" \/ (pc[t] = "task" /\ ~local[t].waitOnce)
    /\ ~changed[local[t].it]
    /\ FailedAcquire(t)
    /\ UNCHANGED <<configVars, flag, changed, mgr, budgets>>

\* An external call in progress makes the acquisition fail, change or not; it
\* ends by flagging a change.
BailOut(t) ==
    /\ pc[t] = "task" /\ changesLeft > 0
    /\ FailedAcquire(t)
    /\ changed' = [changed EXCEPT ![local[t].it] = TRUE]
    /\ changesLeft' = changesLeft - 1
    /\ UNCHANGED <<configVars, flag, mgr, unregistersLeft>>

\* workTask(): it may flag a change of another block, or of its own.
Work(t) ==
    /\ pc[t] = "working"
    /\ \E produced \in {{}} \cup IF changesLeft = 0 THEN {}
                              ELSE {{a} : a \in handleToTask \cup {local[t].it}} :
          /\ changed' = [a \in Tasks |-> changed[a] \/ a \in produced]
          /\ changesLeft' = changesLeft - Cardinality(produced)
          /\ pc' = Notified(produced, [pc EXCEPT ![t] = IF PoolMode THEN "wakeall" ELSE "top"])
    /\ local' = [local EXCEPT ![t].fails = 0,
          ![t].toWake = IF PoolMode /\ WaitModeEnabled
                        THEN local[t].tasks \ {local[t].it} ELSE {}]
    /\ UNCHANGED <<configVars, flag, mgr, unregistersLeft>>

\* The task that wakeAllBusyTasks() looks at
Probed(t) == Min(local[t].toWake)

\* Only a task whose flag is taken may have a sleeper, ...
WakeBusy(t) ==
    /\ pc[t] = "wakeall" /\ local[t].toWake # {}
    /\ flag[Probed(t)]
    /\ local' = [local EXCEPT ![t].toWake = @ \ {Probed(t)}]
    /\ pc' = Notified({Probed(t)}, pc)
    /\ UNCHANGED <<configVars, flag, changed, mgr, budgets>>

\* ... and the flag of another is taken by looking: for a moment it seems busy.
ProbeFree(t) ==
    /\ local[t].toWake # {} /\ ~flag[Probed(t)]
    /\ Goto(t, "wakeall", "probing")
    /\ flag' = [flag EXCEPT ![Probed(t)] = TRUE]
    /\ UNCHANGED <<configVars, changed, local, mgr, budgets>>

ClearProbed(t) ==
    /\ Goto(t, "probing", "wakeall")
    /\ flag' = [flag EXCEPT ![Probed(t)] = FALSE]
    /\ local' = [local EXCEPT ![t].toWake = @ \ {Probed(t)}]
    /\ UNCHANGED <<configVars, changed, mgr, budgets>>

WokenAll(t) ==
    /\ local[t].toWake = {}
    /\ Goto(t, "wakeall", "leave")
    /\ UNCHANGED <<configVars, flag, changed, local, mgr, budgets>>

\* Mutant: the task's flag is not cleared.
LeaveMutant(t) ==
    /\ Goto(t, "leave", "top")
    /\ local' = [local EXCEPT ![t].it = After(t, local[t].it)]
    /\ UNCHANGED <<configVars, flag, changed, mgr, budgets>>

Leave(t) ==
    /\ Goto(t, "leave", "top")
    /\ flag' = [flag EXCEPT ![local[t].it] = FALSE]
    /\ local' = [local EXCEPT ![t].it = After(t, local[t].it)]
    /\ UNCHANGED <<configVars, changed, mgr, budgets>>

ThreadStep(t) ==
    \/ Reload(t) \/ NoReload(t) \/ Exit(t)
    \/ EnterSingle(t) \/ EnterPool(t) \/ SkipBusy(t)
    \/ TakeChange(t) \/ Sleep(t) \/ FailAcquire(t) \/ Work(t)
    \/ WakeBusy(t) \/ ProbeFree(t) \/ ClearProbed(t) \/ WokenAll(t) \/ Leave(t)

(***************************************************************************)
(* registerTask() and unregisterTask().  _registrationMutex lets one call  *)
(* through at a time.                                                      *)
(***************************************************************************)

\* A new TaskData begins with a clear flag.  Its block is new, or comes from
\* another pool with a change still flagged.
RegisterTask(a) ==
    /\ mgr = Idle /\ a \notin handleToTask
    /\ handleToTask' = handleToTask \cup {a}
    /\ flag' = [flag EXCEPT ![a] = FALSE]
    /\ \E pending \in BOOLEAN : changed' = [changed EXCEPT ![a] = pending]
    /\ mgr' = [mgr EXCEPT !.step = "announce", !.handle = a]
    /\ UNCHANGED <<numThreads, signature, poolSize, pc, local, budgets>>

Announce ==
    /\ mgr.step = "announce"
    /\ signature' = signature + 1
    /\ mgr' = [mgr EXCEPT !.step = "spawn"]
    /\ UNCHANGED <<numThreads, handleToTask, poolSize, flag, changed, pc, local, budgets>>

\* The thread this registration starts, if any.
Spawned ==
    IF ~PoolMode THEN {mgr.handle}
    ELSE IF poolSize < numThreads THEN {poolSize + 1} ELSE {}

\* Mutant: the pool is counted in thread-per-task mode too.
SpawnThreadMutant ==
    /\ mgr.step = "spawn"
    /\ pc' = [t \in Threads |-> IF t \in Spawned THEN "top" ELSE pc[t]]
    /\ local' = [t \in Threads |-> IF t \in Spawned THEN Fresh ELSE local[t]]
    /\ poolSize' = poolSize + Cardinality(Spawned)
    /\ mgr' = Idle
    /\ UNCHANGED <<numThreads, handleToTask, signature, flag, changed, budgets>>

SpawnThread ==
    /\ mgr.step = "spawn"
    /\ pc' = [t \in Threads |-> IF t \in Spawned THEN "top" ELSE pc[t]]
    /\ local' = [t \in Threads |-> IF t \in Spawned THEN Fresh ELSE local[t]]
    /\ poolSize' = IF PoolMode THEN poolSize + Cardinality(Spawned) ELSE poolSize
    /\ mgr' = Idle
    /\ UNCHANGED <<numThreads, handleToTask, signature, flag, changed, budgets>>

UnregisterTask(a) ==
    /\ mgr = Idle /\ a \in handleToTask
    /\ unregistersLeft > 0
    /\ unregistersLeft' = unregistersLeft - 1
    /\ handleToTask' = handleToTask \ {a}
    /\ mgr' = [mgr EXCEPT !.step = "retire", !.handle = a]
    /\ UNCHANGED <<numThreads, signature, poolSize, flag, changed, pc, local, changesLeft>>

Retire ==
    /\ mgr.step = "retire"
    /\ signature' = signature + 1
    /\ mgr' = [mgr EXCEPT !.step = "wake", !.wakes = handleToTask \cup {mgr.handle}]
    /\ UNCHANGED <<numThreads, handleToTask, poolSize, flag, changed, pc, local, budgets>>

\* The retired task first, then the others in the order of the map.
WakeTask ==
    /\ mgr.step = "wake" /\ mgr.wakes # {}
    /\ LET a == IF mgr.handle \in mgr.wakes THEN mgr.handle ELSE Min(mgr.wakes)
       IN  /\ mgr' = [mgr EXCEPT !.wakes = @ \ {a}]
           /\ pc' = Notified({a}, pc)
    /\ UNCHANGED <<configVars, flag, changed, local, budgets>>

\* The thread this call joins, if any.
Joined ==
    IF ~PoolMode THEN {mgr.handle}
    ELSE IF poolSize > Cardinality(handleToTask) THEN {poolSize} ELSE {}

JoinThread ==
    /\ mgr.step = "wake" /\ mgr.wakes = {}
    /\ \A t \in Joined : pc[t] = "exited"
    /\ pc' = [t \in Threads |-> IF t \in Joined THEN "none" ELSE pc[t]]
    /\ poolSize' = IF PoolMode /\ Joined # {} THEN Cardinality(handleToTask) ELSE poolSize
    /\ mgr' = [mgr EXCEPT !.step = "relinquish"]
    /\ UNCHANGED <<numThreads, handleToTask, signature, flag, changed, local, budgets>>

\* Mutant: unregisterTask() returns without waiting for data.unique().
UnregisteredMutant ==
    /\ mgr.step = "relinquish"
    /\ mgr' = Idle
    /\ UNCHANGED <<configVars, flag, changed, pc, local, budgets>>

\* data.unique(): no thread's map has the retired TaskData any more.
Unregistered ==
    /\ mgr.step = "relinquish"
    /\ \A t \in Threads : mgr.handle \notin local[t].tasks
    /\ mgr' = Idle
    /\ UNCHANGED <<configVars, flag, changed, pc, local, budgets>>

MgrStep ==
    \/ Announce \/ SpawnThread
    \/ Retire \/ WakeTask \/ JoinThread \/ Unregistered

\* Threads outside the pool: flagExternalChange() on a task's actor.
ExternalChange(a) ==
    /\ changesLeft > 0 /\ a \in handleToTask
    /\ changesLeft' = changesLeft - 1
    /\ changed' = [changed EXCEPT ![a] = TRUE]
    /\ pc' = Notified({a}, pc)
    /\ UNCHANGED <<configVars, flag, local, mgr, unregistersLeft>>

SpuriousWakeup(t) ==
    /\ Goto(t, "sleeping", "woken")
    /\ UNCHANGED <<configVars, flag, changed, local, mgr, budgets>>

Next ==
    \/ \E t \in Threads : ThreadStep(t) \/ BailOut(t) \/ SpuriousWakeup(t)
    \/ \E a \in Tasks : RegisterTask(a) \/ UnregisterTask(a) \/ ExternalChange(a)
    \/ MgrStep

\* Threads are scheduled, and so is a caller inside unregisterTask().
Fairness ==
    /\ \A t \in Threads : WF_vars(ThreadStep(t))
    /\ WF_vars(MgrStep)

Spec == Init /\ [][Next]_vars /\ Fairness

(***************************************************************************)
(* Properties.                                                             *)
(***************************************************************************)

\* Types of the pool's fields and of each thread's locals; the pool never has
\* more threads than ThreadPoolArgs::numThreads.
TypeOK ==
    /\ numThreads \in PoolSizes
    /\ handleToTask \subseteq Tasks
    /\ signature \in Nat
    /\ poolSize \in 0..numThreads
    /\ flag \in [Tasks -> BOOLEAN]
    /\ changed \in [Tasks -> BOOLEAN]
    /\ pc \in [Threads -> {"none", "top", "loaded", "task", "sleeping", "woken",
                           "working", "wakeall", "probing", "leave", "exited"}]
    /\ local \in [Threads -> [signature : Nat, tasks : SUBSET Tasks,
                              it : Tasks \cup {End}, fails : 0..NumTasks,
                              waitOnce : BOOLEAN, toWake : SUBSET Tasks]]
    /\ mgr \in [step : {"idle", "announce", "spawn", "retire", "wake", "relinquish"},
                handle : Tasks \cup {NoTask}, wakes : SUBSET Tasks]
    /\ changesLeft \in 0..MaxChanges
    /\ unregistersLeft \in 0..MaxUnregister

\* Thread t is inside the processTask() of task a.
Inside(t, a) == local[t].it = a /\ pc[t] \in {"task", "sleeping", "woken", "working"}

\* Two threads are never in one task, although each works from its own copy
\* of the map, taken at its own time.
ExclusiveTask ==
    \A t, u \in Threads, a \in Tasks : Inside(t, a) /\ Inside(u, a) => t = u

\* Once unregisterTask() has returned, no thread is in the task or can get
\* back into it: ~Block() may free the actor.
NoThreadLeftBehind ==
    \A t \in Threads, a \in Tasks :
        Inside(t, a) \/ a \in local[t].tasks =>
            \/ a \in handleToTask
            \/ mgr.handle = a /\ mgr.step \in {"retire", "wake", "relinquish"}

\* Task a has a change to be served, and nothing was unregistered so far.
Ready(a) == changed[a] /\ a \in handleToTask /\ unregistersLeft = MaxUnregister

\* The threads of a pool that has fewer of them than tasks may all be asleep in
\* other tasks than the one that has a change.
ShortOfThreads == PoolMode /\ numThreads < NumTasks
AllAsleep == \A t \in Threads : pc[t] \in {"none", "sleeping", "exited"}

\* As long as nothing is unregistered, every flagged change brings a thread to its
\* task, whatever the others sleep on, with a thread per task or no fewer pool
\* threads than tasks (singleProcessLoop(), poolProcessLoop()).  A pool with
\* fewer threads does not keep what the comment before poolProcessLoop()
\* promises, that no thread waits in a task while another one is capable of
\* work: there a change is served unless all the threads fall asleep.
ChangesServed ==
    \A a \in Tasks : Ready(a) ~> (~Ready(a) \/ (ShortOfThreads /\ AllAsleep))

\* "wake every known task to accept the new config state": the threads do, and
\* unregisterTask() comes back.
UnregisterReturns == (mgr.step = "retire") ~> (mgr.step = "idle")
=============================================================================
