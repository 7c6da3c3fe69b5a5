--------------------------- MODULE ActorInterface ---------------------------
(***************************************************************************)
(* lib/Framework/ActorInterface.hpp: how the one thread that runs a        *)
(* block's work() and the many threads that push into the block or call it *)
(* share the block's context.  One action is one atomic access of the      *)
(* code: an atomic flag, a mutex, the condition variable.                  *)
(*                                                                         *)
(* Worker is the process loop of ThreadEnvironment.cpp: it calls           *)
(* WorkerActor::processTask() for ever.  A client is any other thread; it  *)
(* may push into a port (flagExternalChange), make a call under an         *)
(* ActorInterfaceLock, wake the actor (wakeNoChange), or move the block to *)
(* another thread pool (Block::setThreadPool).                             *)
(***************************************************************************)
EXTENDS Naturals, FiniteSets

CONSTANTS Clients,
          Worker,
          NoThread,
          YieldModes,   \* may the pools in use wait?  FALSE is yieldMode "SPIN"
          MaxOps        \* operations each client makes

ASSUME ThreadsAssumption ==
    /\ IsFiniteSet(Clients)
    /\ Worker \notin Clients
    /\ NoThread \notin Clients \cup {Worker}

ASSUME BoundsAssumption ==
    /\ YieldModes \subseteq BOOLEAN
    /\ MaxOps \in Nat

Threads == Clients \cup {Worker}

VARIABLES
    changeFlagged,     \* a change is flagged: the atomic_flag is clear
    externalAcquired,  \* count of external calls requested or in progress
    contextMutex,      \* owner of _contextMutex
    acquireMutex,      \* owner of _acquireMutex
    waitModeEnabled,   \* flagExternalChange() also wakes
    poolWaits,         \* the pool that runs Worker lets it wait
    waitEnabled,       \* argument of Worker's call of processTask()
    pc,
    inbox,             \* items in the block's ports that work() has not consumed
    opsLeft,           \* operations a client may still start
    overtaken          \* work() passes since a client asked for the context

vars == <<changeFlagged, externalAcquired, contextMutex, acquireMutex,
          waitModeEnabled, poolWaits, waitEnabled, pc, inbox, opsLeft, overtaken>>

flagVars  == <<changeFlagged, externalAcquired>>
mutexes   == <<contextMutex, acquireMutex>>
modeVars  == <<waitModeEnabled, poolWaits>>
ghostVars == <<opsLeft, overtaken>>

WorkerPCs == {"idle", "blocked", "bail", "fastcheck", "lockacquire", "recheck",
              "beforewait", "waiting", "woken", "lastcheck", "lockcontext",
              "work", "release", "stopped"}

ClientPCs == {"idle", "extlock", "incall", "extunlock", "flag", "checkmode",
              "trywake", "untry", "notifylock", "notify", "register", "enable"}

\* The constructed block: Block::Block() registered it with the default pool,
\* whose yield mode waits.
Init ==
    /\ changeFlagged = FALSE
    /\ externalAcquired = 0
    /\ contextMutex = NoThread
    /\ acquireMutex = NoThread
    /\ waitModeEnabled = TRUE
    /\ poolWaits = TRUE
    /\ waitEnabled = TRUE
    /\ pc = [t \in Threads |-> "idle"]
    /\ inbox = 0
    /\ opsLeft = [c \in Clients |-> MaxOps]
    /\ overtaken = [c \in Clients |-> 0]

Goto(t, from, to) ==
    /\ pc[t] = from
    /\ pc' = [pc EXCEPT ![t] = to]

Lock(mutex, t) == mutex = NoThread /\ mutex' = t

Unlock(mutex, t) == mutex = t /\ mutex' = NoThread

(***************************************************************************)
(* The worker thread: processTask() = workerThreadAcquire(waitEnabled),    *)
(* workTask(), workerThreadRelease().                                      *)
(***************************************************************************)

\* Mutant: the count of external callers is never looked at.
CheckExternalMutant ==
    /\ \E w \in {FALSE, poolWaits} : waitEnabled' = w
    /\ Goto(Worker, "idle", "fastcheck")
    /\ UNCHANGED <<flagVars, mutexes, modeVars, inbox, ghostVars>>

\* A pool thread asks for the wait only after failing on every task, a
\* dedicated one always does: both pass FALSE when the pool spins.
CheckExternal ==
    /\ \E w \in {FALSE, poolWaits} : waitEnabled' = w
    /\ Goto(Worker, "idle", IF externalAcquired # 0 THEN "blocked" ELSE "fastcheck")
    /\ UNCHANGED <<flagVars, mutexes, modeVars, inbox, ghostVars>>

BlockOnExternal ==
    /\ Goto(Worker, "blocked", "bail")
    /\ Lock(contextMutex, Worker)
    /\ UNCHANGED <<flagVars, acquireMutex, modeVars, waitEnabled, inbox, ghostVars>>

BailOut ==
    /\ Goto(Worker, "bail", "idle")
    /\ Unlock(contextMutex, Worker)
    /\ UNCHANGED <<flagVars, acquireMutex, modeVars, waitEnabled, inbox, ghostVars>>

\* not _changeFlagged.test_and_set(): Worker takes a flagged change, if any.
TestAndSet(from, unflagged) ==
    /\ changeFlagged' = FALSE
    /\ Goto(Worker, from, IF changeFlagged THEN "lockcontext" ELSE unflagged)
    /\ UNCHANGED <<externalAcquired, contextMutex, modeVars, waitEnabled, inbox, ghostVars>>

FastCheck ==
    /\ TestAndSet("fastcheck", IF waitEnabled THEN "lockacquire" ELSE "idle")
    /\ UNCHANGED acquireMutex

LockAcquire ==
    /\ Goto(Worker, "lockacquire", "recheck")
    /\ Lock(acquireMutex, Worker)
    /\ UNCHANGED <<flagVars, contextMutex, modeVars, waitEnabled, inbox, ghostVars>>

\* Mutant: no second look at the flag once acquireMutex is held.
RecheckMutant ==
    /\ Goto(Worker, "recheck", "beforewait")
    /\ UNCHANGED <<flagVars, mutexes, modeVars, waitEnabled, inbox, ghostVars>>

Recheck ==
    /\ TestAndSet("recheck", "beforewait")
    /\ UNCHANGED acquireMutex

\* _cond.wait(lock) gives acquireMutex up and sleeps in one atomic step.
Wait ==
    /\ Goto(Worker, "beforewait", "waiting")
    /\ Unlock(acquireMutex, Worker)
    /\ UNCHANGED <<flagVars, contextMutex, modeVars, waitEnabled, inbox, ghostVars>>

SpuriousWakeup ==
    /\ Goto(Worker, "waiting", "woken")
    /\ UNCHANGED <<flagVars, mutexes, modeVars, waitEnabled, inbox, ghostVars>>

Reacquire ==
    /\ Goto(Worker, "woken", "lastcheck")
    /\ Lock(acquireMutex, Worker)
    /\ UNCHANGED <<flagVars, contextMutex, modeVars, waitEnabled, inbox, ghostVars>>

\* Mutant: the flag is taken, and the acquisition fails all the same.
LastCheckMutant ==
    /\ Goto(Worker, "lastcheck", "idle")
    /\ changeFlagged' = FALSE
    /\ Unlock(acquireMutex, Worker)
    /\ UNCHANGED <<externalAcquired, contextMutex, modeVars, waitEnabled, inbox, ghostVars>>

\* Mutant: a failed acquisition returns with acquireMutex still locked.
LastCheckLeakMutant ==
    /\ TestAndSet("lastcheck", "idle")
    /\ UNCHANGED acquireMutex

LastCheck ==
    /\ TestAndSet("lastcheck", "idle")
    /\ IF changeFlagged THEN UNCHANGED acquireMutex ELSE Unlock(acquireMutex, Worker)

\* Mutant: the context is taken without waiting for its owner.
LockContextMutant ==
    /\ Goto(Worker, "lockcontext", "work")
    /\ contextMutex' = Worker
    /\ acquireMutex' = IF acquireMutex = Worker THEN NoThread ELSE acquireMutex
    /\ UNCHANGED <<flagVars, modeVars, waitEnabled, inbox, ghostVars>>

\* Worker may hold acquireMutex while it blocks here; it drops it on return.
LockContext ==
    /\ Goto(Worker, "lockcontext", "work")
    /\ Lock(contextMutex, Worker)
    /\ acquireMutex' = IF acquireMutex = Worker THEN NoThread ELSE acquireMutex
    /\ overtaken' = [c \in Clients |->
                        IF pc[c] = "extlock" THEN overtaken[c] + 1 ELSE overtaken[c]]
    /\ UNCHANGED <<flagVars, modeVars, waitEnabled, inbox, opsLeft>>

\* Mutant: a pass that consumed does not ask for another one.
WorkTaskMutant ==
    /\ Goto(Worker, "work", "release")
    /\ inbox' = IF inbox > 0 THEN inbox - 1 ELSE inbox
    /\ UNCHANGED <<flagVars, mutexes, modeVars, waitEnabled, ghostVars>>

\* A pass that consumes flags an internal change; Block::yield(), and an
\* output buffer that comes back to this block's own pool, flag one anyway.
WorkTask ==
    /\ Goto(Worker, "work", "release")
    /\ IF inbox > 0
          THEN inbox' = inbox - 1 /\ changeFlagged' = TRUE
          ELSE UNCHANGED inbox /\ changeFlagged' \in {changeFlagged, TRUE}
    /\ UNCHANGED <<externalAcquired, mutexes, modeVars, waitEnabled, ghostVars>>

Release ==
    /\ Goto(Worker, "release", "idle")
    /\ Unlock(contextMutex, Worker)
    /\ UNCHANGED <<flagVars, acquireMutex, modeVars, waitEnabled, inbox, ghostVars>>

WorkerNext ==
    \/ CheckExternal \/ BlockOnExternal \/ BailOut
    \/ FastCheck \/ LockAcquire \/ Recheck \/ Wait \/ Reacquire \/ LastCheck
    \/ LockContext \/ WorkTask \/ Release

(***************************************************************************)
(* The clients.                                                            *)
(***************************************************************************)

StartOp(c, to) ==
    /\ opsLeft[c] > 0
    /\ opsLeft' = [opsLeft EXCEPT ![c] = @ - 1]
    /\ Goto(c, "idle", to)

\* InputPort::pushBuffer(), pushLabel(), pushMessage(): the item, then the flag.
Post(c) ==
    /\ StartOp(c, "flag")
    /\ inbox' = inbox + 1
    /\ UNCHANGED <<flagVars, mutexes, modeVars, waitEnabled, overtaken>>

\* Mutant: the caller is not counted.
ExternalRequestMutant(c) ==
    /\ StartOp(c, "extlock")
    /\ overtaken' = [overtaken EXCEPT ![c] = 0]
    /\ UNCHANGED <<flagVars, mutexes, modeVars, waitEnabled, inbox>>

ExternalRequest(c) ==
    /\ StartOp(c, "extlock")
    /\ externalAcquired' = externalAcquired + 1
    /\ overtaken' = [overtaken EXCEPT ![c] = 0]
    /\ UNCHANGED <<changeFlagged, mutexes, modeVars, waitEnabled, inbox>>

ExternalLock(c) ==
    /\ Goto(c, "extlock", "incall")
    /\ Lock(contextMutex, c)
    /\ UNCHANGED <<flagVars, acquireMutex, modeVars, waitEnabled, inbox, ghostVars>>

\* The call may leave work to do; then externalCallRelease() begins.
ExternalCall(c) ==
    /\ Goto(c, "incall", "extunlock")
    /\ inbox' \in {inbox, inbox + 1}
    /\ externalAcquired' = externalAcquired - 1
    /\ UNCHANGED <<changeFlagged, mutexes, modeVars, waitEnabled, ghostVars>>

ExternalUnlock(c) ==
    /\ Goto(c, "extunlock", "flag")
    /\ Unlock(contextMutex, c)
    /\ UNCHANGED <<flagVars, acquireMutex, modeVars, waitEnabled, inbox, ghostVars>>

\* flagExternalChange()
FlagChange(c) ==
    /\ Goto(c, "flag", "checkmode")
    /\ changeFlagged' = TRUE
    /\ UNCHANGED <<externalAcquired, mutexes, modeVars, waitEnabled, inbox, ghostVars>>

CheckWaitMode(c) ==
    /\ Goto(c, "checkmode", IF waitModeEnabled THEN "trywake" ELSE "idle")
    /\ UNCHANGED <<flagVars, mutexes, modeVars, waitEnabled, inbox, ghostVars>>

\* wakeNoChange() called by ThreadEnvironment, with no change flagged
StartWake(c) ==
    /\ StartOp(c, "trywake")
    /\ UNCHANGED <<flagVars, mutexes, modeVars, waitEnabled, inbox, overtaken>>

TryContext(c) ==
    /\ Goto(c, "trywake", IF contextMutex = NoThread THEN "untry" ELSE "idle")
    /\ contextMutex' = IF contextMutex = NoThread THEN c ELSE contextMutex
    /\ UNCHANGED <<flagVars, acquireMutex, modeVars, waitEnabled, inbox, ghostVars>>

UntryContext(c) ==
    /\ Goto(c, "untry", "notifylock")
    /\ Unlock(contextMutex, c)
    /\ UNCHANGED <<flagVars, acquireMutex, modeVars, waitEnabled, inbox, ghostVars>>

NotifyLock(c) ==
    /\ Goto(c, "notifylock", "notify")
    /\ Lock(acquireMutex, c)
    /\ UNCHANGED <<flagVars, contextMutex, modeVars, waitEnabled, inbox, ghostVars>>

\* notify_one() is lost unless Worker already sleeps.
Notify(c) ==
    /\ pc[c] = "notify"
    /\ pc' = [pc EXCEPT ![c] = "idle",
                        ![Worker] = IF @ = "waiting" THEN "woken" ELSE @]
    /\ Unlock(acquireMutex, c)
    /\ UNCHANGED <<flagVars, contextMutex, modeVars, waitEnabled, inbox, ghostVars>>

\* Block::setThreadPool(), one caller at a time.  unregisterTask() has joined
\* the old thread, which leaves its loop between two tasks.
Unregister(c) ==
    /\ opsLeft[c] > 0
    /\ opsLeft' = [opsLeft EXCEPT ![c] = @ - 1]
    /\ pc[c] = "idle" /\ pc[Worker] = "idle"
    /\ \A d \in Clients : pc[d] \notin {"register", "enable"}
    /\ pc' = [pc EXCEPT ![c] = "register", ![Worker] = "stopped"]
    /\ UNCHANGED <<flagVars, mutexes, modeVars, waitEnabled, inbox, overtaken>>

\* The new pool starts to run the block ...
Register(c) ==
    /\ pc[c] = "register"
    /\ poolWaits' \in YieldModes
    /\ pc' = [pc EXCEPT ![c] = "enable", ![Worker] = "idle"]
    /\ UNCHANGED <<flagVars, mutexes, waitModeEnabled, waitEnabled, inbox, ghostVars>>

\* ... and only then is the actor told whether its new thread may sleep.
EnableWaitMode(c) ==
    /\ Goto(c, "enable", "idle")
    /\ waitModeEnabled' = poolWaits
    /\ UNCHANGED <<flagVars, mutexes, poolWaits, waitEnabled, inbox, ghostVars>>

\* What a client that has started must carry on with.
ClientStep(c) ==
    \/ ExternalLock(c) \/ ExternalCall(c) \/ ExternalUnlock(c)
    \/ FlagChange(c) \/ CheckWaitMode(c)
    \/ TryContext(c) \/ UntryContext(c) \/ NotifyLock(c) \/ Notify(c)
    \/ Register(c) \/ EnableWaitMode(c)

ClientStart(c) ==
    \/ Post(c) \/ ExternalRequest(c) \/ StartWake(c) \/ Unregister(c)

Next ==
    \/ WorkerNext
    \/ SpuriousWakeup
    \/ \E c \in Clients : ClientStart(c) \/ ClientStep(c)

(***************************************************************************)
(* Every thread is scheduled.  A thread blocked on a mutex that is freed   *)
(* again and again gets it in the end.  Nobody has to start an operation,  *)
(* and the condition variable owes nobody a spurious wakeup.               *)
(***************************************************************************)
Fairness ==
    /\ WF_vars(WorkerNext)
    /\ SF_vars(BlockOnExternal) /\ SF_vars(LockContext)
    /\ SF_vars(LockAcquire) /\ SF_vars(Reacquire)
    /\ \A c \in Clients : /\ WF_vars(ClientStep(c))
                          /\ SF_vars(ExternalLock(c)) /\ SF_vars(NotifyLock(c))

Spec == Init /\ [][Next]_vars /\ Fairness

(***************************************************************************)
(* Properties.                                                             *)
(***************************************************************************)

\* Types of the actor's fields; _externalAcquired, decremented without a guard,
\* stays within the callers there are.
TypeOK ==
    /\ changeFlagged \in BOOLEAN
    /\ externalAcquired \in 0..Cardinality(Clients)
    /\ contextMutex \in Threads \cup {NoThread}
    /\ acquireMutex \in Threads \cup {NoThread}
    /\ waitModeEnabled \in BOOLEAN
    /\ poolWaits \in BOOLEAN
    /\ waitEnabled \in BOOLEAN
    /\ pc \in [Threads -> WorkerPCs \cup ClientPCs]
    /\ pc[Worker] \in WorkerPCs
    /\ \A c \in Clients : pc[c] \in ClientPCs
    /\ inbox \in Nat
    /\ opsLeft \in [Clients -> 0..MaxOps]
    /\ overtaken \in [Clients -> Nat]

InContext(t) ==
    \/ t = Worker /\ pc[t] \in {"work", "release"}
    \/ t \in Clients /\ pc[t] \in {"incall", "extunlock"}

\* work() and the bodies of external calls never overlap.
ExclusiveContext ==
    \A t, u \in Threads : InContext(t) /\ InContext(u) => t = u

\* The steps that end in flagExternalChange() or wakeNoChange() notifying.
WillWake(c) ==
    pc[c] \in {"incall", "extunlock", "flag", "checkmode", "trywake", "untry",
               "notifylock", "notify"}

\* "marks the change and wakes up a sleeping thread": Worker never sleeps on
\* a flagged change that nobody is about to wake it for, although a waker
\* gives up as soon as anyone else has the context mutex.
NoLostWakeup ==
    pc[Worker] = "waiting" /\ changeFlagged => \E c \in Clients : WillWake(c)

\* An item in a port is never forgotten: a change is flagged, or about to be,
\* or Worker has taken the flag and is on its way to work().
NoLostItem ==
    inbox > 0 => \/ changeFlagged
                 \/ pc[Worker] \in {"lockcontext", "work"}
                 \/ \E c \in Clients : pc[c] \in {"extunlock", "flag"}

\* The point of _externalAcquired: once a caller has announced itself, work()
\* runs at most once more before the caller gets the context.
BoundedOvertaking == \A c \in Clients : overtaken[c] <= 1

\* No operation of a client is blocked for ever, by the worker's mutexes, by
\* another client or by the change of pool.
ClientsReturn == \A c \in Clients : (pc[c] # "idle") ~> (pc[c] = "idle")

ContextOwner ==
    IF pc[Worker] = "work" THEN Worker
    ELSE IF \E c \in Clients : pc[c] = "incall"
         THEN CHOOSE c \in Clients : pc[c] = "incall"
         ELSE NoThread

Promise == INSTANCE ActorContext WITH owner <- ContextOwner

\* The flag, the two mutexes and the condition variable implement an exclusive
\* context whose worker is brought to every item.
ImplementsActorContext == Promise!Spec
=============================================================================
