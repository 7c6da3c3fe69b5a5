------------------------------ MODULE PortLock ------------------------------
(***************************************************************************)
(* ActorInterface together with the spin lock of one of the block's ports, *)
(* which guards what other threads put into the port: a message queue, the *)
(* tokens or the buffers that come back (_asyncMessagesLock, _slotCallsLock,*)
(* _bufferAccumulatorLock, _tokenManagerLock, _bufferManagerLock).         *)
(*                                                                         *)
(* A pusher keeps the spin lock while it flags the change and wakes the    *)
(* worker: InputPort::asyncMessagesPush(), slotCallsPush() and             *)
(* bufferLabelPush(), OutputPort::bufferManagerPush().  The worker, and a  *)
(* call under the ActorInterfaceLock that emits a signal (tokenManagerPop) *)
(* or installs a buffer manager, take the spin lock inside the context.    *)
(***************************************************************************)
EXTENDS ActorInterface

VARIABLE spinLock   \* the owner of the port's spin lock

portVars == <<vars, spinLock>>

PortInit == Init /\ spinLock = NoThread

\* Taken and given back inside the context, around the whole of a step.
WithSpinLock(step) == spinLock = NoThread /\ step /\ UNCHANGED spinLock

PortWorkTask == WithSpinLock(WorkTask)

PortExternalCall(c) == WithSpinLock(ExternalCall(c))

\* lock_guard<SpinLock>, then the push, up to the end of flagExternalChange().
PortPush(c) == Lock(spinLock, c) /\ Post(c)

\* Back from flagExternalChange(), a pusher leaves the scope of its lock_guard.
Returning(c) ==
    spinLock' = IF spinLock = c /\ pc'[c] = "idle" THEN NoThread ELSE spinLock

PortWorkerNext ==
    \/ PortWorkTask
    \/ /\ \/ CheckExternal \/ BlockOnExternal \/ BailOut
          \/ FastCheck \/ LockAcquire \/ Recheck \/ Wait \/ Reacquire \/ LastCheck
          \/ LockContext \/ Release
       /\ UNCHANGED spinLock

PortClientStep(c) ==
    \/ PortExternalCall(c)
    \/ /\ \/ ExternalLock(c) \/ ExternalUnlock(c)
          \/ FlagChange(c) \/ CheckWaitMode(c)
          \/ TryContext(c) \/ UntryContext(c) \/ NotifyLock(c) \/ Notify(c)
       /\ Returning(c)

PortNext ==
    \/ PortWorkerNext
    \/ \E c \in Clients :
          \/ PortPush(c)
          \/ ExternalRequest(c) /\ UNCHANGED spinLock
          \/ PortClientStep(c)

\* As in ActorInterface.  A spinning thread gets a spin lock that stays free.
PortFairness ==
    /\ WF_portVars(PortWorkerNext)
    /\ SF_portVars(BlockOnExternal /\ UNCHANGED spinLock)
    /\ SF_portVars(LockContext /\ UNCHANGED spinLock)
    /\ SF_portVars(LockAcquire /\ UNCHANGED spinLock)
    /\ SF_portVars(Reacquire /\ UNCHANGED spinLock)
    /\ \A c \in Clients : /\ WF_portVars(PortClientStep(c))
                          /\ SF_portVars(ExternalLock(c) /\ Returning(c))
                          /\ SF_portVars(NotifyLock(c) /\ Returning(c))

PortSpec == PortInit /\ [][PortNext]_portVars /\ PortFairness

\* "only use this lock to protect very brief code sections": whoever has the
\* spin lock gives it back.
SpinLockReleased == \A c \in Clients : (spinLock = c) ~> (spinLock # c)
=============================================================================
