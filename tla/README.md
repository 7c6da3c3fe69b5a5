# A TLA+ model of the Pothos framework core

Pothos runs a graph of signal processing blocks.  Each block has an *actor*:
a context that belongs to one thread at a time, ports that other blocks push
into, and a task that the threads of a pool call again and again.  What can go
wrong lies between these parts: a wakeup that comes too early, a buffer that
returns while somebody still reads it, a label that slips from its element, a
thread that is never told to leave.  The modules in this directory model those
parts, together with the commit of a topology, the remote protocol and the
network stream that join blocks of different processes.  TLC checks them on
small instances; TLAPS proves nearly all of their safety for any number of threads,
blocks, tasks, slabs, requests and sessions (Proofs says what is left to TLC).

Paths below are relative to the repository; `Framework/` stands for
`pothos-library/lib/Framework/`.

## The system

| part | state it keeps | operations | what makes it correct |
|---|---|---|---|
| `ActorInterface.hpp`: the block's context | change flag, count of external calls, two mutexes, condition variable, wait mode | `workerThreadAcquire`, `externalCallAcquire`/`Release`, `flagExternalChange`, `wakeNoChange` | exclusion; no lost wakeup; no lost item; a caller is not overtaken for ever |
| `ThreadEnvironment.cpp`: the threads of a pool | registered tasks, signature, threads; each thread's own copy of the task map | `registerTask`, `unregisterTask`, the two process loops | one thread in a task; none left in a removed one; the right number of threads; every ready task is run |
| `WorkerActor.cpp` with `InputPort`, `OutputPort` | accumulators, label queues, messages, slot calls, tokens, posted labels, active state | `workTask` (pre-work, `work()`, post-work), pushes, `setActiveStateOn`/`Off` | nothing stalls; labels stay with elements; buffers and tokens are conserved |
| `GenericBufferManager`, `ManagedBuffer` | ready buffers, references | `front`, `pop`, `push` on the last release | a buffer is handed out once |
| `BufferAccumulator.cpp` | queue of chunks, a flag for its pool buffer | `push`, `pop`, `require` | the bytes come out as they went in |
| `CircularBufferManager.cpp`, `OrderedQueue.hpp` | ready slabs, front address, slabs returned out of turn | `init`, `pop`, `push` | what is written is not being read |
| `Topology*.cpp` | flows, flat flows, remote topologies | `connect`, `disconnect`, `commit` | what is active is what was asked for, also after errors |
| `lib/Remote` | streams, cached replies, remote object ids | transactions, server loop | each thread gets its own reply |
| `pothos-blocks/network` | endpoint state, sequence and flow counters | handshake, `send`, `recv`, teardown | the byte stream and its labels arrive |
| `RingDeque.hpp` | container, two indices | push, pop, `set_capacity` | it is a sequence |
| plugin registry, objects, callables, proxies, data types | a path tree; values | lookup, call, convert | sequential |
| `pothos-blocks` DSP, file, utility, tester blocks | their own | `work()` | numeric |
| `pothos-gui`, `-python`, `-java`, `-opencl`, `-sdr`, `-audio`, `-widgets`, `-util` | external runtimes and devices | adapters | outside |
| `poco`, `udt4`, `pothos-serialization` | | | vendored |

How they meet: a block's `work()` posts on an output port, which pushes into
the input ports of its subscribers and flags a change in their actors
(`flagExternalChange`), possibly waking a thread of the pool that sleeps in
the subscriber.  A chunk keeps its managed buffer alive; the last reference to
go pushes the buffer back into the manager of the output port it came from and
flags a change there.  Tokens bound the messages in flight the same way.  User
threads call blocks under an `ActorInterfaceLock`; `Block::setThreadPool`
moves a block from one pool to another.

A topology is edited by one user and then committed: the hierarchy of flows is
flattened, flows between processes are cut and joined by a pair of network
blocks, and every environment (the local process, or a remote one behind a
`RemoteProxyEnvironment`) brings its own share about, with a thread per flow
and per block.  Threads that use a remote environment share one stream of
requests and replies; handles to remote objects remove these when they die.

The hard behaviours are thus the interleaving of flag, mutexes and condition
variable; threads that work from copies of the task map; pushes between any
two steps of a pass; buffers that come back at any time, in any order; commits
that fail half way and are followed by others; replies that are read by the
wrong thread; and two ends of a socket that open, close and give up at
different times.

## Modules

`ActorContext` is the abstract specification: a context that belongs to one
thread at a time, and a worker that is brought to every item.

`ActorInterface` is the code, at the grain of one access to an atomic, a
mutex or the condition variable per action.  `pc` has a value for every place
where another thread may get in.  `CheckExternal` to `BailOut` are the first
block of `workerThreadAcquire`; `FastCheck`, `LockAcquire`, `Recheck`, `Wait`,
`Reacquire`, `LastCheck` its remaining lines in order, `LockContext` the three
places where a taken flag leads to `_contextMutex.lock()`.  `WorkTask` is a
whole pass of `work()`, seen as the number `inbox` of unconsumed items.  The
clients push (`Post`), call (`ExternalRequest` to `ExternalUnlock`), wake
(`StartWake`), and move the block (`Unregister`, `Register`,
`EnableWaitMode`).  `overtaken` is a history variable: the passes begun
since a client asked for the context.  `ImplementsActorContext` is the
refinement: the owner of the context is read off the program counters.

`PortLock` composes `ActorInterface` with the spin lock of a port, which the
code holds while it flags and wakes.

`ThreadEnvironment` models the pool.  Of an actor it keeps what
`ActorInterface` establishes: a flag that a thread takes or atomically goes to
sleep on, and a wake that reaches a sleeper.  `Reload`/`NoReload` compare the
signature, `MustExit`/`Exit` the index, `EnterPool`, `SkipBusy`, `TakeChange`,
`Sleep`, `FailAcquire`, `Work`, `WakeBusy`, `ProbeFree`, `Leave` follow the loop
(`wakeAllBusyTasks` takes the flag of a free task for a moment, `ProbeFree` to
`ClearProbed`, so that others find it busy);
`RegisterTask`, `Announce`, `SpawnThread` and `UnregisterTask`, `Retire`,
`WakeTask`, `JoinThread`, `Unregistered` follow the two calls.

`WorkerActor` is a tree of blocks: the subscribers of an output share its
buffers and message tokens, and the last of them to let one go sends it back.
A pass is `StartPass`, `PreWorkOutputs`, `PreWorkInputs`, `Work`,
`PostWorkInputs`, `PostWorkOutputs`, a `PushToSubscriber` for each, `EndPass`:
the code between two accesses to state that other threads write.  From outside
come `PushBuffer`, `PushMessage` and `SlotCallsPush` into the first block,
`SetActiveStateOn` and `SetActiveStateOff`, and `EmitSignal` by a thread that
has no part in the block's context.  `work()` is
nondeterministic in what it consumes of what it was offered; it passes popped
messages on and produces one element for every `Decimation` it consumes.
Labels carry `origin`, the number of the element they were put on, which the
code does not know and the properties need.  `Sorted` is `std::sort`, which may
put labels on one element in any order; which of its free tokens an output
takes is left open too, since nothing depends on it.  `Arrivals` counts the labels that have
come to a block: those that its source has seen, less those that wait there or
are posted and not yet pushed (`Behind`).

`BufferAccumulator` and `CircularBufferManager` are operators on the contents
of the two data structures; `BufferFlow` composes them over a memory in which
byte number k of the stream has the value k.

`TopologyFlows` is the pure half of `Topology::commit()`: `Squashed`
(`squashFlows`), `Completed` (`completePassThroughFlows`), `NetworkFlows`
(`createNetworkFlows`) and `RectifiedFlows` (`rectifyDomainFlows`).  The code
works on vectors, in which a flow found in two ways is there twice; here a flow
carries the way it was found.  `Topology` adds what a user does (`Connect`,
`Disconnect`, `DisconnectAll`, with the port names of the hierarchy and the
automatic ports of the blocks) and what a commit does: `Commit` up to the
futures of the sub-commits, then for each environment at the same time
`Subscribe`, a step per port and flow, `EndUpdate`, `Install` (buffer managers),
`SetActiveState`, `ActivationFails` or `HandshakeFails` per block,
`EndActivation`, and `EndCommit`.  `excused` is a history variable: a reason for
which a commit may throw has occurred.

`RemoteCalls` is the abstract specification of a shared connection: each thread
gets the answer to its own call, once.  `RemoteProxy` is the client
(`transact()`: `Send`, `SendFailed`, `LockInput`, `Read`, `ReadFails`), the
calls that handles make through it (`Begin`, `Continue`, `Close`), the server's
handler (`Serve`, `HangUp`) and the connection, which may break and lose what is
on its way (`Break`).  Requests are told apart by what they use, make and
remove on the server.  `ImplementsCalls` is the refinement.

`SocketEndpoint` has the functions of an endpoint: the state machine
(`Transition`, `handleState`), `unpackHeader` with its packet count, `recv` with
partial packets and flow control, and the starts of `openComms` and
`closeComms`.  `Send` announces the length of a payload in 16 bits, modulo
`LengthMod`, and sends all of it: the rest of a longer one is a packet of type
"stray", at which an end that expects a header stops (`HeaderFollows`).  `NetworkStream` composes two of them, a sink with its handler
thread and a source, over a reliable channel; topologies activate and deactivate
either at any time, and a handshake may time out.  Before each buffer it sends
all labels that are in the queue, in the order of their arrival, also those of
elements beyond the buffer.  `ShortStream` assumes that payloads are short enough
for the length field (`ShortAssumption`), which the code leaves to its users.

`Deque` is the abstract double ended queue, `RingDeque` the container with its
two indices, and `RingDequeProofs` the proof that one implements the other.

`MC...` modules hold the constants of the runs; `MCTopology` also has the
reference definition of flattening, reachability in the graph of ports.
`ActorInterfaceProofs`, `ThreadEnvironmentProofs`, `WorkerActorProofs`,
`BufferFlowProofs`, `TopologyProofs`, `RemoteProxyProofs`, `NetworkStreamProofs`
and `RingDequeProofs` hold the theorems.  Operators named
`...Mutant` are faulty variants of the definition that follows them, kept to
show that each property depends on the code.

## Runs

| run | configuration | shows |
|---|---|---|
| `actor` | `MCActorInterface.cfg` | `TypeOK`, `ExclusiveContext`, `NoLostWakeup`, `NoLostItem`, `BoundedOvertaking`, `ClientsReturn`, `ImplementsActorContext` |
| `thread_environment` | `MCThreadEnvironment.cfg` | `TypeOK`, `ExclusiveTask`, `NoThreadLeftBehind`, `ChangesServed` |
| `worker_actor` | `MCWorkerActor.cfg` | `TypeOK`, `NoStall`, `LabelsStayWithData`, `LabelsDeliveredOnce`, `ResourcesConserved`, `DataFlowsThrough` |
| `buffer_flow` | `MCBufferFlow.cfg` | `TypeOK`, `StreamIntact`, `ReadersUndisturbed`, `SlabsConserved`, `NeverStarved` |
| `topology` | `MCTopology.cfg` | `FlatIsReachable`, `SubscriptionsMatch`, `CommitSucceeds`, `NoDanglingSubscriber`, `NoGap`, `CommitEnds` |
| `remote_proxy` | `MCRemoteProxy.cfg` | `TypeOK`, `RepliesHaveTakers`, `ObjectsMatchHandles`, `CallsSpec` |
| `network_stream` | `MCNetworkStream.cfg` | `TypeOK`, `CountsInSync`, `HandshakesAgree`, `NoFlowDeadlock`, `StreamInOrder`, `LabelsKeepTheirElement` |
| `ring_deque` | `MCRingDeque.cfg` | `NothingLeftBehind`, `ImplementsDeque` |

These hold.  The following do not; each is the statement of a comment or a
header in the repository, and its counterexample is a behaviour of the code.

| run | property | what happens |
|---|---|---|
| `unregister_hang` | `UnregisterReturns` | A thread compares the signature, `unregisterTask` bumps it and wakes everybody once, the thread goes to sleep; the join waits for it. |
| `port_lock` | `SpinLockReleased` | Worker: has `_acquireMutex`, wants the context.  Caller: has the context, wants a port's spin lock.  Pusher: has the spin lock, wants `_acquireMutex`. |
| `label_order` | `OnlyConsumedPropagate` | Behind a decimating block labels queue up out of order; the code counts those of the consumed elements and then takes that many from the front. |
| `foreign_argument` | `ForeignArgumentsReachObjects` | An argument of another environment is converted; the handle of the converted object dies, and removes it from the server, before the call that names it is sent. |

### Bounds, and why they are enough

* `actor`: two clients with one operation each, in pools that wait.  Two
  clients are needed for one to spoil the `try_lock` of the other while it
  pushes.  The safety properties are proved for any number of clients and
  operations, so the run is there for the liveness.  `port_lock` has the same
  bounds.
* `thread_environment`: two tasks, with a thread for each, with two pool
  threads or with one for both (`PoolSizes`), one change from outside or from `work()`, one removal.  A task may
  come back, and be registered with a change pending.
* `worker_actor`: a block with two subscribers, which share its one buffer of
  two elements and its one token; two elements, a label, and one event, which
  is a message, a slot call, a signal or an interruption of any block.  Both managers run
  empty, either subscriber may be the last to let the buffer or the token go,
  and every push can fall between any two steps of the other passes.
  `label_order` has a chain whose first block decimates, and eight elements.
* `buffer_flow`: a ring of three slabs of two bytes, eight bytes to wrap
  around it, one chunk kept by others, requirements of one or three bytes so
  that the front is at times too short, a pool buffer shorter than the ring so
  that a copy may be partial.  There are more pool buffers than can be in use
  (`FlowAssumption`): the pool makes another one when all of them are.
* `topology`: the blocks `a`, which has an automatic output port, and `b` in one
  environment, `d` with an automatic input port in another, and `c` with memory of its own in a topology `T`, whose
  input and output port have the same name and may be connected with each other.
  Ways through the hierarchy pass through one topology at most (see
  Observations for more).  Four edits build every combination of two routes, or one that is changed
  between the two commits; one block may fail to (de)activate.
* `remote_proxy`: two threads with four requests in all, which is enough to
  make an object, use it while the other thread works, release it, and leave a
  reply in the cache when the connection breaks.  `foreign_argument` has three.
* `network_stream`: packet counts modulo five that begin at three, so that they
  wrap in each session; a window of five units with a report every two, so that
  a sink with two elements, a label and its handshake has to wait for reports;
  buffers of one or two elements received into one or two places, so that
  packets come in parts; at most one label before a buffer (the theorems are for any
  number), also of an element that comes later; lengths modulo three, above those
  of all payloads; two activations of each block and one failed handshake.
* `ring_deque`: three elements and capacities up to four reach every position
  and length of the window; the properties are proved for every capacity.

`MaxOps`, `MaxChanges`, `MaxUnregister`, `MaxElements`, `MaxLabels`,
`MaxEvents`, `MaxBytes`, `MaxHeld`, `MaxEdits`, `MaxCommits`, `MaxFailures`, `MaxRequests`, `MaxOpens`, `MaxBuffer` and
`MaxCapacity` bound the environment, never the code; `CountMod`, `Window`,
`FlowStep`, `Header`, `LengthMod`, `Scratch` are small values of the code's constants.
Deadlock is checked in `remote_proxy`, where `Finished` is the only rest
allowed.  Elsewhere the environment may rest, and then so does the program; that
it does not rest too early is what `NoStall`, `NoFlowDeadlock`, `ChangesServed`,
`ClientsReturn`, `CommitEnds` and `DataFlowsThrough` are for.

### Fairness

Every thread that can take a step does so eventually (weak fairness per
thread): they are preemptive threads of the operating system.  This holds for
the threads of a commit and for the client's threads and the server's handler of
a remote connection too, the latter as long as its calls return.  A thread that
waits for a `std::mutex` which is released again and again obtains it (strong
fairness of the lock actions): the standard does not promise it, mutexes of
the supported systems do in practice, and without it a thread could be passed
for ever whatever the code did.  Nobody is obliged to start an operation, to
register or remove a task, to push, to edit or commit, to break a connection or
to wake spuriously.  `try_lock` may fail spuriously by the standard; the
implementations the project builds on do not, and the model follows them.
`NetworkStream` states no fairness: all its properties are of states, and
`NoFlowDeadlock` looks at the states in which nothing is on its way.

## Proofs

`ActorInterfaceProofs` proves, for every finite set of clients and every
number of operations, under `ThreadsAssumption` (worker, clients and "nobody"
are distinct) and `BoundsAssumption`:

* `TypeCorrect`, `TypesHold`.  `TypeOK` alone is not inductive: the counter
  `_externalAcquired` is decremented without a guard.  `TypeInv` adds that it
  equals the number of callers between request and release; the cardinality
  lemma `CountCallers` carries it through.
* `LockOwnersHold`: which thread has which mutex is determined by the program
  counters.  Everything else rests on it.
* `ContextIsExclusive` (`ExclusiveContext`) follows from `LockOwners`: two
  threads in the context would both own one mutex.
* `OvertakingIsBounded` (`BoundedOvertaking`), by the invariant `Overtaking`:
  a worker that is past its look at the count has not yet overtaken anybody
  who still waits.
* `ItemsAreNotLost` (`NoLostItem`), inductive with `LockOwners`.
* `WakeupsAreNotLost` (`NoLostWakeup`), assuming that pools of one yield mode
  only are in use (see Observations for the other case).  `Sleep` strengthens
  the property to the moment before the wait, `WakeMode` says that a worker that
  may sleep has an actor that wakes.
* `ImplementsContextSafety`: every step is a step of `ActorContext` or leaves
  its variables alone.

`RingDequeProofs` proves, for every set of elements and every `MaxCapacity`,
under `DefaultAssumption` (a default element is not one that is pushed) and
`MaxCapacityAssumption`:

* `IndicesAgree`: `TypeOK` is inductive; it says that the back index is the
  front index plus the count less one, modulo the size.  Neither index can be
  recovered from the other without it, and `push_back` after `pop_front` would
  write over an element.  `Slots` and `Neighbours` reduce the remainders to
  cases that the solver can do.
* `PoppedIsReleased` (`NothingLeftBehind`).  The property speaks of distances
  from the front, which move at each pop; `Released` says the same of each slot
  by its `Age` and is what the steps preserve.
* `RingIsDeque` (`ImplementsDeque`): the window of the ring, read from the front,
  is a sequence (`ContentsAreHeld`), and each operation changes it as the deque's
  does (`StepImplements`), also `set_capacity()` while the window wraps.

`ThreadEnvironmentProofs` proves, for every number of tasks and threads and either
loop:

* `AlwaysInv`, `TypesHold`.  `Inv` says what a thread that works from a copy of
  the task map may rely on: the copy holds nothing that is not registered, but
  for the one task that is being retired (`CopiesKnown`), and the iterator is in
  the copy (`IteratorsValid`).
* `OneThreadPerTask` (`ExclusiveTask`): a pool thread is in a task only with the
  task's flag, and nobody else with it (`FlagsGuard`), nor while another holds
  the flag only to look whether it is free; a thread of its own
  never sees another task (`OwnTaskOnly`).
* `TaskLeftAlone` (`NoThreadLeftBehind`), from `CopiesKnown`: when
  `unregisterTask()` returns, `Retired` is empty.

`WorkerActorProofs` proves, for every tree of blocks and every size and rate:

* `TypesHold`.  That a pop never runs over a buffer or a chunk needs `PassFits`: what a
  pass was offered before it called `work()` is still there afterwards, since
  others only push; and `Counts`: what arrived is consumed or queued.
* `NothingIsForgotten` (`NoStall`).  `Seen` carries it through a pass: if no
  change is flagged, then the pass has seen everything that could be worked on,
  or will flag a change itself.  Where another thread brings or returns
  something, it is the `flagExternalChange()` there that preserves it.
* `NothingIsLost` (`ResourcesConserved`).  `KeepsTokens` with `OnceEach`: a token
  is in the manager exactly when no message or call of a subscriber holds it,
  and one subscriber holds it once.  `KeepsBuffers`: each buffer is with the
  manager, being posted, or with a subscriber; the subscribers' parts of a
  buffer that the manager still hands out lie before the rest (`Manages`,
  `Shares`).
* `LabelsStay` (`LabelsStayWithData`) and `LabelsComeOnce`
  (`LabelsDeliveredOnce`), for trees in which each block with an output produces
  what it consumes: its hypothesis is needed, since behind a decimating block labels queue
  out of order (`label_order`).  `InMarks` strengthens the property: the labels
  of both queues ascend strictly, lie on elements that have arrived and are not
  consumed, and those that arrived during a pass lie behind all that the pass was
  offered.  So `NumPassed` is the length of a prefix (`LabelsAreSplit`),
  and exactly the labels of the consumed elements are propagated.  `OutMarks` says
  the same of what is posted.  `LabelsComeOnce` is about `Arrivals`, a
  recursive function along the tree: `CountedExist` and `CountedAreOne` show
  that its recursion has one solution, since a source comes before its
  subscribers.

`TopologyProofs` proves, for every set of blocks, environments, connections and bounds, under `EnvsAssumption` (the environment of
a block is one of `Envs`), whatever way flows were found in:

* `PortsOutliveSubscribers` (`NoDanglingSubscriber`) by `PortInv`: the tasks of a
  sub-commit are about its own flows, and a flow is subscribed only as long as the
  ports at both of its ends are loaded, also after failures.
* `NothingLostOnTheWay` (`NoGap`) by `FlowInv`: until there is a reason to fail,
  each state of a commit has the subscriptions that its progress tells.
* `CommitsSucceed` (`CommitSucceeds`) and `EnvironmentsAgree`
  (`SubscriptionsMatch`) by `BlockInv`: network blocks come in pairs that are
  loaded and activated together, and which blocks are active follows from the
  progress.  Their hypothesis `BlocksAreOthers` says that the blocks that a commit
  makes are none of the user's; in the code they are new objects.

`BufferFlowProofs` proves, for every number and size of slabs, every size of the pool
buffers, every number of bytes and of chunks kept by others, under
`FlowAssumption`:

* `TypesAreCorrect` (`TypeOK`), `SlabsAreConserved` (`SlabsConserved`),
  `StreamStaysIntact` (`StreamIntact`), `NobodyDisturbsReaders`
  (`ReadersUndisturbed`) and `NobodyStarves` (`NeverStarved`), all from one
  inductive invariant, `IInv` (`AlwaysFits`).  `ManagerFits`: the ready slabs are
  consecutive turns of the ring up to the next turn to be acknowledged, which is
  not among the slabs that came back early, and each slab is ready, came
  back early, or is alive.  `QueueFits`: each chunk of the accumulator has its
  place in the stream, and its bytes are either in the ring, where its slab is
  still what it was when it was handed out (`InRing`), or in the pool buffer, and
  then it is the first (`InPool`).  The age of a slab, the number of slabs handed
  out since, falls by one from chunk to chunk (`Chained`); it is what bounds how
  far the front of the queue has grown over its neighbours, and with it that
  `front()` and `require()` never reach a slab that is being written.
  `ReaderFits` and `HeldFits` say the same of the window of a reader that is
  at work, and of the chunks that others keep.
* `OrderOfReturns`: slabs that come back in any order and grouping leave the
  manager in the same state, so `push()` needs no agreement among the
  threads that let go of them.

`RemoteProxyProofs` proves, for every set of threads and number of requests,
under `TidAssumption` (see Observations) and `NoneAssumption`:

* `RepliesTaken` (`RepliesHaveTakers`) by `CallInv`: a request that waits for
  its answer is in one place, on the way to the server, on the way back or in
  the cache.  `OnePlace` is what keeps a reply from being read twice or
  overwritten, `ReaderUncached` what keeps a thread from reading the stream while
  its reply is in the cache.
* `NoObjectLeaks` (`ObjectsMatchHandles`) by `ObjectInv`: each object of the
  server has one owner, a handle, a thread whose request will bring or remove
  it, or the environment, which goes last.
* `CallsAnsweredOnce`: every step is a step of `RemoteCalls` or a stutter.

`NetworkStreamProofs` proves, for every number of sessions, failures, elements and
labels, every window, any labels before a buffer in any order, and every buffer size that
the header's length field can hold, under `SocketAssumption`, `StreamAssumption` and
`ShortAssumption` (buffers and labels are below `LengthMod`, 2^16 in the code; for
longer ones the theorems do not hold, see Observations).  `ShortIsWhole`: such a
payload is announced whole and nothing of it is stray.

* `CountsStayInSync` (`CountsInSync`) by `Counted`: the packets on the way to an
  end are numbered on from what it expects, or begin with a SYN where it listens
  (`Direction`), and the last of them has the count of its sender.  Which pairs
  of states two ends may be in (`Sessions`) has to be proved at the same time.
* `StreamStaysInOrder` (`StreamInOrder`) and `LabelsStayWithTheirElement`
  (`LabelsKeepTheirElement`) by `Streaming`: what is still on the way, in packets,
  in the sink's hands and in a part already received, lies in one line behind
  what has come out (`InOrder`), and is all of the rest while nothing was dropped
  (`Complete`).
* `WindowIsReopened` (`NoFlowDeadlock`) by `Owes`: there is a position in the
  sink's stream of bytes for every packet on the way (`Spaced`), such that the
  source's last report is no more than a step behind what it has received
  (`Punctual`), that this report is on its way, has come, or the sink began anew
  after it (`ReportComes`), and that what the source does not count, because it
  came before it began, fits into the window less a step (`EarlyAnswers`,
  `Credited`).  When nothing is on the way, the sink's last report is then less
  than a window behind what it has sent.  The theorem has a hypothesis,
  `[]Unspent`: a sink that still waits for the answer to its SYN has not used up
  its window less a step.  It cannot be dropped for every value of the constants:
  such a sink answers what is left of an earlier session with reports, these
  count as sent, and the source may throw them away.  With the code's numbers (20
  bytes of header, 262144 of window, reports every 32768) it takes more than ten
  thousand such reports to break it; TLC finds it true of all states of
  `network_stream`'s instance.
* `EndsAgree` (`HandshakesAgree`) by `Agreeing`, for as long as no handshake has
  failed and no block was activated more than twice (`Early`): the states of both
  ends and the flags SYN, ACK and FIN on the way to each are a row of a table
  (`Paired`).  `Carries` says which packets those flags are of; what else is on
  the way may lie between them.  The table has four parts: the first handshake
  with its server (`Opening`), the session after it (`First`), one end that has
  begun anew while the other may still be leaving (`Between`), and a session
  without a server (`Second`), where SYNs that cross leave an ACK over in both
  directions.  A row in which nothing is on the way has both ends connected or
  neither.  `Activated` is what makes a listening end one that begins.

Each preservation lemma has one step per action.  The assumptions on constants say
that bounds are numbers, that names differ, and that sizes are at least what the
code needs.  Sums over queues are recursive functions; what is needed of them
is proved by a least counterexample (`LeastElement`), not by induction.

Only model-checked: the liveness properties (`ChangesServed`, `ClientsReturn`,
`CommitEnds`, `DataFlowsThrough`), with the fair halves of the refinements of
`ActorContext` and `RemoteCalls`, which need `ENABLED`,
and `FlatIsReachable`, as `Squashed` calls itself.

## Observations

What was met in the code while it was modelled, no run being about it.

* `Block.cpp:34`: `setThreadPool()` registers the task with the new pool before
  `enableWaitMode()`.  From a pool that spins to one that waits, the worker may
  sleep while `flagExternalChange()` still believes that nobody has to be woken.
  Pools of one mode do not have this (`YieldModes`).
* `ThreadEnvironment.cpp:166`: in a pool with fewer threads than tasks a thread
  may sleep on one block's condition variable while another block has a change,
  in spite of the comment at lines 123-125 ("threads are not allowed to wait in a
  task when another task is immediately capable of performing useful work").  It
  is enough that a change is flagged in the other task after that task was tried,
  that a caller had its context for a moment, or that it was only registered:
  `registerTask()` wakes nobody.  The work then waits for the next wakeup of
  the task slept in.  `ChangesServed` is about what remains: with no fewer threads than
  tasks every change is served, with fewer unless all of them fall asleep.
* `WorkerActor.cpp:254` with `InputPort.cpp:87-94`: two slot calls may fall into
  one flagged change; a pass makes one of them, the other waits for the next
  change.
* `BufferAccumulator.cpp:150`: after `require()` on an empty accumulator the flag
  "pool buffer in front" is stale.  Harmless for the chunks of a ring; with
  windows of one buffer, as `Deserializer` posts them, `pop()` may move the rest
  of one payload over the header of the next.
* `RemoteProxyHandle.cpp` and `RemoteProxy.cpp`: `ObjectSerializeError` is not
  caught, so `connectionActive` stays set when a read fails; two threads with
  the same hash would take each other's replies (`TidAssumption` excludes it); a
  thread whose reply is in the cache may have to wait for the reply of whoever
  reads the stream; `getObjectAtId()` inserts a null entry for an id that is
  missing; objects of a client that broke off stay in the map of the process.
* `TopologyCommit.cpp:154-174`: a flow that passes through two topologies in a
  row is lost, since a pass-through flow is joined with a head and a tail that
  end at blocks, but not with another pass-through; `commit()` reports nothing.
  `FlatIsReachable` is about ways with at most one flow that passes through a
  topology, and the instance has no others.
* `Topology.cpp:189-199`: `_disconnect()` takes the name of a hierarchy's port
  from the list of the other direction, and before it knows whether the flow
  exists.  `Disconnect` does the same; names that remain only permit a
  connection, which then has no way through.
* `Topology.cpp:215-229`: `disconnectAll(true)` calls `disconnectAll()` of the
  topologies it has flows with, without recursion: those within them keep their
  flows.
* `TopologyCommit.cpp:193-246`: a buffer manager that is refused leaves the new
  subscriptions, so that later commits throw; a block that failed to activate is
  not activated by the next commit; a copier is made anew at each commit; the
  generic manager may replace a custom one when a destination is added later;
  `isDomainCrossingAcceptable()` accepts two custom destinations of one source,
  which `installBufferManagers()` then refuses.  `excused` covers what follows
  a refusal or a failed block.
* `SocketEndpoint.cpp:682`: the loops of `openComms()` and `closeComms()` receive
  into one buffer, whose length becomes that of the last payload.  After a packet
  without payload nothing of a following data packet is read, and the loop ends
  with its time (the comment at line 477 calls this the rule in TIME_WAIT only).
* `SocketEndpoint.cpp:512`: in SYN_SENT an ACK alone is taken for an answer, also
  one that is left from a failed handshake: this end believes to be connected
  when its peer is not.  The same happens without any failure: if both ends open
  at the same time, an ACK that neither needs may be left over, and be taken for
  the answer when a later session is opened; it takes three sessions.
  `HandshakesAgree` is therefore about the first two sessions, without a failure
  before them.  A flow report of an earlier session counts as credit in
  the next one.
* `NetworkSource.cpp:95`: the parts of one packet all have the index of the
  whole, and elements dropped in a handshake are not counted; labels that follow
  are then ahead of their element.  `LabelsKeepTheirElement` says that they are
  never behind, and exact otherwise.
* `SocketEndpoint.cpp:726`: the length field of a header has 16 bits, but
  `send()` sends all of a payload, and `NetworkSink::work()` gives it the whole
  front buffer.  From 65536 bytes on the receiver takes elements for the next
  header, and `unpackHeader()` throws "headerWord fail".  `Send` does this;
  `ShortAssumption` excludes it from the run and the theorems.
* `NetworkSink.cpp:181`: a data type packet lost in a handshake is not sent again.
* `RingDeque.hpp:243-254`: `set_capacity()` accepts 0, after which an index is
  taken modulo 0; a generic manager that is made with no buffers asks for it
  (`GenericBufferManager.cpp:25`).  `RingDeque` begins at 1.

## Not modelled

Of the modelled parts: several ports per block, the read-before-write
optimisation of `preWorkTasks`, `popBuffer`/`postBuffer` by the block itself, a
`work()` that consumes or produces more than it was offered, memory ordering
weaker than sequential consistency (the flag uses acquire and release), thread
priorities.  Element types appear only as sizes.  Of topologies:
`waitInactive`, the queries in JSON and dot, the choice of the environment in
which a network block's host is looked up, indexed automatic ports.  Of the
remote protocol: serialization, and the start and end of the server's process,
which is the operating system's; the loss of that process is `Break`. Of the
network stream: messages, packets and data types, errors of the socket
itself, and what an end does once it has taken elements for a header.  Of a ring:
capacity 0.

Not at all, and why:

* the deserializer and the other packet blocks parse bytes; what concerns the
  framework in them, windows of one buffer, is under Observations;
* the plugin registry, objects, callables, proxies and data types are sequential
  values and tables without a protocol of their own;
* signal processing, file, utility and tester blocks are numeric `work()`
  functions, for which `WorkerActor` has a `work()` that may do what it likes;
* language bindings, OpenCL, SDR, audio, widgets and the design tool adapt
  external runtimes and devices whose behaviour is not in the repository;
* `poco`, `udt4` and the serialization library are vendored third-party code.
  They make up nearly all the lines of the tree.

## Plan

What has been modelled is what the framework's own state machines are.  Next:

1. `WorkerActor`: several ports per block, read-before-write, over-consumption.
2. The deserializer's fragments over `BufferAccumulator`.
