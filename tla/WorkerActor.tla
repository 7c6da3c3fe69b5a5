---------------------------- MODULE WorkerActor ----------------------------
(***************************************************************************)
(* lib/Framework/WorkerActor.cpp with InputPort, OutputPort and            *)
(* GenericBufferManager: what one pass of workTask() does to the ports of  *)
(* a block while other threads push into them.                             *)
(*                                                                         *)
(* The blocks form a tree: a block has one input port, which subscribes to *)
(* the output of its source, and an output port if others subscribe to it: *)
(* these share its buffers and message tokens.  Ports carry elements,      *)
(* labels and messages, and an output is a signal to the slots of its      *)
(* subscribers.                                                            *)
(*                                                                         *)
(* ActorInterface shows that the passes of a block and the external calls  *)
(* on it exclude each other and that a flagged change leads to a pass:     *)
(* here a pass takes the flag.  One action is what the code does between   *)
(* two accesses to state that other threads also write.  What a block      *)
(* posts to several message or slot queues goes to all of them at once:    *)
(* the poster holds the token itself until the last has it.  The           *)
(* accumulator is a queue of chunks; lengths are counted in elements,      *)
(* label indices in bytes or in elements as the code has them.             *)
(***************************************************************************)
EXTENDS Integers, Sequences, FiniteSets, SequencesExt, FiniteSetsExt

CONSTANTS NumBlocks,
          Source,       \* the block each block has its input from; 0 is not modelled
          Decimation,   \* elements the block consumes for each one it produces
          ElemSize,     \* dtype().size() of every port
          BufSize,      \* elements in a buffer of an output port's manager
          NumBuffers,   \* buffers in each manager
          NumTokens,    \* message tokens of each output port (16 in the code)
          MaxElements, MaxLabels,
          MaxEvents     \* messages, slot calls and signals from outside, interruptions

Blocks == 1..NumBlocks

ASSUME TreeAssumption ==
    /\ NumBlocks \in Nat \ {0}
    /\ Source \in [Blocks -> Nat]
    /\ \A b \in Blocks : Source[b] < b /\ (Source[b] = 0 => b = 1)
    /\ Decimation \in [Blocks -> Nat \ {0}]

ASSUME SizesAssumption == {ElemSize, BufSize, NumBuffers, NumTokens} \subseteq Nat \ {0}

ASSUME BudgetAssumption == {MaxElements, MaxLabels, MaxEvents} \subseteq Nat

VARIABLES
    flag,          \* the actor has a flagged change
    active,        \* activeState
    pc,            \* where the pass of workTask() is
    pass,          \* what the pass has read and decided
    chunks,        \* _bufferAccumulator: buffer (0 is not managed) and length
    inputLabels,   \* _inputInlineMessages, indices in bytes
    labels,        \* _inlineMessages, indices in elements
    messages,      \* _asyncMessages: the token the message holds, or 0
    slotCalls,     \* _slotCalls: the token each call holds, or 0
    ready,         \* _bufferManager of the output: _readyBuffs
    room,          \* elements left in its front buffer
    tokens,        \* _tokenManager of the output: tokens not in use
    postedLabels,  \* _postedLabels of the output, indices in bytes
    arrived,       \* elements ever pushed into the input
    consumed,      \* _totalElements of the input
    delivered,     \* origins of the labels that a block without output has seen
    left           \* budget of the environment

flowVars   == <<chunks, inputLabels, labels, postedLabels>>
ioVars     == <<messages, slotCalls, tokens>>
managers   == <<ready, room>>
ghosts     == <<arrived, consumed, delivered>>
vars == <<flag, active, pc, pass, flowVars, ioVars, managers, ghosts, left>>

NoPass == [ready |-> FALSE, outElems |-> 0, inElems |-> 0,
           consume |-> 0, produce |-> 0, inEvents |-> FALSE, outEvents |-> FALSE,
           posted |-> 0, subscribers |-> {}]

Init ==
    /\ flag = [b \in Blocks |-> FALSE]
    /\ active = [b \in Blocks |-> FALSE]
    /\ pc = [b \in Blocks |-> "idle"]
    /\ pass = [b \in Blocks |-> NoPass]
    /\ chunks = [b \in Blocks |-> <<>>]
    /\ inputLabels = [b \in Blocks |-> <<>>]
    /\ labels = [b \in Blocks |-> <<>>]
    /\ messages = [b \in Blocks |-> <<>>]
    /\ slotCalls = [b \in Blocks |-> <<>>]
    /\ ready = [b \in Blocks |-> [i \in 1..NumBuffers |-> i]]
    /\ room = [b \in Blocks |-> BufSize]
    /\ tokens = [b \in Blocks |-> 1..NumTokens]
    /\ postedLabels = [b \in Blocks |-> <<>>]
    /\ arrived = [b \in Blocks |-> 0]
    /\ consumed = [b \in Blocks |-> 0]
    /\ delivered = [b \in Blocks |-> <<>>]
    /\ left = [elements |-> MaxElements, labels |-> MaxLabels, events |-> MaxEvents]

\* The blocks whose inputs are the _subscribers of b's output
Subscribers(b) == {c \in Blocks : Source[c] = b}
HasOutput(b) == Subscribers(b) # {}
HasSource(b) == Source[b] # 0

Goto(b, from, to) ==
    /\ pc[b] = from
    /\ pc' = [pc EXCEPT ![b] = to]

\* The flags once the actors of the blocks in S have a change flagged.
Flagged(S) == [b \in Blocks |-> flag[b] \/ b \in S]

(***************************************************************************)
(* Input ports: the accumulator and the managers its chunks come from.     *)
(***************************************************************************)

Elements(queue) ==
    LET sum[n \in 0..Len(queue)] == IF n = 0 THEN 0 ELSE sum[n - 1] + queue[n].len
    IN  sum[Len(queue)]

FrontElements(queue) == IF queue = <<>> THEN 0 ELSE Head(queue).len

\* A decimating block calls setReserve() in its constructor.
Reserve(b) == IF Decimation[b] = 1 THEN 0 ELSE Decimation[b]
Required(b) == IF Reserve(b) = 0 THEN 1 ELSE Reserve(b)

\* BufferAccumulator::push(): a chunk that continues the last one is merged.
PushChunk(queue, chunk) ==
    IF queue # <<>> /\ chunk.buf # 0 /\ Last(queue).buf = chunk.buf
    THEN [queue EXCEPT ![Len(queue)].len = @ + chunk.len]
    ELSE Append(queue, chunk)

PopChunk(queue, n) ==
    IF Head(queue).len = n THEN Tail(queue) ELSE [queue EXCEPT ![1].len = @ - n]

\* BufferAccumulator::require(): too short a front is replaced by a buffer of
\* the accumulator's own pool (larger than all there is), unless what is
\* missing can still arrive in the front's own buffer.
RequireChunks(queue, n) ==
    IF \/ FrontElements(queue) >= n
       \/ queue = <<>>
       \/ Elements(queue) < n /\ (Head(queue).buf = 0 \/ n <= BufSize)
    THEN queue
    ELSE <<[buf |-> 0, len |-> Elements(queue)]>>

Held(queue) == {chunk.buf : chunk \in Range(queue)} \ {0}

\* References to buffers of b's output: in its manager, in the post-work tasks
\* that post one, and in the accumulators of some of its subscribers
References(b, some) ==
    Range(ready[b]) \cup ({pass[b].posted} \ {0}) \cup UNION {Held(chunks[c]) : c \in some}

\* The buffers in S that the chunks of a queue are in, from its front
BuffersIn(queue, S) ==
    LET found[n \in 0..Len(queue)] ==
            IF n = 0 THEN <<>>
            ELSE IF queue[n].buf \in S THEN Append(found[n - 1], queue[n].buf) ELSE found[n - 1]
    IN  found[Len(queue)]

\* Mutant: a buffer comes back from the first subscriber that lets it go.
ReturnedMutant(b, queue) ==
    LET gone == Held(chunks[b]) \ (Held(queue) \cup References(Source[b], {}))
    IN  BuffersIn(chunks[b], gone)

\* Buffers to which the new queue of b holds the last reference no more, in
\* the order they are let go: each goes back to the manager of b's source.
Returned(b, queue) ==
    LET others == Subscribers(Source[b]) \ {b}
        gone == Held(chunks[b]) \ (Held(queue) \cup References(Source[b], others))
    IN  BuffersIn(chunks[b], gone)

\* Mutant: bufferManagerPush() without flagExternalChange().
ToldMutant(b, queue) == {}

\* bufferManagerPush() flags a change of the block whose buffers come back.
Told(b, queue) == IF HasSource(b) /\ Returned(b, queue) # <<>> THEN {Source[b]} ELSE {}

\* GenericBufferManager::push()
PushBuffers(b, buffers) ==
    IF buffers = <<>> THEN UNCHANGED managers
    ELSE /\ ready' = [ready EXCEPT ![b] = @ \o buffers]
         /\ room' = [room EXCEPT ![b] = IF ready[b] = <<>> THEN BufSize ELSE @]

\* ~ManagedBuffer -> bufferManagerPush()
ReturnBuffers(b, queue, flagging) ==
    /\ chunks' = [chunks EXCEPT ![b] = queue]
    /\ IF HasSource(b) THEN PushBuffers(Source[b], Returned(b, queue)) ELSE UNCHANGED managers
    /\ flag' = Flagged(flagging \cup Told(b, queue))

\* InputPort::bufferLabelPush(): labels move behind the elements already queued.
BufferLabelPush(b, newLabels, queue) ==
    inputLabels' = [inputLabels EXCEPT ![b] = @ \o
        [i \in DOMAIN newLabels |->
            [newLabels[i] EXCEPT !.index = @ + Elements(queue) * ElemSize]]]

(***************************************************************************)
(* Message tokens.                                                         *)
(***************************************************************************)

\* tokenManagerPop() for k messages: null buffers when there are none left
Tokens(b, k) ==
    LET free == SetToSeq(tokens[b])
    IN  [i \in 1..k |-> IF i <= Len(free) THEN free[i] ELSE 0]

\* Tokens in the messages and slot calls of the inputs of some blocks
Sent(some) == (UNION {Range(messages[c]) \cup Range(slotCalls[c]) : c \in some}) \ {0}

\* Of the tokens that b lets go, those that no other subscriber still has
GivenBack(b, gone) == gone \ ({0} \cup Sent(Subscribers(Source[b]) \ {b}))

ReturnTokens(b, given) ==
    IF HasSource(b) THEN [tokens EXCEPT ![Source[b]] = @ \cup given] ELSE tokens

\* bufferManagerPush() again: the block the tokens go back to
TokensTold(b, given) == IF given # {} THEN {Source[b]} ELSE {}

(***************************************************************************)
(* A pass of workTask().                                                   *)
(***************************************************************************)

\* workerThreadAcquire() takes the flag; an inactive block's pass is over, one
\* without output has no outputs to look at.
StartPass(b) ==
    /\ flag[b]
    /\ Goto(b, "idle", IF ~active[b] THEN "idle" ELSE IF HasOutput(b) THEN "outputs" ELSE "inputs")
    /\ flag' = [flag EXCEPT ![b] = FALSE]
    /\ UNCHANGED <<active, pass, flowVars, ioVars, managers, ghosts, left>>

PreWorkOutputs(b) ==
    /\ Goto(b, "outputs", "inputs")
    /\ pass' = [pass EXCEPT ![b] = [NoPass EXCEPT
          !.ready = ready[b] # <<>> /\ tokens[b] # {},
          !.outElems = IF ready[b] # <<>> THEN room[b] ELSE 0]]
    /\ UNCHANGED <<flag, active, flowVars, ioVars, managers, ghosts, left>>

\* One slot call is made; labels that have arrived join those of the port.
PreWorkInputs(b) ==
    LET queue == RequireChunks(chunks[b], Required(b))
        inputsReady == FrontElements(queue) >= Reserve(b)
        willWork == (HasOutput(b) => pass[b].ready) /\ (inputsReady \/ messages[b] # <<>>)
        call == IF slotCalls[b] = <<>> THEN {} ELSE {Head(slotCalls[b])}
        given == GivenBack(b, call)
    IN  /\ Goto(b, "inputs", IF willWork THEN "work" ELSE "idle")
        /\ slotCalls' = [slotCalls EXCEPT ![b] = SubSeq(@, 2, Len(@))]
        /\ tokens' = ReturnTokens(b, given)
        /\ labels' = [labels EXCEPT ![b] = @ \o
              [i \in DOMAIN inputLabels[b] |->
                  [inputLabels[b][i] EXCEPT !.index = @ \div ElemSize]]]
        /\ inputLabels' = [inputLabels EXCEPT ![b] = <<>>]
        /\ pass' = [pass EXCEPT ![b] =
              IF willWork THEN [@ EXCEPT !.inElems = FrontElements(queue)] ELSE NoPass]
        /\ ReturnBuffers(b, queue, TokensTold(b, given))
        /\ UNCHANGED <<active, postedLabels, messages, ghosts, left>>

\* What block->work() may consume: all its inputs and outputs have room for,
\* or any part of it, but something.
Consumable(b) ==
    LET possible == {n \in 1..pass[b].inElems :
                        /\ n % Decimation[b] = 0
                        /\ HasOutput(b) => n \div Decimation[b] <= pass[b].outElems}
    IN  IF possible = {} THEN {0} ELSE possible

Poppable(b) == IF messages[b] = <<>> THEN {0} ELSE 1..Len(messages[b])

\* The pass of b once work() has consumed n elements and popped k messages.
Worked(b, n, k) ==
    [pass[b] EXCEPT
        !.consume = n,
        !.produce = IF HasOutput(b) THEN n \div Decimation[b] ELSE 0,
        !.inEvents = k > 0,
        !.outEvents = HasOutput(b) /\ (@ \/ k > 0)]

\* block->work(): consume(), produce(), popMessage(), and postMessage() of
\* each popped message to all subscribers, with a token while there is one.
Work(b) ==
    /\ Goto(b, "work", "consume")
    /\ \E n \in Consumable(b), k \in Poppable(b) :
          LET posted == IF HasOutput(b) THEN Tokens(b, k) ELSE <<>>
              given == GivenBack(b, Range(SubSeq(messages[b], 1, k)))
          IN  /\ messages' = [c \in Blocks |->
                    IF c = b THEN SubSeq(messages[b], k + 1, Len(messages[b]))
                    ELSE IF c \in Subscribers(b) THEN messages[c] \o posted ELSE messages[c]]
              /\ tokens' = [ReturnTokens(b, given) EXCEPT ![b] = @ \ Range(posted)]
              /\ flag' = Flagged((IF k > 0 THEN Subscribers(b) ELSE {}) \cup TokensTold(b, given))
              /\ pass' = [pass EXCEPT ![b] = Worked(b, n, k)]
              /\ UNCHANGED <<active, flowVars, slotCalls, managers, ghosts, left>>

\* Labels of the consumed elements, counted ...
NumPassed(b) == Cardinality({i \in DOMAIN labels[b] : labels[b][i].index < pass[b].consume})

\* Mutant: the labels that stay are not moved to the new front.
AdjustedMutant(b) == labels[b]

\* Labels beyond the consumed elements move to the new front.
Adjusted(b) ==
    [i \in DOMAIN labels[b] |->
        IF labels[b][i].index < pass[b].consume THEN labels[b][i]
        ELSE [labels[b][i] EXCEPT !.index = @ - pass[b].consume]]

\* ... and propagated: as many labels, from the front.
PassedLabels(b) == SubSeq(Adjusted(b), 1, NumPassed(b))

\* Mutant: labels that arrived during the pass keep their index.
ShiftedMutant(b) == inputLabels[b]

\* The labels not yet seen by a pass, once the consumed bytes are gone
Shifted(b) ==
    [i \in DOMAIN inputLabels[b] |->
        [inputLabels[b][i] EXCEPT !.index = @ - pass[b].consume * ElemSize]]

\* The pass of b once its labels are propagated: to post one is an event.
Propagated(b) == [pass[b] EXCEPT !.outEvents = @ \/ PassedLabels(b) # <<>>]

\* Block::propagateLabels() posts labels on the output; then come
\* bufferAccumulatorPop(), and flagInternalChange() if anything was consumed.
PostWorkInputs(b) ==
    LET n == pass[b].consume
        passed == PassedLabels(b)
        queue == IF n = 0 THEN chunks[b] ELSE PopChunk(chunks[b], n)
    IN  /\ Goto(b, "consume", IF HasOutput(b) THEN "post" ELSE "idle")
        /\ labels' = [labels EXCEPT ![b] = SubSeq(Adjusted(b), NumPassed(b) + 1, Len(@))]
        /\ IF HasOutput(b)
              THEN /\ postedLabels' = [postedLabels EXCEPT ![b] = @ \o
                          [i \in DOMAIN passed |-> [passed[i] EXCEPT !.index = @ * ElemSize]]]
                   /\ UNCHANGED delivered
              ELSE /\ delivered' = [delivered EXCEPT ![b] =
                          @ \o [i \in DOMAIN passed |-> passed[i].origin]]
                   /\ UNCHANGED postedLabels
        /\ inputLabels' = [inputLabels EXCEPT ![b] = Shifted(b)]
        /\ ReturnBuffers(b, queue, IF n > 0 \/ pass[b].inEvents THEN {b} ELSE {})
        /\ consumed' = [consumed EXCEPT ![b] = @ + n]
        /\ pass' = [pass EXCEPT ![b] = IF HasOutput(b) THEN Propagated(b) ELSE NoPass]
        /\ UNCHANGED <<active, ioVars, arrived, left>>

\* Mutant: a buffer is used again down to its last element, and beyond.
UsedAgainMutant(b, n) == room[b] >= n

\* Half a buffer or more is used again.
UsedAgain(b, n) == room[b] >= 2 * n

\* GenericBufferManager::pop()
PopBuffer(b, n) ==
    IF n = 0 THEN UNCHANGED managers
    ELSE IF UsedAgain(b, n)
    THEN room' = [room EXCEPT ![b] = @ - n] /\ UNCHANGED ready
    ELSE /\ ready' = [ready EXCEPT ![b] = Tail(@)]
         /\ room' = [room EXCEPT ![b] = IF Len(ready[b]) = 1 THEN 0 ELSE BufSize]

\* std::sort() puts labels in one of the orders in which no index decreases.
Sorted(queue) ==
    {s \in {[i \in DOMAIN queue |-> queue[order[i]]] :
            order \in Bijection(DOMAIN queue, DOMAIN queue)} :
        \A i, j \in DOMAIN queue : i < j => s[i].index <= s[j].index}

\* The buffer leaves the manager, the labels are sorted.
PostWorkOutputs(b) ==
    LET n == pass[b].produce
    IN  /\ Goto(b, "post", "push")
        /\ PopBuffer(b, n)
        /\ \E sorted \in Sorted(postedLabels[b]) :
              postedLabels' = [postedLabels EXCEPT ![b] = sorted]
        /\ pass' = [pass EXCEPT ![b].subscribers = Subscribers(b),
                                ![b].posted = IF n = 0 THEN 0 ELSE Head(ready[b])]
        /\ UNCHANGED <<flag, active, chunks, inputLabels, labels, ioVars, ghosts, left>>

\* Each subscriber gets what was posted, and a flagged change even if nothing was.
PushToSubscriber(b) ==
    LET n == pass[b].produce
        c == Min(pass[b].subscribers)
    IN  /\ pc[b] = "push" /\ pass[b].subscribers # {}
        /\ BufferLabelPush(c, postedLabels[b], chunks[c])
        /\ chunks' = IF n = 0 THEN chunks
                     ELSE [chunks EXCEPT ![c] = PushChunk(@, [buf |-> pass[b].posted, len |-> n])]
        /\ arrived' = [arrived EXCEPT ![c] = @ + n]
        /\ flag' = Flagged({c})
        /\ pass' = [pass EXCEPT ![b].subscribers = @ \ {c}]
        /\ UNCHANGED <<active, pc, labels, postedLabels, ioVars, managers, consumed, delivered,
                       left>>

\* What was posted is cleared: this may be the last reference to the buffer.
EndPass(b) ==
    LET buf == pass[b].posted
        held == Range(ready[b]) \cup UNION {Held(chunks[c]) : c \in Subscribers(b)}
        back == IF buf \in held \cup {0} THEN <<>> ELSE <<buf>>
    IN  /\ Goto(b, "push", "idle")
        /\ pass[b].subscribers = {}
        /\ PushBuffers(b, back)
        /\ flag' = Flagged(IF back # <<>> \/ pass[b].produce > 0 \/ pass[b].outEvents
                             THEN {b} ELSE {})
        /\ postedLabels' = [postedLabels EXCEPT ![b] = <<>>]
        /\ pass' = [pass EXCEPT ![b] = NoPass]
        /\ UNCHANGED <<active, chunks, inputLabels, labels, ioVars, ghosts, left>>

WorkerStep(b) ==
    \/ StartPass(b) \/ PreWorkOutputs(b) \/ PreWorkInputs(b)
    \/ Work(b)
    \/ PostWorkInputs(b) \/ PostWorkOutputs(b) \/ PushToSubscriber(b) \/ EndPass(b)

(***************************************************************************)
(* Threads outside the tree.                                               *)
(***************************************************************************)

\* An upstream block that is not modelled pushes a buffer with at most one
\* label on its elements into the first block.
PushBuffer ==
    \E n \in 1..left.elements :
        \E newLabels \in {<<>>} \cup
               {<<[index |-> i * ElemSize, origin |-> arrived[1] + i]>> : i \in 0..(n - 1)} :
            /\ Len(newLabels) <= left.labels
            /\ BufferLabelPush(1, newLabels, chunks[1])
            /\ chunks' = [chunks EXCEPT ![1] = Append(@, [buf |-> 0, len |-> n])]
            /\ arrived' = [arrived EXCEPT ![1] = @ + n]
            /\ flag' = Flagged({1})
            /\ left' = [left EXCEPT !.elements = @ - n, !.labels = @ - Len(newLabels)]
            /\ UNCHANGED <<active, pc, pass, labels, postedLabels, ioVars, managers,
                           consumed, delivered>>

\* InputPort::pushMessage(): no token.
PushMessage ==
    /\ left.events > 0
    /\ messages' = [messages EXCEPT ![1] = Append(@, 0)]
    /\ flag' = Flagged({1})
    /\ left' = [left EXCEPT !.events = @ - 1]
    /\ UNCHANGED <<active, pc, pass, flowVars, slotCalls, tokens, managers, ghosts>>

\* InputPort::slotCallsPush() by a signal of a block that is not modelled
SlotCallsPush ==
    /\ left.events > 0
    /\ slotCalls' = [slotCalls EXCEPT ![1] = Append(@, 0)]
    /\ flag' = Flagged({1})
    /\ left' = [left EXCEPT !.events = @ - 1]
    /\ UNCHANGED <<active, pc, pass, flowVars, messages, tokens, managers, ghosts>>

\* Any thread may emit a signal of b, without its context: the token is popped
\* under the token manager's own lock, the _workEvents of a pass going on are
\* incremented without one, so that this may be lost.
EmitSignal(b) ==
    \E counted \in BOOLEAN :
        /\ HasOutput(b) /\ left.events > 0
        /\ counted => pc[b] \notin {"idle", "outputs"}
        /\ tokens' = [tokens EXCEPT ![b] = @ \ Range(Tokens(b, 1))]
        /\ slotCalls' = [c \in Blocks |->
              IF c \in Subscribers(b) THEN slotCalls[c] \o Tokens(b, 1) ELSE slotCalls[c]]
        /\ flag' = Flagged(Subscribers(b))
        /\ pass' = [pass EXCEPT ![b].outEvents = @ \/ counted]
        /\ left' = [left EXCEPT !.events = @ - 1]
        /\ UNCHANGED <<active, pc, flowVars, messages, managers, ghosts>>

\* Mutant: activation does not flag a change.
SetActiveStateOnMutant(b) ==
    /\ pc[b] = "idle" /\ ~active[b]
    /\ active' = [active EXCEPT ![b] = TRUE]
    /\ UNCHANGED <<flag, pc, pass, flowVars, ioVars, managers, ghosts, left>>

\* The end of an external call flags a change.
SetActiveStateOn(b) ==
    /\ pc[b] = "idle" /\ ~active[b]
    /\ active' = [active EXCEPT ![b] = TRUE]
    /\ flag' = Flagged({b})
    /\ UNCHANGED <<pc, pass, flowVars, ioVars, managers, ghosts, left>>

SetActiveStateOff(b) ==
    /\ pc[b] = "idle" /\ active[b] /\ left.events > 0
    /\ active' = [active EXCEPT ![b] = FALSE]
    /\ flag' = Flagged({b})
    /\ left' = [left EXCEPT !.events = @ - 1]
    /\ UNCHANGED <<pc, pass, flowVars, ioVars, managers, ghosts>>

Next ==
    \/ PushBuffer \/ PushMessage \/ SlotCallsPush
    \/ \E b \in Blocks : \/ WorkerStep(b)
                         \/ EmitSignal(b)
                         \/ SetActiveStateOn(b) \/ SetActiveStateOff(b)

\* Each block's thread is scheduled.
Fairness == \A b \in Blocks : WF_vars(WorkerStep(b))

Spec == Init /\ [][Next]_vars /\ Fairness

(***************************************************************************)
(* Properties.                                                             *)
(***************************************************************************)

LabelRecords == [index : Int, origin : Nat]

ChunkRecords == [buf : 0..NumBuffers, len : Nat \ {0}]

PassRecords == [ready : BOOLEAN, outElems : 0..BufSize, inElems : Nat,
                consume : Nat, produce : 0..BufSize, inEvents : BOOLEAN, outEvents : BOOLEAN,
                posted : 0..NumBuffers, subscribers : SUBSET Blocks]

\* Types of the ports' queues; a label index may be negative while the element
\* it belongs to is being popped, a buffer manager never runs over its buffer.
TypeOK ==
    /\ flag \in [Blocks -> BOOLEAN] /\ active \in [Blocks -> BOOLEAN]
    /\ pc \in [Blocks -> {"idle", "outputs", "inputs", "work", "consume", "post", "push"}]
    /\ pass \in [Blocks -> PassRecords]
    /\ chunks \in [Blocks -> Seq(ChunkRecords)]
    /\ inputLabels \in [Blocks -> Seq(LabelRecords)] /\ labels \in [Blocks -> Seq(LabelRecords)]
    /\ postedLabels \in [Blocks -> Seq(LabelRecords)]
    /\ messages \in [Blocks -> Seq(0..NumTokens)] /\ slotCalls \in [Blocks -> Seq(0..NumTokens)]
    /\ tokens \in [Blocks -> SUBSET (1..NumTokens)]
    /\ delivered \in [Blocks -> Seq(Nat)]
    /\ ready \in [Blocks -> Seq(1..NumBuffers)] /\ room \in [Blocks -> 0..BufSize]
    \* Nothing to overrun: a manager with a buffer has room in it.
    /\ \A b \in Blocks : room[b] = 0 <=> ready[b] = <<>>
    /\ arrived \in [Blocks -> 0..MaxElements] /\ consumed \in [Blocks -> 0..MaxElements]
    /\ left \in [elements : 0..MaxElements, labels : 0..MaxLabels, events : 0..MaxEvents]

\* Something to do, and the means to do it.
HasWork(b) ==
    /\ HasOutput(b) => ready[b] # <<>> /\ tokens[b] # {}
    /\ Elements(chunks[b]) >= Required(b) \/ messages[b] # <<>>

\* An actor that rests with no change flagged has nothing it could do: every
\* push, every return of a buffer or a token, every activation and every pass
\* that leaves something behind flags a change, whatever pass it falls into.
NoStall ==
    \A b \in Blocks : active[b] /\ pc[b] = "idle" /\ ~flag[b] => ~HasWork(b)

\* Subscribers that have yet to get what b has posted in this pass
Pending(b) == IF pc[b] = "push" THEN pass[b].subscribers ELSE Subscribers(b)

\* A label stays with the element it was put on, through both queues of the
\* input port, while elements are consumed and arrive in any order with it,
\* and from block to block (of blocks that produce what they consume).
LabelsStayWithData ==
    \A b \in Blocks :
        /\ \A l \in Range(inputLabels[b]) : l.index = (l.origin - consumed[b]) * ElemSize
        /\ \A l \in Range(labels[b]) : l.index = l.origin - consumed[b]
        /\ \A c \in Pending(b), l \in Range(postedLabels[b]) :
               l.index = (l.origin - arrived[c]) * ElemSize

\* Labels that wait in the queues of b's input
Waiting(b) == Len(inputLabels[b]) + Len(labels[b])

\* Labels that b has yet to get from its source, where they wait or are posted
Behind(b) ==
    Waiting(Source[b]) + IF b \in Pending(Source[b]) THEN Len(postedLabels[Source[b]]) ELSE 0

\* Labels that have come to b: of all that came into the first block those that
\* are not behind on the way.
Arrivals ==
    LET labelsAt[b \in Blocks] ==
            IF HasSource(b) THEN labelsAt[Source[b]] - Behind(b) ELSE MaxLabels - left.labels
    IN  labelsAt

\* On the way to each block without output every label is in one place, leaves
\* a block together with its element, and comes out once, in order.
LabelsDeliveredOnce ==
    /\ \A end \in {b \in Blocks : ~HasOutput(b)} :
          /\ Len(delivered[end]) = Arrivals[end] - Waiting(end)
          /\ \A i, j \in DOMAIN delivered[end] : i < j => delivered[end][i] < delivered[end][j]
          /\ \A l \in Range(delivered[end]) : l < consumed[end]
    /\ \A b \in Blocks : \A l \in Range(labels[b]) : l.origin >= consumed[b]

\* A token is in the output's manager or with messages or calls downstream; a
\* buffer is in the manager or in use downstream, and in both only while the
\* manager hands out the rest of it: also when several subscribers share it.
ResourcesConserved ==
    \A b \in Blocks : HasOutput(b) =>
        /\ tokens[b] \cup Sent(Subscribers(b)) = 1..NumTokens
        /\ tokens[b] \cap Sent(Subscribers(b)) = {}
        /\ \A i, j \in DOMAIN ready[b] : ready[b][i] = ready[b][j] => i = j
        /\ References(b, Subscribers(b)) = 1..NumBuffers
        /\ \A i \in 2..Len(ready[b]), c \in Subscribers(b) : ready[b][i] \notin Held(chunks[c])
        /\ \A c \in Subscribers(b) : \A i, j \in DOMAIN chunks[c] :
              chunks[c][i].buf = chunks[c][j].buf => i = j \/ chunks[c][i].buf = 0
        /\ ready[b] # <<>> => \A c \in Subscribers(b) : \A x \in Range(chunks[c]) :
              x.buf = Head(ready[b]) => room[b] + x.len <= BufSize

\* While the blocks stay active, all that enters the tree leaves it: again and
\* again a block is inactive or each block has caught up with the source.
DataFlowsThrough ==
    []<>(\A b \in Blocks : \/ \E c \in Blocks : ~active[c]
                           \/ consumed[b] = arrived[1])

\* "This iterator will contain only labels from the consumed elements."
OnlyConsumedPropagate ==
    \A b \in Blocks : pc[b] = "consume" =>
        \A i \in 1..NumPassed(b) : labels[b][i].index < pass[b].consume
=============================================================================
