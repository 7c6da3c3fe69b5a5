----------------------------- MODULE BufferFlow -----------------------------
(***************************************************************************)
(* The bytes that flow from an output port with a CircularBufferManager to *)
(* an input port's BufferAccumulator, with the memory they are in: who     *)
(* writes where while who still reads.  The byte number k of the stream    *)
(* has the value k, so that every reader can tell what it should see.      *)
(*                                                                         *)
(* The upstream block writes into the manager's front slab and posts a     *)
(* part of it.  The downstream block gets the accumulator's front chunk    *)
(* for the length of a pass (InputPort::_buffer), and may post a received  *)
(* chunk to others who keep it alive for as long as they like.  Slabs come *)
(* back when the last chunk that keeps them alive is gone (ManagedBuffer). *)
(***************************************************************************)
EXTENDS CircularBufferManager

CONSTANTS PoolBuffers,    \* numbers of the accumulator's pool buffers: the pool
                          \* makes another one when all are in use
          Requirements,   \* bytes the downstream block may require at once
          MaxHeld,        \* chunks that others keep
          MaxBytes        \* bytes the upstream block produces

ASSUME FlowAssumption ==
    /\ PoolBuffers \subseteq Nat \ {Ring}
    /\ IsFiniteSet(PoolBuffers) /\ Cardinality(PoolBuffers) > MaxHeld + 1
    /\ Requirements \subseteq 1..PoolSize
    /\ {MaxHeld, MaxBytes} \subseteq Nat

VARIABLES
    mgr,       \* the circular buffer manager
    acc,       \* the accumulator
    memory,    \* contents of the ring and of the pool buffers
    window,    \* the chunk the downstream block works on, or none
    held,      \* chunks kept by others, with the number of their first byte
    produced,  \* bytes ever produced
    consumed   \* bytes ever consumed

vars == <<mgr, acc, memory, window, held, produced, consumed>>

Scribble == 0

Init ==
    /\ mgr = InitManager
    /\ acc = EmptyAccumulator
    /\ memory = [m \in {Ring} \cup PoolBuffers |->
                    [i \in 0..((IF m = Ring THEN RingLength ELSE PoolSize) - 1) |-> Scribble]]
    /\ window = NullChunk
    /\ held = {}
    /\ produced = 0 /\ consumed = 0

Sizes(m) == IF m = Ring THEN RingLength ELSE PoolSize

\* The bytes a chunk shows now: the ring is mapped twice.
Bytes(c) == [i \in 1..c.length |-> memory[c.mem][(c.address + i - 1) % Sizes(c.mem)]]

\* The bytes of a queue of chunks, one after the other
Content(queue) ==
    LET upto[n \in 0..Len(queue)] == IF n = 0 THEN <<>> ELSE upto[n - 1] \o Bytes(queue[n])
    IN  upto[Len(queue)]

Stream(first, n) == [i \in 1..n |-> first + i - 1]

KeptAlive(queue, win, others) ==
    {c.slab : c \in Range(queue) \cup {win} \cup {h.chunk : h \in others}} \ {0}

\* Slabs no chunk keeps alive any more go back to the manager.
GiveBack(queue, win, others, m) ==
    PushSlabs(m, KeptAlive(acc.queue, window, held)
                     \ (KeptAlive(queue, win, others) \cup Range(m.ready)))

\* OutputPort: work() may write all over the front slab, produces the first n
\* bytes of it; then pop() and the push downstream.
Produce(n) ==
    LET front == mgr.front
        chunk == [front EXCEPT !.length = n]
    IN  /\ n \in 1..front.length
        /\ produced + n <= MaxBytes
        /\ memory' = [memory EXCEPT ![Ring] =
              [i \in DOMAIN @ |->
                  LET offset == (i - front.address) % RingLength
                  IN  IF offset < n THEN produced + offset + 1
                      ELSE IF offset < front.length THEN Scribble ELSE @[i]]]
        /\ LET next == Push(acc, chunk)
           IN  /\ acc' = next
               /\ mgr' = GiveBack(next.queue, window, held, PopSlab(mgr, n))
        /\ produced' = produced + n
        /\ UNCHANGED <<window, held, consumed>>

\* preWorkTasks(): bufferAccumulatorRequire() and bufferAccumulatorFront()
PreWork(r) ==
    /\ window = NullChunk
    /\ IF MustCopy(acc, r)
          THEN LET used == {c.mem : c \in Range(acc.queue) \cup {h.chunk : h \in held}}
                   buffer == CHOOSE m \in PoolBuffers \ used :
                                 \A k \in PoolBuffers \ used : m <= k
                   next == Require(acc, r, buffer)
                   copied == Head(next.queue).length
                   bytes == Content(acc.queue)
               IN  /\ acc' = next
                   /\ memory' = [memory EXCEPT ![buffer] =
                          [i \in DOMAIN @ |-> IF i < copied THEN bytes[i + 1] ELSE @[i]]]
                   /\ window' = Head(next.queue)
                   /\ mgr' = GiveBack(next.queue, Head(next.queue), held, mgr)
          ELSE /\ window' = Head(acc.queue)
               /\ UNCHANGED <<acc, memory, mgr>>
    /\ UNCHANGED <<held, produced, consumed>>

\* postWorkTasks(): bufferAccumulatorPop(), and the block lets go of the chunk,
\* unless it has posted it to others.
PostWork(n, keep) ==
    /\ window # NullChunk
    /\ n \in 0..window.length
    /\ keep => window.length > 0 /\ Cardinality(held) < MaxHeld
    /\ LET next == IF n = 0 THEN acc ELSE Pop(acc, n)
           others == held \cup IF keep THEN {[chunk |-> window, first |-> consumed + 1]} ELSE {}
       IN  /\ acc' = next
           /\ held' = others
           /\ mgr' = GiveBack(next.queue, NullChunk, others, mgr)
    /\ window' = NullChunk
    /\ consumed' = consumed + n
    /\ UNCHANGED <<memory, produced>>

\* Others let go of a chunk.
Release(h) ==
    /\ h \in held
    /\ held' = held \ {h}
    /\ mgr' = GiveBack(acc.queue, window, held', mgr)
    /\ UNCHANGED <<acc, memory, window, produced, consumed>>

Next ==
    \/ \E n \in 1..SlabSize : Produce(n)
    \/ \E r \in Requirements : PreWork(r)
    \/ \E n \in 0..MaxBytes, keep \in BOOLEAN : PostWork(n, keep)
    \/ \E h \in held : Release(h)

Spec == Init /\ [][Next]_vars

(***************************************************************************)
(* Properties.                                                             *)
(***************************************************************************)

Chunks == [mem : {Ring, Nowhere} \cup PoolBuffers,
           address : 0..(2 * RingLength) \cup 0..PoolSize,
           length : 0..MaxBytes \cup 0..SlabSize, base : 0..RingLength,
           size : {0, SlabSize, PoolSize}, slab : Slabs \cup {0}]

\* Types, and what pop() asserts: the front slab begins inside the ring and
\* never gives more than it has.
TypeOK ==
    /\ mgr \in [ready : Seq(Slabs), pushed : SUBSET Slabs, indexToAck : Slabs,
                 frontAddress : 0..(RingLength - 1), bytesToPop : 0..(SlabSize - 1),
                 front : Chunks]
    /\ acc.queue \in Seq(Chunks) /\ acc.queue # <<>>
    /\ acc.inPoolBuffer \in BOOLEAN
    /\ memory[Ring] \in [0..(RingLength - 1) -> 0..MaxBytes]
    /\ \A m \in PoolBuffers : memory[m] \in [0..(PoolSize - 1) -> 0..MaxBytes]
    /\ window \in Chunks
    /\ held \subseteq [chunk : Chunks, first : 1..MaxBytes]
    /\ produced \in 0..MaxBytes /\ consumed \in 0..produced

\* The accumulator has exactly the bytes produced and not consumed, in order:
\* through the wrap of the ring, merging, copying and moving back.
StreamIntact ==
    Content(acc.queue) = Stream(consumed + 1, produced - consumed)

\* Nobody writes into what a reader has in its hands: not the upstream block
\* into its front slab, not the accumulator into its pool buffers.
ReadersUndisturbed ==
    /\ Bytes(window) = Stream(consumed + 1, window.length)
    /\ \A h \in held : Bytes(h.chunk) = Stream(h.first, h.chunk.length)

\* A slab is ready, waits for its turn, or is kept alive by a chunk; it is both
\* ready and alive only while the manager hands out the rest of it.
SlabsConserved ==
    LET alive == KeptAlive(acc.queue, window, held)
    IN  /\ Range(mgr.ready) \cup mgr.pushed \cup alive = Slabs
        /\ mgr.pushed \cap (Range(mgr.ready) \cup alive) = {}
        /\ \A i \in 2..Len(mgr.ready) : mgr.ready[i] \notin alive

\* Once all is consumed and nobody keeps a chunk, the upstream block can go on.
NeverStarved ==
    Available(acc) = 0 /\ window = NullChunk /\ held = {} => mgr.front.length > 0
=============================================================================
