------------------------- MODULE BufferAccumulator -------------------------
(***************************************************************************)
(* lib/Framework/BufferAccumulator.cpp: the queue of buffer chunks at an   *)
(* input port, as operators on its contents.  The accumulator never looks  *)
(* at the bytes: it compares addresses.  It merges chunks that continue    *)
(* each other, copies short ones together into a buffer of its own pool    *)
(* (require), and later moves the rest of such a copy back (pop).          *)
(*                                                                         *)
(* A chunk is a window [address, address + length) of the memory mem.  It  *)
(* keeps a buffer alive, which covers [base, base + size); if it is one of *)
(* a BufferManager's, slab is its number, otherwise 0.  The addresses of   *)
(* different memories are never adjacent.                                  *)
(***************************************************************************)
EXTENDS Integers, Sequences, SequencesExt

CONSTANTS RingLength,   \* bytes in the circular memory, mapped twice in a row
          PoolSize      \* bytes in a buffer of HelperBufferPool (4096 or more)

ASSUME MemoryAssumption == {RingLength, PoolSize} \subseteq Nat \ {0}

Ring == 0          \* memories: the ring, the pool buffers 1, 2, ..., and none
Nowhere == -1

\* BufferChunk(): what an empty queue holds
NullChunk == [mem |-> Nowhere, address |-> 0, length |-> 0, base |-> 0, size |-> 0, slab |-> 0]

EmptyAccumulator == [queue |-> <<NullChunk>>, inPoolBuffer |-> FALSE]

GetEnd(c) == c.address + c.length

\* BufferChunk::getAlias() of a chunk of the ring: it takes the length of its
\* slab for the length of the ring.
GetAlias(c) ==
    IF c.address > c.base + RingLength THEN c.address - c.size ELSE c.address + c.size

Continues(b, f) ==
    /\ b.mem = f.mem
    /\ b.address = GetEnd(f) \/ (b.mem = Ring /\ GetAlias(b) = GetEnd(f))

\* Bytes in the chunks i, i + 1, ... of the queue
BytesFrom(queue, i) ==
    LET from[k \in 1..Len(queue) + 1] ==
            IF k = Len(queue) + 1 THEN 0 ELSE queue[k].length + from[k + 1]
    IN  from[i]

Available(acc) == BytesFrom(acc.queue, 1)

\* The chunks from first on continue each other: the first takes all the bytes,
\* the others stay, empty, for the buffers they keep alive.
Amalgamate(queue) ==
    LET linked(j) == \A i \in (j + 1)..Len(queue) : Continues(queue[i], queue[i - 1])
        first == CHOOSE j \in DOMAIN queue : linked(j) /\ \A i \in DOMAIN queue : linked(i) => j <= i
    IN  [i \in DOMAIN queue |->
            IF i < first THEN queue[i]
            ELSE IF i = first THEN [queue[i] EXCEPT !.length = BytesFrom(queue, first)]
            ELSE [queue[i] EXCEPT !.address = @ + BytesFrom(queue, i), !.length = 0]]

\* An empty last chunk that keeps the same buffer alive as its neighbour goes.
DropBack(queue) ==
    IF /\ Len(queue) > 1 /\ Last(queue).length = 0
       /\ Last(queue).slab = queue[Len(queue) - 1].slab
    THEN Front(queue) ELSE queue

Push(acc, chunk) ==
    LET queue == IF Head(acc.queue).length = 0 THEN Tail(acc.queue) ELSE acc.queue
    IN  [acc EXCEPT !.queue = DropBack(Amalgamate(Append(queue, chunk)))]

\* Mutant: a used up front chunk stays, and keeps its buffer alive.
UnlessEmptyMutant(f, rest) == <<f>> \o rest

\* The front chunk goes when it is used up.
UnlessEmpty(f, rest) == IF f.length = 0 THEN rest ELSE <<f>> \o rest

\* Where the rest of the front chunk, after n bytes are popped, moves into the
\* next one: the front is a pool buffer and the next chunk's buffer has as
\* many bytes in front of the chunk; or the front has passed the end of its
\* own buffer and the next one continues it.
Pop(acc, n) ==
    LET f == [Head(acc.queue) EXCEPT !.address = @ + n, !.length = @ - n]
        rest == Tail(acc.queue)
        backInto(length) == <<[Head(rest) EXCEPT !.address = @ - f.length, !.length = length]>>
                            \o Tail(rest)
        overBounds == f.length > 0 /\ f.address >= f.base + f.size
        queue ==
            IF acc.inPoolBuffer /\ rest # <<>> /\ f.length <= Head(rest).address - Head(rest).base
            THEN backInto(Head(rest).length + f.length)
            ELSE IF rest # <<>> /\ overBounds /\ GetEnd(f) = Head(rest).address
            THEN backInto(f.length)
            ELSE UnlessEmpty(f, rest)
    IN  [queue |-> IF queue = <<>> THEN <<NullChunk>> ELSE queue,
         inPoolBuffer |-> acc.inPoolBuffer /\ Len(queue) = Len(acc.queue)]

\* require() copies: the front is too short, and what is there would do, or
\* could never fit into the front's buffer.
MustCopy(acc, n) ==
    LET f == Head(acc.queue)
    IN  f.length < n /\ ~(Available(acc) < n /\ n <= f.size)

\* How many bytes require() copies into a pool buffer of the given size
CopiedBytes(acc, size) == IF Available(acc) < size THEN Available(acc) ELSE size

\* What it leaves of the queue behind the copy: chunks wholly copied are gone.
AfterCopy(queue, n) ==
    LET before(i) == BytesFrom(queue, 1) - BytesFrom(queue, i)
        gone == {i \in DOMAIN queue : before(i) + queue[i].length <= n}
        first == IF gone = DOMAIN queue THEN Len(queue) + 1
                 ELSE CHOOSE i \in DOMAIN queue \ gone : \A j \in DOMAIN queue \ gone : i <= j
        left == SubSeq(queue, first, Len(queue))
    IN  IF left = <<>> THEN <<>>
        ELSE [left EXCEPT ![1].address = @ + (n - before(first)),
                          ![1].length = @ - (n - before(first))]

\* require(), when it copies into the pool buffer mem
Require(acc, n, mem) ==
    LET size == IF n > PoolSize THEN n ELSE PoolSize
        copied == CopiedBytes(acc, size)
    IN  [queue |-> <<[mem |-> mem, address |-> 0, length |-> copied,
                      base |-> 0, size |-> size, slab |-> 0]>>
                   \o AfterCopy(acc.queue, copied),
         inPoolBuffer |-> TRUE]
=============================================================================
