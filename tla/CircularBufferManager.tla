----------------------- MODULE CircularBufferManager -----------------------
(***************************************************************************)
(* lib/Framework/Builtin/CircularBufferManager.cpp with OrderedQueue: slabs*)
(* handed out one after the other from a ring.  A slab has a number but no *)
(* place: it gets the next SlabSize bytes of the ring when it comes to the *)
(* front, and gives what it did not use to the next one.  So the order in  *)
(* which slabs come back matters, and OrderedQueue restores it.            *)
(***************************************************************************)
EXTENDS BufferAccumulator

CONSTANTS NumSlabs,   \* args.numBuffers
          SlabSize    \* args.bufferSize

ASSUME SlabAssumption ==
    /\ {NumSlabs, SlabSize} \subseteq Nat \ {0}
    /\ RingLength = NumSlabs * SlabSize

Slabs == 1..NumSlabs

\* setCircFrontBuffer()
CircFront(ready, frontAddress) ==
    IF ready = <<>> THEN NullChunk
    ELSE [mem |-> Ring, address |-> frontAddress, length |-> SlabSize,
          base |-> frontAddress, size |-> SlabSize, slab |-> Head(ready)]

\* init(): every slab is pushed in turn.
InitManager ==
    LET ready == [i \in Slabs |-> i]
    IN  [ready |-> ready,          \* _readyBuffs, in order
         pushed |-> {},            \* slabs that came back out of turn
         indexToAck |-> 1,         \* the slab whose turn it is
         frontAddress |-> 0, bytesToPop |-> 0,
         front |-> CircFront(ready, 0)]

\* Mutant: the bytes that were popped before from the same slab are forgotten.
AdvancedMutant(m, n) == (m.frontAddress + n) % RingLength

\* Mutant: the front address wraps only behind the end of the ring.
AdvancedWrapMutant(m, n) ==
    LET address == m.frontAddress + m.bytesToPop + n
    IN  IF address > RingLength THEN address - RingLength ELSE address

\* The front address behind all that was popped from the front slab
Advanced(m, n) ==
    LET address == m.frontAddress + m.bytesToPop + n
    IN  IF address >= RingLength THEN address - RingLength ELSE address

\* pop(): half a slab or more is used again.
PopSlab(m, n) ==
    IF m.front.length >= 2 * n
    THEN [m EXCEPT !.front.address = @ + n, !.front.length = @ - n, !.bytesToPop = @ + n]
    ELSE [m EXCEPT !.ready = Tail(@), !.frontAddress = Advanced(m, n), !.bytesToPop = 0,
                   !.front = CircFront(Tail(m.ready), Advanced(m, n))]

\* The slab k places after the one whose turn it is
InTurn(m, k) == ((m.indexToAck - 1 + k) % NumSlabs) + 1

\* Mutant: slabs are ready in the order in which they come back.
AckedMutant(m, pushed) == SetToSeq(pushed)

\* The slabs that have come back and whose turn it is, in order
Acked(m, pushed) ==
    LET count == CHOOSE k \in 0..NumSlabs :
                    /\ \A i \in 0..(k - 1) : InTurn(m, i) \in pushed
                    /\ k < NumSlabs => InTurn(m, k) \notin pushed
    IN  [i \in 1..count |-> InTurn(m, i - 1)]

\* Mutant: the flag of a slab that has become ready is not cleared.
StillPushedMutant(m, pushed) == pushed

\* The slabs that wait for their turn
StillPushed(m, pushed) == pushed \ Range(Acked(m, pushed))

\* push() of each of these slabs: they become ready in turn only, so that the
\* order in which they come does not matter.
PushSlabs(m, slabs) ==
    LET pushed == m.pushed \cup slabs
        ready == m.ready \o Acked(m, pushed)
    IN  [m EXCEPT !.ready = ready,
                  !.pushed = StillPushed(m, pushed),
                  !.indexToAck = InTurn(m, Len(Acked(m, pushed))),
                  !.front = IF m.ready = <<>> THEN CircFront(ready, m.frontAddress) ELSE @]
=============================================================================
