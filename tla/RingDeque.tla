----------------------------- MODULE RingDeque -----------------------------
(***************************************************************************)
(* The ring that holds a deque (Util/RingDeque.hpp): a container whose     *)
(* size is the capacity, the indices of its first and last element, and    *)
(* the number of elements.  Ports keep their labels, messages, slot calls  *)
(* and buffers in it, and double the capacity when it is full.             *)
(*                                                                         *)
(* The callers keep the asserted preconditions: nobody pushes to a full    *)
(* ring or pops from an empty one.  A capacity of 0, which set_capacity()  *)
(* does not refuse and with which it divides by zero, is left out: queues  *)
(* begin with 1 and double, only a generic manager of no buffers asks for  *)
(* it.                                                                     *)
(***************************************************************************)
EXTENDS Integers, Sequences

CONSTANTS Elem,        \* what is pushed
          Default,     \* T(): a null buffer, an empty object
          MaxCapacity  \* bound: the largest capacity asked for

ASSUME DefaultAssumption == Default \notin Elem
ASSUME MaxCapacityAssumption == MaxCapacity \in Nat \ {0}

VARIABLES frontIndex, backIndex, numElements,
          container,  \* 0..size-1 -> Elem \cup {Default}
          size        \* of the container

vars == <<frontIndex, backIndex, numElements, container, size>>

Cleared(capacity) == [i \in 0..(capacity - 1) |-> Default]

\* RingDeque(capacity); RingDeque() has the capacity 1.
Init ==
    /\ size \in 1..MaxCapacity
    /\ frontIndex = 0
    /\ backIndex = size - 1
    /\ numElements = 0
    /\ container = Cleared(size)

Full == numElements = size
Empty == numElements = 0

\* operator[](offset), where the offset is in the index of the container
Wrapped(index) == index % size
After(index) == Wrapped(index + 1)
Before(index) == Wrapped(index + size - 1)

PushFront(elem) ==
    /\ ~Full
    /\ frontIndex' = Before(frontIndex)
    /\ container' = [container EXCEPT ![frontIndex'] = elem]
    /\ numElements' = numElements + 1
    /\ UNCHANGED <<backIndex, size>>

PushBack(elem) ==
    /\ ~Full
    /\ backIndex' = After(backIndex)
    /\ container' = [container EXCEPT ![backIndex'] = elem]
    /\ numElements' = numElements + 1
    /\ UNCHANGED <<frontIndex, size>>

\* The element is swapped out: a buffer left behind would stay referenced.
PopFront ==
    /\ ~Empty
    /\ container' = [container EXCEPT ![frontIndex] = Default]
    /\ frontIndex' = After(frontIndex)
    /\ numElements' = numElements - 1
    /\ UNCHANGED <<backIndex, size>>

\* Mutant: the element stays in the container.
PopBackMutant ==
    /\ ~Empty
    /\ backIndex' = Before(backIndex)
    /\ numElements' = numElements - 1
    /\ UNCHANGED <<frontIndex, container, size>>

PopBack ==
    /\ ~Empty
    /\ container' = [container EXCEPT ![backIndex] = Default]
    /\ backIndex' = Before(backIndex)
    /\ numElements' = numElements - 1
    /\ UNCHANGED <<frontIndex, size>>

\* Mutant: the container is copied as it is.
UnrolledMutant(capacity) ==
    [i \in 0..(capacity - 1) |-> IF i < numElements THEN container[Wrapped(i)] ELSE Default]

\* The elements are copied to the start of a new container, in order from
\* the front index; a capacity too small for them is ignored.
Unrolled(capacity) ==
    [i \in 0..(capacity - 1) |->
        IF i < numElements THEN container[Wrapped(frontIndex + i)] ELSE Default]

SetCapacity(capacity) ==
    /\ numElements <= capacity
    /\ container' = Unrolled(capacity)
    /\ size' = capacity
    /\ frontIndex' = 0
    /\ backIndex' = (numElements + capacity - 1) % capacity
    /\ UNCHANGED numElements

\* pop_front() until empty
Clear ==
    /\ container' = [i \in DOMAIN container |->
                        IF \E k \in 0..(numElements - 1) : i = Wrapped(frontIndex + k)
                        THEN Default ELSE container[i]]
    /\ frontIndex' = Wrapped(frontIndex + numElements)
    /\ numElements' = 0
    /\ UNCHANGED <<backIndex, size>>

Next ==
    \/ \E elem \in Elem : PushFront(elem) \/ PushBack(elem)
    \/ PopFront
    \/ PopBack
    \/ \E capacity \in 1..MaxCapacity : SetCapacity(capacity)
    \/ Clear

Spec == Init /\ [][Next]_vars

\* What the ring holds, from front to back.
contents == [i \in 1..numElements |-> container[Wrapped(frontIndex + i - 1)]]

\* The indices and the count agree: the back is the front plus the count
\* less one, whatever pushes, pops and resizes went before.
TypeOK ==
    /\ size \in 1..MaxCapacity
    /\ numElements \in 0..size
    /\ container \in [0..(size - 1) -> Elem \cup {Default}]
    /\ frontIndex \in 0..(size - 1)
    /\ backIndex = Wrapped(frontIndex + numElements + size - 1)

\* No slot outside the window from front to back keeps an element: what was
\* popped is released, so a managed buffer goes back to its manager (the
\* swap in pop_front() and pop_back(), the fresh container of
\* set_capacity()).
NothingLeftBehind ==
    \A k \in 0..(size - 1) :
        container[Wrapped(frontIndex + k)] \in (IF k < numElements THEN Elem ELSE {Default})

\* The ring is a deque, also when it grows or shrinks while its elements
\* wrap around the end of the container.
Abstract == INSTANCE Deque WITH capacity <- size

ImplementsDeque == Abstract!Spec
=============================================================================
