------------------------------- MODULE Deque -------------------------------
(***************************************************************************)
(* What Pothos::Util::RingDeque promises to its users (ports, buffer       *)
(* managers, pools): a double ended queue of at most `capacity` elements   *)
(* whose capacity can be changed while it holds elements.                  *)
(***************************************************************************)
EXTENDS Integers, Sequences

CONSTANT Elem

VARIABLES contents, capacity

Init == contents = <<>> /\ capacity \in Nat \ {0}

Full == Len(contents) = capacity

PushBack(e) ==
    ~Full /\ contents' = Append(contents, e) /\ UNCHANGED capacity

PushFront(e) ==
    ~Full /\ contents' = <<e>> \o contents /\ UNCHANGED capacity

PopFront ==
    contents # <<>> /\ contents' = Tail(contents) /\ UNCHANGED capacity

PopBack ==
    /\ contents # <<>>
    /\ contents' = SubSeq(contents, 1, Len(contents) - 1)
    /\ UNCHANGED capacity

\* A capacity below the number of elements is refused.
SetCapacity ==
    /\ capacity' \in Nat \ {0}
    /\ capacity' >= Len(contents)
    /\ UNCHANGED contents

Clear == contents' = <<>> /\ UNCHANGED capacity

Next ==
    \/ \E e \in Elem : PushBack(e) \/ PushFront(e)
    \/ PopFront
    \/ PopBack
    \/ SetCapacity
    \/ Clear

Spec == Init /\ [][Next]_<<contents, capacity>>
=============================================================================
