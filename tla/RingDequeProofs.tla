-------------------------- MODULE RingDequeProofs --------------------------
(***************************************************************************)
(* RingDeque for every capacity and every set of elements: its indices     *)
(* agree, what is popped is released, and every step is one of Deque.      *)
(***************************************************************************)
EXTENDS RingDeque, TLAPS


\* The k-th slot from the front: one turn of the container at most.
SlotOf(k) == IF frontIndex + k < size THEN frontIndex + k ELSE frontIndex + k - size

\* How far a slot is from the front.
Age(i) == IF i >= frontIndex THEN i - frontIndex ELSE i + size - frontIndex

LEMMA Slots ==
    ASSUME size \in Nat \ {0}, frontIndex \in 0..(size - 1), NEW k \in 0..size
    PROVE  Wrapped(frontIndex + k) = SlotOf(k)
  BY DEF Wrapped, SlotOf

\* The ranges of the indices, and where pushes and pops move them.
LEMMA Neighbours ==
    ASSUME TypeOK
    PROVE  /\ size \in Nat \ {0} /\ size \in 1..MaxCapacity
           /\ frontIndex \in 0..(size - 1) /\ backIndex \in 0..(size - 1)
           /\ numElements \in 0..size
           /\ container \in [0..(size - 1) -> Elem \cup {Default}]
           /\ Before(frontIndex) = IF frontIndex = 0 THEN size - 1 ELSE frontIndex - 1
           /\ After(frontIndex) = IF frontIndex = size - 1 THEN 0 ELSE frontIndex + 1
           /\ backIndex = IF frontIndex + numElements = 0 THEN size - 1
                          ELSE IF frontIndex + numElements - 1 < size
                          THEN frontIndex + numElements - 1
                          ELSE frontIndex + numElements - 1 - size
           /\ After(backIndex) = IF backIndex = size - 1 THEN 0 ELSE backIndex + 1
           /\ Before(backIndex) = IF backIndex = 0 THEN size - 1 ELSE backIndex - 1
<1>1. /\ size \in Nat \ {0} /\ frontIndex \in 0..(size - 1)
      /\ numElements \in 0..size
  BY MaxCapacityAssumption DEF TypeOK
<1>2. /\ Before(frontIndex) = IF frontIndex = 0 THEN size - 1 ELSE frontIndex - 1
      /\ After(frontIndex) = IF frontIndex = size - 1 THEN 0 ELSE frontIndex + 1
  BY <1>1 DEF Before, After, Wrapped
<1>3. backIndex = IF frontIndex + numElements = 0 THEN size - 1
                  ELSE IF frontIndex + numElements - 1 < size
                  THEN frontIndex + numElements - 1
                  ELSE frontIndex + numElements - 1 - size
<2>1. backIndex = (frontIndex + numElements + size - 1) % size
  BY DEF TypeOK, Wrapped
<2>2. QED BY <1>1, <2>1
<1>4. backIndex \in 0..(size - 1)
  BY <1>1, <1>3
<1>5. /\ After(backIndex) = IF backIndex = size - 1 THEN 0 ELSE backIndex + 1
      /\ Before(backIndex) = IF backIndex = 0 THEN size - 1 ELSE backIndex - 1
  BY <1>1, <1>4 DEF After, Before, Wrapped
<1>6. size \in 1..MaxCapacity /\ container \in [0..(size - 1) -> Elem \cup {Default}]
  BY DEF TypeOK
<1>7. QED BY <1>1, <1>2, <1>3, <1>4, <1>5, <1>6

\* A new ring: the back index is one turn behind the front index.
LEMMA InitIndices == Init => TypeOK
<1> SUFFICES ASSUME Init PROVE TypeOK
  OBVIOUS
<1>1. size \in Nat \ {0}
  BY MaxCapacityAssumption DEF Init
<1>2. backIndex = (frontIndex + numElements + size - 1) % size
  BY <1>1 DEF Init
<1>3. QED BY <1>1, <1>2 DEF Init, TypeOK, Cleared, Wrapped

\* Every push, pop, resize and clear keeps the indices and the count agreed.
LEMMA StepIndices == TypeOK /\ [Next]_vars => TypeOK'
<1> SUFFICES ASSUME TypeOK, [Next]_vars PROVE TypeOK'
  OBVIOUS
<1>0. /\ size \in Nat \ {0} /\ size \in 1..MaxCapacity
      /\ frontIndex \in 0..(size - 1) /\ backIndex \in 0..(size - 1)
      /\ numElements \in 0..size
      /\ container \in [0..(size - 1) -> Elem \cup {Default}]
  BY Neighbours
<1>1. backIndex = IF frontIndex + numElements = 0 THEN size - 1
                  ELSE IF frontIndex + numElements - 1 < size
                  THEN frontIndex + numElements - 1
                  ELSE frontIndex + numElements - 1 - size
  BY Neighbours
<1>2. ASSUME NEW elem \in Elem, PushFront(elem) PROVE TypeOK'
<2>1. frontIndex' = IF frontIndex = 0 THEN size - 1 ELSE frontIndex - 1
  BY <1>2, Neighbours DEF PushFront
<2>2. /\ size' = size /\ backIndex' = backIndex
      /\ frontIndex' \in 0..(size - 1)
      /\ numElements' = numElements + 1 /\ numElements' \in 0..size
  BY <1>0, <1>2, <2>1 DEF PushFront, Full
<2>3. container' \in [0..(size - 1) -> Elem \cup {Default}]
  BY <1>0, <1>2, <2>2 DEF PushFront
<2>4. backIndex' = (frontIndex' + numElements' + size - 1) % size
  BY <1>0, <1>1, <2>1, <2>2
<2>5. QED BY <1>0, <2>2, <2>3, <2>4 DEF TypeOK, Wrapped
<1>3. ASSUME NEW elem \in Elem, PushBack(elem) PROVE TypeOK'
<2>1. backIndex' = IF backIndex = size - 1 THEN 0 ELSE backIndex + 1
  BY <1>3, Neighbours DEF PushBack
<2>2. /\ size' = size /\ frontIndex' = frontIndex
      /\ backIndex' \in 0..(size - 1)
      /\ numElements' = numElements + 1 /\ numElements' \in 0..size
  BY <1>0, <1>3, <2>1 DEF PushBack, Full
<2>3. container' \in [0..(size - 1) -> Elem \cup {Default}]
  BY <1>0, <1>3, <2>2 DEF PushBack
<2>4. backIndex' = (frontIndex' + numElements' + size - 1) % size
  BY <1>0, <1>1, <2>1, <2>2
<2>5. QED BY <1>0, <2>2, <2>3, <2>4 DEF TypeOK, Wrapped
<1>4. CASE PopFront
<2>1. frontIndex' = IF frontIndex = size - 1 THEN 0 ELSE frontIndex + 1
  BY <1>4, Neighbours DEF PopFront
<2>2. /\ size' = size /\ backIndex' = backIndex
      /\ frontIndex' \in 0..(size - 1)
      /\ numElements' = numElements - 1 /\ numElements' \in 0..size
  BY <1>0, <1>4, <2>1 DEF PopFront, Empty
<2>3. container' \in [0..(size - 1) -> Elem \cup {Default}]
  BY <1>0, <1>4 DEF PopFront
<2>4. backIndex' = (frontIndex' + numElements' + size - 1) % size
  BY <1>0, <1>1, <2>1, <2>2
<2>5. QED BY <1>0, <2>2, <2>3, <2>4 DEF TypeOK, Wrapped
<1>5. CASE PopBack
<2>1. backIndex' = IF backIndex = 0 THEN size - 1 ELSE backIndex - 1
  BY <1>5, Neighbours DEF PopBack
<2>2. /\ size' = size /\ frontIndex' = frontIndex
      /\ numElements' = numElements - 1 /\ numElements' \in 0..size
  BY <1>0, <1>5 DEF PopBack, Empty
<2>3. container' \in [0..(size - 1) -> Elem \cup {Default}]
  BY <1>0, <1>5 DEF PopBack
<2>4. backIndex' = (frontIndex' + numElements' + size - 1) % size
  BY <1>0, <1>1, <2>1, <2>2
<2>5. QED BY <1>0, <2>2, <2>3, <2>4 DEF TypeOK, Wrapped
<1>6. ASSUME NEW capacity \in 1..MaxCapacity, SetCapacity(capacity) PROVE TypeOK'
<2>1. capacity \in Nat \ {0}
  BY MaxCapacityAssumption
<2>2. /\ size' = capacity /\ frontIndex' = 0 /\ numElements' = numElements
      /\ numElements \in 0..capacity
      /\ backIndex' = (numElements + capacity - 1) % capacity
  BY <1>0, <1>6, <2>1 DEF SetCapacity
<2>3. container' \in [0..(capacity - 1) -> Elem \cup {Default}]
<3>1. ASSUME NEW i \in 0..(capacity - 1), i < numElements
      PROVE  container[Wrapped(frontIndex + i)] \in Elem \cup {Default}
<4>1. i \in 0..size /\ i < size
  BY <1>0, <2>1, <3>1
<4>2. SlotOf(i) \in 0..(size - 1)
  BY <1>0, <4>1 DEF SlotOf
<4>3. Wrapped(frontIndex + i) = SlotOf(i)
  BY <1>0, <4>1, Slots
<4>4. QED BY <1>0, <4>2, <4>3
<3>2. container' = Unrolled(capacity)
  BY <1>6 DEF SetCapacity
<3>3. QED BY <3>1, <3>2 DEF Unrolled
<2>4. frontIndex' \in 0..(size' - 1)
  BY <2>1, <2>2
<2>5. backIndex' = (frontIndex' + numElements' + size' - 1) % size'
<3>1. 0 + numElements + capacity - 1 = numElements + capacity - 1
  BY <1>0, <2>1
<3>2. QED BY <2>2, <3>1
<2>6. QED BY <2>2, <2>3, <2>4, <2>5 DEF TypeOK, Wrapped
<1>7. CASE Clear
<2>1. frontIndex' = SlotOf(numElements)
  BY <1>0, <1>7, Slots DEF Clear
<2>2. /\ size' = size /\ backIndex' = backIndex
      /\ numElements' = 0 /\ numElements' \in 0..size
      /\ frontIndex' \in 0..(size - 1)
  BY <1>0, <1>7, <2>1 DEF Clear, SlotOf
<2>3. container' \in [0..(size - 1) -> Elem \cup {Default}]
  BY <1>0, <1>7 DEF Clear
<2>4. backIndex' = (frontIndex' + numElements' + size - 1) % size
  BY <1>0, <1>1, <2>1, <2>2 DEF SlotOf
<2>5. QED BY <1>0, <2>2, <2>3, <2>4 DEF TypeOK, Wrapped
<1>8. CASE UNCHANGED vars
  BY <1>8 DEF vars, TypeOK, Wrapped
<1>9. QED BY <1>2, <1>3, <1>4, <1>5, <1>6, <1>7, <1>8 DEF Next

\* The indices and the count of a ring agree after any sequence of pushes,
\* pops, resizes and clears, for every capacity.
THEOREM IndicesAgree == Spec => []TypeOK
  BY InitIndices, StepIndices, PTL DEF Spec

\* NothingLeftBehind, told slot by slot.
Released ==
    \A i \in 0..(size - 1) :
        container[i] \in (IF Age(i) < numElements THEN Elem ELSE {Default})

LEMMA ReleasedIs == TypeOK => (NothingLeftBehind <=> Released)
<1> SUFFICES ASSUME TypeOK PROVE NothingLeftBehind <=> Released
  OBVIOUS
<1>1. /\ size \in Nat \ {0} /\ frontIndex \in 0..(size - 1)
      /\ numElements \in 0..size
  BY Neighbours
<1>2. ASSUME NothingLeftBehind PROVE Released
<2> SUFFICES ASSUME NEW i \in 0..(size - 1)
             PROVE  container[i] \in (IF Age(i) < numElements THEN Elem ELSE {Default})
  BY DEF Released
<2>1. /\ Age(i) \in 0..(size - 1) /\ Age(i) \in 0..size
      /\ SlotOf(Age(i)) = i
  BY <1>1 DEF Age, SlotOf
<2>2. Wrapped(frontIndex + Age(i)) = i
  BY <1>1, <2>1, Slots
<2>3. QED BY <1>2, <2>1, <2>2 DEF NothingLeftBehind
<1>3. ASSUME Released PROVE NothingLeftBehind
<2> SUFFICES ASSUME NEW k \in 0..(size - 1)
             PROVE  container[Wrapped(frontIndex + k)] \in
                        (IF k < numElements THEN Elem ELSE {Default})
  BY DEF NothingLeftBehind
<2>1. SlotOf(k) \in 0..(size - 1) /\ Age(SlotOf(k)) = k
  BY <1>1 DEF Age, SlotOf
<2>2. k \in 0..size
  BY <1>1
<2>3. Wrapped(frontIndex + k) = SlotOf(k)
  BY <1>1, <2>2, Slots
<2>4. QED BY <1>3, <2>1, <2>3 DEF Released
<1>4. QED BY <1>2, <1>3

\* A new container holds nothing.
LEMMA InitReleased == Init => Released
<1> SUFFICES ASSUME Init PROVE Released
  OBVIOUS
<1>1. size \in Nat \ {0} /\ frontIndex = 0 /\ numElements = 0
  BY MaxCapacityAssumption DEF Init
<1>2. \A i \in 0..(size - 1) : ~(Age(i) < numElements)
  BY <1>1 DEF Age
<1>3. QED BY <1>2 DEF Init, Released, Cleared

\* Each operation fills or empties exactly the slots it adds to or takes out
\* of the window.
LEMMA StepReleased == TypeOK /\ TypeOK' /\ Released /\ [Next]_vars => Released'
<1> SUFFICES ASSUME TypeOK, TypeOK', Released, [Next]_vars PROVE Released'
  OBVIOUS
<1>0. /\ size \in Nat \ {0}
      /\ frontIndex \in 0..(size - 1) /\ backIndex \in 0..(size - 1)
      /\ numElements \in 0..size
      /\ container \in [0..(size - 1) -> Elem \cup {Default}]
  BY Neighbours
<1>1. backIndex = IF frontIndex + numElements = 0 THEN size - 1
                  ELSE IF frontIndex + numElements - 1 < size
                  THEN frontIndex + numElements - 1
                  ELSE frontIndex + numElements - 1 - size
  BY Neighbours
<1>2. ASSUME NEW elem \in Elem, PushFront(elem) PROVE Released'
<2>1. /\ frontIndex' = IF frontIndex = 0 THEN size - 1 ELSE frontIndex - 1
      /\ numElements' = numElements + 1 /\ size' = size /\ numElements < size
      /\ container' = [container EXCEPT ![frontIndex'] = elem]
  BY <1>0, <1>2, Neighbours DEF PushFront, Full
<2>2. ASSUME NEW i \in 0..(size - 1)
      PROVE  container'[i] \in (IF Age(i)' < numElements' THEN Elem ELSE {Default})
<3>1. CASE i = frontIndex'
<4>1. Age(i)' = 0
  BY <1>0, <2>1, <3>1 DEF Age
<4>2. QED BY <1>0, <2>1, <3>1, <4>1
<3>2. CASE i # frontIndex'
<4>1. Age(i)' = Age(i) + 1 /\ Age(i) \in Nat
  BY <1>0, <2>1, <3>2 DEF Age
<4>2. container'[i] = container[i]
  BY <1>0, <2>1, <3>2
<4>3. QED BY <1>0, <2>1, <4>1, <4>2 DEF Released
<3>3. QED BY <3>1, <3>2
<2>3. QED BY <2>1, <2>2 DEF Released
<1>3. ASSUME NEW elem \in Elem, PushBack(elem) PROVE Released'
<2>1. /\ backIndex' = IF backIndex = size - 1 THEN 0 ELSE backIndex + 1
      /\ frontIndex' = frontIndex
      /\ numElements' = numElements + 1 /\ size' = size /\ numElements < size
      /\ container' = [container EXCEPT ![backIndex'] = elem]
  BY <1>0, <1>3, Neighbours DEF PushBack, Full
<2>2. ASSUME NEW i \in 0..(size - 1)
      PROVE  container'[i] \in (IF Age(i)' < numElements' THEN Elem ELSE {Default})
<3>1. /\ Age(i)' = Age(i) /\ Age(i) \in Nat
      /\ Age(i) = numElements <=> i = backIndex'
  BY <1>0, <1>1, <2>1 DEF Age
<3>2. container'[i] = IF i = backIndex' THEN elem ELSE container[i]
  BY <1>0, <2>1
<3>3. QED BY <1>0, <2>1, <3>1, <3>2 DEF Released
<2>3. QED BY <2>1, <2>2 DEF Released
<1>4. CASE PopFront
<2>1. /\ frontIndex' = IF frontIndex = size - 1 THEN 0 ELSE frontIndex + 1
      /\ numElements' = numElements - 1 /\ size' = size /\ numElements > 0
      /\ container' = [container EXCEPT ![frontIndex] = Default]
  BY <1>0, <1>4, Neighbours DEF PopFront, Empty
<2>2. ASSUME NEW i \in 0..(size - 1)
      PROVE  container'[i] \in (IF Age(i)' < numElements' THEN Elem ELSE {Default})
<3>1. CASE i = frontIndex
<4>1. Age(i)' = size - 1
  BY <1>0, <2>1, <3>1 DEF Age
<4>2. QED BY <1>0, <2>1, <3>1, <4>1
<3>2. CASE i # frontIndex
<4>1. Age(i)' = Age(i) - 1 /\ Age(i) \in Nat
  BY <1>0, <2>1, <3>2 DEF Age
<4>2. container'[i] = container[i]
  BY <1>0, <2>1, <3>2
<4>3. QED BY <1>0, <2>1, <4>1, <4>2 DEF Released
<3>3. QED BY <3>1, <3>2
<2>3. QED BY <2>1, <2>2 DEF Released
<1>5. CASE PopBack
<2>1. /\ frontIndex' = frontIndex
      /\ numElements' = numElements - 1 /\ size' = size /\ numElements > 0
      /\ container' = [container EXCEPT ![backIndex] = Default]
  BY <1>0, <1>5 DEF PopBack, Empty
<2>2. ASSUME NEW i \in 0..(size - 1)
      PROVE  container'[i] \in (IF Age(i)' < numElements' THEN Elem ELSE {Default})
<3>1. /\ Age(i)' = Age(i) /\ Age(i) \in Nat
      /\ Age(i) = numElements - 1 <=> i = backIndex
  BY <1>0, <1>1, <2>1 DEF Age
<3>2. container'[i] = IF i = backIndex THEN Default ELSE container[i]
  BY <1>0, <2>1
<3>3. QED BY <1>0, <2>1, <3>1, <3>2 DEF Released
<2>3. QED BY <2>1, <2>2 DEF Released
<1>6. ASSUME NEW capacity \in 1..MaxCapacity, SetCapacity(capacity) PROVE Released'
<2>1. /\ capacity \in Nat \ {0} /\ numElements <= capacity
      /\ size' = capacity /\ frontIndex' = 0 /\ numElements' = numElements
      /\ container' = Unrolled(capacity)
  BY MaxCapacityAssumption, <1>6 DEF SetCapacity
<2>2. ASSUME NEW i \in 0..(capacity - 1)
      PROVE  container'[i] \in (IF Age(i)' < numElements' THEN Elem ELSE {Default})
<3>1. Age(i)' = i
  BY <2>1 DEF Age
<3>2. CASE i < numElements
<4>1. i \in 0..size /\ i \in 0..(size - 1)
  BY <1>0, <2>1, <3>2
<4>2. /\ Wrapped(frontIndex + i) = SlotOf(i)
      /\ SlotOf(i) \in 0..(size - 1) /\ Age(SlotOf(i)) = i
  BY <1>0, <4>1, Slots DEF SlotOf, Age
<4>3. container[SlotOf(i)] \in Elem
  BY <3>2, <4>2 DEF Released
<4>4. QED BY <2>1, <3>1, <3>2, <4>2, <4>3 DEF Unrolled
<3>3. CASE ~(i < numElements)
  BY <2>1, <3>1, <3>3 DEF Unrolled
<3>4. QED BY <3>2, <3>3
<2>3. QED BY <2>1, <2>2 DEF Released
<1>7. CASE Clear
<2>1. size' = size /\ numElements' = 0
  BY <1>7 DEF Clear
<2>2. ASSUME NEW i \in 0..(size - 1) PROVE container'[i] = Default
<3>1. container'[i] = IF \E k \in 0..(numElements - 1) : i = Wrapped(frontIndex + k)
                      THEN Default ELSE container[i]
  BY <1>0, <1>7 DEF Clear
<3>2. CASE Age(i) < numElements
<4>1. /\ Age(i) \in 0..(numElements - 1) /\ Age(i) \in 0..size
      /\ SlotOf(Age(i)) = i
  BY <1>0, <3>2 DEF Age, SlotOf
<4>2. Wrapped(frontIndex + Age(i)) = i
  BY <1>0, <4>1, Slots
<4>3. QED BY <3>1, <4>1, <4>2
<3>3. CASE ~(Age(i) < numElements)
  BY <3>1, <3>3 DEF Released
<3>4. QED BY <3>2, <3>3
<2>3. ASSUME NEW i \in 0..(size - 1)
      PROVE  Age(i)' \in Nat
<3>1. frontIndex' \in 0..(size - 1)
  BY <2>1 DEF TypeOK
<3>2. PICK front \in 0..(size - 1) : front = frontIndex'
  BY <3>1
<3>3. Age(i)' = IF i >= front THEN i - front ELSE i + size - front
  BY <2>1, <3>2 DEF Age
<3>4. (IF i >= front THEN i - front ELSE i + size - front) \in Nat
  BY <1>0
<3>5. QED BY <3>3, <3>4
<2>4. ASSUME NEW i \in 0..(size - 1)
      PROVE  container'[i] \in (IF Age(i)' < numElements' THEN Elem ELSE {Default})
<3>1. ~(Age(i)' < numElements')
  BY <2>1, <2>3
<3>2. QED BY <2>2, <3>1
<2>5. QED BY <2>1, <2>4 DEF Released
<1>8. CASE UNCHANGED vars
  BY <1>8 DEF vars, Released, Age
<1>9. QED BY <1>2, <1>3, <1>4, <1>5, <1>6, <1>7, <1>8 DEF Next

\* What is popped or cleared is released: no slot outside the window keeps an
\* element, for every capacity and every sequence of operations.
THEOREM PoppedIsReleased == Spec => []NothingLeftBehind
<1>1. Init => TypeOK /\ Released
  BY InitIndices, InitReleased
<1>2. TypeOK /\ Released /\ [Next]_vars => (TypeOK /\ Released)'
  BY StepIndices, StepReleased
<1>3. TypeOK /\ Released => NothingLeftBehind
  BY ReleasedIs
<1>4. QED BY <1>1, <1>2, <1>3, PTL DEF Spec

\* The contents as a sequence, without %.
Held ==
    /\ contents \in Seq(Elem) /\ Len(contents) = numElements
    /\ \A i \in 1..numElements : contents[i] = container[SlotOf(i - 1)]

LEMMA ContentsAreHeld == TypeOK /\ Released => Held
<1> SUFFICES ASSUME TypeOK, Released PROVE Held
  OBVIOUS
<1>1. /\ size \in Nat \ {0} /\ frontIndex \in 0..(size - 1)
      /\ numElements \in 0..size
  BY Neighbours
<1>2. ASSUME NEW i \in 1..numElements
      PROVE  /\ contents[i] = container[SlotOf(i - 1)]
             /\ contents[i] \in Elem
<2>1. /\ i - 1 \in 0..size
      /\ SlotOf(i - 1) \in 0..(size - 1) /\ Age(SlotOf(i - 1)) < numElements
  BY <1>1 DEF SlotOf, Age
<2>2. Wrapped(frontIndex + (i - 1)) = SlotOf(i - 1)
  BY <1>1, <2>1, Slots
<2>3. frontIndex + (i - 1) = frontIndex + i - 1
  BY <1>1
<2>4. contents[i] = container[SlotOf(i - 1)]
  BY <2>2, <2>3 DEF contents
<2>5. QED BY <2>1, <2>4 DEF Released
<1>3. contents \in [1..numElements -> Elem]
  BY <1>2 DEF contents
<1>4. QED BY <1>1, <1>2, <1>3 DEF Held

\* The four ways a sequence changes at one of its ends, element by element.
LEMMA EndsOfSequences ==
    ASSUME NEW S, NEW s \in Seq(S), NEW t \in Seq(S), NEW e \in S
    PROVE  /\ Len(t) = Len(s) + 1 /\ t[Len(t)] = e /\ (\A i \in 1..Len(s) : t[i] = s[i])
                  => t = Append(s, e)
           /\ Len(t) = Len(s) + 1 /\ t[1] = e /\ (\A i \in 1..Len(s) : t[i + 1] = s[i])
                  => t = <<e>> \o s
           /\ Len(s) = Len(t) + 1 /\ (\A i \in 1..Len(t) : t[i] = s[i + 1])
                  => t = Tail(s)
           /\ Len(s) = Len(t) + 1 /\ (\A i \in 1..Len(t) : t[i] = s[i])
                  => t = SubSeq(s, 1, Len(s) - 1)
           /\ Len(s) = Len(t) /\ (\A i \in 1..Len(t) : t[i] = s[i])
                  => t = s
  OBVIOUS

\* Each operation of the ring is the operation of the deque.
LEMMA StepImplements ==
    /\ TypeOK /\ Released /\ TypeOK' /\ Released' /\ Held /\ Held' /\ [Next]_vars
    => [Abstract!Next]_<<contents, size>>
<1> SUFFICES ASSUME TypeOK, TypeOK', Released', Held, Held', [Next]_vars
             PROVE  [Abstract!Next]_<<contents, size>>
  OBVIOUS
<1>0. /\ size \in Nat \ {0}
      /\ frontIndex \in 0..(size - 1) /\ backIndex \in 0..(size - 1)
      /\ numElements \in 0..size
      /\ container \in [0..(size - 1) -> Elem \cup {Default}]
  BY Neighbours
<1>1. backIndex = IF frontIndex + numElements = 0 THEN size - 1
                  ELSE IF frontIndex + numElements - 1 < size
                  THEN frontIndex + numElements - 1
                  ELSE frontIndex + numElements - 1 - size
  BY Neighbours
<1> DEFINE s == contents
           t == contents'
<1>a. /\ s \in Seq(Elem) /\ Len(s) = numElements
      /\ \A i \in 1..numElements : s[i] = container[SlotOf(i - 1)]
  BY DEF Held
<1>b. /\ t \in Seq(Elem) /\ Len(t) = numElements'
      /\ \A i \in 1..numElements' : t[i] = container'[SlotOf(i - 1)']
  BY DEF Held
<1> HIDE DEF s, t
<1>2. ASSUME NEW elem \in Elem, PushFront(elem) PROVE Abstract!PushFront(elem)
<2>1. /\ frontIndex' = IF frontIndex = 0 THEN size - 1 ELSE frontIndex - 1
      /\ numElements' = numElements + 1 /\ size' = size /\ numElements < size
      /\ container' = [container EXCEPT ![frontIndex'] = elem]
  BY <1>0, <1>2, Neighbours DEF PushFront, Full
<2>2. t[1] = elem
<3>1. SlotOf(1 - 1)' = frontIndex'
  BY <1>0, <2>1 DEF SlotOf
<3>2. QED BY <1>0, <1>b, <2>1, <3>1
<2>3. ASSUME NEW i \in 1..numElements PROVE t[i + 1] = s[i]
<3>1. /\ SlotOf((i + 1) - 1)' = SlotOf(i - 1) /\ SlotOf(i - 1) # frontIndex'
      /\ SlotOf(i - 1) \in 0..(size - 1)
  BY <1>0, <2>1 DEF SlotOf
<3>2. i + 1 \in 1..numElements'
  BY <1>0, <2>1
<3>3. t[i + 1] = container'[SlotOf(i - 1)]
  BY <1>b, <3>1, <3>2
<3>4. QED BY <1>0, <1>a, <2>1, <3>1, <3>3
<2>4. t = <<elem>> \o s
  BY <1>0, <1>a, <1>b, <2>1, <2>2, <2>3, EndsOfSequences
<2>5. QED BY <1>a, <2>1, <2>4 DEF Abstract!PushFront, Abstract!Full, s, t
<1>3. ASSUME NEW elem \in Elem, PushBack(elem) PROVE Abstract!PushBack(elem)
<2>1. /\ backIndex' = IF backIndex = size - 1 THEN 0 ELSE backIndex + 1
      /\ frontIndex' = frontIndex
      /\ numElements' = numElements + 1 /\ size' = size /\ numElements < size
      /\ container' = [container EXCEPT ![backIndex'] = elem]
  BY <1>0, <1>3, Neighbours DEF PushBack, Full
<2>2. ASSUME NEW i \in 1..(numElements + 1)
      PROVE  /\ SlotOf(i - 1)' = SlotOf(i - 1) /\ SlotOf(i - 1) \in 0..(size - 1)
             /\ i = numElements + 1 <=> SlotOf(i - 1) = backIndex'
  BY <1>0, <1>1, <2>1 DEF SlotOf
<2>3. ASSUME NEW i \in 1..(numElements + 1)
      PROVE  t[i] = IF i = numElements + 1 THEN elem ELSE container[SlotOf(i - 1)]
<3>1. t[i] = container'[SlotOf(i - 1)]
  BY <1>b, <2>1, <2>2
<3>2. QED BY <1>0, <2>1, <2>2, <3>1
<2>4. t[Len(t)] = elem /\ \A i \in 1..Len(s) : t[i] = s[i]
  BY <1>0, <1>a, <1>b, <2>1, <2>3
<2>5. t = Append(s, elem)
  BY <1>0, <1>a, <1>b, <2>1, <2>4, EndsOfSequences
<2>6. QED BY <1>a, <2>1, <2>5 DEF Abstract!PushBack, Abstract!Full, s, t
<1>4. ASSUME PopFront PROVE Abstract!PopFront
<2>1. /\ frontIndex' = IF frontIndex = size - 1 THEN 0 ELSE frontIndex + 1
      /\ numElements' = numElements - 1 /\ size' = size /\ numElements > 0
      /\ container' = [container EXCEPT ![frontIndex] = Default]
  BY <1>0, <1>4, Neighbours DEF PopFront, Empty
<2>2. ASSUME NEW i \in 1..(numElements - 1) PROVE t[i] = s[i + 1]
<3>1. /\ SlotOf(i - 1)' = SlotOf((i + 1) - 1) /\ SlotOf((i + 1) - 1) # frontIndex
      /\ SlotOf((i + 1) - 1) \in 0..(size - 1)
  BY <1>0, <2>1 DEF SlotOf
<3>2. i + 1 \in 1..numElements /\ i \in 1..numElements'
  BY <1>0, <2>1
<3>3. t[i] = container'[SlotOf((i + 1) - 1)]
  BY <1>b, <3>1, <3>2
<3>4. s[i + 1] = container[SlotOf((i + 1) - 1)]
  BY <1>a, <3>2
<3>5. QED BY <1>0, <2>1, <3>1, <3>3, <3>4
<2>3. t = Tail(s)
<3>1. Elem # {}
  BY <1>0, <1>a, <2>1
<3>2. QED BY <1>0, <1>a, <1>b, <2>1, <2>2, <3>1, EndsOfSequences
<2>4. s # <<>>
  BY <1>0, <1>a, <2>1
<2>5. QED BY <2>1, <2>3, <2>4 DEF Abstract!PopFront, s, t
<1>5. ASSUME PopBack PROVE Abstract!PopBack
<2>1. /\ frontIndex' = frontIndex
      /\ numElements' = numElements - 1 /\ size' = size /\ numElements > 0
      /\ container' = [container EXCEPT ![backIndex] = Default]
  BY <1>0, <1>5 DEF PopBack, Empty
<2>2. ASSUME NEW i \in 1..(numElements - 1) PROVE t[i] = s[i]
<3>1. /\ SlotOf(i - 1)' = SlotOf(i - 1) /\ SlotOf(i - 1) # backIndex
      /\ SlotOf(i - 1) \in 0..(size - 1)
  BY <1>0, <1>1, <2>1 DEF SlotOf
<3>2. i \in 1..numElements /\ i \in 1..numElements'
  BY <1>0, <2>1
<3>3. t[i] = container'[SlotOf(i - 1)]
  BY <1>b, <3>1, <3>2
<3>4. QED BY <1>0, <1>a, <2>1, <3>1, <3>2, <3>3
<2>3. t = SubSeq(s, 1, Len(s) - 1)
<3>1. Elem # {}
  BY <1>0, <1>a, <2>1
<3>2. QED BY <1>0, <1>a, <1>b, <2>1, <2>2, <3>1, EndsOfSequences
<2>4. s # <<>>
  BY <1>0, <1>a, <2>1
<2>5. QED BY <2>1, <2>3, <2>4 DEF Abstract!PopBack, s, t
<1>6. ASSUME NEW capacity \in 1..MaxCapacity, SetCapacity(capacity)
      PROVE  Abstract!SetCapacity
<2>1. /\ capacity \in Nat \ {0} /\ numElements <= capacity
      /\ size' = capacity /\ frontIndex' = 0 /\ numElements' = numElements
      /\ container' = Unrolled(capacity)
  BY MaxCapacityAssumption, <1>6 DEF SetCapacity
<2>2. ASSUME NEW i \in 1..numElements PROVE t[i] = s[i]
<3>1. /\ SlotOf(i - 1)' = i - 1 /\ i - 1 \in 0..(capacity - 1)
      /\ i - 1 < numElements /\ i - 1 \in 0..size
  BY <1>0, <2>1 DEF SlotOf
<3>2. Wrapped(frontIndex + (i - 1)) = SlotOf(i - 1)
  BY <1>0, <3>1, Slots
<3>3. t[i] = Unrolled(capacity)[i - 1]
  BY <1>b, <2>1, <3>1
<3>4. Unrolled(capacity)[i - 1] = container[Wrapped(frontIndex + (i - 1))]
  BY <3>1 DEF Unrolled
<3>5. QED BY <1>a, <3>2, <3>3, <3>4
<2>3. t = s
<3>1. CASE Elem = {}
<4>1. s = <<>> /\ t = <<>>
  BY <1>0, <1>a, <1>b, <2>1, <3>1
<4>2. QED BY <4>1
<3>2. CASE Elem # {}
  BY <1>0, <1>a, <1>b, <2>1, <2>2, <3>2, EndsOfSequences
<3>3. QED BY <3>1, <3>2
<2>4. QED BY <1>0, <1>a, <2>1, <2>3 DEF Abstract!SetCapacity, s, t
<1>7. ASSUME Clear PROVE Abstract!Clear
<2>1. size' = size /\ numElements' = 0
  BY <1>7 DEF Clear
<2>2. t = <<>>
  BY <1>b, <2>1
<2>3. QED BY <2>1, <2>2 DEF Abstract!Clear, t
<1>8. CASE UNCHANGED vars
<2>1. contents' = contents /\ size' = size
  BY <1>8 DEF vars, contents, Wrapped
<2>2. QED BY <2>1
<1>9. QED BY <1>2, <1>3, <1>4, <1>5, <1>6, <1>7, <1>8 DEF Next, Abstract!Next

\* The ring is a deque whatever was pushed, popped and resized before, for
\* every set of elements and every capacity.
THEOREM RingIsDeque == Spec => ImplementsDeque
<1>1. Init => Abstract!Init
<2> SUFFICES ASSUME Init PROVE Abstract!Init
  OBVIOUS
<2>1. Held
  BY InitIndices, InitReleased, ContentsAreHeld
<2>2. contents = <<>>
  BY <2>1 DEF Held, Init
<2>3. QED BY <2>2, MaxCapacityAssumption DEF Init, Abstract!Init
<1>2. Init => TypeOK /\ Released /\ Held
  BY InitIndices, InitReleased, ContentsAreHeld
<1>3. TypeOK /\ Released /\ [Next]_vars => TypeOK' /\ Released'
  BY StepIndices, StepReleased
<1>4. TypeOK' /\ Released' => Held'
  BY ContentsAreHeld, PTL
<1>5. TypeOK /\ Released /\ Held /\ [Next]_vars
          => TypeOK' /\ Released' /\ Held' /\ [Abstract!Next]_<<contents, size>>
  BY <1>3, <1>4, StepImplements
<1>6. QED BY <1>1, <1>2, <1>5, PTL DEF Spec, ImplementsDeque, Abstract!Spec
=============================================================================
