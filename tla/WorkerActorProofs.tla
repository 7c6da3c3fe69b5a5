------------------------- MODULE WorkerActorProofs -------------------------
(***************************************************************************)
(* Proofs about WorkerActor: types and counts, no missed wake-up, buffers  *)
(* and tokens, labels.                                                     *)
(***************************************************************************)
EXTENDS WorkerActor, SequenceTheorems, FiniteSetTheorems, WellFoundedInduction, TLAPS

(***************************************************************************)
(* Elements of a queue                                                     *)
(***************************************************************************)

\* A set of numbers that is not empty has a least one.
LEMMA LeastElement ==
    ASSUME NEW S \in SUBSET Nat, S # {}
    PROVE  /\ Min(S) \in S
           /\ \A x \in S : Min(S) <= x
<1> DEFINE Below == {1..x : x \in S}
<1>1. Below \subseteq FiniteSubsetsOf(Nat) /\ Below # {}
<2>1. \A x \in S : IsFiniteSet(1..x) /\ 1..x \subseteq Nat
  BY FS_Interval
<2>2. QED BY <2>1 DEF FiniteSubsetsOf
<1>2. PICK B \in Below : \A C \in Below : <<C, B>> \notin StrictSubsetOrdering(Nat)
  BY <1>1, FS_StrictSubsetOrderingWellFounded, WFMin
<1>3. PICK m \in S : B = 1..m
  OBVIOUS
<1>4. ASSUME NEW x \in S, x < m PROVE FALSE
<2>1. 1..x \in Below /\ 1..x \subseteq 1..m /\ m \in 1..m /\ m \notin 1..x
  BY <1>4
<2>2. <<1..x, B>> \in StrictSubsetOrdering(Nat)
  BY <2>1, <1>3 DEF StrictSubsetOrdering
<2>3. QED BY <2>1, <2>2, <1>2
<1>5. \A x \in S : m <= x
  BY <1>4
<1>6. QED BY <1>5 DEF Min

\* f[n] is the sum of the first n lengths.
Sums(queue, f) ==
    /\ f \in [0..Len(queue) -> Nat]
    /\ f[0] = 0
    /\ \A n \in 1..Len(queue) : f[n] = f[n - 1] + queue[n].len

LEMMA LengthsAreNat ==
    ASSUME NEW queue \in Seq(ChunkRecords)
    PROVE  /\ Len(queue) \in Nat
           /\ \A n \in 1..Len(queue) : queue[n] \in ChunkRecords /\ queue[n].len \in Nat /\ queue[n].len > 0
<1>1. \A n \in 1..Len(queue) : queue[n] \in ChunkRecords
  OBVIOUS
<1>2. \A c \in ChunkRecords : c.len \in Nat /\ c.len > 0
  BY DEF ChunkRecords
<1>3. QED BY <1>1, <1>2

LEMMA SumsExist ==
    ASSUME NEW queue \in Seq(ChunkRecords)
    PROVE  \E f : Sums(queue, f)
<1> DEFINE L == Len(queue)
           Upto(k, f) == /\ f \in [0..k -> Nat]
                         /\ f[0] = 0
                         /\ \A n \in 1..k : f[n] = f[n - 1] + queue[n].len
           Without == {k \in 0..L : \A f \in [0..k -> Nat] : ~Upto(k, f)}
<1>1. L \in Nat /\ \A n \in 1..L : queue[n].len \in Nat
  BY LengthsAreNat
<1> HIDE DEF L
<1>2. ASSUME Without # {} PROVE FALSE
<2> DEFINE m == Min(Without)
<2>0. Without \in SUBSET Nat
  BY <1>1
<2>1. m \in Without /\ \A k \in Without : m <= k
<3> HIDE DEF Without
<3>1. QED BY <2>0, <1>2, LeastElement
<2> HIDE DEF m
<2>2. CASE m = 0
<3> DEFINE f == [n \in 0..0 |-> 0]
<3>1. f \in [0..0 -> Nat] /\ Upto(0, f)
  OBVIOUS
<3>2. QED BY <2>1, <2>2, <3>1
<2>3. CASE m # 0
<3>0. m \in 1..L /\ m - 1 \in 0..L
  BY <2>1, <2>3, <1>1
<3>1. m - 1 \notin Without
<4>1. m - 1 < m /\ ~(m <= m - 1)
  BY <3>0, <1>1
<4> HIDE DEF Without
<4>2. QED BY <4>1, <2>1
<3>2. PICK g \in [0..(m - 1) -> Nat] : Upto(m - 1, g)
  BY <3>0, <3>1
<3> DEFINE f == [n \in 0..m |-> IF n = m THEN g[m - 1] + queue[m].len ELSE g[n]]
<3>3. f \in [0..m -> Nat]
  BY <3>0, <3>2, <1>1
<3>4. f[0] = 0 /\ f[m] = f[m - 1] + queue[m].len
  BY <3>0, <3>2
<3>5. ASSUME NEW n \in 1..m, n # m PROVE f[n] = f[n - 1] + queue[n].len
  BY <3>0, <3>2, <3>5
<3>6. Upto(m, f)
  BY <3>3, <3>4, <3>5
<3>7. QED BY <3>3, <3>6, <2>1
<2>4. QED BY <2>2, <2>3
<1>3. PICK f \in [0..L -> Nat] : Upto(L, f)
<2>1. L \in 0..L
  BY <1>1
<2>2. L \notin Without
<3> HIDE DEF Without
<3>1. QED BY <1>2
<2>3. QED BY <2>1, <2>2
<1>4. QED BY <1>3 DEF Sums, L

LEMMA SumsAreOne ==
    ASSUME NEW queue \in Seq(ChunkRecords), NEW f, Sums(queue, f),
           NEW g, g[0] = 0, \A n \in 1..Len(queue) : g[n] = g[n - 1] + queue[n].len
    PROVE  \A n \in 0..Len(queue) : f[n] = g[n]
<1> DEFINE L == Len(queue)
           Differ == {k \in 0..L : f[k] # g[k]}
<1>1. L \in Nat
  BY LengthsAreNat
<1>2. /\ f[0] = 0
      /\ \A n \in 1..L : f[n] = f[n - 1] + queue[n].len
  BY DEF Sums
<1> HIDE DEF L
<1>3. ASSUME Differ # {} PROVE FALSE
<2> DEFINE m == Min(Differ)
<2>0. Differ \in SUBSET Nat
  BY <1>1
<2>1. m \in Differ /\ \A k \in Differ : m <= k
<3> HIDE DEF Differ
<3>1. QED BY <2>0, <1>3, LeastElement
<2> HIDE DEF m
<2>2. m \in 1..L /\ m - 1 \in 0..L /\ m - 1 < m
  BY <2>1, <1>1, <1>2
<2>3. f[m - 1] = g[m - 1]
  BY <2>1, <2>2, <1>1
<2>4. f[m] = g[m]
  BY <2>2, <2>3, <1>2 DEF L
<2>5. QED BY <2>1, <2>4
<1>4. QED BY <1>3 DEF L

LEMMA ElementsAreSums ==
    ASSUME NEW queue \in Seq(ChunkRecords), NEW f, Sums(queue, f)
    PROVE  Elements(queue) = f[Len(queue)]
<1> DEFINE L == Len(queue)
           Rec(g) == [n \in 0..L |-> IF n = 0 THEN 0 ELSE g[n - 1] + queue[n].len]
           sum == CHOOSE g : g = Rec(g)
<1>1. L \in Nat
  BY LengthsAreNat
<1>2. f = Rec(f)
  BY <1>1 DEF Sums
<1>3. sum = Rec(sum)
  BY <1>2
<1>4. sum[0] = 0 /\ \A n \in 1..L : sum[n] = sum[n - 1] + queue[n].len
<2> HIDE DEF sum
<2>1. QED BY <1>1, <1>3
<1>5. \A n \in 0..L : f[n] = sum[n]
<2> HIDE DEF sum
<2>1. QED BY <1>4, SumsAreOne
<1>6. Elements(queue) = sum[L]
  BY DEF Elements
<1>7. QED BY <1>1, <1>5, <1>6

LEMMA ElementsNone == Elements(<<>>) = 0
<1>1. <<>> \in Seq(ChunkRecords) /\ Len(<<>>) = 0
  OBVIOUS
<1>2. Sums(<<>>, [n \in 0..0 |-> 0])
  BY DEF Sums
<1>3. QED BY <1>1, <1>2, ElementsAreSums

LEMMA ElementsAppend ==
    ASSUME NEW queue \in Seq(ChunkRecords), NEW chunk \in ChunkRecords
    PROVE  /\ Elements(queue) \in Nat
           /\ Append(queue, chunk) \in Seq(ChunkRecords)
           /\ Elements(Append(queue, chunk)) = Elements(queue) + chunk.len
<1> DEFINE L == Len(queue)
           longer == Append(queue, chunk)
<1>1. L \in Nat /\ chunk.len \in Nat /\ Len(longer) = L + 1 /\ longer \in Seq(ChunkRecords)
  BY DEF ChunkRecords
<1>2. longer[L + 1] = chunk /\ \A n \in 1..L : longer[n] = queue[n]
  OBVIOUS
<1>3. PICK f : Sums(queue, f)
  BY SumsExist
<1>4. f \in [0..L -> Nat] /\ f[0] = 0 /\ \A n \in 1..L : f[n] = f[n - 1] + queue[n].len
  BY <1>3 DEF Sums
<1>5. Elements(queue) = f[L] /\ f[L] \in Nat
  BY <1>1, <1>3, <1>4, ElementsAreSums
<1> DEFINE g == [n \in 0..(L + 1) |-> IF n = L + 1 THEN f[L] + chunk.len ELSE f[n]]
<1> HIDE DEF L, longer
<1>6. g \in [0..(L + 1) -> Nat] /\ g[0] = 0 /\ g[L + 1] = f[L] + chunk.len
  BY <1>1, <1>4, <1>5
<1>7. ASSUME NEW n \in 1..(L + 1) PROVE g[n] = g[n - 1] + longer[n].len
<2>1. CASE n = L + 1
  BY <2>1, <1>1, <1>2
<2>2. CASE n \in 1..L
<3>1. n # L + 1 /\ n - 1 # L + 1 /\ n \in 0..(L + 1) /\ n - 1 \in 0..(L + 1)
  BY <2>2, <1>1
<3>2. g[n] = f[n] /\ g[n - 1] = f[n - 1]
  BY <3>1
<3>3. f[n] = f[n - 1] + longer[n].len
  BY <2>2, <1>2, <1>4
<3>4. QED BY <3>2, <3>3
<2>3. QED BY <2>1, <2>2, <1>1
<1> HIDE DEF g
<1>8. Sums(longer, g)
  BY <1>1, <1>6, <1>7 DEF Sums
<1>9. Elements(longer) = g[L + 1]
  BY <1>1, <1>8, ElementsAreSums
<1>10. QED BY <1>1, <1>5, <1>6, <1>9 DEF longer

LEMMA ElementsTail ==
    ASSUME NEW queue \in Seq(ChunkRecords), queue # <<>>
    PROVE  /\ Head(queue) \in ChunkRecords /\ Tail(queue) \in Seq(ChunkRecords)
           /\ Elements(Tail(queue)) \in Nat
           /\ Elements(queue) = Head(queue).len + Elements(Tail(queue))
<1> DEFINE L == Len(queue)
           t == Tail(queue)
           h == queue[1].len
<1>1. /\ L \in Nat /\ L > 0 /\ t \in Seq(ChunkRecords) /\ Len(t) = L - 1
      /\ Head(queue) = queue[1] /\ queue[1] \in ChunkRecords
  OBVIOUS
<1>2. \A n \in 1..(L - 1) : t[n] = queue[n + 1]
  OBVIOUS
<1>3. h \in Nat
  BY <1>1 DEF ChunkRecords
<1>4. PICK g : Sums(t, g)
  BY <1>1, SumsExist
<1> HIDE DEF t, L, h
<1>5. g \in [0..(L - 1) -> Nat] /\ g[0] = 0 /\ \A n \in 1..(L - 1) : g[n] = g[n - 1] + t[n].len
  BY <1>1, <1>4 DEF Sums
<1>6. Elements(t) = g[L - 1] /\ g[L - 1] \in Nat
  BY <1>1, <1>4, <1>5, ElementsAreSums
<1> DEFINE f == [n \in 0..L |-> IF n = 0 THEN 0 ELSE h + g[n - 1]]
<1>7. f \in [0..L -> Nat] /\ f[0] = 0 /\ f[L] = h + g[L - 1]
<2>1. \A n \in 1..L : n - 1 \in 0..(L - 1)
  BY <1>1
<2>2. QED BY <1>1, <1>3, <1>5, <2>1
<1>8. ASSUME NEW n \in 1..L PROVE f[n] = f[n - 1] + queue[n].len
<2>0. n \in Nat /\ n # 0 /\ f[n] = h + g[n - 1]
  BY <1>1
<2>1. CASE n = 1
<3>1. f[1] = h + g[0] /\ f[0] = 0
  BY <1>1, <2>1, <2>0
<3>2. QED BY <3>1, <2>1, <1>3, <1>5 DEF h
<2>2. CASE n # 1
<3>1. n - 1 \in 1..(L - 1) /\ n - 1 \in 0..L /\ n - 1 # 0 /\ (n - 1) - 1 \in 0..(L - 1)
  BY <2>2, <1>1
<3>2. f[n - 1] = h + g[(n - 1) - 1]
  BY <3>1
<3>3. g[n - 1] = g[(n - 1) - 1] + t[n - 1].len
  BY <3>1, <1>5
<3>4. t[n - 1] = queue[(n - 1) + 1] /\ (n - 1) + 1 = n
  BY <3>1, <1>2
<3>5. queue[n].len \in Nat /\ g[(n - 1) - 1] \in Nat
  BY <3>1, <1>5, LengthsAreNat DEF L
<3> HIDE DEF f
<3>6. QED BY <2>0, <3>2, <3>3, <3>4, <3>5, <1>3
<2>3. QED BY <2>1, <2>2
<1> HIDE DEF f
<1>9. Sums(queue, f)
  BY <1>7, <1>8 DEF Sums, L
<1>10. Elements(queue) = f[L]
  BY <1>9, ElementsAreSums DEF L
<1>11. QED BY <1>1, <1>6, <1>7, <1>10 DEF t, h

LEMMA ElementsCount ==
    ASSUME NEW queue \in Seq(ChunkRecords)
    PROVE  /\ Elements(queue) \in Nat /\ FrontElements(queue) \in Nat
           /\ FrontElements(queue) <= Elements(queue)
           /\ queue # <<>> => FrontElements(queue) > 0
           /\ queue = <<>> => Elements(queue) = 0
<1>1. CASE queue = <<>>
  BY <1>1, ElementsNone DEF FrontElements
<1>2. CASE queue # <<>>
<2>0. Head(queue) \in ChunkRecords
  BY <1>2
<2>1. Head(queue).len \in Nat /\ Head(queue).len > 0 /\ FrontElements(queue) = Head(queue).len
  BY <1>2, <2>0 DEF ChunkRecords, FrontElements
<2>2. QED BY <1>2, <2>1, ElementsTail
<1>3. QED BY <1>1, <1>2

LEMMA ElementsOne == \A chunk \in ChunkRecords : Elements(<<chunk>>) = chunk.len
<1> SUFFICES ASSUME NEW chunk \in ChunkRecords PROVE Elements(<<chunk>>) = chunk.len
  OBVIOUS
<1>1. <<>> \in Seq(ChunkRecords) /\ Append(<<>>, chunk) = <<chunk>> /\ chunk.len \in Nat
  BY DEF ChunkRecords
<1>2. Elements(Append(<<>>, chunk)) = Elements(<<>>) + chunk.len
  BY <1>1, ElementsAppend
<1>3. QED BY <1>1, <1>2, ElementsNone

\* A pop takes n elements, and leaves the chunks behind the front alone.
LEMMA PopTakes ==
    ASSUME NEW queue \in Seq(ChunkRecords), NEW n \in Nat, n > 0, n <= FrontElements(queue)
    PROVE  /\ PopChunk(queue, n) \in Seq(ChunkRecords)
           /\ Elements(PopChunk(queue, n)) = Elements(queue) - n
<1>1. queue # <<>> /\ n <= Head(queue).len
  BY DEF FrontElements
<1>2. /\ Head(queue) \in ChunkRecords /\ Tail(queue) \in Seq(ChunkRecords) /\ Head(queue).len \in Nat
      /\ Elements(Tail(queue)) \in Nat /\ Elements(queue) = Head(queue).len + Elements(Tail(queue))
  BY <1>1, ElementsTail DEF ChunkRecords
<1>3. CASE Head(queue).len = n
  BY <1>2, <1>3 DEF PopChunk
<1>4. CASE Head(queue).len # n
<2> DEFINE h == [Head(queue) EXCEPT !.len = @ - n]
           shorter == [queue EXCEPT ![1].len = @ - n]
<2>1. PopChunk(queue, n) = shorter
  BY <1>4 DEF PopChunk
<2>2. h \in ChunkRecords /\ h.len = Head(queue).len - n
<3>1. Head(queue).len - n \in Nat \ {0}
  BY <1>1, <1>2, <1>4
<3>2. PICK l \in Nat \ {0} : l = Head(queue).len - n
  BY <3>1
<3>3. h = [Head(queue) EXCEPT !.len = l]
  BY <3>2
<3> HIDE DEF h
<3>4. h \in ChunkRecords /\ h.len = l
  BY <1>2, <3>3 DEF ChunkRecords
<3>5. QED BY <3>2, <3>4
<2>3. shorter = [queue EXCEPT ![1] = h]
<3>1. Head(queue) = queue[1]
  BY <1>1
<3>2. QED BY <3>1
<2> HIDE DEF h, shorter
<2>4. shorter \in Seq(ChunkRecords) /\ shorter # <<>> /\ Head(shorter) = h
  BY <1>1, <2>2, <2>3
<2>5. Tail(shorter) = Tail(queue)
  BY <1>1, <2>3
<2>6. Elements(shorter) = h.len + Elements(Tail(queue))
  BY <2>4, <2>5, ElementsTail
<2>7. QED BY <1>2, <2>1, <2>2, <2>4, <2>6
<1>5. QED BY <1>3, <1>4

\* A push adds the elements of the chunk, merged or not.
LEMMA PushAdds ==
    ASSUME NEW queue \in Seq(ChunkRecords), NEW chunk \in ChunkRecords
    PROVE  /\ PushChunk(queue, chunk) \in Seq(ChunkRecords)
           /\ PushChunk(queue, chunk) # <<>>
           /\ Elements(PushChunk(queue, chunk)) = Elements(queue) + chunk.len
           /\ FrontElements(queue) <= FrontElements(PushChunk(queue, chunk))
<1>1. CASE PushChunk(queue, chunk) = Append(queue, chunk)
<2>1. Append(queue, chunk) # <<>>
  BY AppendProperties
<2>2. FrontElements(queue) <= FrontElements(Append(queue, chunk))
<3>1. CASE queue = <<>>
<4>1. FrontElements(queue) = 0
  BY <3>1 DEF FrontElements
<4>2. FrontElements(Append(queue, chunk)) \in Nat
  BY ElementsCount, ElementsAppend
<4>3. QED BY <4>1, <4>2
<3>2. CASE queue # <<>>
<4>1. Head(Append(queue, chunk)) = Head(queue)
  BY <3>2
<4>2. FrontElements(Append(queue, chunk)) = FrontElements(queue)
  BY <3>2, <4>1, <2>1 DEF FrontElements
<4>3. QED BY <4>2, ElementsCount
<3>3. QED BY <3>1, <3>2
<2>3. QED BY <1>1, <2>1, <2>2, ElementsAppend
<1>2. CASE PushChunk(queue, chunk) # Append(queue, chunk)
<2> DEFINE L == Len(queue)
           front == SubSeq(queue, 1, L - 1)
           last == queue[L]
           merged == [last EXCEPT !.len = @ + chunk.len]
           longer == [queue EXCEPT ![L].len = @ + chunk.len]
<2>1. queue # <<>> /\ PushChunk(queue, chunk) = longer /\ L \in Nat /\ L > 0
  BY <1>2 DEF PushChunk
<2>2. last \in ChunkRecords /\ merged \in ChunkRecords /\ merged.len = last.len + chunk.len
      /\ last.len \in Nat /\ chunk.len \in Nat
<3>1. last \in ChunkRecords
  BY <2>1
<3>2. QED BY <3>1 DEF ChunkRecords
<2>3. front \in Seq(ChunkRecords) /\ queue = Append(front, last)
<3>1. front \in Seq(ChunkRecords)
  BY <2>1
<3>2. QED BY <2>1, <3>1, SequenceEmptyOrAppend
<2>4. longer = [queue EXCEPT ![L] = merged]
  BY <2>1
<2>5. longer = Append(front, merged)
<3>0. L \in 1..Len(queue) /\ L - 1 \in Nat
  BY <2>1
<3>1. Len(front) = L - 1 /\ \A i \in 1..(L - 1) : front[i] = queue[i]
<4> HIDE DEF front, last
<4>1. Len(front) \in Nat /\ last \in ChunkRecords
  BY <2>2, <2>3
<4>2. Len(queue) = Len(front) + 1 /\ \A i \in 1..Len(front) : queue[i] = front[i]
  BY <2>3, <4>1, AppendProperties
<4>3. QED BY <4>1, <4>2
<3> HIDE DEF longer, merged, front, last
<3>2. /\ longer \in Seq(ChunkRecords) /\ Len(longer) = L
      /\ \A j \in 1..L : longer[j] = IF j = L THEN merged ELSE queue[j]
  BY <2>2, <2>4, <3>0, ExceptSeq
<3>3. /\ Append(front, merged) \in Seq(ChunkRecords) /\ Len(Append(front, merged)) = L
      /\ \A j \in 1..L : Append(front, merged)[j] = IF j = L THEN merged ELSE front[j]
  BY <2>2, <2>3, <3>0, <3>1, AppendProperties
<3>4. \A j \in 1..L : longer[j] = Append(front, merged)[j]
  BY <3>0, <3>1, <3>2, <3>3
<3>5. QED BY <3>2, <3>3, <3>4, SeqEqual
<2> HIDE DEF front, last, merged, longer
<2>6. Elements(queue) = Elements(front) + last.len /\ Elements(longer) = Elements(front) + merged.len
      /\ longer \in Seq(ChunkRecords) /\ Elements(front) \in Nat
  BY <2>2, <2>3, <2>5, ElementsAppend
<2>7. longer # <<>> /\ Head(longer).len >= Head(queue).len
<3>1. CASE L = 1
<4>1. Head(longer) = merged /\ Head(queue) = last
  BY <2>1, <2>4, <3>1 DEF last
<4>2. QED BY <4>1, <2>1, <2>2, <2>4
<3>2. CASE L # 1
<4>1. Head(longer) = Head(queue) /\ longer # <<>>
  BY <2>1, <2>4, <3>2
<4>2. Head(queue).len \in Nat
  BY <2>1, ElementsTail DEF ChunkRecords
<4>3. QED BY <4>1, <4>2
<3>3. QED BY <3>1, <3>2
<2>8. QED BY <2>1, <2>2, <2>6, <2>7 DEF FrontElements
<1>3. QED BY <1>1, <1>2

\* What require() leaves at the front is enough if there is enough.
LEMMA RequireKeeps ==
    ASSUME NEW queue \in Seq(ChunkRecords), NEW n \in Nat \ {0}
    PROVE  LET required == RequireChunks(queue, n)
           IN  /\ required \in Seq(ChunkRecords)
               /\ Elements(required) = Elements(queue)
               /\ Elements(queue) >= n => FrontElements(required) >= n
<1> DEFINE one == [buf |-> 0, len |-> Elements(queue)]
<1>1. CASE RequireChunks(queue, n) = queue
<2>1. ASSUME Elements(queue) >= n PROVE FrontElements(queue) >= n
<3>1. Elements(queue) \in Nat /\ (queue = <<>> => Elements(queue) = 0)
  BY ElementsCount
<3>2. queue # <<>> /\ ~(Elements(queue) < n)
  BY <2>1, <3>1
<3>3. FrontElements(queue) >= n \/ RequireChunks(queue, n) = <<one>>
  BY <3>2 DEF RequireChunks
<3>4. CASE queue = <<one>>
<4>1. Head(queue).len = Elements(queue)
  BY <3>4
<4>2. QED BY <2>1, <3>2, <4>1 DEF FrontElements
<3>5. QED BY <3>3, <3>4, <1>1
<2>2. QED BY <1>1, <2>1
<1>2. CASE RequireChunks(queue, n) = <<one>> /\ queue # <<>>
<2>1. one \in ChunkRecords
<3>1. Elements(queue) \in Nat /\ Elements(queue) > 0
  BY <1>2, ElementsCount
<3>2. 0 \in 0..NumBuffers
  BY SizesAssumption
<3>3. QED BY <3>1, <3>2 DEF ChunkRecords
<2>2. <<one>> \in Seq(ChunkRecords) /\ Elements(<<one>>) = Elements(queue)
  BY <2>1, ElementsOne
<2>3. FrontElements(<<one>>) = Elements(queue)
  BY DEF FrontElements
<2>4. QED BY <1>2, <2>2, <2>3
<1>3. QED BY <1>1, <1>2 DEF RequireChunks

(***************************************************************************)
(* Buffers in a queue                                                      *)
(***************************************************************************)

\* f[n] are the buffers in S of the first n chunks.
Finds(queue, S, f) ==
    /\ f \in [0..Len(queue) -> Seq(S)]
    /\ f[0] = <<>>
    /\ \A n \in 1..Len(queue) :
          f[n] = IF queue[n].buf \in S THEN Append(f[n - 1], queue[n].buf) ELSE f[n - 1]

LEMMA FindsExist ==
    ASSUME NEW queue \in Seq(ChunkRecords), NEW S
    PROVE  \E f : Finds(queue, S, f)
<1> DEFINE L == Len(queue)
           Next1(n, s) == IF queue[n].buf \in S THEN Append(s, queue[n].buf) ELSE s
           Upto(k, f) == /\ f \in [0..k -> Seq(S)]
                         /\ f[0] = <<>>
                         /\ \A n \in 1..k : f[n] = Next1(n, f[n - 1])
           Without == {k \in 0..L : \A f \in [0..k -> Seq(S)] : ~Upto(k, f)}
<1>1. L \in Nat /\ \A n \in 1..L : \A s \in Seq(S) : Next1(n, s) \in Seq(S)
  BY LengthsAreNat
<1> HIDE DEF L, Next1
<1>2. ASSUME Without # {} PROVE FALSE
<2> DEFINE m == Min(Without)
<2>0. Without \in SUBSET Nat
  BY <1>1
<2>1. m \in Without /\ \A k \in Without : m <= k
<3> HIDE DEF Without
<3>1. QED BY <2>0, <1>2, LeastElement
<2> HIDE DEF m
<2>2. CASE m = 0
<3> DEFINE f == [n \in 0..0 |-> <<>>]
<3>1. f \in [0..0 -> Seq(S)] /\ Upto(0, f)
  OBVIOUS
<3>2. QED BY <2>1, <2>2, <3>1
<2>3. CASE m # 0
<3>0. m \in 1..L /\ m - 1 \in 0..L
  BY <2>1, <2>3, <1>1
<3>1. m - 1 \notin Without
<4>1. m - 1 < m /\ ~(m <= m - 1)
  BY <3>0, <1>1
<4> HIDE DEF Without
<4>2. QED BY <4>1, <2>1
<3>2. PICK g \in [0..(m - 1) -> Seq(S)] : Upto(m - 1, g)
  BY <3>0, <3>1
<3> DEFINE f == [n \in 0..m |-> IF n = m THEN Next1(m, g[m - 1]) ELSE g[n]]
<3>3. f \in [0..m -> Seq(S)]
<4>1. Next1(m, g[m - 1]) \in Seq(S)
  BY <3>0, <3>2, <1>1
<4>2. \A n \in 0..m : n # m => n \in 0..(m - 1)
  BY <3>0
<4>3. QED BY <4>1, <4>2, <3>2
<3>4. f[0] = <<>> /\ f[m] = Next1(m, f[m - 1])
  BY <3>0, <3>2
<3>5. ASSUME NEW n \in 1..m, n # m PROVE f[n] = Next1(n, f[n - 1])
  BY <3>0, <3>2, <3>5
<3>6. Upto(m, f)
  BY <3>3, <3>4, <3>5
<3>7. QED BY <3>3, <3>6, <2>1
<2>4. QED BY <2>2, <2>3
<1>3. PICK f \in [0..L -> Seq(S)] : Upto(L, f)
<2>1. L \in 0..L
  BY <1>1
<2>2. L \notin Without
<3> HIDE DEF Without
<3>1. QED BY <1>2
<2>3. QED BY <2>1, <2>2
<1>4. QED BY <1>3 DEF Finds, L, Next1

LEMMA BuffersAreFound ==
    ASSUME NEW queue \in Seq(ChunkRecords), NEW S, NEW f, Finds(queue, S, f)
    PROVE  BuffersIn(queue, S) = f[Len(queue)]
<1> DEFINE L == Len(queue)
           Next1(n, s) == IF queue[n].buf \in S THEN Append(s, queue[n].buf) ELSE s
           Rec(g) == [n \in 0..L |-> IF n = 0 THEN <<>>
                                     ELSE IF queue[n].buf \in S THEN Append(g[n - 1], queue[n].buf)
                                     ELSE g[n - 1]]
           found == CHOOSE g : g = Rec(g)
           Differ == {k \in 0..L : f[k] # found[k]}
<1>1. L \in Nat
  BY LengthsAreNat
<1>2. f = Rec(f)
<2>1. f = [n \in 0..L |-> f[n]] /\ f[0] = <<>>
  BY DEF Finds
<2>2. \A n \in 0..L : n # 0 =>
          f[n] = IF queue[n].buf \in S THEN Append(f[n - 1], queue[n].buf) ELSE f[n - 1]
<3>1. \A n \in 0..L : n # 0 => n \in 1..Len(queue)
  BY <1>1
<3>2. \A n \in 1..Len(queue) :
          f[n] = IF queue[n].buf \in S THEN Append(f[n - 1], queue[n].buf) ELSE f[n - 1]
  BY DEF Finds
<3>3. QED BY <3>1, <3>2, Zenon
<2>3. QED BY <2>1, <2>2, Zenon
<1>3. found = Rec(found)
  BY <1>2
<1>4. BuffersIn(queue, S) = found[L]
  BY DEF BuffersIn
<1> HIDE DEF found
<1>5. found[0] = <<>> /\ \A n \in 1..L : found[n] = Next1(n, found[n - 1])
<2>1. found[0] = <<>>
  BY <1>1, <1>3
<2>2. \A n \in 1..L : n \in 0..L /\ n # 0
  BY <1>1
<2>3. ASSUME NEW n \in 1..L PROVE found[n] = Next1(n, found[n - 1])
  BY <2>2, <1>3, Zenon
<2>4. QED BY <2>1, <2>3
<1>6. f[0] = <<>> /\ \A n \in 1..L : f[n] = Next1(n, f[n - 1])
  BY DEF Finds
<1> HIDE DEF L, Next1
<1>7. ASSUME Differ # {} PROVE FALSE
<2> DEFINE m == Min(Differ)
<2>0. Differ \in SUBSET Nat
  BY <1>1
<2>1. m \in Differ /\ \A k \in Differ : m <= k
<3> HIDE DEF Differ
<3>1. QED BY <2>0, <1>7, LeastElement
<2> HIDE DEF m
<2>2. m \in 1..L /\ m - 1 \in 0..L /\ m - 1 < m
  BY <2>1, <1>1, <1>5, <1>6
<2>3. f[m - 1] = found[m - 1]
  BY <2>1, <2>2, <1>1
<2>4. f[m] = found[m]
  BY <2>2, <2>3, <1>5, <1>6
<2>5. QED BY <2>1, <2>4
<1>8. QED BY <1>1, <1>4, <1>7 DEF L

\* The buffers that are found are those asked for, each once if the chunks are
\* in different ones.
LEMMA BuffersFound ==
    ASSUME NEW queue \in Seq(ChunkRecords), NEW S
    PROVE  /\ BuffersIn(queue, S) \in Seq(S)
           /\ \A i \in 1..Len(BuffersIn(queue, S)) :
                 \E j \in 1..Len(queue) : queue[j].buf = BuffersIn(queue, S)[i]
           /\ \A j \in 1..Len(queue) : queue[j].buf \in S =>
                 \E i \in 1..Len(BuffersIn(queue, S)) : queue[j].buf = BuffersIn(queue, S)[i]
           /\ (\A i, j \in 1..Len(queue) :
                  queue[i].buf \in S /\ queue[i].buf = queue[j].buf => i = j) =>
              \A i, j \in 1..Len(BuffersIn(queue, S)) :
                 BuffersIn(queue, S)[i] = BuffersIn(queue, S)[j] => i = j
<1> DEFINE L == Len(queue)
           buf(j) == queue[j].buf
           Each == \A i, j \in 1..L : buf(i) \in S /\ buf(i) = buf(j) => i = j
           Right(n, s) == /\ \A i \in 1..Len(s) : \E j \in 1..n : buf(j) = s[i]
                          /\ \A j \in 1..n : buf(j) \in S => \E i \in 1..Len(s) : buf(j) = s[i]
                          /\ Each => \A i, j \in 1..Len(s) : s[i] = s[j] => i = j
<1>1. PICK f : Finds(queue, S, f)
  BY FindsExist
<1>2. /\ f \in [0..L -> Seq(S)] /\ f[0] = <<>>
      /\ \A n \in 1..L : f[n] = IF buf(n) \in S THEN Append(f[n - 1], buf(n)) ELSE f[n - 1]
  BY <1>1 DEF Finds
<1>3. BuffersIn(queue, S) = f[L]
  BY <1>1, BuffersAreFound
<1>4. L \in Nat
  BY LengthsAreNat
<1> DEFINE Wrong == {k \in 0..L : ~Right(k, f[k])}
<1> HIDE DEF L, buf
<1>5. ASSUME NEW s \in Seq(S), NEW n \in 1..L, Right(n - 1, s)
      PROVE  Right(n, IF buf(n) \in S THEN Append(s, buf(n)) ELSE s)
<2>0. n - 1 \in Nat /\ n \in 1..n /\ 1..n = 1..(n - 1) \cup {n} /\ 1..(n - 1) \subseteq 1..L
      /\ n \notin 1..(n - 1)
  BY <1>4
<2>1. CASE buf(n) \notin S
<3>1. Right(n, s)
  BY <1>5, <2>0, <2>1
<3>2. QED BY <2>1, <3>1
<2>2. CASE buf(n) \in S
<3> DEFINE t == Append(s, buf(n))
<3>1. Len(t) = Len(s) + 1 /\ Len(s) \in Nat /\ t[Len(s) + 1] = buf(n)
      /\ \A i \in 1..Len(s) : t[i] = s[i] /\ s[i] \in S
  BY <2>2, AppendProperties
<3> HIDE DEF t
<3>2. 1..Len(t) = 1..Len(s) \cup {Len(s) + 1} /\ Len(s) + 1 \in 1..Len(t)
  BY <3>1
<3>3. \A i \in 1..Len(t) : \E j \in 1..n : buf(j) = t[i]
  BY <1>5, <2>0, <3>1, <3>2
<3>4. \A j \in 1..n : buf(j) \in S => \E i \in 1..Len(t) : buf(j) = t[i]
  BY <1>5, <2>0, <3>1, <3>2
<3>5. ASSUME Each, NEW i \in 1..Len(t), NEW j \in 1..Len(t), t[i] = t[j] PROVE i = j
<4>1. \A k \in 1..Len(s) : s[k] # buf(n)
<5>1. ASSUME NEW k \in 1..Len(s), s[k] = buf(n) PROVE FALSE
<6>1. PICK l \in 1..(n - 1) : buf(l) = s[k]
  BY <1>5
<6>2. l \in 1..L /\ l # n /\ buf(l) = buf(n) /\ buf(l) \in S
  BY <2>0, <2>2, <5>1, <6>1
<6>3. QED BY <3>5, <6>2
<5>2. QED BY <5>1
<4>2. \A k, l \in 1..Len(s) : s[k] = s[l] => k = l
  BY <1>5, <3>5
<4>3. QED BY <3>1, <3>2, <3>5, <4>1, <4>2
<3>6. Right(n, t)
  BY <3>3, <3>4, <3>5
<3>7. QED BY <2>2, <3>6 DEF t
<2>3. QED BY <2>1, <2>2
<1>6. Right(0, <<>>)
  BY EmptySeq
<1> HIDE DEF Right
<1>7. ASSUME Wrong # {} PROVE FALSE
<2> DEFINE m == Min(Wrong)
<2>0. Wrong \in SUBSET Nat
  BY <1>4
<2>1. m \in Wrong /\ \A k \in Wrong : m <= k
<3> HIDE DEF Wrong
<3>1. QED BY <2>0, <1>7, LeastElement
<2> HIDE DEF m
<2>2. m \in 1..L /\ m - 1 \in 0..L /\ m - 1 < m
  BY <2>1, <1>2, <1>4, <1>6
<2>3. Right(m - 1, f[m - 1])
  BY <2>1, <2>2, <1>4
<2>4. Right(m, f[m])
<3>1. f[m - 1] \in Seq(S)
  BY <2>2, <1>2
<3>2. f[m] = IF buf(m) \in S THEN Append(f[m - 1], buf(m)) ELSE f[m - 1]
  BY <2>2, <1>2
<3>3. Right(m, IF buf(m) \in S THEN Append(f[m - 1], buf(m)) ELSE f[m - 1])
  BY <3>1, <2>2, <2>3, <1>5
<3>4. QED BY <3>2, <3>3
<2>5. QED BY <2>1, <2>4
<1>8. Right(L, f[L]) /\ f[L] \in Seq(S)
<2>1. L \in 0..L
  BY <1>4
<2>2. QED BY <2>1, <1>2, <1>7
<1>9. QED BY <1>3, <1>8 DEF Right, L, buf

(***************************************************************************)
(* Parts of sequences                                                      *)
(***************************************************************************)

LEMMA Cut ==
    ASSUME NEW S, NEW s \in Seq(S), NEW k \in 0..Len(s)
    PROVE  /\ SubSeq(s, 1, k) \in Seq(S) /\ Len(SubSeq(s, 1, k)) = k
           /\ \A i \in 1..k : SubSeq(s, 1, k)[i] = s[i]
           /\ SubSeq(s, k + 1, Len(s)) \in Seq(S) /\ Len(SubSeq(s, k + 1, Len(s))) = Len(s) - k
           /\ \A i \in 1..(Len(s) - k) : SubSeq(s, k + 1, Len(s))[i] = s[k + i]
<1>1. Len(s) \in Nat /\ k \in Nat /\ k <= Len(s) /\ \A i \in 1..Len(s) : s[i] \in S
  BY LenProperties, ElementOfSeq
<1>2. /\ SubSeq(s, 1, k) \in Seq(S) /\ Len(SubSeq(s, 1, k)) = k
      /\ \A i \in 1..k : SubSeq(s, 1, k)[i] = s[i]
<2>1. \A i \in 1..k : s[i] \in S
  BY <1>1
<2>2. 1 \in Int /\ k \in Int
  BY <1>1
<2>3. /\ SubSeq(s, 1, k) \in Seq(S)
      /\ Len(SubSeq(s, 1, k)) = IF 1 <= k THEN k - 1 + 1 ELSE 0
      /\ \A i \in 1..(k - 1 + 1) : SubSeq(s, 1, k)[i] = s[1 + i - 1]
  BY <2>1, <2>2, SubSeqProperties
<2>4. k - 1 + 1 = k /\ \A i \in 1..k : 1 + i - 1 = i
  BY <1>1
<2>5. (IF 1 <= k THEN k - 1 + 1 ELSE 0) = k
  BY <1>1
<2>6. \A i \in 1..k : SubSeq(s, 1, k)[i] = s[i]
  BY <2>3, <2>4
<2>7. QED BY <2>3, <2>5, <2>6
<1>3. /\ SubSeq(s, k + 1, Len(s)) \in Seq(S) /\ Len(SubSeq(s, k + 1, Len(s))) = Len(s) - k
      /\ \A i \in 1..(Len(s) - k) : SubSeq(s, k + 1, Len(s))[i] = s[k + i]
<2>1. \A i \in (k + 1)..Len(s) : s[i] \in S
  BY <1>1
<2>2. k + 1 \in Int /\ Len(s) \in Int
  BY <1>1
<2>3. /\ SubSeq(s, k + 1, Len(s)) \in Seq(S)
      /\ Len(SubSeq(s, k + 1, Len(s))) = IF k + 1 <= Len(s) THEN Len(s) - (k + 1) + 1 ELSE 0
      /\ \A i \in 1..(Len(s) - (k + 1) + 1) : SubSeq(s, k + 1, Len(s))[i] = s[(k + 1) + i - 1]
  BY <2>1, <2>2, SubSeqProperties
<2>4. Len(s) - (k + 1) + 1 = Len(s) - k /\ \A i \in 1..(Len(s) - k) : (k + 1) + i - 1 = k + i
  BY <1>1
<2>5. (IF k + 1 <= Len(s) THEN Len(s) - (k + 1) + 1 ELSE 0) = Len(s) - k
  BY <1>1
<2>6. \A i \in 1..(Len(s) - k) : SubSeq(s, k + 1, Len(s))[i] = s[k + i]
  BY <2>3, <2>4
<2>7. QED BY <2>3, <2>5, <2>6
<1>4. QED BY <1>2, <1>3

(***************************************************************************)
(* Tokens, and who has subscribed to whom                                  *)
(***************************************************************************)

LEMMA TokensAre ==
    ASSUME NEW b \in Blocks, NEW k \in Nat, tokens[b] \subseteq 1..NumTokens
    PROVE  /\ Tokens(b, k) \in Seq(0..NumTokens) /\ Len(Tokens(b, k)) = k
           /\ \A i \in 1..k : Tokens(b, k)[i] \in tokens[b] \cup {0}
           /\ \A i, j \in 1..k : Tokens(b, k)[i] = Tokens(b, k)[j] => i = j \/ Tokens(b, k)[i] = 0
<1> DEFINE S == tokens[b]
           n == Cardinality(S)
           free == SetToSeq(S)
<1>0. NumTokens \in Nat
  BY SizesAssumption
<1>1. n \in Nat /\ ExistsBijection(1..n, S)
<2>1. IsFiniteSet(1..NumTokens)
  BY <1>0, FS_Interval
<2>2. IsFiniteSet(S)
  BY <2>1, FS_Subset
<2>3. QED BY <2>2, FS_CardinalityType
<1>2. \E f \in [1..n -> S] : IsInjective(f)
<2>1. PICK f : f \in Bijection(1..n, S)
  BY <1>1 DEF ExistsBijection
<2>2. f \in [1..n -> S] /\ IsInjective(f)
  BY <2>1 DEF Bijection, Injection, IsInjective
<2>3. QED BY <2>2
<1>3. free \in [1..n -> S] /\ IsInjective(free)
  BY <1>2 DEF SetToSeq
<1>4. Len(free) = n /\ \A i \in 1..n : free[i] \in S
  BY <1>1, <1>3
<1>5. \A i, j \in 1..n : free[i] = free[j] => i = j
  BY <1>3 DEF IsInjective
<1> HIDE DEF free, n, S
<1> DEFINE popped == [i \in 1..k |-> IF i <= n THEN free[i] ELSE 0]
<1>6. Tokens(b, k) = popped
  BY <1>4 DEF Tokens, free, S
<1>7. \A i \in 1..k : popped[i] \in S \cup {0}
  BY <1>1, <1>4
<1>8. popped \in Seq(0..NumTokens) /\ Len(popped) = k
  BY <1>0, <1>7 DEF S
<1>9. \A i, j \in 1..k : popped[i] = popped[j] => i = j \/ popped[i] = 0
  BY <1>1, <1>4, <1>5 DEF S
<1>10. QED BY <1>6, <1>7, <1>8, <1>9 DEF S

LEMMA TokensReturned ==
    ASSUME NEW b \in Blocks, tokens \in [Blocks -> SUBSET (1..NumTokens)],
           NEW gone \in SUBSET (0..NumTokens)
    PROVE  /\ GivenBack(b, gone) \subseteq 1..NumTokens
           /\ ReturnTokens(b, GivenBack(b, gone)) \in [Blocks -> SUBSET (1..NumTokens)]
           /\ \A c \in Blocks : ReturnTokens(b, GivenBack(b, gone))[c] =
                 IF HasSource(b) /\ c = Source[b] THEN tokens[c] \cup GivenBack(b, gone) ELSE tokens[c]
<1> DEFINE given == GivenBack(b, gone)
<1>1. given \subseteq 1..NumTokens
<2>1. \A x \in 0..NumTokens : x # 0 => x \in 1..NumTokens
  BY SizesAssumption
<2>2. QED BY <2>1 DEF GivenBack
<1> HIDE DEF given
<1>2. ReturnTokens(b, given) = IF HasSource(b) THEN [tokens EXCEPT ![Source[b]] = @ \cup given]
                               ELSE tokens
  BY DEF ReturnTokens
<1>3. \A c \in Blocks : tokens[c] \subseteq 1..NumTokens
  OBVIOUS
<1>4. QED BY <1>1, <1>2, <1>3 DEF given

LEMMA Tree ==
    /\ Blocks \subseteq Nat /\ 1 \in Blocks
    /\ \A b \in Blocks :
          /\ Source[b] \in Nat /\ Source[b] # b /\ Subscribers(b) \subseteq Blocks /\ b \notin Subscribers(b)
          /\ HasSource(b) => Source[b] \in Blocks /\ b \in Subscribers(Source[b])
    /\ \A b \in Blocks : \A c \in Subscribers(b) : Source[c] = b /\ HasSource(c)
    /\ ~HasSource(1)
<1>1. /\ NumBlocks \in Nat \ {0} /\ Blocks = 1..NumBlocks
      /\ \A b \in Blocks : Source[b] \in Nat /\ Source[b] < b /\ (Source[b] = 0 => b = 1)
  BY TreeAssumption DEF Blocks
<1>2. Blocks \subseteq Nat /\ 1 \in Blocks
  BY <1>1
<1>3. ~HasSource(1)
<2>1. Source[1] \in Nat /\ Source[1] < 1
  BY <1>1, <1>2
<2>2. QED BY <2>1 DEF HasSource
<1>4. ASSUME NEW b \in Blocks
      PROVE  /\ Source[b] \in Nat /\ Source[b] # b
             /\ HasSource(b) => Source[b] \in Blocks
<2>1. Source[b] \in Nat /\ Source[b] < b /\ b \in 1..NumBlocks
  BY <1>1
<2>2. QED BY <2>1, <1>1 DEF HasSource
<1>5. \A b \in Blocks : \A c \in Subscribers(b) : Source[c] = b /\ HasSource(c) /\ c \in Blocks
<2>1. 0 \notin Blocks
  BY <1>1
<2>2. QED BY <2>1 DEF Subscribers, HasSource
<1>6. \A b \in Blocks : b \notin Subscribers(b)
  BY <1>4, <1>5
<1>7. \A b \in Blocks : HasSource(b) => b \in Subscribers(Source[b])
  BY DEF Subscribers
<1>8. QED BY <1>2, <1>3, <1>4, <1>5, <1>6, <1>7

(***************************************************************************)
(* What the helpers do to the managers                                     *)
(***************************************************************************)

Managers ==
    /\ ready \in [Blocks -> Seq(1..NumBuffers)] /\ room \in [Blocks -> 0..BufSize]
    /\ \A b \in Blocks : room[b] = 0 <=> ready[b] = <<>>

Chunks == chunks \in [Blocks -> Seq(ChunkRecords)]

\* Buffers are appended to those of one manager.
LEMMA PushedBuffers ==
    ASSUME NEW b \in Blocks, NEW buffers \in Seq(1..NumBuffers), Managers, PushBuffers(b, buffers)
    PROVE  /\ Managers'
           /\ ready' = [ready EXCEPT ![b] = @ \o buffers]
           /\ \A c \in Blocks : room'[c] >= room[c] /\ (ready[c] # <<>> => room'[c] = room[c])
           /\ \A c \in Blocks : c # b => room'[c] = room[c] /\ ready'[c] = ready[c]
           /\ ready[b] = <<>> /\ buffers # <<>> => room'[b] = BufSize
<1>0. BufSize \in Nat /\ BufSize > 0
  BY SizesAssumption
<1>1. CASE buffers = <<>>
<2>1. UNCHANGED managers
  BY <1>1 DEF PushBuffers
<2>2. ready' = ready /\ room' = room
  BY <2>1 DEF managers
<2>3. ready[b] \o <<>> = ready[b]
  BY ConcatEmptySeq DEF Managers
<2>4. ready' = [ready EXCEPT ![b] = @ \o buffers]
  BY <1>1, <2>2, <2>3 DEF Managers
<2>5. \A c \in Blocks : room[c] \in Nat
  BY <1>0 DEF Managers
<2>6. Managers'
  BY <2>2 DEF Managers
<2>7. \A c \in Blocks : room'[c] = room[c] /\ ready'[c] = ready[c] /\ room'[c] >= room[c]
  BY <2>2, <2>5
<2>8. QED BY <1>1, <2>4, <2>6, <2>7
<1>2. CASE buffers # <<>>
<2>1. /\ ready' = [ready EXCEPT ![b] = @ \o buffers]
      /\ room' = [room EXCEPT ![b] = IF ready[b] = <<>> THEN BufSize ELSE @]
  BY <1>2 DEF PushBuffers
<2>2. ready[b] \o buffers \in Seq(1..NumBuffers) /\ ready[b] \o buffers # <<>>
  BY <1>2, ConcatProperties, ConcatEqualIffEmpty DEF Managers
<2>3. ready' \in [Blocks -> Seq(1..NumBuffers)]
  BY <2>1, <2>2 DEF Managers
<2>4. room' \in [Blocks -> 0..BufSize] /\ \A c \in Blocks : room[c] \in 0..BufSize
  BY <1>0, <2>1 DEF Managers
<2>5. \A c \in Blocks : c # b => room'[c] = room[c] /\ ready'[c] = ready[c]
  BY <2>1 DEF Managers
<2>6. room'[b] = (IF ready[b] = <<>> THEN BufSize ELSE room[b]) /\ ready'[b] # <<>>
  BY <2>1, <2>2 DEF Managers
<2>7. \A c \in Blocks : room'[c] = 0 <=> ready'[c] = <<>>
  BY <1>0, <2>5, <2>6 DEF Managers
<2>8. Managers'
  BY <2>3, <2>4, <2>7 DEF Managers
<2>9. \A c \in Blocks : room'[c] >= room[c] /\ (ready[c] # <<>> => room'[c] = room[c])
  BY <1>0, <2>4, <2>5, <2>6
<2>10. QED BY <2>1, <2>5, <2>6, <2>8, <2>9
<1>3. QED BY <1>1, <1>2

LEMMA HeldAre ==
    ASSUME NEW queue \in Seq(ChunkRecords)
    PROVE  /\ Held(queue) \subseteq 1..NumBuffers
           /\ \A k : k \in Held(queue) <=> k # 0 /\ \E i \in 1..Len(queue) : queue[i].buf = k
<1>1. \A k : k \in Held(queue) <=> k # 0 /\ \E i \in 1..Len(queue) : queue[i].buf = k
  BY DEF Held, Range
<1>2. \A i \in 1..Len(queue) : queue[i].buf \in 0..NumBuffers
<2>1. \A i \in 1..Len(queue) : queue[i] \in ChunkRecords
  OBVIOUS
<2>2. QED BY <2>1 DEF ChunkRecords
<1>3. \A k \in 0..NumBuffers : k # 0 => k \in 1..NumBuffers
  BY SizesAssumption
<1>4. QED BY <1>1, <1>2, <1>3

LEMMA ReturnedAre ==
    ASSUME NEW b \in Blocks, Chunks, NEW queue \in Seq(ChunkRecords)
    PROVE  Returned(b, queue) \in Seq(1..NumBuffers)
<1> DEFINE gone == Held(chunks[b]) \
                     (Held(queue) \cup References(Source[b], Subscribers(Source[b]) \ {b}))
<1>1. chunks[b] \in Seq(ChunkRecords)
  BY DEF Chunks
<1>2. gone \subseteq 1..NumBuffers
  BY <1>1, HeldAre
<1> HIDE DEF gone
<1>3. BuffersIn(chunks[b], gone) \in Seq(gone)
  BY <1>1, BuffersFound
<1>4. BuffersIn(chunks[b], gone) \in Seq(1..NumBuffers)
  BY <1>2, <1>3, SeqMonotonic
<1>5. Returned(b, queue) = BuffersIn(chunks[b], gone)
  BY DEF Returned, gone
<1>6. QED BY <1>4, <1>5

\* The queue of one block is replaced, the managers only gain.
LEMMA ReturnedBuffers ==
    ASSUME NEW b \in Blocks, Chunks, Managers, NEW queue \in Seq(ChunkRecords),
           NEW flagging, ReturnBuffers(b, queue, flagging)
    PROVE  /\ Chunks' /\ chunks'[b] = queue /\ \A c \in Blocks : c # b => chunks'[c] = chunks[c]
           /\ Managers'
           /\ \A c \in Blocks : room'[c] >= room[c] /\ (ready[c] # <<>> => room'[c] = room[c])
           /\ \A c \in Blocks :
                 ~(HasSource(b) /\ c = Source[b]) => room'[c] = room[c] /\ ready'[c] = ready[c]
           /\ HasSource(b) => /\ ready'[Source[b]] = ready[Source[b]] \o Returned(b, queue)
                              /\ ready[Source[b]] = <<>> /\ Returned(b, queue) # <<>> =>
                                    room'[Source[b]] = BufSize
           /\ flag' = Flagged(flagging \cup Told(b, queue))
<1>1. chunks' = [chunks EXCEPT ![b] = queue] /\ flag' = Flagged(flagging \cup Told(b, queue))
  BY DEF ReturnBuffers
<1>2. Chunks' /\ chunks'[b] = queue /\ \A c \in Blocks : c # b => chunks'[c] = chunks[c]
  BY <1>1 DEF Chunks
<1>3. CASE HasSource(b)
<2> DEFINE s == Source[b]
<2>1. s \in Blocks
  BY <1>3, Tree
<2>2. Returned(b, queue) \in Seq(1..NumBuffers)
  BY ReturnedAre
<2>3. PushBuffers(s, Returned(b, queue))
  BY <1>3 DEF ReturnBuffers
<2> HIDE DEF s
<2>4. /\ Managers'
      /\ ready' = [ready EXCEPT ![s] = @ \o Returned(b, queue)]
      /\ \A c \in Blocks : room'[c] >= room[c] /\ (ready[c] # <<>> => room'[c] = room[c])
      /\ \A c \in Blocks : c # s => room'[c] = room[c] /\ ready'[c] = ready[c]
      /\ ready[s] = <<>> /\ Returned(b, queue) # <<>> => room'[s] = BufSize
  BY <2>1, <2>2, <2>3, PushedBuffers
<2>5. ready'[s] = ready[s] \o Returned(b, queue)
  BY <2>1, <2>4 DEF Managers
<2>6. QED BY <1>1, <1>2, <1>3, <2>4, <2>5 DEF s
<1>4. CASE ~HasSource(b)
<2>1. ready' = ready /\ room' = room
  BY <1>4 DEF ReturnBuffers, managers
<2>2. \A c \in Blocks : room[c] >= room[c]
  BY SizesAssumption DEF Managers
<2>3. Managers'
  BY <2>1 DEF Managers
<2>4. QED BY <1>1, <1>2, <1>4, <2>1, <2>2, <2>3
<1>5. QED BY <1>3, <1>4

(***************************************************************************)
(* Passes and counts                                                       *)
(***************************************************************************)

\* Is what b has produced still owed to its subscriber c?
Owed(b, c) == pc[b] = "post" \/ (pc[b] = "push" /\ c \in pass[b].subscribers)

Due(b, c) == IF Owed(b, c) THEN pass[b].produce ELSE 0

\* Where a pass is, and what it may still do
PassFits(b) ==
    /\ pc[b] \in {"outputs", "post", "push"} => HasOutput(b)
    /\ pc[b] \in {"idle", "outputs"} => pass[b] = NoPass
    /\ pc[b] # "push" => pass[b].posted = 0 /\ pass[b].subscribers = {}
    /\ pass[b].subscribers \subseteq Subscribers(b)
    /\ pc[b] \in {"inputs", "work", "consume", "post"} => pass[b].outElems <= room[b]
    /\ pc[b] \in {"consume", "post"} => pass[b].produce <= pass[b].outElems
    /\ pc[b] \in {"work", "consume"} => pass[b].inElems <= FrontElements(chunks[b])
    /\ pc[b] = "consume" => /\ pass[b].consume <= pass[b].inElems
                            /\ HasOutput(b) => pass[b].produce <= pass[b].consume
    /\ pc[b] = "push" => (pass[b].produce > 0 <=> pass[b].posted # 0)

Fits == \A b \in Blocks : PassFits(b)

\* What has arrived is consumed or queued ...
Queued(b) == consumed[b] + Elements(chunks[b]) = arrived[b]

\* ... and is no more than the source has consumed.
Passed(c) == HasSource(c) => arrived[c] + Due(Source[c], c) <= consumed[Source[c]]

Counts ==
    /\ \A b \in Blocks : Queued(b)
    /\ \A c \in Blocks : Passed(c)
    /\ arrived[1] + left.elements = MaxElements

\* The inductive invariant of TypeOK
TypesAndCounts == TypeOK /\ Fits /\ Counts

States == {"idle", "outputs", "inputs", "work", "consume", "post", "push"}

LEMMA Went ==
    ASSUME NEW b \in Blocks, NEW from, NEW to \in States, TypeOK, Goto(b, from, to)
    PROVE  /\ pc[b] = from /\ pc' \in [Blocks -> States] /\ pc'[b] = to
           /\ \A c \in Blocks : c # b => pc'[c] = pc[c]
  BY DEF Goto, TypeOK, States

LEMMA PassIs ==
    ASSUME NEW b \in Blocks, TypeOK
    PROVE  /\ pass[b] \in PassRecords
           /\ pass[b].outElems \in Nat /\ pass[b].inElems \in Nat /\ pass[b].consume \in Nat
           /\ pass[b].produce \in Nat /\ pass[b].produce \in 0..BufSize
           /\ pass[b].posted \in 0..NumBuffers
           /\ room[b] \in Nat /\ consumed[b] \in Nat /\ arrived[b] \in Nat
           /\ left.elements \in Nat
           /\ chunks[b] \in Seq(ChunkRecords)
           /\ Elements(chunks[b]) \in Nat /\ FrontElements(chunks[b]) \in Nat
<1>0. BufSize \in Nat /\ MaxElements \in Nat /\ NumBuffers \in Nat
  BY SizesAssumption, BudgetAssumption
<1>1. pass[b] \in PassRecords /\ chunks[b] \in Seq(ChunkRecords)
  BY DEF TypeOK
<1>2. /\ pass[b].outElems \in 0..BufSize /\ pass[b].inElems \in Nat /\ pass[b].consume \in Nat
      /\ pass[b].produce \in 0..BufSize /\ pass[b].posted \in 0..NumBuffers
  BY <1>1 DEF PassRecords
<1>3. room[b] \in 0..BufSize /\ consumed[b] \in 0..MaxElements /\ arrived[b] \in 0..MaxElements
      /\ left.elements \in 0..MaxElements
  BY DEF TypeOK
<1>4. Elements(chunks[b]) \in Nat /\ FrontElements(chunks[b]) \in Nat
  BY <1>1, ElementsCount
<1>5. QED BY <1>0, <1>1, <1>2, <1>3, <1>4

\* A block whose pass does not move: its room and its front only grow.
LEMMA FitsOnly ==
    ASSUME NEW b \in Blocks, TypeOK, PassFits(b), pc'[b] = pc[b], pass'[b] = pass[b],
           room'[b] \in Nat, room'[b] >= room[b],
           FrontElements(chunks'[b]) \in Nat, FrontElements(chunks'[b]) >= FrontElements(chunks[b])
    PROVE  PassFits(b)'
<1>1. /\ pass[b].outElems \in Nat /\ pass[b].inElems \in Nat /\ room[b] \in Nat
      /\ FrontElements(chunks[b]) \in Nat
  BY PassIs
<1>2. pc[b] \in {"inputs", "work", "consume", "post"} => pass[b].outElems <= room'[b]
  BY <1>1 DEF PassFits
<1>3. pc[b] \in {"work", "consume"} => pass[b].inElems <= FrontElements(chunks'[b])
  BY <1>1 DEF PassFits
<1>4. FrontElements(chunks[b])' = FrontElements(chunks'[b])
  BY DEF FrontElements
<1>5. HasOutput(b)' = HasOutput(b) /\ Subscribers(b)' = Subscribers(b)
  BY DEF HasOutput, Subscribers
<1> HIDE DEF FrontElements
<1>6. QED BY <1>2, <1>3, <1>4 DEF PassFits

LEMMA PassedOnly ==
    ASSUME NEW c \in Blocks, TypeOK, Passed(c), arrived'[c] = arrived[c],
           HasSource(c) => /\ pc'[Source[c]] = pc[Source[c]] /\ pass'[Source[c]] = pass[Source[c]]
                           /\ consumed'[Source[c]] = consumed[Source[c]]
    PROVE  Passed(c)'
  BY DEF Passed, Due, Owed

LEMMA StartPassTypes ==
    ASSUME TypesAndCounts, NEW b \in Blocks, StartPass(b)
    PROVE  TypesAndCounts'
<1> USE DEF TypesAndCounts
<1> DEFINE to == IF ~active[b] THEN "idle" ELSE IF HasOutput(b) THEN "outputs" ELSE "inputs"
<1>1. /\ Goto(b, "idle", to) /\ flag' = [flag EXCEPT ![b] = FALSE]
      /\ active' = active /\ pass' = pass /\ room' = room /\ ready' = ready
      /\ chunks' = chunks /\ inputLabels' = inputLabels /\ labels' = labels
      /\ postedLabels' = postedLabels
      /\ messages' = messages /\ slotCalls' = slotCalls /\ tokens' = tokens
      /\ arrived' = arrived /\ consumed' = consumed /\ delivered' = delivered /\ left' = left
  BY DEF StartPass, flowVars, ioVars, managers, ghosts
<1>2. to \in States /\ (to = "outputs" => HasOutput(b)) /\ to \in {"idle", "outputs", "inputs"}
  BY DEF States
<1> HIDE DEF to
<1>3. pc[b] = "idle" /\ pc' \in [Blocks -> States] /\ pc'[b] = to
      /\ \A c \in Blocks : c # b => pc'[c] = pc[c]
  BY <1>1, <1>2, Went
<1>4. TypeOK'
  BY <1>1, <1>3 DEF TypeOK, States
<1>5. ASSUME NEW c \in Blocks PROVE PassFits(c)'
<2>1. room'[c] \in Nat /\ room'[c] >= room[c] /\ FrontElements(chunks'[c]) \in Nat
      /\ FrontElements(chunks'[c]) >= FrontElements(chunks[c])
  BY <1>1, PassIs
<2>2. CASE c # b
  BY <1>1, <1>3, <2>1, <2>2, FitsOnly DEF Fits
<2>3. CASE c = b
<3>1. pass[b] = NoPass
  BY <1>3 DEF Fits, PassFits
<3>2. pass[b].posted = 0 /\ pass[b].outElems = 0 /\ pass[b].subscribers = {} /\ room[b] \in Nat
  BY <3>1, PassIs DEF NoPass
<3>3. QED BY <1>1, <1>2, <1>3, <2>3, <3>1, <3>2 DEF PassFits
<2>4. QED BY <2>2, <2>3
<1>6. ASSUME NEW c \in Blocks PROVE Passed(c)'
<2>1. ~Owed(b, c) /\ ~Owed(b, c)'
  BY <1>1, <1>2, <1>3 DEF Owed
<2>2. \A a \in Blocks : a # b => Owed(a, c)' = Owed(a, c)
  BY <1>1, <1>3 DEF Owed
<2>3. HasSource(c) => Source[c] \in Blocks
  BY Tree
<2>4. HasSource(c) => Due(Source[c], c)' = Due(Source[c], c)
  BY <1>1, <2>1, <2>2, <2>3 DEF Due
<2>5. QED BY <1>1, <2>4 DEF Passed, Counts
<1>7. QED BY <1>1, <1>4, <1>5, <1>6 DEF Fits, Counts, Queued

LEMMA PreWorkOutputsTypes ==
    ASSUME TypesAndCounts, NEW b \in Blocks, PreWorkOutputs(b)
    PROVE  TypesAndCounts'
<1> USE DEF TypesAndCounts
<1> DEFINE p == [NoPass EXCEPT !.ready = ready[b] # <<>> /\ tokens[b] # {},
                               !.outElems = IF ready[b] # <<>> THEN room[b] ELSE 0]
<1>1. /\ Goto(b, "outputs", "inputs") /\ pass' = [pass EXCEPT ![b] = p]
      /\ flag' = flag /\ active' = active /\ room' = room /\ ready' = ready
      /\ chunks' = chunks /\ inputLabels' = inputLabels /\ labels' = labels
      /\ postedLabels' = postedLabels
      /\ messages' = messages /\ slotCalls' = slotCalls /\ tokens' = tokens
      /\ arrived' = arrived /\ consumed' = consumed /\ delivered' = delivered /\ left' = left
  BY DEF PreWorkOutputs, flowVars, ioVars, managers, ghosts
<1>2. /\ p \in PassRecords /\ p.outElems <= room[b] /\ p.posted = 0 /\ p.subscribers = {}
<2> DEFINE may == ready[b] # <<>> /\ tokens[b] # {}
           space == IF ready[b] # <<>> THEN room[b] ELSE 0
<2>1. room[b] \in 0..BufSize /\ 0 \in 0..BufSize /\ 0 \in 0..NumBuffers
  BY SizesAssumption DEF TypeOK
<2>2. space \in 0..BufSize /\ space <= room[b] /\ may \in BOOLEAN
  BY <2>1
<2>3. p = [NoPass EXCEPT !.ready = may, !.outElems = space]
  OBVIOUS
<2> HIDE DEF may, space, p
<2>4. p = [ready |-> may, outElems |-> space, inElems |-> 0,
           consume |-> 0, produce |-> 0, inEvents |-> FALSE, outEvents |-> FALSE,
           posted |-> 0, subscribers |-> {}]
  BY <2>3 DEF NoPass
<2>5. QED BY <2>1, <2>2, <2>4 DEF PassRecords
<1> HIDE DEF p
<1>3. pc[b] = "outputs" /\ pc' \in [Blocks -> States] /\ pc'[b] = "inputs"
      /\ \A c \in Blocks : c # b => pc'[c] = pc[c]
<2>1. "inputs" \in States
  BY DEF States
<2>2. QED BY <1>1, <2>1, Went
<1>4. pass' \in [Blocks -> PassRecords] /\ pass'[b] = p /\ \A c \in Blocks : c # b => pass'[c] = pass[c]
  BY <1>1, <1>2 DEF TypeOK
<1>5. TypeOK'
  BY <1>1, <1>3, <1>4 DEF TypeOK, States
<1>6. ASSUME NEW c \in Blocks PROVE PassFits(c)'
<2>1. room'[c] \in Nat /\ room'[c] >= room[c] /\ FrontElements(chunks'[c]) \in Nat
      /\ FrontElements(chunks'[c]) >= FrontElements(chunks[c])
  BY <1>1, PassIs
<2>2. CASE c # b
  BY <1>3, <1>4, <2>1, <2>2, FitsOnly DEF Fits
<2>3. CASE c = b
  BY <1>1, <1>2, <1>3, <1>4, <2>3 DEF PassFits
<2>4. QED BY <2>2, <2>3
<1>7. ASSUME NEW c \in Blocks PROVE Passed(c)'
<2>1. ~Owed(b, c) /\ ~Owed(b, c)'
  BY <1>3 DEF Owed
<2>2. \A a \in Blocks : a # b => Due(a, c)' = Due(a, c)
  BY <1>3, <1>4 DEF Owed, Due
<2>3. HasSource(c) => Source[c] \in Blocks
  BY Tree
<2>4. HasSource(c) => Due(Source[c], c)' = Due(Source[c], c)
  BY <2>1, <2>2, <2>3 DEF Due
<2>5. QED BY <1>1, <2>4 DEF Passed, Counts
<1>8. QED BY <1>1, <1>5, <1>6, <1>7 DEF Fits, Counts, Queued

LEMMA WorkTypes ==
    ASSUME TypesAndCounts, NEW b \in Blocks, Work(b)
    PROVE  TypesAndCounts'
<1> USE DEF TypesAndCounts
<1>0. PICK n \in Consumable(b), k \in Poppable(b) :
          LET posted == IF HasOutput(b) THEN Tokens(b, k) ELSE <<>>
              given == GivenBack(b, Range(SubSeq(messages[b], 1, k)))
          IN  /\ messages' = [c \in Blocks |->
                    IF c = b THEN SubSeq(messages[b], k + 1, Len(messages[b]))
                    ELSE IF c \in Subscribers(b) THEN messages[c] \o posted ELSE messages[c]]
              /\ tokens' = [ReturnTokens(b, given) EXCEPT ![b] = @ \ Range(posted)]
              /\ flag' = Flagged((IF k > 0 THEN Subscribers(b) ELSE {}) \cup TokensTold(b, given))
              /\ pass' = [pass EXCEPT ![b] = Worked(b, n, k)]
              /\ UNCHANGED <<active, flowVars, slotCalls, managers, ghosts, left>>
  BY Zenon DEF Work
<1> DEFINE produce == IF HasOutput(b) THEN n \div Decimation[b] ELSE 0
           posted == IF HasOutput(b) THEN Tokens(b, k) ELSE <<>>
           given == GivenBack(b, Range(SubSeq(messages[b], 1, k)))
           p == Worked(b, n, k)
<1>1. /\ Goto(b, "work", "consume") /\ pass' = [pass EXCEPT ![b] = p]
      /\ active' = active /\ room' = room /\ ready' = ready
      /\ chunks' = chunks /\ inputLabels' = inputLabels /\ labels' = labels
      /\ postedLabels' = postedLabels /\ slotCalls' = slotCalls
      /\ arrived' = arrived /\ consumed' = consumed /\ delivered' = delivered /\ left' = left
<2>1. Goto(b, "work", "consume")
  BY DEF Work
<2>2. pass' = [pass EXCEPT ![b] = p]
  BY <1>0
<2>3. UNCHANGED <<active, flowVars, slotCalls, managers, ghosts, left>>
  BY <1>0
<2>4. QED BY <2>1, <2>2, <2>3 DEF flowVars, managers, ghosts
<1>2. /\ messages' = [c \in Blocks |->
            IF c = b THEN SubSeq(messages[b], k + 1, Len(messages[b]))
            ELSE IF c \in Subscribers(b) THEN messages[c] \o posted ELSE messages[c]]
      /\ tokens' = [ReturnTokens(b, given) EXCEPT ![b] = @ \ Range(posted)]
      /\ flag' = Flagged((IF k > 0 THEN Subscribers(b) ELSE {}) \cup TokensTold(b, given))
  BY <1>0
<1>3. /\ n \in Nat /\ n <= pass[b].inElems
      /\ HasOutput(b) => n \div Decimation[b] <= pass[b].outElems
      /\ k \in Nat /\ k <= Len(messages[b])
<2>1. pass[b].inElems \in Nat /\ pass[b].outElems \in Nat /\ Decimation[b] \in Nat \ {0}
      /\ messages[b] \in Seq(0..NumTokens)
  BY PassIs, TreeAssumption DEF TypeOK
<2>2. n = 0 \/ (n \in 1..pass[b].inElems /\ (HasOutput(b) => n \div Decimation[b] <= pass[b].outElems))
  BY DEF Consumable
<2>3. k = 0 \/ k \in 1..Len(messages[b])
  BY DEF Poppable
<2>4. 0 \div Decimation[b] = 0
  BY <2>1
<2>5. QED BY <2>1, <2>2, <2>3, <2>4
<1>4. produce \in 0..BufSize /\ produce <= n /\ produce <= pass[b].outElems
<2>1. Decimation[b] \in Nat \ {0} /\ pass[b].outElems \in 0..BufSize /\ BufSize \in Nat
  BY PassIs, TreeAssumption, SizesAssumption DEF PassRecords
<2>2. n \div Decimation[b] \in Nat /\ n \div Decimation[b] <= n
  BY <1>3, <2>1
<2>3. QED BY <1>3, <2>1, <2>2
<1> HIDE DEF produce
<1>5. /\ p \in PassRecords /\ p.consume = n /\ p.produce = produce /\ p.posted = pass[b].posted
      /\ p.subscribers = pass[b].subscribers /\ p.outElems = pass[b].outElems
      /\ p.inElems = pass[b].inElems
<2>1. PICK r \in PassRecords : r = pass[b]
  BY PassIs
<2> DEFINE ins == k > 0
           outs == HasOutput(b) /\ (r.outEvents \/ k > 0)
<2>2. p = [r EXCEPT !.consume = n, !.produce = produce, !.inEvents = ins, !.outEvents = outs]
  BY <2>1 DEF Worked, produce
<2>3. ins \in BOOLEAN /\ outs \in BOOLEAN
  OBVIOUS
<2> HIDE DEF p, ins, outs
<2>4. QED BY <2>1, <2>2, <2>3, <1>3, <1>4 DEF PassRecords
<1> HIDE DEF p, posted, given
<1>6. pc[b] = "work" /\ pc' \in [Blocks -> States] /\ pc'[b] = "consume"
      /\ \A c \in Blocks : c # b => pc'[c] = pc[c]
<2>1. "consume" \in States
  BY DEF States
<2>2. QED BY <1>1, <2>1, Went
<1>7. pass' \in [Blocks -> PassRecords] /\ pass'[b] = p /\ \A c \in Blocks : c # b => pass'[c] = pass[c]
  BY <1>1, <1>5 DEF TypeOK
<1>8. TypeOK'
<2>1. messages' \in [Blocks -> Seq(0..NumTokens)]
<3>1. posted \in Seq(0..NumTokens)
<4>1. tokens[b] \subseteq 1..NumTokens
  BY DEF TypeOK
<4>2. Tokens(b, k) \in Seq(0..NumTokens)
  BY <1>3, <4>1, TokensAre
<4>3. <<>> \in Seq(0..NumTokens)
  OBVIOUS
<4>4. QED BY <4>2, <4>3 DEF posted
<3>2. \A c \in Blocks : messages[c] \in Seq(0..NumTokens) /\ messages[c] \o posted \in Seq(0..NumTokens)
  BY <3>1 DEF TypeOK
<3>3. SubSeq(messages[b], k + 1, Len(messages[b])) \in Seq(0..NumTokens)
<4>1. messages[b] \in Seq(0..NumTokens) /\ k \in 0..Len(messages[b])
  BY <3>2, <1>3
<4>2. QED BY <4>1, Cut
<3>4. QED BY <1>2, <3>2, <3>3
<2>2. tokens' \in [Blocks -> SUBSET (1..NumTokens)]
<3>1. Range(SubSeq(messages[b], 1, k)) \subseteq 0..NumTokens
<4>1. messages[b] \in Seq(0..NumTokens) /\ k \in 0..Len(messages[b])
  BY <1>3 DEF TypeOK
<4>2. SubSeq(messages[b], 1, k) \in Seq(0..NumTokens)
  BY <4>1, Cut
<4>3. QED BY <4>2, RangeOfSeq
<3>2. ReturnTokens(b, given) \in [Blocks -> SUBSET (1..NumTokens)]
  BY <3>1, TokensReturned DEF given, TypeOK
<3>3. QED BY <1>2, <3>2
<2>3. flag' \in [Blocks -> BOOLEAN]
  BY <1>2 DEF Flagged, TypeOK
<2>4. QED BY <1>1, <1>6, <1>7, <2>1, <2>2, <2>3 DEF TypeOK, States
<1>9. ASSUME NEW c \in Blocks PROVE PassFits(c)'
<2>1. room'[c] \in Nat /\ room'[c] >= room[c] /\ FrontElements(chunks'[c]) \in Nat
      /\ FrontElements(chunks'[c]) >= FrontElements(chunks[c])
  BY <1>1, PassIs
<2>2. CASE c # b
  BY <1>6, <1>7, <2>1, <2>2, FitsOnly DEF Fits
<2>3. CASE c = b
<3>1. PassFits(b)
  BY DEF Fits
<3>2. QED BY <1>1, <1>3, <1>4, <1>5, <1>6, <1>7, <2>3, <3>1 DEF PassFits
<2>4. QED BY <2>2, <2>3
<1>10. ASSUME NEW c \in Blocks PROVE Passed(c)'
<2>1. ~Owed(b, c) /\ ~Owed(b, c)'
  BY <1>6 DEF Owed
<2>2. \A a \in Blocks : a # b => Due(a, c)' = Due(a, c)
  BY <1>6, <1>7 DEF Owed, Due
<2>3. HasSource(c) => Source[c] \in Blocks
  BY Tree
<2>4. HasSource(c) => Due(Source[c], c)' = Due(Source[c], c)
  BY <2>1, <2>2, <2>3 DEF Due
<2>5. QED BY <1>1, <2>4 DEF Passed, Counts
<1>11. QED BY <1>1, <1>8, <1>9, <1>10 DEF Fits, Counts, Queued

LEMMA PoppedBuffer ==
    ASSUME NEW b \in Blocks, NEW n \in Nat, Managers, n <= room[b], PopBuffer(b, n)
    PROVE  /\ Managers'
           /\ \A c \in Blocks : c # b => room'[c] = room[c] /\ ready'[c] = ready[c]
           /\ n > 0 => ready[b] # <<>>
           /\ \/ ready'[b] = ready[b] /\ room'[b] = room[b] - n
              \/ n > 0 /\ ready'[b] = Tail(ready[b])
<1>0. room[b] \in Nat /\ room[b] <= BufSize /\ BufSize \in Nat /\ BufSize > 0
      /\ ready[b] \in Seq(1..NumBuffers)
  BY SizesAssumption DEF Managers
<1>1. n > 0 => ready[b] # <<>>
  BY <1>0 DEF Managers
<1>2. CASE n = 0
<2>1. room' = room /\ ready' = ready
  BY <1>2 DEF PopBuffer, managers
<2>2. Managers'
  BY <2>1 DEF Managers
<2>3. QED BY <1>0, <1>2, <2>1, <2>2
<1>3. CASE n # 0 /\ UsedAgain(b, n)
<2>1. room' = [room EXCEPT ![b] = @ - n] /\ ready' = ready /\ room[b] >= 2 * n
  BY <1>3 DEF PopBuffer, UsedAgain
<2>2. room[b] - n \in 0..BufSize /\ room[b] - n # 0
  BY <1>0, <1>3, <2>1
<2>3. Managers'
  BY <2>1, <2>2, <1>1, <1>3 DEF Managers
<2>4. QED BY <1>1, <2>1, <2>3 DEF Managers
<1>4. CASE n # 0 /\ ~UsedAgain(b, n)
<2>1. /\ ready' = [ready EXCEPT ![b] = Tail(@)]
      /\ room' = [room EXCEPT ![b] = IF Len(ready[b]) = 1 THEN 0 ELSE BufSize]
  BY <1>4 DEF PopBuffer
<2>2. /\ ready[b] # <<>> /\ Tail(ready[b]) \in Seq(1..NumBuffers)
      /\ Len(Tail(ready[b])) = Len(ready[b]) - 1 /\ Len(ready[b]) \in Nat
<3>1. ready[b] # <<>>
  BY <1>1, <1>4
<3>2. Tail(ready[b]) \in Seq(1..NumBuffers) /\ Len(Tail(ready[b])) = Len(ready[b]) - 1
  BY <1>0, <3>1, HeadTailProperties
<3>3. QED BY <1>0, <3>1, <3>2
<2>3. Tail(ready[b]) = <<>> <=> Len(ready[b]) = 1
<3>1. \A s \in Seq(1..NumBuffers) : s = <<>> <=> Len(s) = 0
  OBVIOUS
<3>2. Tail(ready[b]) = <<>> <=> Len(Tail(ready[b])) = 0
  BY <2>2, <3>1
<3>3. QED BY <2>2, <3>2
<2>4. ready' \in [Blocks -> Seq(1..NumBuffers)] /\ ready'[b] = Tail(ready[b])
  BY <2>1, <2>2 DEF Managers
<2>5. room' \in [Blocks -> 0..BufSize] /\ room'[b] = IF Len(ready[b]) = 1 THEN 0 ELSE BufSize
  BY <1>0, <2>1 DEF Managers
<2>6. \A c \in Blocks : c # b => room'[c] = room[c] /\ ready'[c] = ready[c]
  BY <2>1 DEF Managers
<2>7. \A c \in Blocks : room'[c] = 0 <=> ready'[c] = <<>>
<3>1. room'[b] = 0 <=> ready'[b] = <<>>
  BY <1>0, <2>3, <2>4, <2>5
<3>2. QED BY <2>6, <3>1 DEF Managers
<2>8. Managers'
  BY <2>4, <2>5, <2>7 DEF Managers
<2>9. QED BY <1>0, <1>1, <1>4, <2>4, <2>6, <2>8
<1>5. QED BY <1>2, <1>3, <1>4

\* Sorting rearranges.
LEMMA SortedAre ==
    ASSUME NEW queue \in Seq(LabelRecords), NEW s \in Sorted(queue)
    PROVE  /\ s \in Seq(LabelRecords) /\ Len(s) = Len(queue)
           /\ \A i \in 1..Len(s) : \E j \in 1..Len(queue) : s[i] = queue[j]
           /\ \A i, j \in 1..Len(s) : i < j => s[i].index <= s[j].index
<1>1. DOMAIN queue = 1..Len(queue) /\ Len(queue) \in Nat
      /\ \A i \in 1..Len(queue) : queue[i] \in LabelRecords
  BY LenProperties, ElementOfSeq
<1>2. PICK order \in Bijection(1..Len(queue), 1..Len(queue)) :
          s = [i \in 1..Len(queue) |-> queue[order[i]]]
  BY <1>1 DEF Sorted
<1>3. order \in [1..Len(queue) -> 1..Len(queue)]
  BY DEF Bijection, Injection
<1>4. s \in Seq(LabelRecords) /\ Len(s) = Len(queue)
  BY <1>1, <1>2, <1>3
<1>5. \A i \in 1..Len(s) : s[i] = queue[order[i]] /\ order[i] \in 1..Len(queue)
  BY <1>2, <1>3, <1>4
<1>6. \A i, j \in 1..Len(s) : i < j => s[i].index <= s[j].index
  BY <1>1, <1>4 DEF Sorted
<1>7. QED BY <1>4, <1>5, <1>6

LEMMA PostWorkOutputsTypes ==
    ASSUME TypesAndCounts, NEW b \in Blocks, PostWorkOutputs(b)
    PROVE  TypesAndCounts'
<1> USE DEF TypesAndCounts
<1> DEFINE n == pass[b].produce
           buf == IF n = 0 THEN 0 ELSE Head(ready[b])
           p == [pass[b] EXCEPT !.subscribers = Subscribers(b), !.posted = buf]
<1>1. /\ Goto(b, "post", "push") /\ PopBuffer(b, n)
      /\ pass' = [pass EXCEPT ![b].subscribers = Subscribers(b), ![b].posted = buf]
      /\ flag' = flag /\ active' = active
      /\ chunks' = chunks /\ inputLabels' = inputLabels /\ labels' = labels
      /\ messages' = messages /\ slotCalls' = slotCalls /\ tokens' = tokens
      /\ arrived' = arrived /\ consumed' = consumed /\ delivered' = delivered /\ left' = left
  BY DEF PostWorkOutputs, ioVars, ghosts
<1>2. PICK sorted \in Sorted(postedLabels[b]) : postedLabels' = [postedLabels EXCEPT ![b] = sorted]
  BY DEF PostWorkOutputs
<1>3. pc[b] = "post" /\ pc' \in [Blocks -> States] /\ pc'[b] = "push"
      /\ \A c \in Blocks : c # b => pc'[c] = pc[c]
<2>1. "push" \in States
  BY DEF States
<2>2. QED BY <1>1, <2>1, Went
<1>4. n \in Nat /\ n <= room[b] /\ HasOutput(b)
  BY <1>3, PassIs DEF Fits, PassFits
<1>5. Managers
  BY DEF Managers, TypeOK
<1>6. /\ Managers'
      /\ \A c \in Blocks : c # b => room'[c] = room[c] /\ ready'[c] = ready[c]
      /\ n > 0 => ready[b] # <<>>
  BY <1>1, <1>4, <1>5, PoppedBuffer
<1>7. buf \in 0..NumBuffers /\ (n > 0 <=> buf # 0)
<2>1. NumBuffers \in Nat
  BY SizesAssumption
<2>2. ready[b] # <<>> => Head(ready[b]) \in 1..NumBuffers
  BY <1>5, HeadTailProperties DEF Managers
<2>3. QED BY <1>4, <1>6, <2>1, <2>2
<1> HIDE DEF n, buf
<1>8. /\ p \in PassRecords /\ p.produce = n /\ p.posted = buf /\ p.subscribers = Subscribers(b)
<2>1. PICK r \in PassRecords : r = pass[b]
  BY PassIs
<2>2. p = [r EXCEPT !.subscribers = Subscribers(b), !.posted = buf] /\ r.produce = n
  BY <2>1 DEF n
<2>3. Subscribers(b) \in SUBSET Blocks
  BY Tree
<2> HIDE DEF p
<2>4. QED BY <2>2, <2>3, <1>7 DEF PassRecords
<1>9. pass' = [pass EXCEPT ![b] = p]
  BY <1>1
<1> HIDE DEF p
<1>10. pass' \in [Blocks -> PassRecords] /\ pass'[b] = p
       /\ \A c \in Blocks : c # b => pass'[c] = pass[c]
  BY <1>8, <1>9 DEF TypeOK
<1>11. postedLabels' \in [Blocks -> Seq(LabelRecords)]
<2>1. sorted \in Seq(LabelRecords)
  BY SortedAre DEF TypeOK
<2>2. QED BY <1>2, <2>1 DEF TypeOK
<1>12. TypeOK'
  BY <1>1, <1>3, <1>6, <1>10, <1>11 DEF TypeOK, States, Managers
<1>13. ASSUME NEW c \in Blocks PROVE PassFits(c)'
<2>1. CASE c # b
<3>1. room'[c] \in Nat /\ room'[c] >= room[c] /\ FrontElements(chunks'[c]) \in Nat
      /\ FrontElements(chunks'[c]) >= FrontElements(chunks[c])
  BY <1>1, <1>6, <2>1, PassIs
<3>2. QED BY <1>3, <1>10, <2>1, <3>1, FitsOnly DEF Fits
<2>2. CASE c = b
  BY <1>3, <1>4, <1>7, <1>8, <1>10, <2>2 DEF PassFits
<2>3. QED BY <2>1, <2>2
<1>14. ASSUME NEW c \in Blocks PROVE Passed(c)'
<2>1. c \in Subscribers(b) => Due(b, c)' = Due(b, c)
  BY <1>3, <1>8, <1>10 DEF Owed, Due, n
<2>2. \A a \in Blocks : a # b => Due(a, c)' = Due(a, c)
  BY <1>3, <1>10 DEF Owed, Due
<2>3. HasSource(c) => Source[c] \in Blocks /\ c \in Subscribers(Source[c])
  BY Tree
<2>4. HasSource(c) => Due(Source[c], c)' = Due(Source[c], c)
  BY <2>1, <2>2, <2>3
<2>5. QED BY <1>1, <2>4 DEF Passed, Counts
<1>15. QED BY <1>1, <1>12, <1>13, <1>14 DEF Fits, Counts, Queued

LEMMA EndPassTypes ==
    ASSUME TypesAndCounts, NEW b \in Blocks, EndPass(b)
    PROVE  TypesAndCounts'
<1> USE DEF TypesAndCounts
<1> DEFINE buf == pass[b].posted
           held == Range(ready[b]) \cup UNION {Held(chunks[c]) : c \in Subscribers(b)}
           back == IF buf \in held \cup {0} THEN <<>> ELSE <<buf>>
           told == IF back # <<>> \/ pass[b].produce > 0 \/ pass[b].outEvents THEN {b} ELSE {}
<1>1. /\ Goto(b, "push", "idle") /\ PushBuffers(b, back) /\ flag' = Flagged(told)
      /\ pass' = [pass EXCEPT ![b] = NoPass] /\ pass[b].subscribers = {}
      /\ postedLabels' = [postedLabels EXCEPT ![b] = <<>>]
      /\ active' = active
      /\ chunks' = chunks /\ inputLabels' = inputLabels /\ labels' = labels
      /\ messages' = messages /\ slotCalls' = slotCalls /\ tokens' = tokens
      /\ arrived' = arrived /\ consumed' = consumed /\ delivered' = delivered /\ left' = left
  BY DEF EndPass, ioVars, ghosts
<1>2. back \in Seq(1..NumBuffers)
<2>1. buf \in 0..NumBuffers /\ NumBuffers \in Nat
  BY PassIs, SizesAssumption
<2>2. buf # 0 => <<buf>> \in Seq(1..NumBuffers)
  BY <2>1
<2>3. <<>> \in Seq(1..NumBuffers)
  BY EmptySeq
<2>4. buf = 0 => back = <<>>
  OBVIOUS
<2>5. back = <<>> \/ back = <<buf>>
  OBVIOUS
<2> HIDE DEF back, buf
<2>6. QED BY <2>2, <2>3, <2>4, <2>5
<1>3. Managers
  BY DEF Managers, TypeOK
<1> HIDE DEF back, told
<1>4. /\ Managers' /\ \A c \in Blocks : room'[c] >= room[c]
  BY <1>1, <1>2, <1>3, PushedBuffers
<1>5. pc[b] = "push" /\ pc' \in [Blocks -> States] /\ pc'[b] = "idle"
      /\ \A c \in Blocks : c # b => pc'[c] = pc[c]
<2>1. "idle" \in States
  BY DEF States
<2>2. QED BY <1>1, <2>1, Went
<1>6. NoPass \in PassRecords /\ NoPass.posted = 0 /\ NoPass.subscribers = {}
  BY SizesAssumption DEF NoPass, PassRecords
<1>7. pass' \in [Blocks -> PassRecords] /\ pass'[b] = NoPass
       /\ \A c \in Blocks : c # b => pass'[c] = pass[c]
  BY <1>1, <1>6 DEF TypeOK
<1>8. postedLabels' \in [Blocks -> Seq(LabelRecords)] /\ flag' \in [Blocks -> BOOLEAN]
  BY <1>1 DEF TypeOK, Flagged
<1>9. TypeOK'
  BY <1>1, <1>4, <1>5, <1>7, <1>8 DEF TypeOK, States, Managers
<1>10. ASSUME NEW c \in Blocks PROVE PassFits(c)'
<2>1. room'[c] \in Nat /\ room'[c] >= room[c] /\ FrontElements(chunks'[c]) \in Nat
      /\ FrontElements(chunks'[c]) >= FrontElements(chunks[c])
<3>1. room'[c] \in 0..BufSize /\ BufSize \in Nat
  BY <1>4, SizesAssumption DEF Managers
<3>2. QED BY <1>1, <1>4, <3>1, PassIs
<2>2. CASE c # b
  BY <1>5, <1>7, <2>1, <2>2, FitsOnly DEF Fits
<2>3. CASE c = b
  BY <1>5, <1>6, <1>7, <2>3 DEF PassFits
<2>4. QED BY <2>2, <2>3
<1>11. ASSUME NEW c \in Blocks PROVE Passed(c)'
<2>1. ~Owed(b, c) /\ ~Owed(b, c)'
  BY <1>1, <1>5 DEF Owed
<2>2. \A a \in Blocks : a # b => Due(a, c)' = Due(a, c)
  BY <1>5, <1>7 DEF Owed, Due
<2>3. HasSource(c) => Source[c] \in Blocks
  BY Tree
<2>4. HasSource(c) => Due(Source[c], c)' = Due(Source[c], c)
  BY <2>1, <2>2, <2>3 DEF Due
<2>5. QED BY <1>1, <2>4 DEF Passed, Counts
<1>12. QED BY <1>1, <1>9, <1>10, <1>11 DEF Fits, Counts, Queued

(***************************************************************************)
(* Queues of labels                                                        *)
(***************************************************************************)

LEMMA LabelAt ==
    \A l \in LabelRecords : \A k \in Int :
        /\ [l EXCEPT !.index = k] \in LabelRecords
        /\ [l EXCEPT !.index = k].index = k /\ [l EXCEPT !.index = k].origin = l.origin
  BY DEF LabelRecords

LEMMA LabelIs ==
    ASSUME NEW queue \in Seq(LabelRecords)
    PROVE  /\ DOMAIN queue = 1..Len(queue) /\ Len(queue) \in Nat
           /\ \A i \in 1..Len(queue) : /\ queue[i] \in LabelRecords
                                       /\ queue[i].index \in Int /\ queue[i].origin \in Nat
<1>1. \A i \in 1..Len(queue) : queue[i] \in LabelRecords
  BY ElementOfSeq
<1>2. QED BY <1>1, LenProperties DEF LabelRecords

\* The labels of a queue, each with a new index
At(queue, index) == [i \in DOMAIN queue |-> [queue[i] EXCEPT !.index = index[i]]]

LEMMA LabelsAt ==
    ASSUME NEW queue \in Seq(LabelRecords), NEW index \in [1..Len(queue) -> Int]
    PROVE  /\ At(queue, index) \in Seq(LabelRecords) /\ Len(At(queue, index)) = Len(queue)
           /\ \A i \in 1..Len(queue) : /\ At(queue, index)[i].index = index[i]
                                       /\ At(queue, index)[i].origin = queue[i].origin
<1> DEFINE moved == [i \in DOMAIN queue |-> [queue[i] EXCEPT !.index = index[i]]]
<1>1. \A i \in 1..Len(queue) :
          /\ [queue[i] EXCEPT !.index = index[i]] \in LabelRecords
          /\ [queue[i] EXCEPT !.index = index[i]].index = index[i]
          /\ [queue[i] EXCEPT !.index = index[i]].origin = queue[i].origin
  BY LabelIs, LabelAt
<1>2. DOMAIN queue = 1..Len(queue) /\ Len(queue) \in Nat
  BY LabelIs
<1>3. \A i \in 1..Len(queue) : moved[i] = [queue[i] EXCEPT !.index = index[i]]
  BY <1>2
<1>4. \A i \in 1..Len(queue) : /\ moved[i] \in LabelRecords /\ moved[i].index = index[i]
                               /\ moved[i].origin = queue[i].origin
  BY <1>1, <1>3, Zenon
<1>5. DOMAIN moved = 1..Len(queue) /\ moved = [i \in 1..Len(queue) |-> moved[i]]
  BY <1>2
<1> HIDE DEF moved
<1>6. moved \in Seq(LabelRecords) /\ Len(moved) = Len(queue)
  BY <1>2, <1>4, <1>5
<1>7. At(queue, index) = moved
  BY DEF At, moved
<1>8. QED BY <1>4, <1>6, <1>7

LEMMA ElementsWide ==
    \A n \in Int : n * ElemSize \in Int /\ n \div ElemSize \in Int /\ (n * ElemSize) \div ElemSize = n
<1> SUFFICES ASSUME NEW n \in Int
             PROVE  /\ n * ElemSize \in Int /\ n \div ElemSize \in Int
                    /\ (n * ElemSize) \div ElemSize = n
  OBVIOUS
<1>1. ElemSize \in Nat \ {0}
  BY SizesAssumption
<1>2. n * ElemSize \in Int /\ n \div ElemSize \in Int
  BY <1>1
<1>3. (n * ElemSize) \div ElemSize = n
  BY <1>1
<1>4. QED BY <1>2, <1>3

\* Labels that have arrived, as they join those of the port
Joining(queue) == [i \in DOMAIN queue |-> [queue[i] EXCEPT !.index = @ \div ElemSize]]

LEMMA JoiningAre ==
    ASSUME NEW queue \in Seq(LabelRecords)
    PROVE  /\ Joining(queue) \in Seq(LabelRecords) /\ Len(Joining(queue)) = Len(queue)
           /\ \A i \in 1..Len(queue) : /\ Joining(queue)[i].index = queue[i].index \div ElemSize
                                       /\ Joining(queue)[i].origin = queue[i].origin
<1> DEFINE index == [i \in 1..Len(queue) |-> queue[i].index \div ElemSize]
<1>1. index \in [1..Len(queue) -> Int]
  BY LabelIs, ElementsWide
<1>2. Joining(queue) = At(queue, index)
  BY LabelIs, Zenon DEF At, Joining
<1>3. \A i \in 1..Len(queue) : index[i] = queue[i].index \div ElemSize
  OBVIOUS
<1> HIDE DEF index
<1>4. QED BY <1>1, <1>2, <1>3, LabelsAt

\* Labels that are moved by n bytes
MovedBy(queue, n) == [i \in DOMAIN queue |-> [queue[i] EXCEPT !.index = @ + n]]

LEMMA MovedAre ==
    ASSUME NEW queue \in Seq(LabelRecords), NEW n \in Int
    PROVE  /\ MovedBy(queue, n) \in Seq(LabelRecords) /\ Len(MovedBy(queue, n)) = Len(queue)
           /\ \A i \in 1..Len(queue) : /\ MovedBy(queue, n)[i].index = queue[i].index + n
                                       /\ MovedBy(queue, n)[i].origin = queue[i].origin
<1> DEFINE index == [i \in 1..Len(queue) |-> queue[i].index + n]
<1>1. index \in [1..Len(queue) -> Int]
  BY LabelIs
<1>2. MovedBy(queue, n) = At(queue, index)
  BY LabelIs, Zenon DEF At, MovedBy
<1>3. \A i \in 1..Len(queue) : index[i] = queue[i].index + n
  OBVIOUS
<1> HIDE DEF index
<1>4. QED BY <1>1, <1>2, <1>3, LabelsAt

LEMMA ShiftedAre ==
    ASSUME NEW b \in Blocks, inputLabels[b] \in Seq(LabelRecords), pass[b].consume \in Nat
    PROVE  /\ Shifted(b) \in Seq(LabelRecords) /\ Len(Shifted(b)) = Len(inputLabels[b])
           /\ \A i \in 1..Len(inputLabels[b]) :
                 /\ Shifted(b)[i].index = inputLabels[b][i].index - pass[b].consume * ElemSize
                 /\ Shifted(b)[i].origin = inputLabels[b][i].origin
<1> DEFINE queue == inputLabels[b]
           n == pass[b].consume * ElemSize
           index == [i \in 1..Len(queue) |-> queue[i].index - n]
<1>0. n \in Int
<2>1. pass[b].consume \in Int
  OBVIOUS
<2>2. QED BY <2>1, ElementsWide, Zenon
<1> HIDE DEF n
<1>1. index \in [1..Len(queue) -> Int]
  BY <1>0, LabelIs
<1>2. Shifted(b) = At(queue, index)
  BY LabelIs, Zenon DEF At, Shifted, n
<1>3. \A i \in 1..Len(queue) : index[i] = queue[i].index - n
  OBVIOUS
<1> HIDE DEF index
<1>4. QED BY <1>1, <1>2, <1>3, LabelsAt DEF n

LEMMA AdjustedAre ==
    ASSUME NEW b \in Blocks, labels[b] \in Seq(LabelRecords), pass[b].consume \in Nat
    PROVE  /\ Adjusted(b) \in Seq(LabelRecords) /\ Len(Adjusted(b)) = Len(labels[b])
           /\ \A i \in 1..Len(labels[b]) :
                 /\ Adjusted(b)[i].origin = labels[b][i].origin
                 /\ labels[b][i].index < pass[b].consume =>
                       Adjusted(b)[i].index = labels[b][i].index
                 /\ ~(labels[b][i].index < pass[b].consume) =>
                       Adjusted(b)[i].index = labels[b][i].index - pass[b].consume
<1> DEFINE queue == labels[b]
           n == pass[b].consume
<1>1. \A i \in DOMAIN queue : queue[i] \in LabelRecords /\ queue[i].index \in Int /\ n \in Int
  BY LabelIs
<1>2. \A i \in DOMAIN queue : Adjusted(b)[i] = IF queue[i].index < n THEN queue[i]
                                               ELSE [queue[i] EXCEPT !.index = @ - n]
  BY DEF Adjusted
<1>3. ASSUME NEW i \in DOMAIN queue
      PROVE  /\ Adjusted(b)[i] \in LabelRecords
             /\ Adjusted(b)[i].origin = queue[i].origin
             /\ queue[i].index < n => Adjusted(b)[i].index = queue[i].index
             /\ ~(queue[i].index < n) => Adjusted(b)[i].index = queue[i].index - n
<2>1. queue[i].index - n \in Int
  BY <1>1
<2>2. CASE queue[i].index < n
  BY <1>1, <1>2, <2>2
<2>3. CASE ~(queue[i].index < n)
<3>1. Adjusted(b)[i] = [queue[i] EXCEPT !.index = queue[i].index - n]
  BY <1>2, <2>3
<3>2. QED BY <1>1, <2>1, <2>3, <3>1, LabelAt
<2>4. QED BY <2>2, <2>3
<1>4. DOMAIN Adjusted(b) = 1..Len(queue) /\ Adjusted(b) = [i \in 1..Len(queue) |-> Adjusted(b)[i]]
      /\ Len(queue) \in Nat /\ DOMAIN queue = 1..Len(queue)
  BY LabelIs DEF Adjusted
<1>5. Adjusted(b) \in Seq(LabelRecords) /\ Len(Adjusted(b)) = Len(queue)
<2>1. \A i \in 1..Len(queue) : Adjusted(b)[i] \in LabelRecords
  BY <1>3, <1>4
<2> HIDE DEF queue
<2>2. QED BY <1>4, <2>1
<1>6. QED BY <1>3, <1>4, <1>5

LEMMA PreWorkInputsTypes ==
    ASSUME TypesAndCounts, NEW b \in Blocks, PreWorkInputs(b)
    PROVE  TypesAndCounts'
<1> USE DEF TypesAndCounts
<1> DEFINE queue == RequireChunks(chunks[b], Required(b))
           willWork == /\ HasOutput(b) => pass[b].ready
                       /\ FrontElements(queue) >= Reserve(b) \/ messages[b] # <<>>
           call == IF slotCalls[b] = <<>> THEN {} ELSE {Head(slotCalls[b])}
           given == GivenBack(b, call)
           to == IF willWork THEN "work" ELSE "idle"
           p == IF willWork THEN [pass[b] EXCEPT !.inElems = FrontElements(queue)] ELSE NoPass
<1>1. /\ Goto(b, "inputs", to)
      /\ slotCalls' = [slotCalls EXCEPT ![b] = SubSeq(@, 2, Len(@))]
      /\ tokens' = ReturnTokens(b, given)
      /\ labels' = [labels EXCEPT ![b] = @ \o Joining(inputLabels[b])]
      /\ inputLabels' = [inputLabels EXCEPT ![b] = <<>>]
      /\ pass' = [pass EXCEPT ![b] = p]
      /\ ReturnBuffers(b, queue, TokensTold(b, given))
      /\ active' = active /\ postedLabels' = postedLabels /\ messages' = messages
      /\ arrived' = arrived /\ consumed' = consumed /\ delivered' = delivered /\ left' = left
  BY DEF PreWorkInputs, ghosts, Joining
<1>2. chunks[b] \in Seq(ChunkRecords) /\ Chunks /\ Managers
  BY DEF Chunks, Managers, TypeOK
<1>3. /\ queue \in Seq(ChunkRecords) /\ Elements(queue) = Elements(chunks[b])
      /\ FrontElements(queue) \in Nat
<2>1. Required(b) \in Nat \ {0}
  BY TreeAssumption DEF Required, Reserve
<2>2. QED BY <1>2, <2>1, RequireKeeps, ElementsCount
<1> HIDE DEF queue, willWork, given
<1>4. pc[b] = "inputs" /\ pc' \in [Blocks -> States] /\ pc'[b] = to
      /\ \A c \in Blocks : c # b => pc'[c] = pc[c]
<2>1. to \in States
  BY DEF States
<2> HIDE DEF to
<2>2. QED BY <1>1, <2>1, Went
<1>5. tokens' \in [Blocks -> SUBSET (1..NumTokens)]
<2>1. call \in SUBSET (0..NumTokens)
<3>1. slotCalls[b] \in Seq(0..NumTokens)
  BY DEF TypeOK
<3>2. slotCalls[b] # <<>> => Head(slotCalls[b]) \in 0..NumTokens
  BY <3>1, HeadTailProperties
<3>3. QED BY <3>2
<2>2. given \subseteq 1..NumTokens /\ ReturnTokens(b, given) \in [Blocks -> SUBSET (1..NumTokens)]
  BY <2>1, TokensReturned DEF given, TypeOK
<2>3. QED BY <1>1, <2>2
<1>6. /\ Chunks' /\ chunks'[b] = queue /\ \A c \in Blocks : c # b => chunks'[c] = chunks[c]
      /\ Managers' /\ \A c \in Blocks : room'[c] >= room[c]
      /\ flag' = Flagged(TokensTold(b, given) \cup Told(b, queue))
  BY <1>1, <1>2, <1>3, ReturnedBuffers
<1>7. /\ p \in PassRecords /\ (p = NoPass \/ to = "work")
      /\ to = "work" => /\ p.posted = pass[b].posted /\ p.subscribers = pass[b].subscribers
                        /\ p.outElems = pass[b].outElems /\ p.inElems = FrontElements(queue)
      /\ to = "idle" => p = NoPass
      /\ to \in {"idle", "work"}
<2>1. CASE willWork
<3>1. PICK r \in PassRecords : r = pass[b]
  BY PassIs
<3>2. p = [r EXCEPT !.inElems = FrontElements(queue)] /\ to = "work"
  BY <2>1, <3>1
<3> HIDE DEF p, to
<3>3. QED BY <3>1, <3>2, <1>3 DEF PassRecords
<2>2. CASE ~willWork
<3>1. NoPass \in PassRecords
  BY SizesAssumption DEF NoPass, PassRecords
<3>2. QED BY <2>2, <3>1
<2>3. QED BY <2>1, <2>2
<1> HIDE DEF p, to
<1>8. pass' \in [Blocks -> PassRecords] /\ pass'[b] = p /\ \A c \in Blocks : c # b => pass'[c] = pass[c]
  BY <1>1, <1>7 DEF TypeOK
<1>9. /\ slotCalls' \in [Blocks -> Seq(0..NumTokens)]
      /\ labels' \in [Blocks -> Seq(LabelRecords)] /\ inputLabels' \in [Blocks -> Seq(LabelRecords)]
<2>1. SubSeq(slotCalls[b], 2, Len(slotCalls[b])) \in Seq(0..NumTokens)
<3>1. slotCalls[b] \in Seq(0..NumTokens)
  BY DEF TypeOK
<3>2. \A i \in 2..Len(slotCalls[b]) : slotCalls[b][i] \in 0..NumTokens
<4>1. \A i \in 2..Len(slotCalls[b]) : i \in 1..Len(slotCalls[b])
  BY <3>1
<4>2. QED BY <3>1, <4>1, ElementOfSeq
<3>3. 2 \in Int /\ Len(slotCalls[b]) \in Int
  BY <3>1
<3>4. QED BY <3>2, <3>3, SubSeqProperties
<2>2. labels[b] \o Joining(inputLabels[b]) \in Seq(LabelRecords)
<3>1. inputLabels[b] \in Seq(LabelRecords) /\ labels[b] \in Seq(LabelRecords)
  BY DEF TypeOK
<3>2. Joining(inputLabels[b]) \in Seq(LabelRecords)
  BY <3>1, JoiningAre
<3>3. QED BY <3>1, <3>2, ConcatProperties
<2>3. <<>> \in Seq(LabelRecords)
  BY EmptySeq
<2>4. QED BY <1>1, <2>1, <2>2, <2>3 DEF TypeOK
<1>10. flag' \in [Blocks -> BOOLEAN]
  BY <1>6 DEF Flagged, TypeOK
<1>11. TypeOK'
  BY <1>1, <1>4, <1>5, <1>6, <1>8, <1>9, <1>10 DEF TypeOK, States, Managers, Chunks
<1>12. ASSUME NEW c \in Blocks PROVE PassFits(c)'
<2>1. room'[c] \in Nat /\ room'[c] >= room[c]
<3>1. room'[c] \in 0..BufSize /\ BufSize \in Nat
  BY <1>6, SizesAssumption DEF Managers
<3>2. QED BY <1>6, <3>1
<2>2. CASE c # b
<3>1. FrontElements(chunks'[c]) \in Nat /\ FrontElements(chunks'[c]) >= FrontElements(chunks[c])
  BY <1>6, <2>2, PassIs
<3>2. QED BY <1>4, <1>8, <2>1, <2>2, <3>1, FitsOnly DEF Fits
<2>3. CASE c = b
<3>1. PassFits(b) /\ room[b] \in Nat /\ pass[b].outElems \in Nat
  BY PassIs DEF Fits
<3>2. NoPass.posted = 0 /\ NoPass.subscribers = {} /\ NoPass.outElems = 0
  BY DEF NoPass
<3>3. PassFits(b)' <=>
        /\ to \in {"outputs", "post", "push"} => HasOutput(b)
        /\ to \in {"idle", "outputs"} => p = NoPass
        /\ to # "push" => p.posted = 0 /\ p.subscribers = {}
        /\ p.subscribers \subseteq Subscribers(b)
        /\ to \in {"inputs", "work", "consume", "post"} => p.outElems <= room'[b]
        /\ to \in {"consume", "post"} => p.produce <= p.outElems
        /\ to \in {"work", "consume"} => p.inElems <= FrontElements(queue)
        /\ to = "consume" => /\ p.consume <= p.inElems
                             /\ HasOutput(b) => p.produce <= p.consume
        /\ to = "push" => (p.produce > 0 <=> p.posted # 0)
  BY <1>4, <1>6, <1>8 DEF PassFits, HasOutput, Subscribers, FrontElements
<3>4. pass[b].posted = 0 /\ pass[b].subscribers = {} /\ pass[b].outElems <= room'[b]
  BY <1>4, <2>1, <2>3, <3>1 DEF PassFits
<3>5. CASE to = "work"
<4>1. /\ p.posted = 0 /\ p.subscribers = {} /\ p.outElems <= room'[b]
      /\ p.inElems <= FrontElements(queue)
  BY <1>3, <1>7, <3>4, <3>5
<4>2. QED BY <2>3, <3>3, <3>5, <4>1
<3>6. CASE to = "idle"
<4>1. p = NoPass /\ p.posted = 0 /\ p.subscribers = {}
  BY <1>7, <3>2, <3>6
<4>2. QED BY <2>3, <3>3, <3>6, <4>1
<3>7. QED BY <1>7, <2>3, <3>5, <3>6
<2>4. QED BY <2>2, <2>3
<1>13. ASSUME NEW c \in Blocks PROVE Passed(c)'
<2>1. ~Owed(b, c) /\ ~Owed(b, c)'
  BY <1>4, <1>7 DEF Owed
<2>2. \A a \in Blocks : a # b => Due(a, c)' = Due(a, c)
  BY <1>4, <1>8 DEF Owed, Due
<2>3. HasSource(c) => Source[c] \in Blocks
  BY Tree
<2>4. HasSource(c) => Due(Source[c], c)' = Due(Source[c], c)
  BY <2>1, <2>2, <2>3 DEF Due
<2>5. QED BY <1>1, <2>4 DEF Passed, Counts
<1>14. ASSUME NEW c \in Blocks PROVE Queued(c)'
<2>1. Elements(chunks[c])' = Elements(chunks[c])
  BY <1>3, <1>6
<2>2. QED BY <1>1, <2>1 DEF Queued, Counts
<1>15. QED BY <1>1, <1>11, <1>12, <1>13, <1>14 DEF Fits, Counts

\* The indices in bytes of labels that leave the block
Widened(queue) == [i \in DOMAIN queue |-> [queue[i] EXCEPT !.index = @ * ElemSize]]

LEMMA WidenedAre ==
    ASSUME NEW queue \in Seq(LabelRecords)
    PROVE  /\ Widened(queue) \in Seq(LabelRecords) /\ Len(Widened(queue)) = Len(queue)
           /\ \A i \in 1..Len(queue) : /\ Widened(queue)[i].index = queue[i].index * ElemSize
                                       /\ Widened(queue)[i].origin = queue[i].origin
<1> DEFINE index == [i \in 1..Len(queue) |-> queue[i].index * ElemSize]
<1>1. index \in [1..Len(queue) -> Int]
  BY LabelIs, ElementsWide
<1>2. Widened(queue) = At(queue, index)
  BY LabelIs, Zenon DEF At, Widened
<1>3. \A i \in 1..Len(queue) : index[i] = queue[i].index * ElemSize
  OBVIOUS
<1> HIDE DEF index
<1>4. QED BY <1>1, <1>2, <1>3, LabelsAt

LEMMA NumPassedIs ==
    ASSUME NEW b \in Blocks, labels[b] \in Seq(LabelRecords)
    PROVE  NumPassed(b) \in 0..Len(labels[b])
<1> DEFINE L == Len(labels[b])
           S == {i \in DOMAIN labels[b] : labels[b][i].index < pass[b].consume}
<1>1. L \in Nat /\ DOMAIN labels[b] = 1..L
  BY LabelIs
<1>2. IsFiniteSet(1..L) /\ Cardinality(1..L) = L
  BY <1>1, FS_Interval
<1>3. S \subseteq 1..L
  BY <1>1
<1>4. IsFiniteSet(S) /\ Cardinality(S) <= L
  BY <1>2, <1>3, FS_Subset
<1>5. Cardinality(S) \in Nat
  BY <1>4, FS_CardinalityType
<1>6. QED BY <1>1, <1>4, <1>5 DEF NumPassed

LEMMA PassedLabelsAre ==
    ASSUME NEW b \in Blocks, labels[b] \in Seq(LabelRecords), pass[b].consume \in Nat
    PROVE  /\ PassedLabels(b) \in Seq(LabelRecords) /\ Len(PassedLabels(b)) = NumPassed(b)
           /\ \A i \in 1..NumPassed(b) : PassedLabels(b)[i] = Adjusted(b)[i]
           /\ LET rest == SubSeq(Adjusted(b), NumPassed(b) + 1, Len(labels[b]))
              IN  /\ rest \in Seq(LabelRecords) /\ Len(rest) = Len(labels[b]) - NumPassed(b)
                  /\ \A i \in 1..(Len(labels[b]) - NumPassed(b)) :
                        rest[i] = Adjusted(b)[NumPassed(b) + i]
<1>1. Adjusted(b) \in Seq(LabelRecords) /\ Len(Adjusted(b)) = Len(labels[b])
  BY AdjustedAre
<1>2. NumPassed(b) \in 0..Len(Adjusted(b))
  BY <1>1, NumPassedIs
<1>3. QED BY <1>1, <1>2, Cut DEF PassedLabels

LEMMA PostWorkInputsTypes ==
    ASSUME TypesAndCounts, NEW b \in Blocks, PostWorkInputs(b)
    PROVE  TypesAndCounts'
<1> USE DEF TypesAndCounts
<1> DEFINE n == pass[b].consume
           passed == PassedLabels(b)
           queue == IF n = 0 THEN chunks[b] ELSE PopChunk(chunks[b], n)
           to == IF HasOutput(b) THEN "post" ELSE "idle"
           outs == pass[b].outEvents \/ passed # <<>>
           p == IF HasOutput(b) THEN Propagated(b) ELSE NoPass
           flagging == IF n > 0 \/ pass[b].inEvents THEN {b} ELSE {}
<1>1. /\ Goto(b, "consume", to)
      /\ labels' = [labels EXCEPT ![b] = SubSeq(Adjusted(b), NumPassed(b) + 1, Len(@))]
      /\ inputLabels' = [inputLabels EXCEPT ![b] = Shifted(b)]
      /\ ReturnBuffers(b, queue, flagging)
      /\ consumed' = [consumed EXCEPT ![b] = @ + n]
      /\ pass' = [pass EXCEPT ![b] = p]
      /\ active' = active /\ messages' = messages /\ slotCalls' = slotCalls /\ tokens' = tokens
      /\ arrived' = arrived /\ left' = left
  BY DEF PostWorkInputs, ioVars
<1>2. IF HasOutput(b)
      THEN /\ postedLabels' = [postedLabels EXCEPT ![b] = @ \o Widened(passed)]
           /\ delivered' = delivered
      ELSE /\ delivered' = [delivered EXCEPT ![b] = @ \o [i \in DOMAIN passed |-> passed[i].origin]]
           /\ postedLabels' = postedLabels
  BY DEF PostWorkInputs, Widened
<1>3. chunks[b] \in Seq(ChunkRecords) /\ Chunks /\ Managers
      /\ labels[b] \in Seq(LabelRecords) /\ inputLabels[b] \in Seq(LabelRecords)
      /\ postedLabels[b] \in Seq(LabelRecords) /\ delivered[b] \in Seq(Nat)
  BY DEF Chunks, Managers, TypeOK
<1>4. pc[b] = "consume" /\ pc' \in [Blocks -> States] /\ pc'[b] = to
      /\ \A c \in Blocks : c # b => pc'[c] = pc[c]
<2>1. to \in States
  BY DEF States
<2> HIDE DEF to
<2>2. QED BY <1>1, <2>1, Went
<1>5. n \in Nat /\ n <= pass[b].inElems /\ pass[b].inElems <= FrontElements(chunks[b])
      /\ pass[b].posted = 0 /\ pass[b].subscribers = {} /\ pass[b].outElems <= room[b]
      /\ pass[b].produce <= pass[b].outElems /\ (HasOutput(b) => pass[b].produce <= n)
  BY <1>4, PassIs DEF Fits, PassFits
<1>6. queue \in Seq(ChunkRecords) /\ Elements(queue) = Elements(chunks[b]) - n
<2>1. n <= FrontElements(chunks[b])
  BY <1>5, PassIs
<2>2. CASE n = 0
  BY <1>3, <2>2, PassIs
<2>3. CASE n # 0
<3>1. n > 0
  BY <1>5, <2>3
<3>2. QED BY <1>3, <1>5, <2>1, <2>3, <3>1, PopTakes
<2>4. QED BY <2>2, <2>3
<1> HIDE DEF queue, flagging
<1>7. /\ Chunks' /\ chunks'[b] = queue /\ \A c \in Blocks : c # b => chunks'[c] = chunks[c]
      /\ Managers' /\ \A c \in Blocks : room'[c] >= room[c]
      /\ flag' = Flagged(flagging \cup Told(b, queue))
  BY <1>1, <1>3, <1>6, ReturnedBuffers
<1>8. /\ HasOutput(b) => /\ p \in PassRecords /\ p.posted = 0 /\ p.subscribers = {} /\ to = "post"
                         /\ p.outElems = pass[b].outElems /\ p.produce = pass[b].produce
      /\ ~HasOutput(b) => p = NoPass /\ NoPass \in PassRecords /\ to = "idle"
<2>1. CASE HasOutput(b)
<3>1. PICK r \in PassRecords : r = pass[b]
  BY PassIs
<3>2. p = [r EXCEPT !.outEvents = outs] /\ to = "post" /\ outs \in BOOLEAN
  BY <2>1, <3>1 DEF Propagated
<3> HIDE DEF p, to, outs
<3>3. QED BY <2>1, <3>1, <3>2, <1>5 DEF PassRecords
<2>2. CASE ~HasOutput(b)
<3>1. NoPass \in PassRecords
  BY SizesAssumption DEF NoPass, PassRecords
<3>2. QED BY <2>2, <3>1
<2>3. QED BY <2>1, <2>2
<1> HIDE DEF p, to, n, passed
<1>9. pass' \in [Blocks -> PassRecords] /\ pass'[b] = p /\ \A c \in Blocks : c # b => pass'[c] = pass[c]
  BY <1>1, <1>8 DEF TypeOK
<1>10. /\ labels' \in [Blocks -> Seq(LabelRecords)] /\ inputLabels' \in [Blocks -> Seq(LabelRecords)]
       /\ postedLabels' \in [Blocks -> Seq(LabelRecords)] /\ delivered' \in [Blocks -> Seq(Nat)]
<2>0. passed \in Seq(LabelRecords)
  BY <1>3, <1>5, PassedLabelsAre DEF passed, n
<2>1. SubSeq(Adjusted(b), NumPassed(b) + 1, Len(labels[b])) \in Seq(LabelRecords)
  BY <1>3, <1>5, PassedLabelsAre DEF n
<2>2. Shifted(b) \in Seq(LabelRecords)
  BY <1>3, <1>5, ShiftedAre DEF n
<2>3. postedLabels[b] \o Widened(passed) \in Seq(LabelRecords)
  BY <1>3, <2>0, WidenedAre, ConcatProperties
<2>4. delivered[b] \o [i \in DOMAIN passed |-> passed[i].origin] \in Seq(Nat)
<3>1. [i \in DOMAIN passed |-> passed[i].origin] \in Seq(Nat)
<4>1. DOMAIN passed = 1..Len(passed) /\ Len(passed) \in Nat
      /\ \A i \in 1..Len(passed) : passed[i].origin \in Nat
  BY <2>0, LabelIs
<4>2. QED BY <4>1
<3>2. QED BY <1>3, <3>1, ConcatProperties
<2>5. labels' \in [Blocks -> Seq(LabelRecords)] /\ inputLabels' \in [Blocks -> Seq(LabelRecords)]
  BY <1>1, <2>1, <2>2 DEF TypeOK
<2>6. postedLabels' \in [Blocks -> Seq(LabelRecords)] /\ delivered' \in [Blocks -> Seq(Nat)]
<3>1. postedLabels \in [Blocks -> Seq(LabelRecords)] /\ delivered \in [Blocks -> Seq(Nat)]
  BY DEF TypeOK
<3>2. CASE HasOutput(b)
  BY <1>2, <2>3, <3>1, <3>2
<3>3. CASE ~HasOutput(b)
<4>1. postedLabels' = postedLabels
  BY <1>2, <3>3
<4>2. delivered' = [delivered EXCEPT ![b] = @ \o [i \in DOMAIN passed |-> passed[i].origin]]
  BY <1>2, <3>3
<4>3. QED BY <2>4, <3>1, <4>1, <4>2
<3>4. QED BY <3>2, <3>3
<2>7. QED BY <2>5, <2>6
<1>11. flag' \in [Blocks -> BOOLEAN]
  BY <1>7 DEF Flagged, TypeOK
<1>12. Elements(chunks[b]) \in Nat /\ consumed[b] + Elements(chunks[b]) = arrived[b]
       /\ consumed[b] \in Nat /\ n <= Elements(chunks[b])
<2>1. consumed[b] + Elements(chunks[b]) = arrived[b]
  BY DEF Counts, Queued
<2>2. FrontElements(chunks[b]) <= Elements(chunks[b])
  BY <1>3, ElementsCount
<2>3. QED BY <1>5, <2>1, <2>2, PassIs
<1>13. consumed' \in [Blocks -> 0..MaxElements] /\ consumed'[b] = consumed[b] + n
       /\ \A c \in Blocks : c # b => consumed'[c] = consumed[c]
<2>1. arrived[b] <= MaxElements /\ MaxElements \in Nat
  BY BudgetAssumption DEF TypeOK
<2>2. consumed[b] + n \in 0..MaxElements
  BY <1>5, <1>12, <2>1
<2>3. QED BY <1>1, <2>2 DEF TypeOK
<1>14. TypeOK'
  BY <1>1, <1>4, <1>7, <1>9, <1>10, <1>11, <1>13 DEF TypeOK, States, Managers, Chunks
<1>15. ASSUME NEW c \in Blocks PROVE PassFits(c)'
<2>1. room'[c] \in Nat /\ room'[c] >= room[c]
<3>1. room'[c] \in 0..BufSize /\ BufSize \in Nat
  BY <1>7, SizesAssumption DEF Managers
<3>2. QED BY <1>7, <3>1
<2>2. CASE c # b
<3>1. FrontElements(chunks'[c]) \in Nat /\ FrontElements(chunks'[c]) >= FrontElements(chunks[c])
  BY <1>7, <2>2, PassIs
<3>2. QED BY <1>4, <1>9, <2>1, <2>2, <3>1, FitsOnly DEF Fits
<2>3. CASE c = b
<3>1. room[b] \in Nat /\ pass[b].outElems \in Nat
  BY PassIs
<3>2. NoPass.posted = 0 /\ NoPass.subscribers = {}
  BY DEF NoPass
<3>3. CASE HasOutput(b)
<4>1. p.outElems <= room'[b]
  BY <1>5, <1>8, <2>1, <2>3, <3>1, <3>3
<4>2. QED BY <1>4, <1>5, <1>8, <1>9, <2>3, <3>3, <4>1 DEF PassFits
<3>4. CASE ~HasOutput(b)
  BY <1>4, <1>8, <1>9, <2>3, <3>2, <3>4 DEF PassFits
<3>5. QED BY <3>3, <3>4
<2>4. QED BY <2>2, <2>3
<1>16. ASSUME NEW c \in Blocks PROVE Passed(c)'
<2>1. CASE HasSource(c) /\ Source[c] = b
<3>1. HasOutput(b) /\ to = "post"
  BY <2>1, <1>8, Tree DEF HasOutput
<3>2. Due(b, c) = 0 /\ Due(b, c)' = pass[b].produce
  BY <3>1, <1>4, <1>8, <1>9 DEF Due, Owed
<3>3. arrived[c] <= consumed[b] /\ arrived[c] \in Nat
  BY <2>1, <3>2, PassIs DEF Passed, Counts
<3>4. arrived[c] + pass[b].produce <= consumed[b] + n
  BY <1>5, <1>12, <3>1, <3>3, PassIs
<3>5. QED BY <1>1, <1>13, <2>1, <3>2, <3>4 DEF Passed
<2>2. CASE ~(HasSource(c) /\ Source[c] = b)
<3>1. HasSource(c) => Source[c] \in Blocks
  BY Tree
<3>2. QED BY <1>1, <1>4, <1>9, <1>13, <2>2, <3>1, PassedOnly DEF Counts
<2>3. QED BY <2>1, <2>2
<1>17. ASSUME NEW c \in Blocks PROVE Queued(c)'
<2>1. CASE c = b
<3>1. Elements(chunks[b])' = Elements(chunks[b]) - n
  BY <1>6, <1>7
<3>2. QED BY <1>1, <1>5, <1>12, <1>13, <2>1, <3>1 DEF Queued
<2>2. CASE c # b
<3>1. Elements(chunks[c])' = Elements(chunks[c])
  BY <1>7, <2>2
<3>2. QED BY <1>1, <1>13, <2>2, <3>1 DEF Queued, Counts
<2>3. QED BY <2>1, <2>2
<1>18. QED BY <1>1, <1>14, <1>15, <1>16, <1>17 DEF Fits, Counts

LEMMA LabelsPushed ==
    ASSUME NEW c \in Blocks, TypeOK, NEW newLabels \in Seq(LabelRecords),
           BufferLabelPush(c, newLabels, chunks[c])
    PROVE  /\ inputLabels' = [inputLabels EXCEPT ![c] =
                  @ \o MovedBy(newLabels, Elements(chunks[c]) * ElemSize)]
           /\ inputLabels' \in [Blocks -> Seq(LabelRecords)]
<1> DEFINE n == Elements(chunks[c]) * ElemSize
<1>1. inputLabels' = [inputLabels EXCEPT ![c] = @ \o MovedBy(newLabels, n)]
  BY DEF BufferLabelPush, MovedBy
<1>2. n \in Int
<2>1. Elements(chunks[c]) \in Int
  BY PassIs
<2>2. QED BY <2>1, ElementsWide, Zenon
<1> HIDE DEF n
<1>3. inputLabels[c] \o MovedBy(newLabels, n) \in Seq(LabelRecords)
<2>1. inputLabels[c] \in Seq(LabelRecords) /\ MovedBy(newLabels, n) \in Seq(LabelRecords)
  BY <1>2, MovedAre DEF TypeOK
<2>2. QED BY <2>1, ConcatProperties
<1>4. inputLabels' \in [Blocks -> Seq(LabelRecords)]
  BY <1>1, <1>3 DEF TypeOK
<1>5. QED BY <1>1, <1>4 DEF n

LEMMA PushToSubscriberTypes ==
    ASSUME TypesAndCounts, NEW b \in Blocks, PushToSubscriber(b)
    PROVE  TypesAndCounts'
<1> USE DEF TypesAndCounts
<1>0. PICK c \in pass[b].subscribers : c = Min(pass[b].subscribers)
<2>1. pass[b].subscribers \subseteq Subscribers(b)
  BY DEF Fits, PassFits
<2>2. pass[b].subscribers \in SUBSET Nat
  BY <2>1, Tree
<2>3. pass[b].subscribers # {}
  BY DEF PushToSubscriber
<2>4. QED BY <2>2, <2>3, LeastElement
<1> DEFINE n == pass[b].produce
           chunk == [buf |-> pass[b].posted, len |-> n]
           queue == IF n = 0 THEN chunks[c] ELSE PushChunk(chunks[c], chunk)
           p == [pass[b] EXCEPT !.subscribers = @ \ {c}]
<1>1. /\ pc[b] = "push" /\ pass[b].subscribers # {}
      /\ BufferLabelPush(c, postedLabels[b], chunks[c])
      /\ chunks' = IF n = 0 THEN chunks ELSE [chunks EXCEPT ![c] = PushChunk(@, chunk)]
      /\ arrived' = [arrived EXCEPT ![c] = @ + n]
      /\ flag' = Flagged({c})
      /\ pass' = [pass EXCEPT ![b].subscribers = @ \ {c}]
      /\ active' = active /\ pc' = pc /\ labels' = labels /\ postedLabels' = postedLabels
      /\ messages' = messages /\ slotCalls' = slotCalls /\ tokens' = tokens
      /\ ready' = ready /\ room' = room
      /\ consumed' = consumed /\ delivered' = delivered /\ left' = left
  BY <1>0 DEF PushToSubscriber, ioVars, managers
<1>2. /\ c \in pass[b].subscribers /\ c \in Subscribers(b) /\ c \in Blocks /\ c # b
      /\ HasSource(c) /\ Source[c] = b
<2>1. pass[b].subscribers \subseteq Subscribers(b)
  BY DEF Fits, PassFits
<2>2. QED BY <2>1, Tree
<1>3. n \in Nat /\ (n > 0 => chunk \in ChunkRecords /\ chunk.len = n)
<2>1. PassFits(b)
  BY DEF Fits
<2>2. QED BY <1>1, <2>1, PassIs DEF PassFits, ChunkRecords
<1> HIDE DEF n, chunk
<1>4. /\ queue \in Seq(ChunkRecords) /\ Elements(queue) = Elements(chunks[c]) + n
      /\ FrontElements(queue) >= FrontElements(chunks[c]) /\ FrontElements(queue) \in Nat
<2>1. chunks[c] \in Seq(ChunkRecords) /\ Elements(chunks[c]) \in Nat
      /\ FrontElements(chunks[c]) \in Nat
  BY <1>2, PassIs
<2>2. CASE n = 0
  BY <2>1, <2>2
<2>3. CASE n # 0
<3>1. chunk \in ChunkRecords /\ chunk.len = n
  BY <1>3, <2>3
<3>2. /\ queue \in Seq(ChunkRecords) /\ Elements(queue) = Elements(chunks[c]) + n
      /\ FrontElements(chunks[c]) <= FrontElements(queue)
  BY <2>1, <2>3, <3>1, PushAdds
<3> HIDE DEF queue
<3>3. FrontElements(queue) \in Nat
  BY <3>2, ElementsCount
<3>4. QED BY <2>1, <3>2, <3>3
<2>4. QED BY <2>2, <2>3
<1>5. chunks' = [chunks EXCEPT ![c] = queue]
<2>1. chunks \in [Blocks -> Seq(ChunkRecords)]
  BY DEF TypeOK
<2>2. CASE n = 0
  BY <1>1, <2>1, <2>2
<2>3. CASE n # 0
  BY <1>1, <2>3
<2>4. QED BY <2>2, <2>3
<1> HIDE DEF queue
<1>6. /\ chunks' \in [Blocks -> Seq(ChunkRecords)] /\ chunks'[c] = queue
      /\ \A a \in Blocks : a # c => chunks'[a] = chunks[a]
<2>1. queue \in Seq(ChunkRecords)
  BY <1>4
<2>2. QED BY <1>2, <1>5, <2>1 DEF TypeOK
<1>7. /\ p \in PassRecords /\ p.subscribers = pass[b].subscribers \ {c} /\ p.produce = n
      /\ p.posted = pass[b].posted
<2>1. PICK r \in PassRecords : r = pass[b]
  BY PassIs
<2>2. p = [r EXCEPT !.subscribers = r.subscribers \ {c}] /\ r.produce = n
  BY <2>1 DEF n
<2>3. r.subscribers \ {c} \in SUBSET Blocks
  BY DEF PassRecords
<2> HIDE DEF p
<2>4. QED BY <2>1, <2>2, <2>3 DEF PassRecords
<1>8. pass' = [pass EXCEPT ![b] = p]
  BY <1>1
<1> HIDE DEF p
<1>9. pass' \in [Blocks -> PassRecords] /\ pass'[b] = p /\ \A a \in Blocks : a # b => pass'[a] = pass[a]
  BY <1>7, <1>8 DEF TypeOK
<1>10. inputLabels' \in [Blocks -> Seq(LabelRecords)]
<2>1. postedLabels[b] \in Seq(LabelRecords)
  BY DEF TypeOK
<2>2. QED BY <1>1, <1>2, <2>1, LabelsPushed
<1>11. Due(b, c) = n /\ Due(b, c)' = 0 /\ arrived[c] + n <= consumed[b]
<2>1. Due(b, c) = n /\ Due(b, c)' = 0
  BY <1>1, <1>2, <1>7, <1>9 DEF Due, Owed, n
<2>2. QED BY <1>2, <2>1 DEF Passed, Counts
<1>12. arrived' \in [Blocks -> 0..MaxElements] /\ arrived'[c] = arrived[c] + n
       /\ \A a \in Blocks : a # c => arrived'[a] = arrived[a]
<2>1. consumed[b] <= MaxElements /\ consumed[b] \in Nat /\ arrived[c] \in Nat /\ MaxElements \in Nat
  BY <1>2, PassIs, BudgetAssumption DEF TypeOK
<2>2. arrived[c] + n \in 0..MaxElements
  BY <1>3, <1>11, <2>1
<2>3. QED BY <1>1, <1>2, <2>2 DEF TypeOK
<1>13. TypeOK'
<2>1. flag' \in [Blocks -> BOOLEAN]
  BY <1>1 DEF TypeOK, Flagged
<2>2. QED BY <1>1, <1>6, <1>9, <1>10, <1>12, <2>1 DEF TypeOK
<1>14. ASSUME NEW a \in Blocks PROVE PassFits(a)'
<2>1. room'[a] \in Nat /\ room'[a] >= room[a]
  BY <1>1, PassIs
<2>2. FrontElements(chunks'[a]) \in Nat /\ FrontElements(chunks'[a]) >= FrontElements(chunks[a])
<3>1. CASE a = c
  BY <1>4, <1>6, <3>1
<3>2. CASE a # c
  BY <1>6, <3>2, PassIs
<3>3. QED BY <3>1, <3>2
<2>3. CASE a # b
  BY <1>1, <1>9, <2>1, <2>2, <2>3, FitsOnly DEF Fits
<2>4. CASE a = b
<3>1. PassFits(b)
  BY DEF Fits
<3>2. QED BY <1>1, <1>7, <1>9, <2>4, <3>1 DEF PassFits, n
<2>5. QED BY <2>3, <2>4
<1>15. ASSUME NEW a \in Blocks PROVE Passed(a)'
<2>1. HasSource(a) => Source[a] \in Blocks /\ a \in Subscribers(Source[a])
  BY Tree
<2>2. CASE a = c
<3>1. arrived[c] \in Nat /\ consumed'[b] = consumed[b]
  BY <1>1, <1>2, PassIs
<3>2. arrived'[c] + Due(b, c)' <= consumed'[b]
  BY <1>3, <1>11, <1>12, <3>1
<3>3. QED BY <1>2, <2>2, <3>2 DEF Passed
<2>3. CASE a # c
<3>1. a \in Subscribers(b) => Due(b, a)' = Due(b, a)
  BY <1>1, <1>7, <1>9, <2>3 DEF Due, Owed, n
<3>2. \A d \in Blocks : d # b => Due(d, a)' = Due(d, a)
  BY <1>1, <1>9 DEF Due, Owed
<3>3. HasSource(a) => Due(Source[a], a)' = Due(Source[a], a)
  BY <2>1, <3>1, <3>2
<3>4. QED BY <1>1, <1>12, <2>3, <3>3 DEF Passed, Counts
<2>4. QED BY <2>2, <2>3
<1>16. ASSUME NEW a \in Blocks PROVE Queued(a)'
<2>1. CASE a = c
<3>1. Elements(chunks[c])' = Elements(chunks[c]) + n
  BY <1>4, <1>6
<3>2. consumed[c] + Elements(chunks[c]) = arrived[c] /\ Elements(chunks[c]) \in Nat
      /\ consumed[c] \in Nat
  BY <1>2, PassIs DEF Counts, Queued
<3>3. QED BY <1>1, <1>3, <1>12, <2>1, <3>1, <3>2 DEF Queued
<2>2. CASE a # c
<3>1. Elements(chunks[a])' = Elements(chunks[a])
  BY <1>6, <2>2
<3>2. QED BY <1>1, <1>12, <2>2, <3>1 DEF Queued, Counts
<2>3. QED BY <2>1, <2>2
<1>17. arrived'[1] + left'.elements = MaxElements
<2>1. c # 1
  BY <1>2, Tree
<2>2. QED BY <1>1, <1>12, <2>1, Tree DEF Counts
<1>18. QED BY <1>13, <1>14, <1>15, <1>16, <1>17 DEF Fits, Counts

LEMMA PushBufferTypes ==
    ASSUME TypesAndCounts, PushBuffer
    PROVE  TypesAndCounts'
<1> USE DEF TypesAndCounts
<1>1. PICK n \in 1..left.elements :
        \E newLabels \in {<<>>} \cup
               {<<[index |-> i * ElemSize, origin |-> arrived[1] + i]>> : i \in 0..(n - 1)} :
            /\ Len(newLabels) <= left.labels
            /\ BufferLabelPush(1, newLabels, chunks[1])
            /\ chunks' = [chunks EXCEPT ![1] = Append(@, [buf |-> 0, len |-> n])]
            /\ arrived' = [arrived EXCEPT ![1] = @ + n]
            /\ flag' = Flagged({1})
            /\ left' = [left EXCEPT !.elements = @ - n, !.labels = @ - Len(newLabels)]
            /\ UNCHANGED <<active, pc, pass, labels, postedLabels, ioVars, managers,
                           consumed, delivered>>
  BY DEF PushBuffer
<1>2. PICK newLabels \in {<<>>} \cup
               {<<[index |-> i * ElemSize, origin |-> arrived[1] + i]>> : i \in 0..(n - 1)} :
            /\ Len(newLabels) <= left.labels
            /\ BufferLabelPush(1, newLabels, chunks[1])
            /\ chunks' = [chunks EXCEPT ![1] = Append(@, [buf |-> 0, len |-> n])]
            /\ arrived' = [arrived EXCEPT ![1] = @ + n]
            /\ flag' = Flagged({1})
            /\ left' = [left EXCEPT !.elements = @ - n, !.labels = @ - Len(newLabels)]
            /\ UNCHANGED <<active, pc, pass, labels, postedLabels, ioVars, managers,
                           consumed, delivered>>
  BY <1>1
<1>3. /\ active' = active /\ pc' = pc /\ pass' = pass /\ labels' = labels
      /\ postedLabels' = postedLabels
      /\ messages' = messages /\ slotCalls' = slotCalls /\ tokens' = tokens
      /\ ready' = ready /\ room' = room /\ consumed' = consumed /\ delivered' = delivered
  BY <1>2 DEF ioVars, managers
<1> DEFINE chunk == [buf |-> 0, len |-> n]
           queue == Append(chunks[1], chunk)
<1>4. /\ 1 \in Blocks /\ n \in Nat /\ n > 0 /\ n <= left.elements
      /\ arrived[1] \in Nat /\ left.elements \in Nat /\ arrived[1] + left.elements = MaxElements
  BY Tree, PassIs DEF Counts
<1>5. newLabels \in Seq(LabelRecords) /\ Len(newLabels) \in Nat
<2>1. <<>> \in Seq(LabelRecords)
  BY EmptySeq
<2>2. ASSUME NEW i \in 0..(n - 1)
      PROVE  <<[index |-> i * ElemSize, origin |-> arrived[1] + i]>> \in Seq(LabelRecords)
<3>0. i \in Int
  OBVIOUS
<3>1. i * ElemSize \in Int /\ arrived[1] + i \in Nat
<4>1. i * ElemSize \in Int
  BY <3>0, ElementsWide, Zenon
<4>2. arrived[1] + i \in Nat
  BY <1>4
<4>3. QED BY <4>1, <4>2
<3>2. [index |-> i * ElemSize, origin |-> arrived[1] + i] \in LabelRecords
  BY <3>1 DEF LabelRecords
<3>3. QED BY <3>2
<2>3. newLabels \in Seq(LabelRecords)
  BY <2>1, <2>2
<2>4. QED BY <2>3, LabelIs
<1>6. chunk \in ChunkRecords /\ chunk.len = n
<2>1. 0 \in 0..NumBuffers
  BY SizesAssumption
<2>2. QED BY <1>4, <2>1 DEF ChunkRecords
<1>7. chunks[1] \in Seq(ChunkRecords)
  BY <1>4 DEF TypeOK
<1> HIDE DEF chunk
<1>8. /\ queue \in Seq(ChunkRecords) /\ Elements(queue) = Elements(chunks[1]) + n
      /\ Elements(chunks[1]) \in Nat
  BY <1>6, <1>7, ElementsAppend
<1>9. /\ FrontElements(queue) \in Nat /\ FrontElements(queue) >= FrontElements(chunks[1])
<2>1. FrontElements(queue) \in Nat /\ FrontElements(chunks[1]) \in Nat
  BY <1>7, <1>8, ElementsCount
<2>2. CASE chunks[1] = <<>>
  BY <2>1, <2>2 DEF FrontElements
<2>3. CASE chunks[1] # <<>>
<3>1. queue # <<>> /\ Head(queue) = Head(chunks[1])
  BY <1>6, <1>7, <2>3, AppendProperties, HeadTailAppend
<3>2. FrontElements(queue) = FrontElements(chunks[1])
  BY <2>3, <3>1 DEF FrontElements
<3>3. QED BY <2>1, <3>2
<2>4. QED BY <2>2, <2>3
<1>10. /\ chunks' \in [Blocks -> Seq(ChunkRecords)] /\ chunks'[1] = queue
       /\ \A a \in Blocks : a # 1 => chunks'[a] = chunks[a]
<2>1. chunks' = [chunks EXCEPT ![1] = queue]
  BY <1>2 DEF chunk
<2> HIDE DEF queue
<2>2. QED BY <1>4, <1>8, <2>1 DEF TypeOK
<1> HIDE DEF queue
<1>11. /\ arrived' \in [Blocks -> 0..MaxElements] /\ arrived'[1] = arrived[1] + n
       /\ \A a \in Blocks : a # 1 => arrived'[a] = arrived[a]
<2>1. arrived[1] + n \in 0..MaxElements
  BY <1>4, BudgetAssumption
<2>2. QED BY <1>2, <1>4, <2>1 DEF TypeOK
<1>12. /\ left' \in [elements : 0..MaxElements, labels : 0..MaxLabels, events : 0..MaxEvents]
       /\ left'.elements = left.elements - n
<2> DEFINE k == Len(newLabels)
<2>1. PICK l \in [elements : 0..MaxElements, labels : 0..MaxLabels, events : 0..MaxEvents] : l = left
  BY DEF TypeOK
<2>2. left' = [l EXCEPT !.elements = l.elements - n, !.labels = l.labels - k] /\ k <= l.labels
  BY <1>2, <2>1
<2> HIDE DEF k
<2>3. k \in Nat /\ MaxElements \in Nat /\ MaxLabels \in Nat /\ l.labels \in 0..MaxLabels
      /\ l.elements \in 0..MaxElements /\ n <= l.elements
  BY <1>4, <1>5, <2>1, BudgetAssumption DEF k
<2>4. l.elements - n \in 0..MaxElements /\ l.labels - k \in 0..MaxLabels
  BY <1>4, <2>2, <2>3
<2>5. QED BY <2>1, <2>2, <2>4
<1>13. TypeOK'
<2>1. flag' \in [Blocks -> BOOLEAN]
  BY <1>2 DEF TypeOK, Flagged
<2>2. inputLabels' \in [Blocks -> Seq(LabelRecords)]
  BY <1>2, <1>4, <1>5, LabelsPushed
<2>3. QED BY <1>3, <1>10, <1>11, <1>12, <2>1, <2>2 DEF TypeOK
<1>14. ASSUME NEW a \in Blocks PROVE PassFits(a)'
<2>1. room'[a] \in Nat /\ room'[a] >= room[a]
  BY <1>3, PassIs
<2>2. FrontElements(chunks'[a]) \in Nat /\ FrontElements(chunks'[a]) >= FrontElements(chunks[a])
<3>1. CASE a = 1
  BY <1>9, <1>10, <3>1
<3>2. CASE a # 1
  BY <1>10, <3>2, PassIs
<3>3. QED BY <3>1, <3>2
<2>3. QED BY <1>3, <2>1, <2>2, FitsOnly DEF Fits
<1>15. ASSUME NEW a \in Blocks PROVE Passed(a)'
<2>1. CASE a = 1
  BY <2>1, Tree DEF Passed
<2>2. CASE a # 1
  BY <1>3, <1>11, <2>2, PassedOnly DEF Counts
<2>3. QED BY <2>1, <2>2
<1>16. ASSUME NEW a \in Blocks PROVE Queued(a)'
<2>1. CASE a = 1
<3>1. Elements(chunks[1])' = Elements(chunks[1]) + n
  BY <1>8, <1>10
<3>2. consumed[1] + Elements(chunks[1]) = arrived[1] /\ consumed[1] \in Nat
  BY <1>4, PassIs DEF Counts, Queued
<3>3. QED BY <1>3, <1>4, <1>8, <1>11, <2>1, <3>1, <3>2 DEF Queued
<2>2. CASE a # 1
<3>1. Elements(chunks[a])' = Elements(chunks[a])
  BY <1>10, <2>2
<3>2. QED BY <1>3, <1>11, <2>2, <3>1 DEF Queued, Counts
<2>3. QED BY <2>1, <2>2
<1>17. arrived'[1] + left'.elements = MaxElements
  BY <1>4, <1>11, <1>12
<1>18. QED BY <1>13, <1>14, <1>15, <1>16, <1>17 DEF Fits, Counts

\* Nothing that the counts are about changes.
LEMMA CountsOnly ==
    ASSUME TypesAndCounts, pc' = pc, pass' = pass, chunks' = chunks, ready' = ready,
           room' = room, arrived' = arrived, consumed' = consumed,
           left'.elements = left.elements
    PROVE  (Fits /\ Counts)'
<1> USE DEF TypesAndCounts
<1>1. ASSUME NEW a \in Blocks PROVE PassFits(a)'
<2>1. room'[a] \in Nat /\ room'[a] >= room[a] /\ FrontElements(chunks'[a]) \in Nat
      /\ FrontElements(chunks'[a]) >= FrontElements(chunks[a])
  BY PassIs
<2>2. QED BY <2>1, FitsOnly DEF Fits
<1>2. ASSUME NEW a \in Blocks PROVE Passed(a)'
  BY PassedOnly DEF Counts
<1>3. ASSUME NEW a \in Blocks PROVE Queued(a)'
  BY DEF Counts, Queued
<1>4. arrived'[1] + left'.elements = MaxElements
  BY DEF Counts
<1>5. QED BY <1>1, <1>2, <1>3, <1>4 DEF Fits, Counts

LEMMA EventSpent ==
    ASSUME TypeOK, left.events > 0, left' = [left EXCEPT !.events = @ - 1]
    PROVE  /\ left' \in [elements : 0..MaxElements, labels : 0..MaxLabels, events : 0..MaxEvents]
           /\ left'.elements = left.elements
<1>1. PICK l \in [elements : 0..MaxElements, labels : 0..MaxLabels, events : 0..MaxEvents] : l = left
  BY DEF TypeOK
<1>2. left' = [l EXCEPT !.events = l.events - 1] /\ l.events > 0
  BY <1>1
<1>3. l.events - 1 \in 0..MaxEvents
  BY <1>1, <1>2, BudgetAssumption
<1>4. QED BY <1>1, <1>2, <1>3

\* A message or a slot call from outside holds no token.
LEMMA QueuedFromOutside ==
    ASSUME NEW queues \in [Blocks -> Seq(0..NumTokens)]
    PROVE  [queues EXCEPT ![1] = Append(@, 0)] \in [Blocks -> Seq(0..NumTokens)]
<1>1. 0 \in 0..NumTokens /\ 1 \in Blocks
  BY SizesAssumption, Tree
<1>2. Append(queues[1], 0) \in Seq(0..NumTokens)
  BY <1>1, AppendProperties
<1>3. QED BY <1>2

LEMMA PushMessageTypes ==
    ASSUME TypesAndCounts, PushMessage
    PROVE  TypesAndCounts'
<1> USE DEF TypesAndCounts
<1>1. /\ left.events > 0 /\ left' = [left EXCEPT !.events = @ - 1] /\ flag' = Flagged({1})
      /\ messages' = [messages EXCEPT ![1] = Append(@, 0)]
      /\ active' = active /\ pc' = pc /\ pass' = pass /\ ready' = ready /\ room' = room
      /\ chunks' = chunks /\ inputLabels' = inputLabels /\ labels' = labels
      /\ postedLabels' = postedLabels /\ slotCalls' = slotCalls /\ tokens' = tokens
      /\ arrived' = arrived /\ consumed' = consumed /\ delivered' = delivered
  BY DEF PushMessage, flowVars, managers, ghosts
<1>2. flag' \in [Blocks -> BOOLEAN]
  BY <1>1 DEF Flagged, TypeOK
<1>3. messages' \in [Blocks -> Seq(0..NumTokens)]
  BY <1>1, QueuedFromOutside DEF TypeOK
<1>4. TypeOK'
  BY <1>1, <1>2, <1>3, EventSpent DEF TypeOK
<1>5. QED BY <1>1, <1>4, EventSpent, CountsOnly

LEMMA SlotCallsPushTypes ==
    ASSUME TypesAndCounts, SlotCallsPush
    PROVE  TypesAndCounts'
<1> USE DEF TypesAndCounts
<1>1. /\ left.events > 0 /\ left' = [left EXCEPT !.events = @ - 1] /\ flag' = Flagged({1})
      /\ slotCalls' = [slotCalls EXCEPT ![1] = Append(@, 0)]
      /\ active' = active /\ pc' = pc /\ pass' = pass /\ ready' = ready /\ room' = room
      /\ chunks' = chunks /\ inputLabels' = inputLabels /\ labels' = labels
      /\ postedLabels' = postedLabels /\ messages' = messages /\ tokens' = tokens
      /\ arrived' = arrived /\ consumed' = consumed /\ delivered' = delivered
  BY DEF SlotCallsPush, flowVars, managers, ghosts
<1>2. flag' \in [Blocks -> BOOLEAN]
  BY <1>1 DEF Flagged, TypeOK
<1>3. slotCalls' \in [Blocks -> Seq(0..NumTokens)]
  BY <1>1, QueuedFromOutside DEF TypeOK
<1>4. TypeOK'
  BY <1>1, <1>2, <1>3, EventSpent DEF TypeOK
<1>5. QED BY <1>1, <1>4, EventSpent, CountsOnly

LEMMA SetActiveStateOnTypes ==
    ASSUME TypesAndCounts, NEW b \in Blocks, SetActiveStateOn(b)
    PROVE  TypesAndCounts'
<1> USE DEF TypesAndCounts
<1>1. /\ active' = [active EXCEPT ![b] = TRUE] /\ flag' = Flagged({b}) /\ left' = left
      /\ pc' = pc /\ pass' = pass /\ ready' = ready /\ room' = room
      /\ chunks' = chunks /\ inputLabels' = inputLabels /\ labels' = labels
      /\ postedLabels' = postedLabels
      /\ messages' = messages /\ slotCalls' = slotCalls /\ tokens' = tokens
      /\ arrived' = arrived /\ consumed' = consumed /\ delivered' = delivered
  BY DEF SetActiveStateOn, flowVars, ioVars, managers, ghosts
<1>2. flag' \in [Blocks -> BOOLEAN] /\ active' \in [Blocks -> BOOLEAN]
  BY <1>1 DEF Flagged, TypeOK
<1>3. TypeOK'
  BY <1>1, <1>2 DEF TypeOK
<1>4. QED BY <1>1, <1>3, CountsOnly

LEMMA SetActiveStateOffTypes ==
    ASSUME TypesAndCounts, NEW b \in Blocks, SetActiveStateOff(b)
    PROVE  TypesAndCounts'
<1> USE DEF TypesAndCounts
<1>1. /\ active' = [active EXCEPT ![b] = FALSE] /\ flag' = Flagged({b})
      /\ left.events > 0 /\ left' = [left EXCEPT !.events = @ - 1]
      /\ pc' = pc /\ pass' = pass /\ ready' = ready /\ room' = room
      /\ chunks' = chunks /\ inputLabels' = inputLabels /\ labels' = labels
      /\ postedLabels' = postedLabels
      /\ messages' = messages /\ slotCalls' = slotCalls /\ tokens' = tokens
      /\ arrived' = arrived /\ consumed' = consumed /\ delivered' = delivered
  BY DEF SetActiveStateOff, flowVars, ioVars, managers, ghosts
<1>2. flag' \in [Blocks -> BOOLEAN] /\ active' \in [Blocks -> BOOLEAN]
  BY <1>1 DEF Flagged, TypeOK
<1>3. TypeOK'
  BY <1>1, <1>2, EventSpent DEF TypeOK
<1>4. QED BY <1>1, <1>3, EventSpent, CountsOnly

LEMMA EmitSignalTypes ==
    ASSUME TypesAndCounts, NEW b \in Blocks, EmitSignal(b)
    PROVE  TypesAndCounts'
<1> USE DEF TypesAndCounts
<1>1. PICK counted \in BOOLEAN :
        /\ HasOutput(b) /\ left.events > 0
        /\ counted => pc[b] \notin {"idle", "outputs"}
        /\ tokens' = [tokens EXCEPT ![b] = @ \ Range(Tokens(b, 1))]
        /\ slotCalls' = [c \in Blocks |->
              IF c \in Subscribers(b) THEN slotCalls[c] \o Tokens(b, 1) ELSE slotCalls[c]]
        /\ flag' = Flagged(Subscribers(b))
        /\ pass' = [pass EXCEPT ![b].outEvents = @ \/ counted]
        /\ left' = [left EXCEPT !.events = @ - 1]
        /\ UNCHANGED <<active, pc, flowVars, messages, managers, ghosts>>
  BY DEF EmitSignal
<1>2. /\ active' = active /\ pc' = pc /\ ready' = ready /\ room' = room
      /\ chunks' = chunks /\ inputLabels' = inputLabels /\ labels' = labels
      /\ postedLabels' = postedLabels /\ messages' = messages
      /\ arrived' = arrived /\ consumed' = consumed /\ delivered' = delivered
  BY <1>1 DEF flowVars, managers, ghosts
<1>3. PICK r \in PassRecords : r = pass[b]
  BY DEF TypeOK
<1> DEFINE outs == r.outEvents \/ counted
           p == [r EXCEPT !.outEvents = outs]
<1>4. outs \in BOOLEAN /\ (~counted => outs = r.outEvents)
  BY DEF PassRecords
<1>5. pass' = [pass EXCEPT ![b] = p]
  BY <1>1, <1>3
<1> HIDE DEF outs
<1>6. /\ p \in PassRecords
      /\ p.ready = r.ready /\ p.outElems = r.outElems /\ p.inElems = r.inElems
      /\ p.consume = r.consume /\ p.produce = r.produce /\ p.inEvents = r.inEvents
      /\ p.posted = r.posted /\ p.subscribers = r.subscribers /\ p.outEvents = outs
      /\ ~counted => p = r
  BY <1>4 DEF PassRecords
<1> HIDE DEF p
<1>7. pass' \in [Blocks -> PassRecords] /\ pass'[b] = p /\ \A a \in Blocks : a # b => pass'[a] = pass[a]
  BY <1>5, <1>6 DEF TypeOK
<1>8. Tokens(b, 1) \in Seq(0..NumTokens)
  BY TokensAre DEF TypeOK
<1>9. slotCalls' \in [Blocks -> Seq(0..NumTokens)]
<2>1. \A c \in Blocks : slotCalls[c] \o Tokens(b, 1) \in Seq(0..NumTokens)
  BY <1>8, ConcatProperties DEF TypeOK
<2>2. QED BY <1>1, <2>1 DEF TypeOK
<1>10. tokens' \in [Blocks -> SUBSET (1..NumTokens)]
  BY <1>1 DEF TypeOK
<1>11. flag' \in [Blocks -> BOOLEAN]
  BY <1>1 DEF TypeOK, Flagged
<1>12. TypeOK'
  BY <1>1, <1>2, <1>7, <1>9, <1>10, <1>11, EventSpent DEF TypeOK
<1>13. ASSUME NEW a \in Blocks PROVE PassFits(a)'
<2>1. CASE pass'[a] = pass[a]
<3>1. room'[a] \in Nat /\ room'[a] >= room[a] /\ FrontElements(chunks'[a]) \in Nat
      /\ FrontElements(chunks'[a]) >= FrontElements(chunks[a])
  BY <1>2, PassIs
<3>2. QED BY <1>2, <2>1, <3>1, FitsOnly DEF Fits
<2>2. CASE a = b /\ counted
<3>1. FrontElements(chunks'[b]) = FrontElements(chunks[b]) /\ PassFits(b)
      /\ pc[b] \notin {"idle", "outputs"}
  BY <1>1, <1>2, <2>2 DEF Fits
<3>2. FrontElements(chunks[b])' = FrontElements(chunks'[b])
  BY DEF FrontElements
<3>3. HasOutput(b)' = HasOutput(b) /\ Subscribers(b)' = Subscribers(b)
  BY DEF HasOutput, Subscribers
<3> HIDE DEF FrontElements
<3>4. QED BY <1>2, <1>3, <1>6, <1>7, <2>2, <3>1, <3>2, <3>3 DEF PassFits
<2>3. QED BY <1>3, <1>6, <1>7, <2>1, <2>2
<1>14. ASSUME NEW a \in Blocks PROVE Passed(a)'
<2>1. \A s \in Blocks : Due(s, a)' = Due(s, a)
  BY <1>2, <1>3, <1>6, <1>7 DEF Due, Owed
<2>2. HasSource(a) => Source[a] \in Blocks
  BY Tree
<2>3. QED BY <1>2, <2>1, <2>2 DEF Passed, Counts
<1>15. arrived'[1] + left'.elements = MaxElements
  BY <1>1, <1>2, EventSpent DEF Counts
<1>16. QED BY <1>2, <1>12, <1>13, <1>14, <1>15 DEF Fits, Counts, Queued

LEMMA InitTypes == Init => TypesAndCounts
<1> SUFFICES ASSUME Init PROVE TypesAndCounts
  OBVIOUS
<1>0. /\ NumBuffers \in Nat \ {0} /\ BufSize \in Nat \ {0} /\ NumTokens \in Nat \ {0}
      /\ MaxElements \in Nat /\ MaxLabels \in Nat /\ MaxEvents \in Nat
  BY SizesAssumption, BudgetAssumption
<1>1. NoPass \in PassRecords
<2>1. 0 \in 0..BufSize /\ 0 \in 0..NumBuffers /\ 0 \in Nat /\ {} \in SUBSET Blocks
  BY <1>0
<2>2. QED BY <2>1 DEF NoPass, PassRecords
<1>2. /\ <<>> \in Seq(ChunkRecords) /\ <<>> \in Seq(LabelRecords) /\ <<>> \in Seq(0..NumTokens)
      /\ <<>> \in Seq(Nat)
  BY EmptySeq
<1>3. [i \in 1..NumBuffers |-> i] \in Seq(1..NumBuffers) /\ [i \in 1..NumBuffers |-> i] # <<>>
<2>1. [i \in 1..NumBuffers |-> i] \in Seq(1..NumBuffers)
  BY <1>0
<2>2. Len([i \in 1..NumBuffers |-> i]) = NumBuffers
  BY <1>0
<2>3. QED BY <1>0, <2>1, <2>2, EmptySeq
<1>4. TypeOK
<2>1. /\ flag \in [Blocks -> BOOLEAN] /\ active \in [Blocks -> BOOLEAN]
      /\ pc \in [Blocks -> States] /\ pass \in [Blocks -> PassRecords]
  BY <1>1 DEF Init, States
<2>2. /\ chunks \in [Blocks -> Seq(ChunkRecords)]
      /\ inputLabels \in [Blocks -> Seq(LabelRecords)] /\ labels \in [Blocks -> Seq(LabelRecords)]
      /\ postedLabels \in [Blocks -> Seq(LabelRecords)]
      /\ messages \in [Blocks -> Seq(0..NumTokens)] /\ slotCalls \in [Blocks -> Seq(0..NumTokens)]
      /\ delivered \in [Blocks -> Seq(Nat)]
  BY <1>2 DEF Init
<2>3. tokens \in [Blocks -> SUBSET (1..NumTokens)] /\ ready \in [Blocks -> Seq(1..NumBuffers)]
  BY <1>3 DEF Init
<2>4. room \in [Blocks -> 0..BufSize] /\ \A b \in Blocks : room[b] = 0 <=> ready[b] = <<>>
<3>1. \A b \in Blocks : room[b] = BufSize /\ ready[b] = [i \in 1..NumBuffers |-> i]
  BY DEF Init
<3>2. room \in [Blocks -> 0..BufSize]
  BY <1>0 DEF Init
<3>3. ASSUME NEW b \in Blocks PROVE room[b] # 0 /\ ready[b] # <<>>
  BY <1>0, <1>3, <3>1
<3>4. QED BY <3>2, <3>3
<2>5. arrived \in [Blocks -> 0..MaxElements] /\ consumed \in [Blocks -> 0..MaxElements]
  BY <1>0 DEF Init
<2>6. left \in [elements : 0..MaxElements, labels : 0..MaxLabels, events : 0..MaxEvents]
  BY <1>0 DEF Init
<2>7. QED BY <2>1, <2>2, <2>3, <2>4, <2>5, <2>6 DEF TypeOK, States
<1>5. ASSUME NEW b \in Blocks PROVE PassFits(b)
<2>1. pc[b] = "idle" /\ pass[b] = NoPass
  BY DEF Init
<2>2. NoPass.posted = 0 /\ NoPass.subscribers = {}
  BY DEF NoPass
<2>3. QED BY <2>1, <2>2 DEF PassFits
<1>6. ASSUME NEW b \in Blocks PROVE Queued(b) /\ Passed(b)
<2>1. Queued(b)
  BY ElementsNone DEF Queued, Init
<2>2. HasSource(b) => Source[b] \in Blocks
  BY Tree
<2>3. HasSource(b) => Due(Source[b], b) = 0
  BY <2>2 DEF Init, Due, Owed
<2>4. QED BY <2>1, <2>2, <2>3 DEF Passed, Init
<1>7. arrived[1] + left.elements = MaxElements
  BY <1>0, Tree DEF Init
<1>8. QED BY <1>4, <1>5, <1>6, <1>7 DEF TypesAndCounts, Fits, Counts

LEMMA StutterTypes == TypesAndCounts /\ UNCHANGED vars => TypesAndCounts'
<1> SUFFICES ASSUME TypesAndCounts, UNCHANGED vars PROVE TypesAndCounts'
  OBVIOUS
<1>1. /\ flag' = flag /\ active' = active /\ pc' = pc /\ pass' = pass /\ ready' = ready
      /\ room' = room /\ chunks' = chunks /\ inputLabels' = inputLabels /\ labels' = labels
      /\ postedLabels' = postedLabels /\ messages' = messages /\ slotCalls' = slotCalls
      /\ tokens' = tokens /\ arrived' = arrived /\ consumed' = consumed
      /\ delivered' = delivered /\ left' = left
  BY DEF vars, flowVars, ioVars, managers, ghosts
<1>2. TypeOK'
  BY <1>1 DEF TypesAndCounts, TypeOK
<1>3. QED BY <1>1, <1>2, CountsOnly DEF TypesAndCounts

LEMMA TypesKept == TypesAndCounts /\ [Next]_vars => TypesAndCounts'
<1> SUFFICES ASSUME TypesAndCounts, Next PROVE TypesAndCounts'
  BY StutterTypes
<1>1. CASE PushBuffer \/ PushMessage \/ SlotCallsPush
  BY <1>1, PushBufferTypes, PushMessageTypes, SlotCallsPushTypes
<1>2. ASSUME NEW b \in Blocks, WorkerStep(b) PROVE TypesAndCounts'
<2>1. CASE StartPass(b) \/ PreWorkOutputs(b) \/ PreWorkInputs(b) \/ Work(b)
  BY <2>1, StartPassTypes, PreWorkOutputsTypes, PreWorkInputsTypes, WorkTypes
<2>2. CASE PostWorkInputs(b) \/ PostWorkOutputs(b) \/ PushToSubscriber(b) \/ EndPass(b)
  BY <2>2, PostWorkInputsTypes, PostWorkOutputsTypes, PushToSubscriberTypes, EndPassTypes
<2>3. QED BY <1>2, <2>1, <2>2 DEF WorkerStep
<1>3. ASSUME NEW b \in Blocks, EmitSignal(b) \/ SetActiveStateOn(b) \/ SetActiveStateOff(b)
      PROVE  TypesAndCounts'
  BY <1>3, EmitSignalTypes, SetActiveStateOnTypes, SetActiveStateOffTypes
<1>4. QED BY <1>1, <1>2, <1>3 DEF Next

LEMMA AlwaysTypesAndCounts == Spec => []TypesAndCounts
  BY InitTypes, TypesKept, PTL DEF Spec

\* The types of the queues hold, no index of a buffer manager runs over its
\* buffer, and no pass consumes, produces or pops more than it found.
THEOREM TypesHold == Spec => []TypeOK
<1>1. TypesAndCounts => TypeOK
  BY DEF TypesAndCounts
<1>2. QED BY <1>1, AlwaysTypesAndCounts, PTL

(***************************************************************************)
(* No block is left with something to do and nothing to tell it            *)
(***************************************************************************)

\* A block whose flag is down has seen what there is: wherever its pass is, it
\* will work, or flag a change when it ends, if there is something to do.
Seen(b) ==
    active[b] /\ ~flag[b] =>
        /\ pc[b] = "idle" => ~HasWork(b)
        /\ pc[b] \in {"inputs", "work"} /\ HasOutput(b) /\ HasWork(b) =>
              pass[b].ready /\ pass[b].outElems > 0
        /\ pc[b] = "work" /\ HasWork(b) => messages[b] # <<>> \/ pass[b].inElems >= Required(b)
        /\ pc[b] = "consume" /\ HasWork(b) => pass[b].consume > 0 \/ pass[b].inEvents
        /\ pc[b] \in {"post", "push"} => ~HasWork(b)

AllSeen == \A b \in Blocks : Seen(b)

LEMMA FlaggedAre ==
    ASSUME NEW S, NEW c \in Blocks, flag' = Flagged(S)
    PROVE  (flag[c] => flag'[c]) /\ (c \in S => flag'[c])
  BY DEF Flagged

\* There is no more to do than there was.
LEMMA WorkOnly ==
    ASSUME NEW b \in Blocks, ready'[b] # <<>> => ready[b] # <<>>, tokens'[b] # {} => tokens[b] # {},
           Elements(chunks'[b]) = Elements(chunks[b]), messages'[b] # <<>> => messages[b] # <<>>
    PROVE  HasWork(b)' => HasWork(b)
<1>1. HasOutput(b)' = HasOutput(b) /\ Required(b)' = Required(b)
  BY DEF HasOutput, Subscribers, Required, Reserve
<1>2. QED BY <1>1 DEF HasWork

\* The pass of b does not move, and b is told of what becomes possible.
LEMMA SeenOnly ==
    ASSUME NEW b \in Blocks, Seen(b), active'[b] => active[b], flag[b] => flag'[b],
           pc'[b] = pc[b],
           /\ pass'[b].ready = pass[b].ready /\ pass'[b].outElems = pass[b].outElems
           /\ pass'[b].inElems = pass[b].inElems /\ pass'[b].consume = pass[b].consume
           /\ pass'[b].inEvents = pass[b].inEvents,
           ~flag'[b] =>
              /\ ready'[b] # <<>> => ready[b] # <<>>
              /\ tokens'[b] # {} => tokens[b] # {}
              /\ Elements(chunks'[b]) = Elements(chunks[b]) /\ messages'[b] = messages[b]
    PROVE  Seen(b)'
<1> SUFFICES ASSUME active'[b], ~flag'[b] PROVE Seen(b)'
  BY DEF Seen
<1>1. HasWork(b)' => HasWork(b)
  BY WorkOnly
<1>2. active[b] /\ ~flag[b] /\ messages'[b] = messages[b]
  OBVIOUS
<1>3. HasOutput(b)' = HasOutput(b) /\ Required(b)' = Required(b)
  BY DEF HasOutput, Subscribers, Required, Reserve
<1>4. QED BY <1>1, <1>2, <1>3 DEF Seen

\* Whoever gets a buffer or a token back is told.
LEMMA ReturnsTell ==
    ASSUME NEW b \in Blocks, TypeOK, NEW c \in Blocks, NEW queue \in Seq(ChunkRecords),
           NEW flagging, ReturnBuffers(b, queue, flagging)
    PROVE  /\ flag[c] => flag'[c]
           /\ c \in flagging => flag'[c]
           /\ ~flag'[c] => ready'[c] = ready[c]
           /\ c = b => ready'[c] = ready[c]
<1>0. Chunks /\ Managers
  BY DEF Chunks, Managers, TypeOK
<1>1. /\ \A d \in Blocks : ~(HasSource(b) /\ d = Source[b]) => ready'[d] = ready[d]
      /\ HasSource(b) => ready'[Source[b]] = ready[Source[b]] \o Returned(b, queue)
      /\ flag' = Flagged(flagging \cup Told(b, queue))
  BY <1>0, ReturnedBuffers
<1>2. ASSUME ~flag'[c], HasSource(b), c = Source[b] PROVE ready'[c] = ready[c]
<2>1. Returned(b, queue) = <<>>
  BY <1>1, <1>2, FlaggedAre DEF Told
<2>2. ready[c] \in Seq(1..NumBuffers)
  BY DEF TypeOK
<2>3. ready[c] \o <<>> = ready[c]
  BY <2>2, ConcatEmptySeq
<2>4. QED BY <1>1, <1>2, <2>1, <2>3
<1>3. (flag[c] => flag'[c]) /\ (c \in flagging => flag'[c])
  BY <1>1, FlaggedAre
<1>4. HasSource(b) => Source[b] # b
  BY Tree
<1>5. QED BY <1>1, <1>2, <1>3, <1>4

LEMMA TokensTell ==
    ASSUME NEW b \in Blocks, tokens \in [Blocks -> SUBSET (1..NumTokens)], NEW given,
           NEW c \in Blocks, c \notin TokensTold(b, given)
    PROVE  ReturnTokens(b, given)[c] = tokens[c]
<1>1. CASE given = {}
  BY <1>1 DEF ReturnTokens
<1>2. CASE given # {}
<2>1. c # Source[b]
  BY <1>2 DEF TokensTold
<2>2. QED BY <2>1 DEF ReturnTokens
<1>3. QED BY <1>1, <1>2

LEMMA StartPassSeen ==
    ASSUME TypesAndCounts, AllSeen, NEW b \in Blocks, StartPass(b)
    PROVE  AllSeen'
<1> USE DEF TypesAndCounts
<1> DEFINE to == IF ~active[b] THEN "idle" ELSE IF HasOutput(b) THEN "outputs" ELSE "inputs"
<1>1. /\ Goto(b, "idle", to) /\ flag' = [flag EXCEPT ![b] = FALSE]
      /\ active' = active /\ pass' = pass /\ ready' = ready
      /\ chunks' = chunks /\ messages' = messages /\ tokens' = tokens
  BY DEF StartPass, flowVars, ioVars, managers
<1>2. to \in States
  BY DEF States
<1> HIDE DEF to
<1>3. pc[b] = "idle" /\ pc'[b] = to /\ \A c \in Blocks : c # b => pc'[c] = pc[c]
  BY <1>1, <1>2, Went
<1>4. ASSUME NEW c \in Blocks PROVE Seen(c)'
<2>1. CASE c # b
<3>1. flag'[c] = flag[c] /\ pc'[c] = pc[c]
  BY <1>1, <1>3, <2>1 DEF TypeOK
<3>2. QED BY <1>1, <3>1, SeenOnly DEF AllSeen
<2>2. CASE c = b
<3>1. HasOutput(b)' = HasOutput(b)
  BY DEF HasOutput, Subscribers
<3>2. active[b] => (to = "outputs" \/ (to = "inputs" /\ ~HasOutput(b)))
  BY DEF to
<3>3. QED BY <1>1, <1>3, <2>2, <3>1, <3>2 DEF Seen
<2>3. QED BY <2>1, <2>2
<1>5. QED BY <1>4 DEF AllSeen

LEMMA PreWorkOutputsSeen ==
    ASSUME TypesAndCounts, AllSeen, NEW b \in Blocks, PreWorkOutputs(b)
    PROVE  AllSeen'
<1> USE DEF TypesAndCounts
<1> DEFINE may == ready[b] # <<>> /\ tokens[b] # {}
           space == IF ready[b] # <<>> THEN room[b] ELSE 0
           p == [NoPass EXCEPT !.ready = may, !.outElems = space]
<1>1. /\ Goto(b, "outputs", "inputs") /\ pass' = [pass EXCEPT ![b] = p]
      /\ flag' = flag /\ active' = active /\ ready' = ready
      /\ chunks' = chunks /\ messages' = messages /\ tokens' = tokens
  BY DEF PreWorkOutputs, flowVars, ioVars, managers
<1>2. p.ready = may /\ p.outElems = space
<2> HIDE DEF may, space
<2>1. QED BY DEF NoPass
<1>3. pc[b] = "outputs" /\ pc'[b] = "inputs" /\ \A c \in Blocks : c # b => pc'[c] = pc[c]
<2>1. "inputs" \in States
  BY DEF States
<2>2. QED BY <1>1, <2>1, Went
<1> HIDE DEF p
<1>4. pass'[b] = p /\ \A c \in Blocks : c # b => pass'[c] = pass[c]
  BY <1>1 DEF TypeOK
<1>5. ASSUME NEW c \in Blocks PROVE Seen(c)'
<2>1. CASE c # b
  BY <1>1, <1>3, <1>4, <2>1, SeenOnly DEF AllSeen
<2>2. CASE c = b
<3>1. HasWork(b)' => HasWork(b)
  BY <1>1, WorkOnly
<3>2. HasOutput(b)' = HasOutput(b)
  BY DEF HasOutput, Subscribers
<3>3. HasOutput(b) /\ HasWork(b) => may /\ ready[b] # <<>>
  BY DEF HasWork
<3>4. ready[b] # <<>> => space > 0
<4>1. room[b] \in Nat /\ (room[b] = 0 <=> ready[b] = <<>>)
  BY PassIs DEF TypeOK
<4>2. QED BY <4>1
<3>5. HasOutput(b)' /\ HasWork(b)' => pass'[b].ready /\ pass'[b].outElems > 0
  BY <1>2, <1>4, <3>1, <3>2, <3>3, <3>4
<3>6. QED BY <1>3, <2>2, <3>5 DEF Seen
<2>3. QED BY <2>1, <2>2
<1>6. QED BY <1>5 DEF AllSeen

LEMMA PreWorkInputsSeen ==
    ASSUME TypesAndCounts, AllSeen, NEW b \in Blocks, PreWorkInputs(b)
    PROVE  AllSeen'
<1> USE DEF TypesAndCounts
<1> DEFINE queue == RequireChunks(chunks[b], Required(b))
           willWork == /\ HasOutput(b) => pass[b].ready
                       /\ FrontElements(queue) >= Reserve(b) \/ messages[b] # <<>>
           call == IF slotCalls[b] = <<>> THEN {} ELSE {Head(slotCalls[b])}
           given == GivenBack(b, call)
           to == IF willWork THEN "work" ELSE "idle"
           p == IF willWork THEN [pass[b] EXCEPT !.inElems = FrontElements(queue)] ELSE NoPass
<1>1. /\ Goto(b, "inputs", to) /\ pass' = [pass EXCEPT ![b] = p]
      /\ tokens' = ReturnTokens(b, given)
      /\ ReturnBuffers(b, queue, TokensTold(b, given))
      /\ active' = active /\ messages' = messages
  BY DEF PreWorkInputs, ghosts
<1>2. chunks[b] \in Seq(ChunkRecords) /\ Chunks /\ Managers
  BY DEF Chunks, Managers, TypeOK
<1>3. Required(b) \in Nat \ {0} /\ Reserve(b) \in Nat /\ Reserve(b) <= Required(b)
  BY TreeAssumption DEF Required, Reserve
<1>4. /\ queue \in Seq(ChunkRecords) /\ Elements(queue) = Elements(chunks[b])
      /\ FrontElements(queue) \in Nat
      /\ Elements(chunks[b]) >= Required(b) => FrontElements(queue) >= Required(b)
  BY <1>2, <1>3, RequireKeeps, ElementsCount
<1>5. willWork => /\ p.ready = pass[b].ready /\ p.outElems = pass[b].outElems
                  /\ p.inElems = FrontElements(queue)
<2>1. PICK r \in PassRecords : r = pass[b]
  BY PassIs
<2>2. willWork => p = [r EXCEPT !.inElems = FrontElements(queue)]
  BY <2>1
<2> HIDE DEF p, queue, willWork
<2>3. QED BY <2>1, <2>2 DEF PassRecords
<1>6. to = (IF willWork THEN "work" ELSE "idle")
  OBVIOUS
<1> HIDE DEF queue, given, p, to
<1>7. pc[b] = "inputs" /\ pc'[b] = to /\ \A c \in Blocks : c # b => pc'[c] = pc[c]
<2>1. to \in States
  BY <1>6 DEF States
<2>2. QED BY <1>1, <2>1, Went
<1>8. pass'[b] = p /\ \A c \in Blocks : c # b => pass'[c] = pass[c]
  BY <1>1 DEF TypeOK
<1>9. chunks'[b] = queue /\ \A c \in Blocks : c # b => chunks'[c] = chunks[c]
  BY <1>1, <1>2, <1>4, ReturnedBuffers
<1>10. ASSUME NEW c \in Blocks
       PROVE  /\ flag[c] => flag'[c]
              /\ ~flag'[c] => ready'[c] = ready[c] /\ tokens'[c] = tokens[c]
<2>1. /\ flag[c] => flag'[c]
      /\ c \in TokensTold(b, given) => flag'[c]
      /\ ~flag'[c] => ready'[c] = ready[c]
  BY <1>1, <1>4, ReturnsTell
<2>2. c \notin TokensTold(b, given) => tokens'[c] = tokens[c]
  BY <1>1, TokensTell DEF TypeOK
<2>3. QED BY <2>1, <2>2
<1>11. ASSUME NEW c \in Blocks PROVE Seen(c)'
<2>1. CASE c # b
  BY <1>1, <1>7, <1>8, <1>9, <1>10, <2>1, SeenOnly DEF AllSeen
<2>2. CASE c = b
<3> SUFFICES ASSUME active'[b], ~flag'[b] PROVE Seen(b)'
  BY <2>2 DEF Seen
<3>1. HasWork(b)' => HasWork(b)
  BY <1>1, <1>4, <1>9, <1>10, WorkOnly
<3>2. HasOutput(b)' = HasOutput(b) /\ Required(b)' = Required(b)
  BY DEF HasOutput, Subscribers, Required, Reserve
<3>3. HasOutput(b) /\ HasWork(b) => pass[b].ready /\ pass[b].outElems > 0
  BY <1>1, <1>7, <1>10 DEF AllSeen, Seen
<3>4. HasWork(b) => messages[b] # <<>> \/ FrontElements(queue) >= Required(b)
  BY <1>4 DEF HasWork
<3>5. HasWork(b) => willWork
  BY <1>3, <1>4, <3>3, <3>4 DEF queue
<3>6. CASE willWork
<4>1. HasOutput(b)' /\ HasWork(b)' => pass'[b].ready /\ pass'[b].outElems > 0
  BY <1>5, <1>8, <3>1, <3>2, <3>3, <3>6
<4>2. HasWork(b)' => messages'[b] # <<>> \/ pass'[b].inElems >= Required(b)'
  BY <1>1, <1>5, <1>8, <3>1, <3>2, <3>4, <3>6
<4>3. pc'[b] = "work"
  BY <1>6, <1>7, <3>6
<4>4. QED BY <4>1, <4>2, <4>3 DEF Seen
<3>7. CASE ~willWork
<4>1. pc'[b] = "idle" /\ ~HasWork(b)'
  BY <1>6, <1>7, <3>1, <3>5, <3>7
<4>2. QED BY <4>1 DEF Seen
<3>8. QED BY <3>6, <3>7
<2>3. QED BY <2>1, <2>2
<1>12. QED BY <1>11 DEF AllSeen

\* A block that has both enough elements and enough room consumes.
LEMMA ConsumesSomething ==
    ASSUME NEW b \in Blocks, TypeOK, NEW n \in Consumable(b),
           pass[b].inElems >= Required(b), HasOutput(b) => pass[b].outElems > 0
    PROVE  n > 0
<1> DEFINE d == Decimation[b]
<1>1. d \in Nat /\ d > 0 /\ pass[b].inElems \in Nat /\ pass[b].outElems \in Nat
  BY PassIs, TreeAssumption
<1>2. d <= pass[b].inElems
<2>1. CASE d = 1
  BY <2>1 DEF Required, Reserve
<2>2. CASE d # 1
  BY <1>1, <2>2 DEF Required, Reserve
<2>3. QED BY <2>1, <2>2
<1>3. d \in 1..pass[b].inElems /\ d % d = 0 /\ d \div d = 1
  BY <1>1, <1>2
<1>4. HasOutput(b) => d \div d <= pass[b].outElems
  BY <1>1, <1>3
<1>5. n \in 1..pass[b].inElems
  BY <1>3, <1>4 DEF Consumable
<1>6. QED BY <1>1, <1>5

LEMMA WorkSeen ==
    ASSUME TypesAndCounts, AllSeen, NEW b \in Blocks, Work(b)
    PROVE  AllSeen'
<1> USE DEF TypesAndCounts
<1>0. PICK n \in Consumable(b), k \in Poppable(b) :
          LET posted == IF HasOutput(b) THEN Tokens(b, k) ELSE <<>>
              given == GivenBack(b, Range(SubSeq(messages[b], 1, k)))
          IN  /\ messages' = [c \in Blocks |->
                    IF c = b THEN SubSeq(messages[b], k + 1, Len(messages[b]))
                    ELSE IF c \in Subscribers(b) THEN messages[c] \o posted ELSE messages[c]]
              /\ tokens' = [ReturnTokens(b, given) EXCEPT ![b] = @ \ Range(posted)]
              /\ flag' = Flagged((IF k > 0 THEN Subscribers(b) ELSE {}) \cup TokensTold(b, given))
              /\ pass' = [pass EXCEPT ![b] = Worked(b, n, k)]
              /\ UNCHANGED <<active, flowVars, slotCalls, managers, ghosts, left>>
  BY Zenon DEF Work
<1> DEFINE produce == IF HasOutput(b) THEN n \div Decimation[b] ELSE 0
           posted == IF HasOutput(b) THEN Tokens(b, k) ELSE <<>>
           given == GivenBack(b, Range(SubSeq(messages[b], 1, k)))
           told == (IF k > 0 THEN Subscribers(b) ELSE {}) \cup TokensTold(b, given)
           p == Worked(b, n, k)
<1>1. /\ messages' = [c \in Blocks |->
            IF c = b THEN SubSeq(messages[b], k + 1, Len(messages[b]))
            ELSE IF c \in Subscribers(b) THEN messages[c] \o posted ELSE messages[c]]
      /\ tokens' = [ReturnTokens(b, given) EXCEPT ![b] = @ \ Range(posted)]
      /\ flag' = Flagged(told) /\ pass' = [pass EXCEPT ![b] = p]
  BY <1>0
<1>2. active' = active /\ ready' = ready /\ chunks' = chunks
  BY <1>0 DEF flowVars, managers
<1>3. p.consume = n /\ p.inEvents = (k > 0)
<2>1. PICK r \in PassRecords : r = pass[b]
  BY PassIs
<2> DEFINE ins == k > 0
           outs == HasOutput(b) /\ (r.outEvents \/ k > 0)
<2>2. p = [r EXCEPT !.consume = n, !.produce = produce, !.inEvents = ins, !.outEvents = outs]
  BY <2>1 DEF Worked
<2> HIDE DEF p, ins, outs, produce
<2>3. p.consume = n /\ p.inEvents = ins
  BY <2>2 DEF PassRecords
<2>4. QED BY <2>3 DEF ins
<1> HIDE DEF p, posted, given, told
<1>4. pc[b] = "work" /\ pc'[b] = "consume" /\ \A c \in Blocks : c # b => pc'[c] = pc[c]
<2>1. "consume" \in States
  BY DEF States
<2>2. Goto(b, "work", "consume")
  BY DEF Work
<2>3. QED BY <2>1, <2>2, Went
<1>5. pass'[b] = p /\ \A c \in Blocks : c # b => pass'[c] = pass[c]
  BY <1>1 DEF TypeOK
<1>6. messages[b] \in Seq(0..NumTokens) /\ k \in Nat /\ k <= Len(messages[b])
      /\ (messages[b] # <<>> => k > 0)
<2>1. messages[b] \in Seq(0..NumTokens)
  BY DEF TypeOK
<2>2. QED BY <2>1 DEF Poppable
<1>7. ASSUME NEW c \in Blocks
      PROVE  (flag[c] => flag'[c]) /\ (c \in told => flag'[c])
  BY <1>1, FlaggedAre
<1>8. ASSUME NEW c \in Blocks, ~flag'[c], c # b
      PROVE  messages'[c] = messages[c] /\ tokens'[c] = tokens[c]
<2>1. c \notin told
  BY <1>7, <1>8
<2>2. ReturnTokens(b, given)[c] = tokens[c] /\ (c \in Subscribers(b) => ~(k > 0))
<3>1. c \notin TokensTold(b, given) /\ (c \in Subscribers(b) => ~(k > 0))
  BY <2>1 DEF told
<3>2. tokens \in [Blocks -> SUBSET (1..NumTokens)]
  BY DEF TypeOK
<3>3. QED BY <3>1, <3>2, TokensTell
<2>3. tokens'[c] = ReturnTokens(b, given)[c]
  BY <1>1, <1>8
<2>4. c \in Subscribers(b) => messages[c] \o posted = messages[c]
<3>1. ASSUME c \in Subscribers(b) PROVE posted = <<>>
<4>1. k = 0 /\ HasOutput(b)
  BY <1>6, <2>2, <3>1 DEF HasOutput
<4>2. posted = Tokens(b, 0)
  BY <4>1 DEF posted
<4>3. tokens[b] \subseteq 1..NumTokens /\ 0 \in Nat
  BY DEF TypeOK
<4>4. Tokens(b, 0) \in Seq(0..NumTokens) /\ Len(Tokens(b, 0)) = 0
  BY <4>3, TokensAre
<4>5. QED BY <4>2, <4>4
<3>2. messages[c] \o <<>> = messages[c]
  BY ConcatEmptySeq DEF TypeOK
<3>3. QED BY <3>1, <3>2
<2>5. messages'[c] = messages[c]
  BY <1>1, <1>8, <2>4
<2>6. QED BY <2>2, <2>3, <2>5
<1>9. ASSUME NEW c \in Blocks PROVE Seen(c)'
<2>1. CASE c # b
  BY <1>2, <1>4, <1>5, <1>7, <1>8, <2>1, SeenOnly DEF AllSeen
<2>2. CASE c = b
<3> SUFFICES ASSUME active'[b], ~flag'[b] PROVE Seen(b)'
  BY <2>2 DEF Seen
<3>1. HasWork(b)' => HasWork(b)
<4>1. tokens'[b] \subseteq tokens[b]
<5>1. b \notin TokensTold(b, given)
  BY <1>7 DEF told
<5>2. ReturnTokens(b, given)[b] = tokens[b]
<6>1. tokens \in [Blocks -> SUBSET (1..NumTokens)]
  BY DEF TypeOK
<6>2. \A d \in Blocks : d \notin TokensTold(b, given) => ReturnTokens(b, given)[d] = tokens[d]
  BY <6>1, TokensTell
<6>3. QED BY <5>1, <6>2
<5>3. b \in DOMAIN ReturnTokens(b, given)
  BY DEF ReturnTokens, TypeOK
<5>4. tokens'[b] = ReturnTokens(b, given)[b] \ Range(posted)
  BY <1>1, <5>3
<5>5. QED BY <5>2, <5>4
<4>2. messages'[b] # <<>> => messages[b] # <<>>
<5>1. messages[b] = <<>> => k = 0 /\ SubSeq(messages[b], 1, 0) = <<>>
  BY <1>6
<5>2. messages'[b] = SubSeq(messages[b], k + 1, Len(messages[b]))
  BY <1>1
<5>3. messages[b] = <<>> => Len(messages[b]) = 0
  OBVIOUS
<5>4. messages[b] = <<>> => messages'[b] = SubSeq(messages[b], 1, 0)
  BY <5>1, <5>2, <5>3
<5>5. QED BY <5>1, <5>4
<4>3. QED BY <1>2, <4>1, <4>2, WorkOnly
<3>2. HasWork(b) => n > 0 \/ k > 0
<4>1. ASSUME HasWork(b), messages[b] = <<>> PROVE n > 0
<5>1. active[b] /\ ~flag[b]
  BY <1>2, <1>7
<5>2. pass[b].inElems >= Required(b) /\ (HasOutput(b) => pass[b].outElems > 0)
  BY <1>4, <4>1, <5>1 DEF AllSeen, Seen
<5>3. QED BY <5>2, ConsumesSomething
<4>2. QED BY <1>6, <4>1
<3>3. HasWork(b)' => pass'[b].consume > 0 \/ pass'[b].inEvents
  BY <1>3, <1>5, <3>1, <3>2
<3>4. QED BY <1>4, <3>3 DEF Seen
<2>3. QED BY <2>1, <2>2
<1>10. QED BY <1>9 DEF AllSeen

LEMMA PostWorkInputsSeen ==
    ASSUME TypesAndCounts, AllSeen, NEW b \in Blocks, PostWorkInputs(b)
    PROVE  AllSeen'
<1> USE DEF TypesAndCounts
<1> DEFINE n == pass[b].consume
           queue == IF n = 0 THEN chunks[b] ELSE PopChunk(chunks[b], n)
           to == IF HasOutput(b) THEN "post" ELSE "idle"
           p == IF HasOutput(b) THEN Propagated(b) ELSE NoPass
           flagging == IF n > 0 \/ pass[b].inEvents THEN {b} ELSE {}
<1>1. /\ Goto(b, "consume", to) /\ pass' = [pass EXCEPT ![b] = p]
      /\ ReturnBuffers(b, queue, flagging)
      /\ active' = active /\ messages' = messages /\ tokens' = tokens
  BY DEF PostWorkInputs, ioVars
<1>2. chunks[b] \in Seq(ChunkRecords) /\ Chunks /\ Managers
  BY DEF Chunks, Managers, TypeOK
<1>3. to \in States /\ to \in {"post", "idle"}
  BY DEF States
<1> HIDE DEF to, p
<1>4. pc[b] = "consume" /\ pc'[b] = to /\ \A c \in Blocks : c # b => pc'[c] = pc[c]
  BY <1>1, <1>3, Went
<1>5. n \in Nat /\ n <= FrontElements(chunks[b])
<2>1. n <= pass[b].inElems /\ pass[b].inElems <= FrontElements(chunks[b])
  BY <1>4 DEF Fits, PassFits
<2>2. QED BY <2>1, PassIs
<1>6. queue \in Seq(ChunkRecords)
<2>1. CASE n = 0
  BY <1>2, <2>1
<2>2. CASE n # 0
<3>1. n > 0
  BY <1>5, <2>2
<3>2. PopChunk(chunks[b], n) \in Seq(ChunkRecords)
  BY <1>2, <1>5, <3>1, PopTakes
<3>3. QED BY <2>2, <3>2
<2>3. QED BY <2>1, <2>2
<1>7. n = 0 => queue = chunks[b]
  OBVIOUS
<1>8. (~(n > 0) /\ ~pass[b].inEvents) \/ b \in flagging
  OBVIOUS
<1> HIDE DEF queue, flagging
<1>9. pass'[b] = p /\ \A c \in Blocks : c # b => pass'[c] = pass[c]
  BY <1>1 DEF TypeOK
<1>10. chunks'[b] = queue /\ \A c \in Blocks : c # b => chunks'[c] = chunks[c]
  BY <1>1, <1>2, <1>6, ReturnedBuffers
<1>11. ASSUME NEW c \in Blocks
       PROVE  /\ flag[c] => flag'[c]
              /\ c \in flagging => flag'[c]
              /\ ~flag'[c] => ready'[c] = ready[c]
  BY <1>1, <1>6, ReturnsTell
<1>12. ASSUME NEW c \in Blocks PROVE Seen(c)'
<2>1. CASE c # b
  BY <1>1, <1>4, <1>9, <1>10, <1>11, <2>1, SeenOnly DEF AllSeen
<2>2. CASE c = b
<3> SUFFICES ASSUME active'[b], ~flag'[b] PROVE Seen(b)'
  BY <2>2 DEF Seen
<3>1. ~(n > 0) /\ ~pass[b].inEvents /\ n = 0
  BY <1>5, <1>8, <1>11
<3>2. ~HasWork(b)
  BY <1>1, <1>4, <1>11, <3>1 DEF AllSeen, Seen
<3>3. HasWork(b)' => HasWork(b)
  BY <1>1, <1>7, <1>10, <1>11, <3>1, WorkOnly
<3>4. QED BY <1>3, <1>4, <3>2, <3>3 DEF Seen
<2>3. QED BY <2>1, <2>2
<1>13. QED BY <1>12 DEF AllSeen

LEMMA PostWorkOutputsSeen ==
    ASSUME TypesAndCounts, AllSeen, NEW b \in Blocks, PostWorkOutputs(b)
    PROVE  AllSeen'
<1> USE DEF TypesAndCounts
<1> DEFINE n == pass[b].produce
<1>1. /\ Goto(b, "post", "push") /\ PopBuffer(b, n)
      /\ flag' = flag /\ active' = active
      /\ chunks' = chunks /\ messages' = messages /\ tokens' = tokens
  BY DEF PostWorkOutputs, ioVars
<1>2. \A c \in Blocks : c # b => pass'[c] = pass[c]
  BY DEF PostWorkOutputs, TypeOK
<1>3. pc[b] = "post" /\ pc'[b] = "push" /\ \A c \in Blocks : c # b => pc'[c] = pc[c]
<2>1. "push" \in States
  BY DEF States
<2>2. QED BY <1>1, <2>1, Went
<1>4. n \in Nat /\ n <= room[b]
  BY <1>3, PassIs DEF Fits, PassFits
<1>5. Managers
  BY DEF Managers, TypeOK
<1>6. /\ \A c \in Blocks : c # b => ready'[c] = ready[c]
      /\ ready'[b] # <<>> => ready[b] # <<>>
<2>1. /\ \A c \in Blocks : c # b => room'[c] = room[c] /\ ready'[c] = ready[c]
      /\ n > 0 => ready[b] # <<>>
      /\ \/ ready'[b] = ready[b] /\ room'[b] = room[b] - n
         \/ n > 0 /\ ready'[b] = Tail(ready[b])
  BY <1>1, <1>4, <1>5, PoppedBuffer
<2>2. QED BY <2>1
<1>7. ASSUME NEW c \in Blocks PROVE Seen(c)'
<2>1. CASE c # b
  BY <1>1, <1>2, <1>3, <1>6, <2>1, SeenOnly DEF AllSeen
<2>2. CASE c = b
<3>1. HasWork(b)' => HasWork(b)
  BY <1>1, <1>6, WorkOnly
<3>2. active[b] /\ ~flag[b] => ~HasWork(b)
  BY <1>3 DEF AllSeen, Seen
<3>3. QED BY <1>1, <1>3, <2>2, <3>1, <3>2 DEF Seen
<2>3. QED BY <2>1, <2>2
<1>8. QED BY <1>7 DEF AllSeen

LEMMA PushToSubscriberSeen ==
    ASSUME TypesAndCounts, AllSeen, NEW b \in Blocks, PushToSubscriber(b)
    PROVE  AllSeen'
<1> USE DEF TypesAndCounts
<1>0. PICK c \in pass[b].subscribers : c = Min(pass[b].subscribers)
<2>1. pass[b].subscribers \subseteq Subscribers(b)
  BY DEF Fits, PassFits
<2>2. pass[b].subscribers \in SUBSET Nat
  BY <2>1, Tree
<2>3. pass[b].subscribers # {}
  BY DEF PushToSubscriber
<2>4. QED BY <2>2, <2>3, LeastElement
<1> DEFINE n == pass[b].produce
           chunk == [buf |-> pass[b].posted, len |-> n]
           p == [pass[b] EXCEPT !.subscribers = @ \ {c}]
<1>1. /\ pass' = [pass EXCEPT ![b] = p] /\ flag' = Flagged({c})
      /\ chunks' = IF n = 0 THEN chunks ELSE [chunks EXCEPT ![c] = PushChunk(@, chunk)]
      /\ active' = active /\ pc' = pc /\ messages' = messages /\ tokens' = tokens
      /\ ready' = ready
  BY <1>0 DEF PushToSubscriber, ioVars, managers
<1>2. /\ p.ready = pass[b].ready /\ p.outElems = pass[b].outElems /\ p.inElems = pass[b].inElems
      /\ p.consume = pass[b].consume /\ p.inEvents = pass[b].inEvents
<2>1. PICK r \in PassRecords : r = pass[b]
  BY PassIs
<2>2. p = [r EXCEPT !.subscribers = r.subscribers \ {c}]
  BY <2>1
<2> HIDE DEF p
<2>3. QED BY <2>1, <2>2 DEF PassRecords
<1> HIDE DEF p, chunk, n
<1>3. pass'[b] = p /\ \A a \in Blocks : a # b => pass'[a] = pass[a]
  BY <1>1 DEF TypeOK
<1>4. ASSUME NEW a \in Blocks
      PROVE  /\ pass'[a].ready = pass[a].ready /\ pass'[a].outElems = pass[a].outElems
             /\ pass'[a].inElems = pass[a].inElems /\ pass'[a].consume = pass[a].consume
             /\ pass'[a].inEvents = pass[a].inEvents
<2>1. CASE a = b
  BY <1>2, <1>3, <2>1
<2>2. CASE a # b
  BY <1>3, <2>2
<2>3. QED BY <2>1, <2>2
<1>5. ASSUME NEW a \in Blocks
      PROVE  (flag[a] => flag'[a]) /\ (a = c => flag'[a]) /\ (a # c => chunks'[a] = chunks[a])
<2>1. (flag[a] => flag'[a]) /\ (a \in {c} => flag'[a])
  BY <1>1, FlaggedAre
<2>2. a # c => chunks'[a] = chunks[a]
  BY <1>1 DEF TypeOK
<2>3. QED BY <2>1, <2>2
<1>6. ASSUME NEW a \in Blocks PROVE Seen(a)'
<2>1. ~flag'[a] => chunks'[a] = chunks[a]
  BY <1>5
<2>2. QED BY <1>1, <1>4, <1>5, <2>1, SeenOnly DEF AllSeen
<1>7. QED BY <1>6 DEF AllSeen

LEMMA EndPassSeen ==
    ASSUME TypesAndCounts, AllSeen, NEW b \in Blocks, EndPass(b)
    PROVE  AllSeen'
<1> USE DEF TypesAndCounts
<1> DEFINE buf == pass[b].posted
           held == Range(ready[b]) \cup UNION {Held(chunks[c]) : c \in Subscribers(b)}
           back == IF buf \in held \cup {0} THEN <<>> ELSE <<buf>>
           told == IF back # <<>> \/ pass[b].produce > 0 \/ pass[b].outEvents THEN {b} ELSE {}
<1>1. /\ Goto(b, "push", "idle") /\ PushBuffers(b, back) /\ flag' = Flagged(told)
      /\ pass' = [pass EXCEPT ![b] = NoPass] /\ active' = active
      /\ chunks' = chunks /\ messages' = messages /\ tokens' = tokens
  BY DEF EndPass, ioVars
<1>2. back # <<>> => b \in told
  OBVIOUS
<1> HIDE DEF back, told
<1>3. pc[b] = "push" /\ pc'[b] = "idle" /\ \A c \in Blocks : c # b => pc'[c] = pc[c]
<2>1. "idle" \in States
  BY DEF States
<2>2. QED BY <1>1, <2>1, Went
<1>4. \A c \in Blocks : c # b => pass'[c] = pass[c]
  BY <1>1 DEF TypeOK
<1>5. ASSUME NEW c \in Blocks
      PROVE  (flag[c] => flag'[c]) /\ (~flag'[c] => ready'[c] = ready[c])
<2>1. (flag[c] => flag'[c]) /\ (c \in told => flag'[c])
  BY <1>1, FlaggedAre
<2>2. c # b => ready'[c] = ready[c]
<3>1. CASE back = <<>>
  BY <1>1, <3>1 DEF PushBuffers, managers
<3>2. CASE back # <<>>
<4>1. ready' = [ready EXCEPT ![b] = @ \o back]
  BY <1>1, <3>2 DEF PushBuffers
<4>2. QED BY <4>1 DEF TypeOK
<3>3. QED BY <3>1, <3>2
<2>3. ASSUME c = b, ~flag'[c] PROVE ready'[c] = ready[c]
<3>1. back = <<>>
  BY <1>2, <2>1, <2>3
<3>2. QED BY <1>1, <3>1 DEF PushBuffers, managers
<2>4. QED BY <2>1, <2>2, <2>3
<1>6. ASSUME NEW c \in Blocks PROVE Seen(c)'
<2>1. CASE c # b
  BY <1>1, <1>3, <1>4, <1>5, <2>1, SeenOnly DEF AllSeen
<2>2. CASE c = b
<3> SUFFICES ASSUME active'[b], ~flag'[b] PROVE Seen(b)'
  BY <2>2 DEF Seen
<3>1. HasWork(b)' => HasWork(b)
  BY <1>1, <1>5, WorkOnly
<3>2. ~HasWork(b)
  BY <1>1, <1>3, <1>5 DEF AllSeen, Seen
<3>3. QED BY <1>3, <3>1, <3>2 DEF Seen
<2>3. QED BY <2>1, <2>2
<1>7. QED BY <1>6 DEF AllSeen

\* What threads outside the tree do flags a change wherever it gives work.
LEMMA OutsideSeen ==
    ASSUME TypesAndCounts, AllSeen,
           \/ PushBuffer \/ PushMessage \/ SlotCallsPush
           \/ \E b \in Blocks : SetActiveStateOn(b) \/ SetActiveStateOff(b)
    PROVE  AllSeen'
<1> USE DEF TypesAndCounts
<1>1. ASSUME NEW b \in Blocks, flag' = Flagged({b}), pc' = pc, pass' = pass, tokens' = tokens,
             ready' = ready,
             \A c \in Blocks : c # b => /\ chunks'[c] = chunks[c] /\ messages'[c] = messages[c]
                                        /\ active'[c] = active[c]
      PROVE  AllSeen'
<2>1. ASSUME NEW c \in Blocks PROVE Seen(c)'
<3>1. (flag[c] => flag'[c]) /\ (c \in {b} => flag'[c])
  BY <1>1, FlaggedAre
<3>2. CASE c = b
  BY <3>1, <3>2 DEF Seen
<3>3. CASE c # b
  BY <1>1, <3>1, <3>3, SeenOnly DEF AllSeen
<3>4. QED BY <3>2, <3>3
<2>2. QED BY <2>1 DEF AllSeen
<1>2. 1 \in Blocks
  BY Tree
<1>3. CASE PushBuffer
<2>1. /\ flag' = Flagged({1}) /\ pc' = pc /\ pass' = pass /\ tokens' = tokens /\ ready' = ready
      /\ messages' = messages /\ active' = active
  BY <1>3 DEF PushBuffer, ioVars, managers
<2>2. \A c \in Blocks : c # 1 => chunks'[c] = chunks[c]
  BY <1>3 DEF PushBuffer, TypeOK
<2>3. QED BY <1>1, <1>2, <2>1, <2>2
<1>4. CASE PushMessage
<2>1. /\ flag' = Flagged({1}) /\ pc' = pc /\ pass' = pass /\ tokens' = tokens /\ ready' = ready
      /\ chunks' = chunks /\ active' = active
  BY <1>4 DEF PushMessage, flowVars, managers
<2>2. \A c \in Blocks : c # 1 => messages'[c] = messages[c]
  BY <1>4 DEF PushMessage, TypeOK
<2>3. QED BY <1>1, <1>2, <2>1, <2>2
<1>5. CASE SlotCallsPush
<2>1. /\ flag' = Flagged({1}) /\ pc' = pc /\ pass' = pass /\ tokens' = tokens /\ ready' = ready
      /\ chunks' = chunks /\ active' = active /\ messages' = messages
  BY <1>5 DEF SlotCallsPush, flowVars, managers
<2>2. QED BY <1>1, <1>2, <2>1
<1>6. ASSUME NEW b \in Blocks, SetActiveStateOn(b) \/ SetActiveStateOff(b) PROVE AllSeen'
<2>1. /\ flag' = Flagged({b}) /\ pc' = pc /\ pass' = pass /\ tokens' = tokens /\ ready' = ready
      /\ chunks' = chunks /\ messages' = messages
  BY <1>6 DEF SetActiveStateOn, SetActiveStateOff, flowVars, managers, ioVars
<2>2. \A c \in Blocks : c # b => active'[c] = active[c]
  BY <1>6 DEF SetActiveStateOn, SetActiveStateOff, TypeOK
<2>3. QED BY <1>1, <2>1, <2>2
<1>7. QED BY <1>3, <1>4, <1>5, <1>6

LEMMA EmitSignalSeen ==
    ASSUME TypesAndCounts, AllSeen, NEW b \in Blocks, EmitSignal(b)
    PROVE  AllSeen'
<1> USE DEF TypesAndCounts
<1>1. PICK counted \in BOOLEAN :
        /\ tokens' = [tokens EXCEPT ![b] = @ \ Range(Tokens(b, 1))]
        /\ flag' = Flagged(Subscribers(b))
        /\ pass' = [pass EXCEPT ![b].outEvents = @ \/ counted]
        /\ UNCHANGED <<active, pc, flowVars, messages, managers, ghosts>>
  BY DEF EmitSignal
<1>2. active' = active /\ pc' = pc /\ ready' = ready /\ chunks' = chunks /\ messages' = messages
  BY <1>1 DEF flowVars, managers
<1>3. PICK r \in PassRecords : r = pass[b]
  BY PassIs
<1> DEFINE outs == r.outEvents \/ counted
           p == [r EXCEPT !.outEvents = outs]
<1>4. pass' = [pass EXCEPT ![b] = p]
  BY <1>1, <1>3
<1> HIDE DEF outs
<1>5. /\ p.ready = r.ready /\ p.outElems = r.outElems /\ p.inElems = r.inElems
      /\ p.consume = r.consume /\ p.inEvents = r.inEvents
  BY DEF PassRecords
<1> HIDE DEF p
<1>6. pass'[b] = p /\ \A a \in Blocks : a # b => pass'[a] = pass[a]
  BY <1>4 DEF TypeOK
<1>7. ASSUME NEW a \in Blocks PROVE Seen(a)'
<2>1. flag[a] => flag'[a]
  BY <1>1, FlaggedAre
<2>2. tokens'[a] # {} => tokens[a] # {}
  BY <1>1 DEF TypeOK
<2>3. /\ pass'[a].ready = pass[a].ready /\ pass'[a].outElems = pass[a].outElems
      /\ pass'[a].inElems = pass[a].inElems /\ pass'[a].consume = pass[a].consume
      /\ pass'[a].inEvents = pass[a].inEvents
  BY <1>3, <1>5, <1>6
<2>4. QED BY <1>2, <2>1, <2>2, <2>3, SeenOnly DEF AllSeen
<1>8. QED BY <1>7 DEF AllSeen

LEMMA SeenKept == TypesAndCounts /\ AllSeen /\ [Next]_vars => AllSeen'
<1> SUFFICES ASSUME TypesAndCounts, AllSeen, [Next]_vars PROVE AllSeen'
  OBVIOUS
<1>1. CASE UNCHANGED vars
<2>1. /\ flag' = flag /\ active' = active /\ pc' = pc /\ pass' = pass /\ ready' = ready
      /\ chunks' = chunks /\ messages' = messages /\ tokens' = tokens
  BY <1>1 DEF vars, flowVars, ioVars, managers
<2>2. QED BY <2>1, SeenOnly DEF AllSeen
<1>2. CASE PushBuffer \/ PushMessage \/ SlotCallsPush
  BY <1>2, OutsideSeen
<1>3. ASSUME NEW b \in Blocks, WorkerStep(b) PROVE AllSeen'
<2>1. CASE StartPass(b) \/ PreWorkOutputs(b) \/ PreWorkInputs(b) \/ Work(b)
  BY <2>1, StartPassSeen, PreWorkOutputsSeen, PreWorkInputsSeen, WorkSeen
<2>2. CASE PostWorkInputs(b) \/ PostWorkOutputs(b) \/ PushToSubscriber(b) \/ EndPass(b)
  BY <2>2, PostWorkInputsSeen, PostWorkOutputsSeen, PushToSubscriberSeen, EndPassSeen
<2>3. QED BY <1>3, <2>1, <2>2 DEF WorkerStep
<1>4. ASSUME NEW b \in Blocks, EmitSignal(b) \/ SetActiveStateOn(b) \/ SetActiveStateOff(b)
      PROVE  AllSeen'
  BY <1>4, EmitSignalSeen, OutsideSeen
<1>5. QED BY <1>1, <1>2, <1>3, <1>4 DEF Next

\* An actor that rests with no change flagged has nothing it could do, however
\* pushes, returns of buffers and tokens, activations and signals fall between
\* the steps of its passes, and whatever tree the blocks form.
THEOREM NothingIsForgotten == Spec => []NoStall
<1>1. Init => AllSeen
  BY DEF Init, AllSeen, Seen
<1>2. AllSeen => NoStall
  BY DEF AllSeen, Seen, NoStall
<1>3. QED BY <1>1, <1>2, SeenKept, AlwaysTypesAndCounts, PTL DEF Spec

(***************************************************************************)
(* Message tokens are neither lost nor used twice                          *)
(***************************************************************************)

\* No token is twice in a queue (0 is no token).
Distinct(s) == \A i, j \in 1..Len(s) : s[i] = s[j] => i = j \/ s[i] = 0

Carried(c) == Range(messages[c]) \cup Range(slotCalls[c])

OnceEach(c) ==
    /\ Distinct(messages[c]) /\ Distinct(slotCalls[c])
    /\ \A t \in Range(messages[c]) : t \in Range(slotCalls[c]) => t = 0

KeepsTokens(b) ==
    HasOutput(b) => \A t \in 1..NumTokens : t \in tokens[b] <=> t \notin Sent(Subscribers(b))

TokensSafe == \A b \in Blocks : KeepsTokens(b) /\ OnceEach(b)

LEMMA RangeIs ==
    ASSUME NEW S, NEW s \in Seq(S)
    PROVE  Range(s) \subseteq S /\ \A t : t \in Range(s) <=> \E i \in 1..Len(s) : s[i] = t
<1>1. DOMAIN s = 1..Len(s) /\ \A i \in 1..Len(s) : s[i] \in S
  BY LenProperties, ElementOfSeq
<1>2. QED BY <1>1 DEF Range

LEMMA DistinctParts ==
    ASSUME NEW S, NEW s \in Seq(S), NEW k \in 0..Len(s), Distinct(s)
    PROVE  LET first == SubSeq(s, 1, k)
               rest == SubSeq(s, k + 1, Len(s))
           IN  /\ Distinct(rest) /\ Range(s) = Range(first) \cup Range(rest)
               /\ \A t \in Range(first) : t \in Range(rest) => t = 0
<1> DEFINE first == SubSeq(s, 1, k)
           rest == SubSeq(s, k + 1, Len(s))
<1>1. /\ first \in Seq(S) /\ Len(first) = k /\ \A i \in 1..k : first[i] = s[i]
      /\ rest \in Seq(S) /\ Len(rest) = Len(s) - k
      /\ \A i \in 1..(Len(s) - k) : rest[i] = s[k + i]
  BY Cut
<1>2. k \in Nat /\ Len(s) \in Nat /\ k <= Len(s)
  BY LenProperties
<1> HIDE DEF first, rest
<1>3. Distinct(rest)
<2>1. ASSUME NEW i \in 1..Len(rest), NEW j \in 1..Len(rest), rest[i] = rest[j]
      PROVE  i = j \/ rest[i] = 0
<3>1. k + i \in 1..Len(s) /\ k + j \in 1..Len(s) /\ rest[i] = s[k + i] /\ rest[j] = s[k + j]
  BY <1>1, <1>2
<3>2. k + i = k + j \/ s[k + i] = 0
  BY <2>1, <3>1 DEF Distinct
<3>3. QED BY <1>2, <3>1, <3>2
<2>2. QED BY <2>1 DEF Distinct
<1>4. Range(s) = Range(first) \cup Range(rest)
<2>1. \A t : t \in Range(s) <=> \E i \in 1..Len(s) : s[i] = t
  BY RangeIs
<2>2. \A t : t \in Range(first) <=> \E i \in 1..k : s[i] = t
<3>1. \A t : t \in Range(first) <=> \E i \in 1..Len(first) : first[i] = t
  BY <1>1, RangeIs
<3>2. Len(first) = k /\ \A i \in 1..k : first[i] = s[i]
  BY <1>1
<3>3. \A t : (\E i \in 1..k : first[i] = t) <=> \E i \in 1..k : s[i] = t
  BY <3>2
<3>4. QED BY <3>1, <3>2, <3>3
<2>3. \A t : t \in Range(rest) <=> \E i \in 1..(Len(s) - k) : s[k + i] = t
<3>1. \A t : t \in Range(rest) <=> \E i \in 1..Len(rest) : rest[i] = t
  BY <1>1, RangeIs
<3>2. Len(rest) = Len(s) - k /\ \A i \in 1..(Len(s) - k) : rest[i] = s[k + i]
  BY <1>1
<3>3. \A t : (\E i \in 1..(Len(s) - k) : rest[i] = t) <=> \E i \in 1..(Len(s) - k) : s[k + i] = t
  BY <3>2
<3>4. QED BY <3>1, <3>2, <3>3
<2>4. \A i \in 1..Len(s) : i \in 1..k \/ (i - k \in 1..(Len(s) - k) /\ k + (i - k) = i)
  BY <1>2
<2>5. \A i \in 1..(Len(s) - k) : k + i \in 1..Len(s)
  BY <1>2
<2>6. \A i \in 1..k : i \in 1..Len(s)
  BY <1>2
<2>7. ASSUME NEW t PROVE t \in Range(s) <=> t \in Range(first) \/ t \in Range(rest)
<3>1. ASSUME t \in Range(s) PROVE t \in Range(first) \/ t \in Range(rest)
<4>1. PICK i \in 1..Len(s) : s[i] = t
  BY <2>1, <3>1
<4>2. CASE i \in 1..k
  BY <2>2, <4>1, <4>2
<4>3. CASE i - k \in 1..(Len(s) - k) /\ k + (i - k) = i
  BY <2>3, <4>1, <4>3
<4>4. QED BY <2>4, <4>2, <4>3
<3>2. ASSUME t \in Range(first) PROVE t \in Range(s)
  BY <2>1, <2>2, <2>6, <3>2
<3>3. ASSUME t \in Range(rest) PROVE t \in Range(s)
  BY <2>1, <2>3, <2>5, <3>3
<3>4. QED BY <3>1, <3>2, <3>3
<2>8. QED BY <2>7
<1>5. ASSUME NEW t \in Range(first), t \in Range(rest) PROVE t = 0
<2>1. PICK i \in 1..k : s[i] = t
<3>1. PICK i \in 1..Len(first) : first[i] = t
  BY <1>1, RangeIs
<3>2. QED BY <1>1, <3>1
<2>2. PICK j \in 1..(Len(s) - k) : s[k + j] = t
<3>1. PICK j \in 1..Len(rest) : rest[j] = t
  BY <1>1, <1>5, RangeIs
<3>2. QED BY <1>1, <3>1
<2>3. i \in 1..Len(s) /\ k + j \in 1..Len(s) /\ i # k + j
  BY <1>2
<2>4. QED BY <2>1, <2>2, <2>3 DEF Distinct
<1>6. QED BY <1>3, <1>4, <1>5 DEF first, rest

LEMMA DistinctJoined ==
    ASSUME NEW S, NEW s \in Seq(S), NEW u \in Seq(S), Distinct(s), Distinct(u),
           \A t \in Range(s) : t \in Range(u) => t = 0
    PROVE  Distinct(s \o u) /\ Range(s \o u) = Range(s) \cup Range(u)
<1> DEFINE m == Len(s)
           n == Len(u)
           joined == s \o u
<1>1. /\ joined \in Seq(S) /\ Len(joined) = m + n
      /\ \A i \in 1..(m + n) : joined[i] = IF i <= m THEN s[i] ELSE u[i - m]
      /\ m \in Nat /\ n \in Nat
  BY ConcatProperties, LenProperties
<1>2. /\ \A t : t \in Range(s) <=> \E i \in 1..m : s[i] = t
      /\ \A t : t \in Range(u) <=> \E i \in 1..n : u[i] = t
      /\ \A t : t \in Range(joined) <=> \E i \in 1..(m + n) : joined[i] = t
<2>1. \A t : t \in Range(joined) <=> \E i \in 1..Len(joined) : joined[i] = t
  BY <1>1, RangeIs
<2>2. QED BY <1>1, <2>1, RangeIs
<1> HIDE DEF m, n, joined
<1>3. \A i \in 1..(m + n) : \/ i \in 1..m /\ joined[i] = s[i]
                            \/ i - m \in 1..n /\ i > m /\ joined[i] = u[i - m]
  BY <1>1
<1>4. \A i \in 1..m : i \in 1..(m + n) /\ joined[i] = s[i]
  BY <1>1
<1>5. \A i \in 1..n : m + i \in 1..(m + n) /\ joined[m + i] = u[i]
<2>1. \A i \in 1..n : m + i \in 1..(m + n) /\ ~(m + i <= m) /\ (m + i) - m = i
  BY <1>1
<2>2. QED BY <1>1, <2>1
<1>6. Range(joined) = Range(s) \cup Range(u)
<2>1. ASSUME NEW t PROVE t \in Range(joined) => t \in Range(s) \/ t \in Range(u)
  BY <1>2, <1>3
<2>2. ASSUME NEW t PROVE t \in Range(s) => t \in Range(joined)
  BY <1>2, <1>4
<2>3. ASSUME NEW t PROVE t \in Range(u) => t \in Range(joined)
  BY <1>2, <1>5
<2>4. QED BY <2>1, <2>2, <2>3
<1>7. ASSUME NEW i \in 1..(m + n), NEW j \in 1..(m + n), joined[i] = joined[j]
      PROVE  i = j \/ joined[i] = 0
<2>1. CASE i \in 1..m /\ j \in 1..m
  BY <1>4, <1>7, <2>1 DEF Distinct, m
<2>2. CASE i \notin 1..m /\ j \notin 1..m
<3>1. i - m \in 1..n /\ j - m \in 1..n /\ joined[i] = u[i - m] /\ joined[j] = u[j - m]
  BY <1>3, <2>2
<3>2. i - m = j - m \/ u[i - m] = 0
  BY <1>7, <3>1 DEF Distinct, n
<3>3. QED BY <1>1, <3>1, <3>2
<2>3. CASE ~(i \in 1..m <=> j \in 1..m)
<3>0. \A l \in 1..(m + n) : /\ l \in 1..m => joined[l] \in Range(s)
                            /\ l \notin 1..m => joined[l] \in Range(u)
  BY <1>2, <1>3, <1>4
<3>1. joined[i] \in Range(s) /\ joined[i] \in Range(u)
  BY <1>7, <2>3, <3>0
<3>2. QED BY <3>1
<2>4. QED BY <2>1, <2>2, <2>3
<1>8. Distinct(joined)
  BY <1>1, <1>7 DEF Distinct
<1>9. QED BY <1>6, <1>8 DEF joined

LEMMA TokensOnly ==
    ASSUME NEW b \in Blocks, KeepsTokens(b), tokens'[b] = tokens[b],
           \A c \in Subscribers(b) : Carried(c)' = Carried(c)
    PROVE  KeepsTokens(b)'
<1>1. Sent(Subscribers(b))' = Sent(Subscribers(b)) /\ HasOutput(b)' = HasOutput(b)
  BY DEF Sent, Carried, Subscribers, HasOutput
<1>2. QED BY <1>1 DEF KeepsTokens

\* A block lets tokens go that none of its own queues keeps.
LEMMA TokensGivenBack ==
    ASSUME NEW b \in Blocks, TypeOK, HasSource(b), KeepsTokens(Source[b]),
           NEW gone \in SUBSET (0..NumTokens), Carried(b) = gone \cup Carried(b)',
           \A t \in gone : t \in Carried(b)' => t = 0,
           \A c \in Subscribers(Source[b]) : c # b => Carried(c)' = Carried(c),
           tokens'[Source[b]] = ReturnTokens(b, GivenBack(b, gone))[Source[b]]
    PROVE  KeepsTokens(Source[b])'
<1> DEFINE s == Source[b]
           others == Subscribers(s) \ {b}
<1>1. s \in Blocks /\ b \in Subscribers(s)
  BY Tree
<1>2. tokens'[s] = tokens[s] \cup GivenBack(b, gone)
<2>1. tokens \in [Blocks -> SUBSET (1..NumTokens)]
  BY DEF TypeOK
<2>2. ReturnTokens(b, GivenBack(b, gone))[s] = tokens[s] \cup GivenBack(b, gone)
  BY <1>1, <2>1, TokensReturned
<2>3. QED BY <2>2
<1>3. \A t : t \in GivenBack(b, gone) <=> t \in gone /\ t # 0 /\ t \notin Sent(others)
  BY DEF GivenBack
<1>4. \A t : t \in Sent(Subscribers(s)) <=> t \in Sent(others) \/ (t # 0 /\ t \in Carried(b))
  BY <1>1 DEF Sent, Carried
<1>5. \A t : t \in Sent(Subscribers(s))' <=> t \in Sent(others) \/ (t # 0 /\ t \in Carried(b)')
<2>1. \A t : t \in Sent(Subscribers(s))' <=>
          t # 0 /\ \E c \in Subscribers(s)' : t \in Carried(c)'
  BY DEF Sent, Carried
<2>2. Subscribers(s)' = Subscribers(s)
  BY DEF Subscribers
<2>3. \A t : t \in Sent(others) <=> t # 0 /\ \E c \in others : t \in Carried(c)
  BY DEF Sent, Carried
<2>4. (\A c \in others : Carried(c)' = Carried(c)) /\ Subscribers(s) = others \cup {b}
  BY <1>1
<2> HIDE DEF others, s
<2>5. ASSUME NEW t
      PROVE  (\E c \in Subscribers(s) : t \in Carried(c)') <=>
             ((\E c \in others : t \in Carried(c)) \/ t \in Carried(b)')
  BY <2>4
<2>6. QED BY <2>1, <2>2, <2>3, <2>5
<1>6. HasOutput(s)
  BY <1>1 DEF HasOutput
<1> HIDE DEF s, others
<1>7. \A t \in 1..NumTokens : t \in tokens[s] <=> t \notin Sent(Subscribers(s))
  BY <1>6 DEF KeepsTokens, s
<1>8. \A t \in 1..NumTokens : t \in tokens'[s] <=> t \notin Sent(Subscribers(s))'
<2>1. \A t \in 1..NumTokens : t # 0
  BY SizesAssumption
<2>2. QED BY <1>2, <1>3, <1>4, <1>5, <1>7, <2>1
<1>9. QED BY <1>8 DEF KeepsTokens, s

\* What is posted goes to all subscribers.
LEMMA TokensPosted ==
    ASSUME NEW b \in Blocks, TypeOK, KeepsTokens(b), NEW posted,
           \A t \in posted : t = 0 \/ t \in tokens[b],
           \A c \in Subscribers(b) : Carried(c)' = Carried(c) \cup posted,
           tokens'[b] = tokens[b] \ posted
    PROVE  KeepsTokens(b)'
<1> SUFFICES ASSUME HasOutput(b) PROVE KeepsTokens(b)'
<2>1. HasOutput(b)' = HasOutput(b)
  BY DEF HasOutput, Subscribers
<2>2. QED BY <2>1 DEF KeepsTokens
<1>1. \A t : t \in Sent(Subscribers(b)) <=> t # 0 /\ \E c \in Subscribers(b) : t \in Carried(c)
  BY DEF Sent, Carried
<1>2. \A t : t \in Sent(Subscribers(b))' <=> t # 0 /\ \E c \in Subscribers(b) : t \in Carried(c)'
<2>1. \A t : t \in Sent(Subscribers(b))' <=>
          t # 0 /\ \E c \in Subscribers(b)' : t \in Carried(c)'
  BY DEF Sent, Carried
<2>2. Subscribers(b)' = Subscribers(b)
  BY DEF Subscribers
<2>3. QED BY <2>1, <2>2
<1>3. PICK c \in Subscribers(b) : TRUE
  BY DEF HasOutput
<1>4. \A t \in 1..NumTokens : t \in tokens[b] <=> t \notin Sent(Subscribers(b))
  BY DEF KeepsTokens
<1>5. \A t : t \in Sent(Subscribers(b))' <=>
          t \in Sent(Subscribers(b)) \/ (t # 0 /\ t \in posted)
  BY <1>1, <1>2, <1>3
<1>6. \A t \in 1..NumTokens : t # 0
  BY SizesAssumption
<1>7. \A t \in 1..NumTokens : t \in tokens'[b] <=> t \notin Sent(Subscribers(b))'
  BY <1>4, <1>5, <1>6
<1>8. QED BY <1>7 DEF KeepsTokens

LEMMA FirstTaken ==
    ASSUME NEW S, NEW s \in Seq(S), Distinct(s)
    PROVE  LET first == IF s = <<>> THEN {} ELSE {Head(s)}
               rest == SubSeq(s, 2, Len(s))
           IN  /\ Distinct(rest) /\ Range(s) = first \cup Range(rest) /\ first \subseteq S
               /\ \A t \in first : t \in Range(rest) => t = 0
<1> DEFINE rest == SubSeq(s, 2, Len(s))
<1>1. CASE s = <<>>
<2>1. Len(s) = 0 /\ rest = <<>>
  BY <1>1
<2>2. Len(rest) = 0 /\ rest = s
  BY <1>1, <2>1
<2> HIDE DEF rest
<2>3. Distinct(rest)
  BY <2>2 DEF Distinct
<2>4. QED BY <1>1, <2>2, <2>3 DEF rest
<1>2. CASE s # <<>>
<2>1. Len(s) \in Nat /\ 1 \in 0..Len(s) /\ Head(s) = s[1] /\ s[1] \in S /\ 1 + 1 = 2
  BY <1>2
<2>2. /\ Distinct(rest) /\ Range(s) = Range(SubSeq(s, 1, 1)) \cup Range(rest)
      /\ \A t \in Range(SubSeq(s, 1, 1)) : t \in Range(rest) => t = 0
  BY <2>1, DistinctParts
<2>3. Range(SubSeq(s, 1, 1)) = {Head(s)}
<3>1. /\ SubSeq(s, 1, 1) \in Seq(S) /\ Len(SubSeq(s, 1, 1)) = 1
      /\ \A i \in 1..1 : SubSeq(s, 1, 1)[i] = s[i]
  BY <2>1, Cut
<3>2. PICK r \in Seq(S) : r = SubSeq(s, 1, 1) /\ Len(r) = 1 /\ \A i \in 1..1 : r[i] = s[i]
  BY ONLY <3>1
<3>3. DOMAIN r = 1..1
  BY <3>2, LenProperties
<3>4. \A i \in DOMAIN r : r[i] = s[1]
  BY ONLY <3>2, <3>3
<3>5. 1 \in DOMAIN r
  BY ONLY <3>3
<3>6. Range(r) = {s[1]}
  BY ONLY <3>4, <3>5 DEF Range
<3>7. QED BY ONLY <2>1, <3>2, <3>6
<2>4. QED BY <1>2, <2>1, <2>2, <2>3
<1>3. QED BY <1>1, <1>2

LEMMA PreWorkInputsTokens ==
    ASSUME TypeOK, TokensSafe, NEW b \in Blocks, PreWorkInputs(b)
    PROVE  TokensSafe'
<1> DEFINE call == IF slotCalls[b] = <<>> THEN {} ELSE {Head(slotCalls[b])}
           rest == SubSeq(slotCalls[b], 2, Len(slotCalls[b]))
<1>1. /\ slotCalls' = [slotCalls EXCEPT ![b] = rest]
      /\ tokens' = ReturnTokens(b, GivenBack(b, call))
      /\ messages' = messages
  BY DEF PreWorkInputs
<1>2. slotCalls[b] \in Seq(0..NumTokens) /\ OnceEach(b)
  BY DEF TypeOK, TokensSafe
<1>3. /\ Distinct(rest) /\ Range(slotCalls[b]) = call \cup Range(rest)
      /\ call \subseteq 0..NumTokens
      /\ \A t \in call : t \in Range(rest) => t = 0
<2>1. slotCalls[b] \in Seq(0..NumTokens) /\ Distinct(slotCalls[b])
  BY <1>2 DEF OnceEach
<2>2. QED BY <2>1, FirstTaken
<1> HIDE DEF call, rest
<1>4. slotCalls'[b] = rest /\ \A c \in Blocks : c # b => slotCalls'[c] = slotCalls[c]
  BY <1>1 DEF TypeOK
<1>5. Carried(b)' = Range(messages[b]) \cup Range(rest)
  BY <1>1, <1>4 DEF Carried
<1>6. Carried(b) = call \cup Carried(b)'
  BY <1>3, <1>5 DEF Carried
<1>7. \A t \in call : t \in Carried(b)' => t = 0
  BY <1>2, <1>3, <1>5 DEF OnceEach
<1>8. \A c \in Blocks : c # b => Carried(c)' = Carried(c)
  BY <1>1, <1>4 DEF Carried
<1>9. ASSUME NEW c \in Blocks PROVE OnceEach(c)'
<2>1. CASE c # b
  BY <1>1, <1>4, <2>1 DEF TokensSafe, OnceEach
<2>2. CASE c = b
  BY <1>1, <1>2, <1>3, <1>4, <2>2 DEF OnceEach
<2>3. QED BY <2>1, <2>2
<1>10. ASSUME NEW d \in Blocks PROVE KeepsTokens(d)'
<2>1. \A c \in Subscribers(d) : c \in Blocks /\ Source[c] = d
  BY Tree
<2>2. CASE HasSource(b) /\ d = Source[b]
<3>1. tokens'[Source[b]] = ReturnTokens(b, GivenBack(b, call))[Source[b]]
  BY <1>1
<3>2. \A c \in Subscribers(Source[b]) : c # b => Carried(c)' = Carried(c)
  BY <1>8, <2>1, <2>2
<3>3. KeepsTokens(Source[b])'
  BY <1>3, <1>6, <1>7, <2>2, <3>1, <3>2, TokensGivenBack DEF TokensSafe
<3>4. QED BY <2>2, <3>3
<2>3. CASE ~(HasSource(b) /\ d = Source[b])
<3>1. tokens'[d] = tokens[d]
<4>1. tokens \in [Blocks -> SUBSET (1..NumTokens)] /\ call \in SUBSET (0..NumTokens)
  BY <1>3 DEF TypeOK
<4>2. ReturnTokens(b, GivenBack(b, call))[d] = tokens[d]
  BY <2>3, <4>1, TokensReturned
<4>3. QED BY <1>1, <4>2
<3>2. \A c \in Subscribers(d) : Carried(c)' = Carried(c)
<4>1. \A c \in Subscribers(d) : HasSource(c)
  BY Tree
<4>2. \A c \in Subscribers(d) : c # b
  BY <2>1, <2>3, <4>1
<4>3. QED BY <1>8, <2>1, <4>2
<3>3. QED BY <3>1, <3>2, TokensOnly DEF TokensSafe
<2>4. QED BY <2>2, <2>3
<1>11. QED BY <1>9, <1>10 DEF TokensSafe

LEMMA WorkTokens ==
    ASSUME TypeOK, TokensSafe, NEW b \in Blocks, Work(b)
    PROVE  TokensSafe'
<1>0. PICK n \in Consumable(b), k \in Poppable(b) :
          LET posted == IF HasOutput(b) THEN Tokens(b, k) ELSE <<>>
              given == GivenBack(b, Range(SubSeq(messages[b], 1, k)))
          IN  /\ messages' = [c \in Blocks |->
                    IF c = b THEN SubSeq(messages[b], k + 1, Len(messages[b]))
                    ELSE IF c \in Subscribers(b) THEN messages[c] \o posted ELSE messages[c]]
              /\ tokens' = [ReturnTokens(b, given) EXCEPT ![b] = @ \ Range(posted)]
              /\ flag' = Flagged((IF k > 0 THEN Subscribers(b) ELSE {}) \cup TokensTold(b, given))
              /\ pass' = [pass EXCEPT ![b] = Worked(b, n, k)]
              /\ UNCHANGED <<active, flowVars, slotCalls, managers, ghosts, left>>
  BY Zenon DEF Work
<1> DEFINE posted == IF HasOutput(b) THEN Tokens(b, k) ELSE <<>>
           first == SubSeq(messages[b], 1, k)
           rest == SubSeq(messages[b], k + 1, Len(messages[b]))
           given == GivenBack(b, Range(first))
<1>1. /\ messages' = [c \in Blocks |->
            IF c = b THEN rest
            ELSE IF c \in Subscribers(b) THEN messages[c] \o posted ELSE messages[c]]
      /\ tokens' = [ReturnTokens(b, given) EXCEPT ![b] = @ \ Range(posted)]
      /\ slotCalls' = slotCalls
  BY <1>0
<1>2. messages[b] \in Seq(0..NumTokens) /\ OnceEach(b) /\ k \in 0..Len(messages[b])
<2>1. messages[b] \in Seq(0..NumTokens) /\ OnceEach(b)
  BY DEF TypeOK, TokensSafe
<2>2. QED BY <2>1 DEF Poppable
<1>3. /\ Distinct(rest) /\ Range(messages[b]) = Range(first) \cup Range(rest)
      /\ \A t \in Range(first) : t \in Range(rest) => t = 0
  BY <1>2, DistinctParts DEF OnceEach
<1>4. Range(first) \subseteq 0..NumTokens
  BY <1>2, Cut, RangeIs
<1>5. /\ posted \in Seq(0..NumTokens) /\ Distinct(posted)
      /\ \A t \in Range(posted) : t = 0 \/ t \in tokens[b]
<2>1. CASE HasOutput(b)
<3>0. tokens[b] \subseteq 1..NumTokens /\ k \in Nat
  BY <1>2 DEF TypeOK
<3>1. /\ posted \in Seq(0..NumTokens) /\ Len(posted) = k
      /\ \A i \in 1..k : posted[i] \in tokens[b] \cup {0}
      /\ \A i, j \in 1..k : posted[i] = posted[j] => i = j \/ posted[i] = 0
  BY <2>1, <3>0, TokensAre
<3> HIDE DEF posted
<3>2. Distinct(posted)
  BY <3>1 DEF Distinct
<3>3. ASSUME NEW t \in Range(posted) PROVE t = 0 \/ t \in tokens[b]
<4>1. PICK i \in 1..Len(posted) : posted[i] = t
  BY <3>1, RangeIs
<4>2. QED BY <3>1, <4>1
<3>4. QED BY <3>1, <3>2, <3>3
<2>2. CASE ~HasOutput(b)
<3>1. posted = <<>> /\ posted \in Seq(0..NumTokens) /\ Len(posted) = 0
  BY <2>2
<3> HIDE DEF posted
<3>2. Distinct(posted)
  BY <3>1 DEF Distinct
<3>3. \A t : t \notin Range(posted)
  BY <3>1 DEF Range
<3>4. QED BY <3>1, <3>2, <3>3
<2>3. QED BY <2>1, <2>2
<1> HIDE DEF posted, first, rest, given
<1>6. /\ messages'[b] = rest
      /\ \A c \in Subscribers(b) : messages'[c] = messages[c] \o posted
      /\ \A c \in Blocks : c # b /\ c \notin Subscribers(b) => messages'[c] = messages[c]
  BY <1>1, Tree
\* What is posted is nowhere downstream yet.
<1>7. ASSUME NEW c \in Subscribers(b), NEW t \in Carried(c), t \in Range(posted) PROVE t = 0
<2>1. t = 0 \/ (t \in tokens[b] /\ t \in 1..NumTokens)
  BY <1>5, <1>7 DEF TypeOK
<2>2. t # 0 => t \in Sent(Subscribers(b))
  BY DEF Sent, Carried
<2>3. KeepsTokens(b) /\ HasOutput(b)
  BY DEF TokensSafe, HasOutput
<2>4. QED BY <2>1, <2>2, <2>3 DEF KeepsTokens
<1>8. ASSUME NEW c \in Subscribers(b)
      PROVE  Distinct(messages'[c]) /\ Range(messages'[c]) = Range(messages[c]) \cup Range(posted)
<2>1. c \in Blocks
  BY Tree
<2>2. messages[c] \in Seq(0..NumTokens) /\ Distinct(messages[c])
  BY <2>1 DEF TypeOK, TokensSafe, OnceEach
<2>3. \A t \in Range(messages[c]) : t \in Range(posted) => t = 0
  BY <1>7 DEF Carried
<2>4. posted \in Seq(0..NumTokens) /\ Distinct(posted)
  BY <1>5
<2>5. /\ Distinct(messages[c] \o posted)
      /\ Range(messages[c] \o posted) = Range(messages[c]) \cup Range(posted)
  BY <2>2, <2>3, <2>4, DistinctJoined
<2>6. QED BY <1>6, <2>5
<1>9. Carried(b)' = Range(rest) \cup Range(slotCalls[b])
  BY <1>1, <1>6 DEF Carried
<1>10. Carried(b) = Range(first) \cup Carried(b)'
  BY <1>3, <1>9 DEF Carried
<1>11. \A t \in Range(first) : t \in Carried(b)' => t = 0
  BY <1>2, <1>3, <1>9 DEF OnceEach
<1>12. \A c \in Subscribers(b) : Carried(c)' = Carried(c) \cup Range(posted)
<2>1. ASSUME NEW c \in Subscribers(b) PROVE Carried(c)' = Carried(c) \cup Range(posted)
<3>1. Carried(c)' = Range(messages'[c]) \cup Range(slotCalls[c])
  BY <1>1 DEF Carried
<3>2. QED BY <1>8, <3>1 DEF Carried
<2>2. QED BY <2>1
<1>13. \A c \in Blocks : c # b /\ c \notin Subscribers(b) => Carried(c)' = Carried(c)
  BY <1>1, <1>6 DEF Carried
<1>14. ASSUME NEW c \in Blocks PROVE OnceEach(c)'
<2>1. CASE c \in Subscribers(b)
<3>1. OnceEach(c)
  BY DEF TokensSafe
<3>2. \A t \in Range(messages'[c]) : t \in Range(slotCalls[c]) => t = 0
  BY <1>7, <1>8, <2>1, <3>1 DEF OnceEach, Carried
<3>3. QED BY <1>1, <1>8, <2>1, <3>1, <3>2 DEF OnceEach
<2>2. CASE c = b
  BY <1>1, <1>2, <1>3, <1>6, <2>2 DEF OnceEach
<2>3. CASE c # b /\ c \notin Subscribers(b)
  BY <1>1, <1>6, <2>3 DEF TokensSafe, OnceEach
<2>4. QED BY <2>1, <2>2, <2>3
<1>15. /\ ReturnTokens(b, given) \in [Blocks -> SUBSET (1..NumTokens)]
       /\ \A d \in Blocks : ~(HasSource(b) /\ d = Source[b]) => ReturnTokens(b, given)[d] = tokens[d]
<2>1. tokens \in [Blocks -> SUBSET (1..NumTokens)] /\ Range(first) \in SUBSET (0..NumTokens)
  BY <1>4 DEF TypeOK
<2>2. PICK gone \in SUBSET (0..NumTokens) : gone = Range(first)
  BY <2>1
<2>3. given = GivenBack(b, gone)
  BY <2>2 DEF given
<2> HIDE DEF first
<2>4. /\ ReturnTokens(b, GivenBack(b, gone)) \in [Blocks -> SUBSET (1..NumTokens)]
      /\ \A c \in Blocks : ReturnTokens(b, GivenBack(b, gone))[c] =
            IF HasSource(b) /\ c = Source[b] THEN tokens[c] \cup GivenBack(b, gone) ELSE tokens[c]
  BY <2>1, TokensReturned
<2>5. QED BY <2>3, <2>4
<1>16. /\ tokens'[b] = ReturnTokens(b, given)[b] \ Range(posted)
       /\ \A d \in Blocks : d # b => tokens'[d] = ReturnTokens(b, given)[d]
  BY <1>1, <1>15
<1>17. ASSUME NEW d \in Blocks PROVE KeepsTokens(d)'
<2>1. \A c \in Subscribers(d) : c \in Blocks /\ Source[c] = d
  BY Tree
<2>2. \A c \in Subscribers(b) : Source[c] = b
  BY Tree
<2>3. HasSource(b) => Source[b] # b
  BY Tree
<2>4. CASE d = b
<3>1. tokens'[b] = tokens[b] \ Range(posted)
  BY <1>15, <1>16, <2>3
<3>2. KeepsTokens(b)'
  BY <1>5, <1>12, <3>1, TokensPosted DEF TokensSafe
<3>3. QED BY <2>4, <3>2
<2>5. CASE HasSource(b) /\ d = Source[b]
<3>1. tokens'[Source[b]] = ReturnTokens(b, GivenBack(b, Range(first)))[Source[b]]
  BY <1>16, <2>3, <2>5 DEF given
<3>2. \A c \in Subscribers(Source[b]) : c # b => Carried(c)' = Carried(c)
  BY <1>13, <2>1, <2>2, <2>3, <2>5
<3>3. KeepsTokens(Source[b])'
  BY <1>4, <1>10, <1>11, <2>5, <3>1, <3>2, TokensGivenBack DEF TokensSafe
<3>4. QED BY <2>5, <3>3
<2>6. CASE d # b /\ ~(HasSource(b) /\ d = Source[b])
<3>1. tokens'[d] = tokens[d]
  BY <1>15, <1>16, <2>6
<3>2. \A c \in Subscribers(d) : c # b
  BY <2>1, <2>6, Tree
<3>3. \A c \in Subscribers(d) : Carried(c)' = Carried(c)
  BY <1>13, <2>1, <2>2, <2>6, <3>2
<3>4. QED BY <3>1, <3>3, TokensOnly DEF TokensSafe
<2>7. QED BY <2>4, <2>5, <2>6
<1>18. QED BY <1>14, <1>17 DEF TokensSafe

LEMMA EmitSignalTokens ==
    ASSUME TypeOK, TokensSafe, NEW b \in Blocks, EmitSignal(b)
    PROVE  TokensSafe'
<1> DEFINE posted == Tokens(b, 1)
<1>1. /\ tokens' = [tokens EXCEPT ![b] = @ \ Range(posted)]
      /\ slotCalls' = [c \in Blocks |->
            IF c \in Subscribers(b) THEN slotCalls[c] \o posted ELSE slotCalls[c]]
      /\ messages' = messages
  BY DEF EmitSignal
<1>2. /\ posted \in Seq(0..NumTokens) /\ Len(posted) = 1
      /\ \A i \in 1..1 : posted[i] \in tokens[b] \cup {0}
  BY TokensAre DEF TypeOK
<1> HIDE DEF posted
<1>3. /\ Distinct(posted) /\ \A t \in Range(posted) : t = 0 \/ t \in tokens[b]
<2>1. Distinct(posted)
  BY <1>2 DEF Distinct
<2>2. \A t \in Range(posted) : \E i \in 1..Len(posted) : posted[i] = t
  BY <1>2, RangeIs
<2>3. QED BY <1>2, <2>1, <2>2
<1>4. ASSUME NEW c \in Subscribers(b), NEW t \in Carried(c), t \in Range(posted) PROVE t = 0
<2>1. t = 0 \/ (t \in tokens[b] /\ t \in 1..NumTokens)
  BY <1>3, <1>4 DEF TypeOK
<2>2. t # 0 => t \in Sent(Subscribers(b))
  BY DEF Sent, Carried
<2>3. KeepsTokens(b) /\ HasOutput(b)
  BY DEF TokensSafe, HasOutput
<2>4. QED BY <2>1, <2>2, <2>3 DEF KeepsTokens
<1>5. ASSUME NEW c \in Subscribers(b)
      PROVE  Distinct(slotCalls'[c]) /\ Range(slotCalls'[c]) = Range(slotCalls[c]) \cup Range(posted)
<2>1. c \in Blocks
  BY Tree
<2>2. slotCalls[c] \in Seq(0..NumTokens) /\ Distinct(slotCalls[c])
  BY <2>1 DEF TypeOK, TokensSafe, OnceEach
<2>3. \A t \in Range(slotCalls[c]) : t \in Range(posted) => t = 0
  BY <1>4 DEF Carried
<2>4. posted \in Seq(0..NumTokens) /\ Distinct(posted)
  BY <1>2, <1>3
<2>5. /\ Distinct(slotCalls[c] \o posted)
      /\ Range(slotCalls[c] \o posted) = Range(slotCalls[c]) \cup Range(posted)
  BY <2>2, <2>3, <2>4, DistinctJoined
<2>6. slotCalls'[c] = slotCalls[c] \o posted
  BY <1>1, <2>1
<2>7. QED BY <2>5, <2>6
<1>6. \A c \in Blocks : c \notin Subscribers(b) => slotCalls'[c] = slotCalls[c]
  BY <1>1
<1>7. ASSUME NEW c \in Subscribers(b) PROVE Carried(c)' = Carried(c) \cup Range(posted)
<2>1. Carried(c)' = Range(messages[c]) \cup Range(slotCalls'[c])
  BY <1>1 DEF Carried
<2>2. QED BY <1>5, <2>1 DEF Carried
<1>8. ASSUME NEW c \in Blocks PROVE OnceEach(c)'
<2>1. CASE c \in Subscribers(b)
<3>1. OnceEach(c)
  BY DEF TokensSafe
<3>2. \A t \in Range(messages[c]) : t \in Range(slotCalls'[c]) => t = 0
  BY <1>4, <1>5, <2>1, <3>1 DEF OnceEach, Carried
<3>3. QED BY <1>1, <1>5, <2>1, <3>1, <3>2 DEF OnceEach
<2>2. CASE c \notin Subscribers(b)
  BY <1>1, <1>6, <2>2 DEF TokensSafe, OnceEach
<2>3. QED BY <2>1, <2>2
<1>9. ASSUME NEW d \in Blocks PROVE KeepsTokens(d)'
<2>1. CASE d = b
<3>1. tokens'[b] = tokens[b] \ Range(posted)
  BY <1>1 DEF TypeOK
<3>2. QED BY <1>3, <1>7, <2>1, <3>1, TokensPosted DEF TokensSafe
<2>2. CASE d # b
<3>1. tokens'[d] = tokens[d]
  BY <1>1, <2>2 DEF TypeOK
<3>2. ASSUME NEW c \in Subscribers(d) PROVE Carried(c)' = Carried(c)
<4>1. c \in Blocks /\ Source[c] = d
  BY Tree
<4>2. c \notin Subscribers(b)
  BY <2>2, <4>1, Tree
<4>3. QED BY <1>1, <1>6, <4>1, <4>2 DEF Carried
<3>3. QED BY <3>1, <3>2, TokensOnly DEF TokensSafe
<2>3. QED BY <2>1, <2>2
<1>10. QED BY <1>8, <1>9 DEF TokensSafe

\* What comes from outside holds no token.
LEMMA OutsideTokens ==
    ASSUME TypeOK, TokensSafe, PushMessage \/ SlotCallsPush
    PROVE  TokensSafe'
<1>1. 1 \in Blocks /\ ~HasSource(1) /\ tokens' = tokens
  BY Tree DEF PushMessage, SlotCallsPush
<1>2. /\ messages'[1] = messages[1] \/ messages'[1] = Append(messages[1], 0)
      /\ slotCalls'[1] = slotCalls[1] \/ slotCalls'[1] = Append(slotCalls[1], 0)
      /\ \A c \in Blocks : c # 1 => messages'[c] = messages[c] /\ slotCalls'[c] = slotCalls[c]
  BY <1>1 DEF PushMessage, SlotCallsPush, TypeOK
<1>3. ASSUME NEW s \in Seq(0..NumTokens), Distinct(s)
      PROVE  Distinct(Append(s, 0)) /\ \A t \in Range(Append(s, 0)) : t = 0 \/ t \in Range(s)
<2>1. /\ Append(s, 0) \in Seq(0..NumTokens) /\ Len(Append(s, 0)) = Len(s) + 1 /\ Len(s) \in Nat
      /\ \A i \in 1..Len(s) : Append(s, 0)[i] = s[i]
      /\ Append(s, 0)[Len(s) + 1] = 0
<3>1. 0 \in 0..NumTokens
  BY SizesAssumption
<3>2. QED BY <3>1, AppendProperties, LenProperties
<2>2. \A i \in 1..(Len(s) + 1) : i \in 1..Len(s) \/ i = Len(s) + 1
  BY <2>1
<2>3. \A i \in 1..(Len(s) + 1) : Append(s, 0)[i] = 0 \/ (i \in 1..Len(s) /\ Append(s, 0)[i] = s[i])
  BY <2>1, <2>2
<2>4. Distinct(Append(s, 0))
  BY <1>3, <2>1, <2>3 DEF Distinct
<2>5. ASSUME NEW t \in Range(Append(s, 0)) PROVE t = 0 \/ t \in Range(s)
<3>1. PICK i \in 1..Len(Append(s, 0)) : Append(s, 0)[i] = t
  BY <2>1, RangeIs
<3>2. t = 0 \/ \E j \in 1..Len(s) : s[j] = t
  BY <2>1, <2>3, <3>1
<3>3. QED BY <3>2, RangeIs
<2>6. QED BY <2>4, <2>5
<1>4. ASSUME NEW c \in Blocks PROVE OnceEach(c)'
<2>1. CASE c # 1
  BY <1>2, <2>1 DEF TokensSafe, OnceEach
<2>2. CASE c = 1
<3>1. /\ messages[1] \in Seq(0..NumTokens) /\ slotCalls[1] \in Seq(0..NumTokens) /\ OnceEach(1)
  BY <1>1 DEF TypeOK, TokensSafe
<3>2. Distinct(messages'[1]) /\ \A t \in Range(messages'[1]) : t = 0 \/ t \in Range(messages[1])
  BY <1>2, <1>3, <3>1 DEF OnceEach
<3>3. Distinct(slotCalls'[1]) /\ \A t \in Range(slotCalls'[1]) : t = 0 \/ t \in Range(slotCalls[1])
  BY <1>2, <1>3, <3>1 DEF OnceEach
<3>4. QED BY <2>2, <3>1, <3>2, <3>3 DEF OnceEach
<2>3. QED BY <2>1, <2>2
<1>5. ASSUME NEW d \in Blocks PROVE KeepsTokens(d)'
<2>1. ASSUME NEW c \in Subscribers(d) PROVE Carried(c)' = Carried(c)
<3>1. c \in Blocks /\ c # 1
  BY <1>1, Tree
<3>2. QED BY <1>2, <3>1 DEF Carried
<2>2. QED BY <1>1, <2>1, TokensOnly DEF TokensSafe
<1>6. QED BY <1>4, <1>5 DEF TokensSafe

LEMMA TokensUnchanged ==
    ASSUME TokensSafe, tokens' = tokens, messages' = messages, slotCalls' = slotCalls
    PROVE  TokensSafe'
<1>1. \A b \in Blocks : OnceEach(b)'
  BY DEF TokensSafe, OnceEach
<1>2. ASSUME NEW b \in Blocks PROVE KeepsTokens(b)'
  BY TokensOnly DEF TokensSafe, Carried
<1>3. QED BY <1>1, <1>2 DEF TokensSafe

LEMMA TokensKept == TypeOK /\ TokensSafe /\ [Next]_vars => TokensSafe'
<1> SUFFICES ASSUME TypeOK, TokensSafe, [Next]_vars PROVE TokensSafe'
  OBVIOUS
<1>1. CASE UNCHANGED vars
  BY <1>1, TokensUnchanged DEF vars, ioVars
<1>2. CASE PushMessage \/ SlotCallsPush
  BY <1>2, OutsideTokens
<1>3. CASE PushBuffer
  BY <1>3, TokensUnchanged DEF PushBuffer, ioVars
<1>4. ASSUME NEW b \in Blocks, WorkerStep(b) PROVE TokensSafe'
<2>1. CASE StartPass(b) \/ PreWorkOutputs(b)
  BY <2>1, TokensUnchanged DEF StartPass, PreWorkOutputs, ioVars
<2>2. CASE PostWorkInputs(b)
<3>1. UNCHANGED ioVars
  BY <2>2 DEF PostWorkInputs
<3>2. QED BY <3>1, TokensUnchanged DEF ioVars
<2>3. CASE PostWorkOutputs(b) \/ PushToSubscriber(b) \/ EndPass(b)
  BY <2>3, TokensUnchanged DEF PostWorkOutputs, PushToSubscriber, EndPass, ioVars
<2>4. CASE PreWorkInputs(b) \/ Work(b)
  BY <2>4, PreWorkInputsTokens, WorkTokens
<2>5. QED BY <1>4, <2>1, <2>2, <2>3, <2>4 DEF WorkerStep
<1>5. ASSUME NEW b \in Blocks, SetActiveStateOn(b) \/ SetActiveStateOff(b) PROVE TokensSafe'
  BY <1>5, TokensUnchanged DEF SetActiveStateOn, SetActiveStateOff, ioVars
<1>6. ASSUME NEW b \in Blocks, EmitSignal(b) PROVE TokensSafe'
  BY <1>6, EmitSignalTokens
<1>7. QED BY <1>1, <1>2, <1>3, <1>4, <1>5, <1>6 DEF Next

LEMMA InitTokens == Init => TokensSafe
<1> SUFFICES ASSUME Init PROVE TokensSafe
  OBVIOUS
<1>1. ASSUME NEW b \in Blocks PROVE OnceEach(b)
<2>1. messages[b] = <<>> /\ slotCalls[b] = <<>> /\ Len(<<>>) = 0
  BY DEF Init
<2>2. \A t : t \notin Range(<<>>)
  BY DEF Range
<2>3. QED BY <2>1, <2>2 DEF OnceEach, Distinct
<1>2. ASSUME NEW b \in Blocks PROVE KeepsTokens(b)
<2>1. ASSUME NEW t \in 1..NumTokens PROVE t \notin Sent(Subscribers(b))
<3>1. \A c \in Subscribers(b) : messages[c] = <<>> /\ slotCalls[c] = <<>>
  BY Tree DEF Init
<3>2. \A u : u \notin Range(<<>>)
  BY DEF Range
<3>3. \A c \in Subscribers(b) : t \notin Carried(c)
  BY <3>1, <3>2 DEF Carried
<3>4. QED BY <3>3 DEF Sent, Carried
<2>2. tokens[b] = 1..NumTokens
  BY DEF Init
<2>3. QED BY <2>1, <2>2 DEF KeepsTokens
<1>3. QED BY <1>1, <1>2 DEF TokensSafe

(***************************************************************************)
(* Buffers are neither lost nor written to while they are read             *)
(***************************************************************************)

AtEnd(queue, k) == queue # <<>> /\ queue[Len(queue)].buf = k

\* No managed buffer is in two chunks.
Apart(queue) ==
    \A i, j \in 1..Len(queue) : queue[i].buf = queue[j].buf => i = j \/ queue[i].buf = 0

\* What a manager with the buffers R, room for n elements in the front one,
\* shares with a subscriber's queue, while k has been posted with m elements
\* and may still be owed: the front buffer at most, at the end of the queue,
\* and no more of it than the manager has handed out.
Shares(R, n, k, m, owed, queue) ==
    /\ \A i \in 1..Len(R) : R[i] \in Held(queue) =>
          i = 1 /\ AtEnd(queue, R[1]) /\ (k = 0 \/ k = R[1])
    /\ owed /\ k \in Held(queue) => AtEnd(queue, k)
    /\ Apart(queue)
    /\ \A i \in 1..Len(queue) : R # <<>> /\ queue[i].buf = R[1] =>
          n + queue[i].len + (IF owed /\ k = R[1] THEN m ELSE 0) <= BufSize

Manages(R, n, k, m) ==
    /\ \A i, j \in 1..Len(R) : R[i] = R[j] => i = j
    /\ \A i \in 1..Len(R) : i # 1 => R[i] # k
    /\ R # <<>> /\ k = R[1] => n + m <= BufSize

\* A queue from which a pass has taken something
Shrinks(queue, less) ==
    /\ \A k \in Held(less) : k \in Held(queue) /\ (AtEnd(queue, k) => AtEnd(less, k))
    /\ Apart(less)
    /\ \A i \in 1..Len(less) : less[i].buf # 0 =>
          \E j \in 1..Len(queue) : queue[j].buf = less[i].buf /\ less[i].len <= queue[j].len

LEMMA ChunkIs ==
    ASSUME NEW queue \in Seq(ChunkRecords)
    PROVE  /\ Len(queue) \in Nat /\ (queue # <<>> => Len(queue) > 0)
           /\ \A i \in 1..Len(queue) : /\ queue[i] \in ChunkRecords /\ queue[i].len \in Nat
                                       /\ queue[i].buf \in 0..NumBuffers
<1>1. \A i \in 1..Len(queue) : queue[i] \in ChunkRecords
  BY ElementOfSeq
<1>2. QED BY <1>1, LenProperties, EmptySeq DEF ChunkRecords

LEMMA ShrinksNot ==
    ASSUME NEW queue \in Seq(ChunkRecords), Apart(queue)
    PROVE  Shrinks(queue, queue)
<1>1. \A i \in 1..Len(queue) : queue[i].len <= queue[i].len
  BY ChunkIs
<1>2. QED BY <1>1 DEF Shrinks

LEMMA ShrinksByPop ==
    ASSUME NEW queue \in Seq(ChunkRecords), Apart(queue),
           NEW n \in Nat, n > 0, n <= FrontElements(queue)
    PROVE  Shrinks(queue, PopChunk(queue, n))
<1> DEFINE L == Len(queue)
           less == PopChunk(queue, n)
<1>1. queue # <<>> /\ L \in Nat /\ L > 0 /\ Head(queue) = queue[1]
  BY ChunkIs DEF FrontElements
<1>2. \A i \in 1..L : queue[i].len \in Nat /\ queue[i].buf \in 0..NumBuffers
  BY ChunkIs
<1>3. less \in Seq(ChunkRecords)
  BY PopTakes
<1>4. CASE Head(queue).len = n
<2>1. less = Tail(queue)
  BY <1>4 DEF PopChunk
<2>2. Len(less) = L - 1 /\ \A i \in 1..(L - 1) : less[i] = queue[i + 1]
  BY <1>1, <2>1, HeadTailProperties
<2> HIDE DEF less, L
<2>3. \A i \in 1..(L - 1) : i + 1 \in 1..L
  BY <1>1
<2>4. Apart(less)
<3>1. ASSUME NEW i \in 1..(L - 1), NEW j \in 1..(L - 1), less[i].buf = less[j].buf
      PROVE  i = j \/ less[i].buf = 0
<4>1. i + 1 = j + 1 \/ queue[i + 1].buf = 0
  BY <2>2, <2>3, <3>1 DEF Apart, L
<4>2. QED BY <1>1, <2>2, <4>1
<3>2. QED BY <2>2, <3>1 DEF Apart
<2>5. \A i \in 1..Len(less) :
          \E j \in 1..L : queue[j].buf = less[i].buf /\ less[i].len <= queue[j].len
  BY <1>2, <2>2, <2>3
<2>6. \A k \in Held(less) : k \in Held(queue)
<3>1. \A k : k \in Held(less) <=> k # 0 /\ \E i \in 1..Len(less) : less[i].buf = k
  BY <1>3, HeldAre
<3>2. \A k : k \in Held(queue) <=> k # 0 /\ \E i \in 1..L : queue[i].buf = k
  BY HeldAre DEF L
<3>3. QED BY <2>5, <3>1, <3>2
<2>7. ASSUME NEW k \in Held(less), AtEnd(queue, k) PROVE AtEnd(less, k)
<3>1. PICK i \in 1..Len(less) : less[i].buf = k
  BY <1>3, HeldAre
<3>2. L - 1 \in 1..(L - 1) /\ (L - 1) + 1 = L
  BY <1>1, <2>2, <3>1
<3>3. less[Len(less)].buf = queue[L].buf /\ Len(less) # 0
  BY <2>2, <3>2
<3>4. less # <<>>
  BY <3>3
<3>5. QED BY <2>7, <3>3, <3>4 DEF AtEnd, L
<2>8. QED BY <2>4, <2>5, <2>6, <2>7 DEF Shrinks, less, L
<1>5. CASE Head(queue).len # n
<2> DEFINE h == [Head(queue) EXCEPT !.len = @ - n]
<2>0. Head(queue) \in ChunkRecords
  BY <1>1, ChunkIs
<2>1. less = [queue EXCEPT ![1] = h]
<3>1. less = [queue EXCEPT ![1].len = @ - n]
  BY <1>5 DEF PopChunk
<3>2. QED BY <1>1, <3>1
<2>2. h.buf = queue[1].buf /\ h.len <= queue[1].len
<3>1. h.buf = Head(queue).buf /\ h.len = Head(queue).len - n
  BY <2>0 DEF ChunkRecords
<3>2. Head(queue).len \in Nat
  BY <2>0 DEF ChunkRecords
<3>3. h.len <= Head(queue).len
  BY <3>1, <3>2
<3>4. QED BY <1>1, <3>1, <3>3
<2> HIDE DEF h
<2>3. Len(less) = L /\ \A i \in 1..L : less[i] = IF i = 1 THEN h ELSE queue[i]
  BY <1>1, <2>1
<2> HIDE DEF less, L
<2>4. \A i \in 1..L : less[i].buf = queue[i].buf /\ less[i].len <= queue[i].len
<3>1. \A i \in 1..L : queue[i].len <= queue[i].len
  BY <1>2
<3>2. QED BY <2>2, <2>3, <3>1
<2>5. Apart(less)
  BY <2>3, <2>4 DEF Apart, L
<2>6. \A k \in Held(less) : k \in Held(queue)
<3>1. \A k : k \in Held(less) <=> k # 0 /\ \E i \in 1..Len(less) : less[i].buf = k
  BY <1>3, HeldAre
<3>2. \A k : k \in Held(queue) <=> k # 0 /\ \E i \in 1..L : queue[i].buf = k
  BY HeldAre DEF L
<3>3. QED BY <2>3, <2>4, <3>1, <3>2
<2>7. ASSUME NEW k, AtEnd(queue, k) PROVE AtEnd(less, k)
<3>1. less # <<>> /\ L \in 1..L
  BY <1>1, <2>3
<3>2. QED BY <2>3, <2>4, <2>7, <3>1 DEF AtEnd, L
<2>8. \A i \in 1..Len(less) :
          \E j \in 1..L : queue[j].buf = less[i].buf /\ less[i].len <= queue[j].len
  BY <2>3, <2>4
<2>9. QED BY <2>5, <2>6, <2>7, <2>8 DEF Shrinks, less, L
<1>6. QED BY <1>4, <1>5

LEMMA ShrinksByRequire ==
    ASSUME NEW queue \in Seq(ChunkRecords), Apart(queue), NEW n \in Nat \ {0}
    PROVE  Shrinks(queue, RequireChunks(queue, n))
<1> DEFINE less == <<[buf |-> 0, len |-> Elements(queue)]>>
<1>1. CASE RequireChunks(queue, n) = queue
  BY <1>1, ShrinksNot
<1>2. CASE RequireChunks(queue, n) = less
<2>1. Len(less) = 1 /\ less[1].buf = 0 /\ Range(less) = {less[1]}
  BY DEF Range
<2> HIDE DEF less
<2>2. Held(less) = {} /\ Apart(less)
<3>1. Held(less) = {}
  BY <2>1 DEF Held
<3>2. Apart(less)
  BY <2>1 DEF Apart
<3>3. QED BY <3>1, <3>2
<2>3. \A i \in 1..Len(less) : less[i].buf = 0
  BY <2>1
<2>4. QED BY <1>2, <2>2, <2>3 DEF Shrinks
<1>3. QED BY <1>1, <1>2 DEF RequireChunks

\* The subscriber lets something go.
LEMMA SharesLess ==
    ASSUME NEW R \in Seq(1..NumBuffers), NEW n \in Nat, NEW k, NEW m \in Nat, NEW owed \in BOOLEAN,
           NEW queue \in Seq(ChunkRecords), NEW less \in Seq(ChunkRecords),
           Shares(R, n, k, m, owed, queue), Shrinks(queue, less)
    PROVE  Shares(R, n, k, m, owed, less)
<1> DEFINE due == IF owed /\ k = R[1] THEN m ELSE 0
<1>0. due \in Nat /\ BufSize \in Nat
  BY SizesAssumption
<1>1. \A i \in 1..Len(R) : R[i] \in Held(less) =>
          i = 1 /\ AtEnd(less, R[1]) /\ (k = 0 \/ k = R[1])
  BY DEF Shares, Shrinks
<1>2. (owed /\ k \in Held(less) => AtEnd(less, k)) /\ Apart(less)
  BY DEF Shares, Shrinks
<1>3. ASSUME NEW i \in 1..Len(less), R # <<>>, less[i].buf = R[1]
      PROVE  n + less[i].len + due <= BufSize
<2>1. R[1] # 0
<3>1. 1 \in 1..Len(R)
  BY <1>3, LenProperties, EmptySeq
<3>2. R[1] \in 1..NumBuffers
  BY <3>1, ElementOfSeq
<3>3. QED BY <3>2, SizesAssumption
<2>2. PICK j \in 1..Len(queue) : queue[j].buf = less[i].buf /\ less[i].len <= queue[j].len
  BY <1>3, <2>1 DEF Shrinks
<2>3. n + queue[j].len + due <= BufSize
  BY <1>3, <2>2 DEF Shares
<2>4. queue[j].len \in Nat /\ less[i].len \in Nat
  BY ChunkIs
<2> HIDE DEF due
<2>5. PICK x \in Nat, y \in Nat : x = less[i].len /\ y = queue[j].len
  BY <2>4
<2>6. x <= y /\ n + y + due <= BufSize
  BY <2>2, <2>3, <2>5
<2>7. n + x + due <= BufSize
  BY <1>0, <2>6
<2>8. QED BY <2>5, <2>7
<1>4. QED BY <1>1, <1>2, <1>3 DEF Shares

LEMMA FrontOf ==
    ASSUME NEW R \in Seq(1..NumBuffers)
    PROVE  /\ Len(R) \in Nat /\ NumBuffers \in Nat
           /\ \A i \in 1..Len(R) : R[i] \in 1..NumBuffers /\ R[i] # 0
           /\ R # <<>> => 1 \in 1..Len(R) /\ R[1] \in 1..NumBuffers /\ R[1] # 0 /\ Head(R) = R[1]
<1>1. NumBuffers \in Nat /\ Len(R) \in Nat
  BY SizesAssumption, LenProperties
<1>2. \A i \in 1..Len(R) : R[i] \in 1..NumBuffers
  BY ElementOfSeq
<1>3. R # <<>> => 1 \in 1..Len(R) /\ Head(R) = R[1]
  BY <1>1, EmptySeq
<1>4. \A i \in 1..NumBuffers : i # 0
  BY <1>1
<1>5. QED BY <1>1, <1>2, <1>3, <1>4

LEMMA Joined ==
    ASSUME NEW R \in Seq(1..NumBuffers), NEW B \in Seq(1..NumBuffers)
    PROVE  /\ R \o B \in Seq(1..NumBuffers) /\ Len(R \o B) = Len(R) + Len(B)
           /\ Len(R) \in Nat /\ Len(B) \in Nat
           /\ \A i \in 1..Len(R) : i \in 1..(Len(R) + Len(B)) /\ (R \o B)[i] = R[i]
           /\ \A i \in 1..(Len(R) + Len(B)) :
                 \/ i \in 1..Len(R) /\ (R \o B)[i] = R[i]
                 \/ i - Len(R) \in 1..Len(B) /\ (R \o B)[i] = B[i - Len(R)] /\ i \notin 1..Len(R)
           /\ \A i \in 1..Len(B) : /\ i + Len(R) \in 1..(Len(R) + Len(B))
                                   /\ (R \o B)[i + Len(R)] = B[i]
           /\ R # <<>> => R \o B # <<>> /\ (R \o B)[1] = R[1]
           /\ R = <<>> => R \o B = B
<1> DEFINE m == Len(R)
           n == Len(B)
           joined == R \o B
<1>1. /\ joined \in Seq(1..NumBuffers) /\ Len(joined) = m + n /\ m \in Nat /\ n \in Nat
      /\ \A i \in 1..(m + n) : joined[i] = IF i <= m THEN R[i] ELSE B[i - m]
  BY ConcatProperties, LenProperties
<1>2. R = <<>> => joined = B
  BY ConcatEmptySeq
<1>3. R # <<>> => m > 0
  BY <1>1, EmptySeq
<1>4. joined # <<>> \/ m + n = 0
  BY <1>1, EmptySeq
<1> HIDE DEF m, n, joined
<1>5. \A i \in 1..m : i \in 1..(m + n) /\ joined[i] = R[i]
  BY <1>1
<1>6. \A i \in 1..(m + n) :
                 \/ i \in 1..m /\ joined[i] = R[i]
                 \/ i - m \in 1..n /\ joined[i] = B[i - m] /\ i \notin 1..m
  BY <1>1
<1>7. \A i \in 1..n : i + m \in 1..(m + n) /\ joined[i + m] = B[i]
<2>1. \A i \in 1..n : i + m \in 1..(m + n) /\ ~(i + m <= m) /\ (i + m) - m = i
  BY <1>1
<2>2. QED BY <1>1, <2>1
<1>8. R # <<>> => joined # <<>> /\ joined[1] = R[1]
<2>1. R # <<>> => m + n # 0 /\ 1 \in 1..m
  BY <1>1, <1>3
<2>2. QED BY <1>4, <1>5, <2>1
<1>9. QED BY <1>1, <1>2, <1>5, <1>6, <1>7, <1>8 DEF m, n, joined

\* Buffers come back that the subscriber does not hold.
LEMMA SharesMore ==
    ASSUME NEW R \in Seq(1..NumBuffers), NEW B \in Seq(1..NumBuffers), NEW n, NEW n2,
           NEW k, NEW m, NEW owed \in BOOLEAN, NEW queue \in Seq(ChunkRecords),
           Shares(R, n, k, m, owed, queue), R # <<>> => n2 = n,
           \A i \in 1..Len(B) : B[i] \notin Held(queue)
    PROVE  Shares(R \o B, n2, k, m, owed, queue)
<1> DEFINE more == R \o B
<1>1. /\ Len(more) = Len(R) + Len(B) /\ more \in Seq(1..NumBuffers)
      /\ \A i \in 1..(Len(R) + Len(B)) :
                 \/ i \in 1..Len(R) /\ more[i] = R[i]
                 \/ i - Len(R) \in 1..Len(B) /\ more[i] = B[i - Len(R)] /\ i \notin 1..Len(R)
      /\ R # <<>> => more[1] = R[1]
      /\ R = <<>> => more = B
  BY Joined
<1> HIDE DEF more
<1>2. ASSUME NEW i \in 1..Len(more), more[i] \in Held(queue)
      PROVE  i = 1 /\ AtEnd(queue, more[1]) /\ (k = 0 \/ k = more[1])
<2>1. i \in 1..Len(R) /\ more[i] = R[i]
  BY <1>1, <1>2
<2>2. R # <<>>
  BY <2>1, EmptySeq
<2>3. QED BY <1>1, <1>2, <2>1, <2>2 DEF Shares
<1>3. ASSUME NEW i \in 1..Len(queue), more # <<>>, queue[i].buf = more[1]
      PROVE  n2 + queue[i].len + (IF owed /\ k = more[1] THEN m ELSE 0) <= BufSize
<2>1. R # <<>>
<3>1. SUFFICES ASSUME R = <<>> PROVE FALSE
  OBVIOUS
<3>2. more = B /\ 1 \in 1..Len(B) /\ B[1] # 0
  BY <1>1, <1>3, <3>1, FrontOf
<3>3. B[1] \in Held(queue)
  BY <1>3, <3>2, HeldAre
<3>4. QED BY <3>2, <3>3
<2>2. QED BY <1>1, <1>3, <2>1 DEF Shares
<1>4. QED BY <1>2, <1>3 DEF Shares, more

LEMMA ManagesMore ==
    ASSUME NEW R \in Seq(1..NumBuffers), NEW B \in Seq(1..NumBuffers), NEW n, NEW n2, NEW k, NEW m,
           Manages(R, n, k, m), R # <<>> => n2 = n,
           \A i \in 1..Len(B) : B[i] # k /\ B[i] \notin Range(R),
           \A i, j \in 1..Len(B) : B[i] = B[j] => i = j
    PROVE  Manages(R \o B, n2, k, m)
<1> DEFINE more == R \o B
           l == Len(R)
<1>1. /\ Len(more) = l + Len(B) /\ more \in Seq(1..NumBuffers) /\ l \in Nat /\ Len(B) \in Nat
      /\ \A i \in 1..(l + Len(B)) :
                 \/ i \in 1..l /\ more[i] = R[i]
                 \/ i - l \in 1..Len(B) /\ more[i] = B[i - l] /\ i \notin 1..l
      /\ R # <<>> => more[1] = R[1]
      /\ R = <<>> => more = B
  BY Joined
<1>2. \A i \in 1..l : R[i] \in Range(R)
  BY RangeIs
<1> HIDE DEF more, l
<1>3. ASSUME NEW i \in 1..(l + Len(B)), NEW j \in 1..(l + Len(B)), more[i] = more[j] PROVE i = j
<2>1. CASE i \in 1..l /\ j \in 1..l
  BY <1>1, <1>3, <2>1 DEF Manages, l
<2>2. CASE i \notin 1..l /\ j \notin 1..l
<3>1. i - l \in 1..Len(B) /\ j - l \in 1..Len(B) /\ B[i - l] = B[j - l]
  BY <1>1, <1>3, <2>2
<3>2. i - l = j - l
  BY <3>1
<3>3. QED BY <1>1, <3>2
<2>3. CASE ~(i \in 1..l <=> j \in 1..l)
<3>0. \A x \in 1..(l + Len(B)) : /\ x \in 1..l => more[x] \in Range(R)
                                 /\ x \notin 1..l => more[x] \notin Range(R)
  BY <1>1, <1>2
<3>1. QED BY <1>3, <2>3, <3>0
<2>4. QED BY <2>1, <2>2, <2>3
<1>4. ASSUME NEW i \in 1..(l + Len(B)), i # 1 PROVE more[i] # k
<2>1. CASE i \in 1..l
  BY <1>1, <1>4, <2>1 DEF Manages, l
<2>2. CASE i \notin 1..l
  BY <1>1, <2>2
<2>3. QED BY <2>1, <2>2
<1>5. ASSUME more # <<>>, k = more[1] PROVE n2 + m <= BufSize
<2>1. R # <<>>
<3>1. SUFFICES ASSUME R = <<>> PROVE FALSE
  OBVIOUS
<3>2. more = B /\ 1 \in 1..Len(B)
  BY <1>1, <1>5, <3>1, FrontOf
<3>3. QED BY <1>5, <3>2
<2>2. QED BY <1>1, <1>5, <2>1 DEF Manages
<1>6. QED BY <1>1, <1>3, <1>4, <1>5 DEF Manages, more

\* Nothing is posted any more, or yet.
LEMMA SharesQuiet ==
    ASSUME NEW R \in Seq(1..NumBuffers), NEW n \in Nat, NEW k, NEW m \in Nat, NEW owed \in BOOLEAN,
           NEW m2, NEW owed2 \in BOOLEAN, NEW queue \in Seq(ChunkRecords),
           Shares(R, n, k, m, owed, queue)
    PROVE  Shares(R, n, 0, m2, owed2, queue)
<1>1. 0 \notin Held(queue)
  BY HeldAre, SizesAssumption
<1>2. ASSUME NEW i \in 1..Len(queue), R # <<>>, queue[i].buf = R[1]
      PROVE  n + queue[i].len + (IF owed2 /\ 0 = R[1] THEN m2 ELSE 0) <= BufSize
<2>1. R[1] # 0
  BY <1>2, FrontOf
<2>2. n + queue[i].len + (IF owed /\ k = R[1] THEN m ELSE 0) <= BufSize
  BY <1>2 DEF Shares
<2>3. queue[i].len \in Nat /\ BufSize \in Nat
  BY ChunkIs, SizesAssumption
<2>4. QED BY <2>1, <2>2, <2>3
<1>3. QED BY <1>1, <1>2 DEF Shares

LEMMA ManagesQuiet ==
    ASSUME NEW R \in Seq(1..NumBuffers), NEW n, NEW k, NEW m, NEW m2, Manages(R, n, k, m)
    PROVE  Manages(R, n, 0, m2)
<1>1. \A i \in 1..Len(R) : R[i] # 0
  BY FrontOf
<1>2. R # <<>> => R[1] # 0
  BY FrontOf
<1>3. QED BY <1>1, <1>2 DEF Manages

\* Part of the front buffer is posted, the rest stays.
LEMMA SharesAgain ==
    ASSUME NEW R \in Seq(1..NumBuffers), R # <<>>, NEW n \in Nat, NEW m, NEW m2 \in Nat, m2 <= n,
           NEW owed \in BOOLEAN, NEW queue \in Seq(ChunkRecords), Shares(R, n, 0, m, owed, queue)
    PROVE  Shares(R, n - m2, R[1], m2, TRUE, queue)
<1>0. 1 \in 1..Len(R) /\ R[1] # 0 /\ BufSize \in Nat
  BY FrontOf, SizesAssumption
<1>1. \A i \in 1..Len(R) : R[i] \in Held(queue) =>
          i = 1 /\ AtEnd(queue, R[1]) /\ (R[1] = 0 \/ R[1] = R[1])
  BY DEF Shares
<1>2. R[1] \in Held(queue) => AtEnd(queue, R[1])
  BY <1>0 DEF Shares
<1>3. ASSUME NEW i \in 1..Len(queue), queue[i].buf = R[1] PROVE n - m2 + queue[i].len + m2 <= BufSize
<2>1. n + queue[i].len + (IF owed /\ 0 = R[1] THEN m ELSE 0) <= BufSize
  BY <1>3 DEF Shares
<2>2. queue[i].len \in Nat
  BY ChunkIs
<2>3. QED BY <1>0, <2>1, <2>2
<1>4. Apart(queue)
  BY DEF Shares
<1>5. QED BY <1>1, <1>2, <1>3, <1>4 DEF Shares

\* The front buffer is posted, and leaves the manager.
LEMMA SharesNext ==
    ASSUME NEW R \in Seq(1..NumBuffers), R # <<>>, NEW n, NEW m, NEW n2, NEW m2,
           NEW owed \in BOOLEAN, NEW queue \in Seq(ChunkRecords), Shares(R, n, 0, m, owed, queue)
    PROVE  Shares(Tail(R), n2, R[1], m2, TRUE, queue)
<1>0. Len(R) \in Nat /\ 1 \in 1..Len(R)
  BY FrontOf
<1>1. /\ Tail(R) \in Seq(1..NumBuffers) /\ Len(Tail(R)) = Len(R) - 1
      /\ \A i \in 1..(Len(R) - 1) : Tail(R)[i] = R[i + 1] /\ i + 1 \in 1..Len(R) /\ i + 1 # 1
<2>1. /\ Tail(R) \in Seq(1..NumBuffers) /\ Len(Tail(R)) = Len(R) - 1
      /\ \A i \in 1..Len(Tail(R)) : Tail(R)[i] = R[i + 1]
  BY HeadTailProperties
<2>2. QED BY <1>0, <2>1
<1>2. \A i \in 1..Len(Tail(R)) : Tail(R)[i] \notin Held(queue)
  BY <1>1 DEF Shares
<1>3. R[1] \in Held(queue) => AtEnd(queue, R[1])
  BY <1>0 DEF Shares
<1>4. ASSUME NEW i \in 1..Len(queue), Tail(R) # <<>>, queue[i].buf = Tail(R)[1] PROVE FALSE
<2>1. 1 \in 1..Len(Tail(R)) /\ Tail(R)[1] # 0
  BY <1>1, <1>4, FrontOf
<2>2. Tail(R)[1] \in Held(queue)
  BY <1>4, <2>1, HeldAre
<2>3. QED BY <1>2, <2>1, <2>2
<1>5. Apart(queue)
  BY DEF Shares
<1>6. QED BY <1>2, <1>3, <1>4, <1>5 DEF Shares

LEMMA ManagesAgain ==
    ASSUME NEW R \in Seq(1..NumBuffers), R # <<>>, NEW n \in Nat, n <= BufSize, NEW m,
           NEW m2 \in Nat, m2 <= n, Manages(R, n, 0, m)
    PROVE  Manages(R, n - m2, R[1], m2)
<1>1. 1 \in 1..Len(R) /\ BufSize \in Nat
  BY FrontOf, SizesAssumption
<1>2. n - m2 + m2 <= BufSize
  BY <1>1
<1>3. QED BY <1>1, <1>2 DEF Manages

LEMMA ManagesNext ==
    ASSUME NEW R \in Seq(1..NumBuffers), R # <<>>, NEW n, NEW m, NEW n2, NEW m2,
           Manages(R, n, 0, m)
    PROVE  Manages(Tail(R), n2, R[1], m2)
<1>0. Len(R) \in Nat /\ 1 \in 1..Len(R)
  BY FrontOf
<1>1. /\ Len(Tail(R)) = Len(R) - 1 /\ Tail(R) \in Seq(1..NumBuffers)
      /\ \A i \in 1..(Len(R) - 1) : Tail(R)[i] = R[i + 1] /\ i + 1 \in 1..Len(R) /\ i + 1 # 1
<2>1. /\ Tail(R) \in Seq(1..NumBuffers) /\ Len(Tail(R)) = Len(R) - 1
      /\ \A i \in 1..Len(Tail(R)) : Tail(R)[i] = R[i + 1]
  BY HeadTailProperties
<2>2. QED BY <1>0, <2>1
<1>2. \A i \in 1..(Len(R) - 1) : Tail(R)[i] # R[1]
  BY <1>0, <1>1 DEF Manages
<1>3. \A i, j \in 1..(Len(R) - 1) : Tail(R)[i] = Tail(R)[j] => i = j
<2>1. ASSUME NEW i \in 1..(Len(R) - 1), NEW j \in 1..(Len(R) - 1), Tail(R)[i] = Tail(R)[j]
      PROVE  i = j
<3>1. i + 1 = j + 1
  BY <1>1, <2>1 DEF Manages
<3>2. QED BY <1>0, <3>1
<2>2. QED BY <2>1
<1>4. Tail(R) # <<>> => 1 \in 1..(Len(R) - 1)
  BY <1>1, FrontOf
<1>5. QED BY <1>1, <1>2, <1>3, <1>4 DEF Manages

\* The subscriber gets what is posted.
LEMMA SharesPushed ==
    ASSUME NEW R \in Seq(1..NumBuffers), NEW n \in Nat, NEW k \in 1..NumBuffers, NEW m \in Nat, m > 0,
           NEW queue \in Seq(ChunkRecords), Shares(R, n, k, m, TRUE, queue), Manages(R, n, k, m)
    PROVE  Shares(R, n, k, m, FALSE, PushChunk(queue, [buf |-> k, len |-> m]))
<1> DEFINE chunk == [buf |-> k, len |-> m]
           more == PushChunk(queue, chunk)
           L == Len(queue)
<1>0. k # 0 /\ L \in Nat /\ chunk \in ChunkRecords /\ chunk.buf = k /\ chunk.len = m
      /\ BufSize \in Nat
<2>1. NumBuffers \in Nat /\ BufSize \in Nat
  BY SizesAssumption
<2>2. k # 0 /\ k \in 0..NumBuffers
  BY <2>1
<2>3. QED BY <2>1, <2>2, ChunkIs DEF ChunkRecords
<1>1. more \in Seq(ChunkRecords)
  BY <1>0, PushAdds
<1>2. \A x : x \in Held(queue) <=> x # 0 /\ \E i \in 1..L : queue[i].buf = x
  BY HeldAre
<1>3. \A x : x \in Held(more) <=> x # 0 /\ \E i \in 1..Len(more) : more[i].buf = x
  BY <1>1, HeldAre
\* A merged chunk is the last one: k is nowhere else.
<1>4. CASE AtEnd(queue, k)
<2> DEFINE last == [queue[L] EXCEPT !.len = @ + m]
<2>1. queue # <<>> /\ queue[L].buf = k /\ L \in 1..L /\ queue[L] \in ChunkRecords
      /\ queue[L].len \in Nat
<3>1. queue # <<>> /\ queue[L].buf = k
  BY <1>4 DEF AtEnd
<3>2. L \in 1..L
  BY <1>0, <3>1, EmptySeq
<3>3. QED BY <3>1, <3>2, ChunkIs
<2>2. last.buf = k /\ last.len = queue[L].len + m /\ last \in ChunkRecords
<3>1. queue[L].len + m \in Nat \ {0}
  BY <2>1
<3>2. PICK l \in Nat \ {0} : l = queue[L].len + m
  BY <3>1
<3>3. last = [queue[L] EXCEPT !.len = l]
  BY <3>2
<3> HIDE DEF last
<3>4. last \in ChunkRecords /\ last.len = l /\ last.buf = queue[L].buf
  BY <2>1, <3>3 DEF ChunkRecords
<3>5. QED BY <2>1, <3>2, <3>4
<2>3. more = [queue EXCEPT ![L] = last]
<3>1. Last(queue) = queue[L]
  BY DEF Last
<3>2. more = [queue EXCEPT ![L].len = @ + chunk.len]
  BY <1>0, <2>1, <3>1 DEF PushChunk
<3>3. QED BY <1>0, <3>2
<2> HIDE DEF last
<2>4. /\ Len(more) = L /\ \A i \in 1..L : more[i] = IF i = L THEN last ELSE queue[i]
<3>1. /\ [queue EXCEPT ![L] = last] \in Seq(ChunkRecords) /\ Len([queue EXCEPT ![L] = last]) = L
      /\ \A i \in 1..L : [queue EXCEPT ![L] = last][i] = IF i = L THEN last ELSE queue[i]
  BY <2>1, <2>2, ExceptSeq
<3>2. QED BY <2>3, <3>1
<2> HIDE DEF more, chunk, L
<2>5. \A i \in 1..L : more[i].buf = queue[i].buf
  BY <2>1, <2>2, <2>4
<2>6. Held(more) = Held(queue)
<3>1. \A x : (\E i \in 1..L : more[i].buf = x) <=> (\E i \in 1..L : queue[i].buf = x)
  BY <2>5
<3>2. \A x : x \in Held(more) <=> x \in Held(queue)
  BY <1>2, <1>3, <2>4, <3>1
<3>3. QED BY <3>2
<2>7. \A x : AtEnd(queue, x) => AtEnd(more, x)
<3>1. more # <<>> /\ Len(more) = L
  BY <2>1, <2>4
<3>2. QED BY <2>1, <2>5, <3>1 DEF AtEnd, L
<2>8. Apart(more)
  BY <2>4, <2>5 DEF Apart, Shares, L
<2>9. \A i \in 1..Len(R) : R[i] \in Held(more) =>
          i = 1 /\ AtEnd(more, R[1]) /\ (k = 0 \/ k = R[1])
  BY <2>6, <2>7 DEF Shares
<2>10. ASSUME NEW i \in 1..Len(more), R # <<>>, more[i].buf = R[1]
       PROVE  n + more[i].len <= BufSize
<3>1. n + queue[i].len + (IF k = R[1] THEN m ELSE 0) <= BufSize
  BY <2>4, <2>5, <2>10 DEF Shares, L
<3>2. queue[i].len \in Nat
  BY <2>4, ChunkIs DEF L
<3>3. CASE i = L
<4>1. k = R[1] /\ more[i].len = queue[i].len + m
  BY <2>1, <2>2, <2>4, <2>5, <2>10, <3>3
<4>2. QED BY <1>0, <3>1, <3>2, <4>1
<3>4. CASE i # L
<4>1. more[i].len = queue[i].len
  BY <2>4, <3>4
<4>2. CASE k = R[1]
  BY <1>0, <3>1, <3>2, <4>1, <4>2
<4>3. CASE k # R[1]
  BY <1>0, <3>1, <3>2, <4>1, <4>3
<4>4. QED BY <4>2, <4>3
<3>5. QED BY <3>3, <3>4
<2>11. Shares(R, n, k, m, FALSE, more)
<3>1. \A i \in 1..Len(more) : more[i].len \in Nat
  BY <1>1, ChunkIs
<3>2. \A i \in 1..Len(more) : R # <<>> /\ more[i].buf = R[1] => n + more[i].len + 0 <= BufSize
  BY <2>10, <3>1
<3>3. QED BY <2>8, <2>9, <3>2 DEF Shares
<2>12. QED BY <2>11 DEF more, chunk
<1>5. CASE ~AtEnd(queue, k)
<2>1. k \notin Held(queue)
  BY <1>5 DEF Shares
<2>2. more = Append(queue, chunk)
<3>1. Last(queue) = queue[L]
  BY DEF Last
<3>2. queue # <<>> => queue[L].buf # k
  BY <1>5 DEF AtEnd
<3>3. QED BY <1>0, <3>1, <3>2 DEF PushChunk
<2> HIDE DEF more, chunk
<2>3. /\ Len(more) = L + 1 /\ \A i \in 1..L : more[i] = queue[i]
      /\ more[L + 1] = chunk
<3>1. chunk \in ChunkRecords
  BY <1>0
<3>2. /\ Len(Append(queue, chunk)) = L + 1 /\ \A i \in 1..L : Append(queue, chunk)[i] = queue[i]
      /\ Append(queue, chunk)[L + 1] = chunk
  BY <3>1, AppendProperties
<3>3. QED BY <2>2, <3>2
<2> HIDE DEF L
<2>4. \A i \in 1..(L + 1) : i \in 1..L \/ i = L + 1
  BY <1>0
<2>5. \A i \in 1..L : i \in 1..(L + 1)
  BY <1>0
<2>6. L + 1 \in 1..(L + 1)
  BY <1>0
<2>7. \A x : x \in Held(more) => x = k \/ x \in Held(queue)
<3>1. SUFFICES ASSUME NEW x \in Held(more) PROVE x = k \/ x \in Held(queue)
  OBVIOUS
<3>2. PICK i \in 1..(L + 1) : more[i].buf = x
  BY <1>3, <2>3
<3>3. x # 0
  BY <1>3
<3>4. CASE i \in 1..L
<4>1. queue[i].buf = x
  BY <2>3, <3>2, <3>4
<4>2. QED BY <1>2, <3>3, <3>4, <4>1
<3>5. CASE i = L + 1
  BY <1>0, <2>3, <3>2, <3>5
<3>6. QED BY <2>4, <3>4, <3>5
<2>8. AtEnd(more, k)
<3>1. more # <<>>
  BY <1>0, <2>3
<3>2. QED BY <1>0, <2>3, <3>1 DEF AtEnd
<2>9. Apart(more)
<3>1. ASSUME NEW i \in 1..(L + 1), NEW j \in 1..(L + 1), more[i].buf = more[j].buf
      PROVE  i = j \/ more[i].buf = 0
<4>1. CASE i \in 1..L /\ j \in 1..L
  BY <2>3, <3>1, <4>1 DEF Shares, Apart, L
<4>2. \A x \in 1..L : more[x].buf # k
  BY <1>0, <1>2, <2>1, <2>3
<4>3. more[L + 1].buf = k
  BY <1>0, <2>3
<4>4. QED BY <2>4, <3>1, <4>1, <4>2, <4>3
<3>2. QED BY <2>3, <3>1 DEF Apart
<2>10. ASSUME NEW i \in 1..Len(R), R[i] \in Held(more)
       PROVE  i = 1 /\ AtEnd(more, R[1]) /\ (k = 0 \/ k = R[1])
<3>1. CASE R[i] = k
<4>1. i = 1
  BY <3>1 DEF Manages
<4>2. QED BY <2>8, <3>1, <4>1
<3>2. CASE R[i] # k
<4>1. R[i] \in Held(queue)
  BY <2>7, <2>10, <3>2
<4>2. i = 1 /\ (k = 0 \/ k = R[1])
  BY <4>1 DEF Shares
<4>3. QED BY <1>0, <3>2, <4>2
<3>3. QED BY <3>1, <3>2
<2>11. ASSUME NEW i \in 1..Len(more), R # <<>>, more[i].buf = R[1]
       PROVE  n + more[i].len + 0 <= BufSize
<3>1. 1 \in 1..Len(R) /\ R[1] # 0
  BY <2>11, FrontOf
<3>2. k = R[1]
<4>1. R[1] \in Held(more)
  BY <1>3, <2>11, <3>1
<4>2. QED BY <1>0, <2>10, <3>1, <4>1
<3>3. i = L + 1
  BY <1>2, <2>1, <2>3, <2>4, <2>11, <3>1, <3>2
<3>4. more[i].len = m /\ n + m <= BufSize
  BY <1>0, <2>3, <2>11, <3>2, <3>3 DEF Manages
<3>5. QED BY <1>0, <3>4
<2>12. Shares(R, n, k, m, FALSE, more)
  BY <2>9, <2>10, <2>11 DEF Shares
<2>13. QED BY <2>12 DEF more, chunk
<1>6. QED BY <1>4, <1>5

\* The buffers of b's output: each is somewhere, and no part of one is with the
\* manager and with a subscriber.
KeepsBuffers(b) ==
    HasOutput(b) =>
        /\ Manages(ready[b], room[b], pass[b].posted, pass[b].produce)
        /\ \A c \in Subscribers(b) :
              Shares(ready[b], room[b], pass[b].posted, pass[b].produce,
                     c \in pass[b].subscribers, chunks[c])
        /\ \A k \in 1..NumBuffers : \/ k \in Range(ready[b])
                                    \/ k = pass[b].posted
                                    \/ \E c \in Subscribers(b) : k \in Held(chunks[c])

BuffersSafe == \A b \in Blocks : KeepsBuffers(b)

LEMMA BuffersTyped ==
    ASSUME TypeOK
    PROVE  /\ Managers /\ Chunks
           /\ \A b \in Blocks : /\ ready[b] \in Seq(1..NumBuffers) /\ room[b] \in Nat
                                /\ room[b] <= BufSize
                                /\ pass[b].posted \in 0..NumBuffers /\ pass[b].produce \in Nat
                                /\ chunks[b] \in Seq(ChunkRecords)
<1>1. Managers /\ Chunks
  BY DEF TypeOK, Managers, Chunks
<1>2. \A b \in Blocks : room[b] \in Nat /\ room[b] <= BufSize
  BY <1>1, SizesAssumption DEF Managers
<1>3. \A b \in Blocks : ready[b] \in Seq(1..NumBuffers) /\ chunks[b] \in Seq(ChunkRecords)
  BY <1>1 DEF Managers, Chunks
<1>4. \A b \in Blocks : pass[b].posted \in 0..NumBuffers /\ pass[b].produce \in Nat
  BY PassIs
<1>5. QED BY <1>1, <1>2, <1>3, <1>4

LEMMA SubscribersStay ==
    ASSUME NEW b \in Blocks
    PROVE  Subscribers(b)' = Subscribers(b) /\ HasOutput(b)' = HasOutput(b)
  BY DEF Subscribers, HasOutput

LEMMA BuffersOnly ==
    ASSUME NEW b \in Blocks, KeepsBuffers(b), ready'[b] = ready[b], room'[b] = room[b],
           pass'[b].posted = pass[b].posted, pass'[b].produce = pass[b].produce,
           pass'[b].subscribers = pass[b].subscribers,
           \A c \in Subscribers(b) : chunks'[c] = chunks[c]
    PROVE  KeepsBuffers(b)'
  BY SubscribersStay DEF KeepsBuffers

\* A pass that has posted nothing
LEMMA BuffersQuiet ==
    ASSUME TypeOK, NEW b \in Blocks, KeepsBuffers(b), ready'[b] = ready[b], room'[b] = room[b],
           pass[b].posted = 0, pass'[b].posted = 0,
           \A c \in Subscribers(b) : chunks'[c] = chunks[c]
    PROVE  KeepsBuffers(b)'
<1> DEFINE R == ready[b]
           n == room[b]
           k == pass[b].posted
           m == pass[b].produce
           m2 == pass'[b].produce
           S == pass'[b].subscribers
<1>1. R \in Seq(1..NumBuffers) /\ n \in Nat /\ m \in Nat
  BY BuffersTyped
<1>2. CASE HasOutput(b)
<2>1. Manages(R, n, 0, m2)
<3>1. Manages(R, n, k, m)
  BY <1>2 DEF KeepsBuffers
<3>2. QED BY <1>1, <3>1, ManagesQuiet
<2>2. ASSUME NEW c \in Subscribers(b) PROVE Shares(R, n, 0, m2, c \in S, chunks[c])
<3>1. Shares(R, n, k, m, c \in pass[b].subscribers, chunks[c])
  BY <1>2 DEF KeepsBuffers
<3>2. c \in Blocks /\ chunks[c] \in Seq(ChunkRecords)
  BY Tree, BuffersTyped
<3> DEFINE owed == c \in pass[b].subscribers
           owed2 == c \in S
<3>3. owed \in BOOLEAN /\ owed2 \in BOOLEAN /\ Shares(R, n, k, m, owed, chunks[c])
  BY <3>1
<3> HIDE DEF R, n, k, m, m2, S, owed, owed2
<3>4. Shares(R, n, 0, m2, owed2, chunks[c])
  BY <1>1, <3>2, <3>3, SharesQuiet
<3>5. QED BY <3>4 DEF owed2
<2>3. \A x \in 1..NumBuffers :
          x \in Range(R) \/ x = k \/ \E c \in Subscribers(b) : x \in Held(chunks[c])
  BY <1>2 DEF KeepsBuffers
<2>4. QED BY <2>1, <2>2, <2>3, SubscribersStay DEF KeepsBuffers
<1>3. CASE ~HasOutput(b)
  BY <1>3, SubscribersStay DEF KeepsBuffers
<1>4. QED BY <1>2, <1>3

\* What comes back: the buffers that only the old queue refers to, each once
LEMMA ReturnedOnes ==
    ASSUME TypeOK, NEW b \in Blocks, NEW queue \in Seq(ChunkRecords), Apart(chunks[b])
    PROVE  /\ Returned(b, queue) \in Seq(1..NumBuffers)
           /\ \A i, j \in 1..Len(Returned(b, queue)) :
                 Returned(b, queue)[i] = Returned(b, queue)[j] => i = j
           /\ \A k : k \in Range(Returned(b, queue)) <=>
                 /\ k \in Held(chunks[b]) /\ k \notin Held(queue)
                 /\ k \notin Range(ready[Source[b]]) /\ k # pass[Source[b]].posted
                 /\ \A c \in Subscribers(Source[b]) : c # b => k \notin Held(chunks[c])
<1> DEFINE others == Subscribers(Source[b]) \ {b}
           gone == Held(chunks[b]) \ (Held(queue) \cup References(Source[b], others))
           B == Returned(b, queue)
<1>1. chunks[b] \in Seq(ChunkRecords) /\ Chunks
  BY BuffersTyped
<1>2. B \in Seq(1..NumBuffers)
  BY <1>1, ReturnedAre
<1>3. B = BuffersIn(chunks[b], gone)
  BY DEF Returned
<1>4. \A k : k \in Held(chunks[b]) <=> k # 0 /\ \E i \in 1..Len(chunks[b]) : chunks[b][i].buf = k
  BY <1>1, HeldAre
<1>5. \A k : k \in gone <=>
                 /\ k \in Held(chunks[b]) /\ k \notin Held(queue)
                 /\ k \notin Range(ready[Source[b]]) /\ k # pass[Source[b]].posted
                 /\ \A c \in Subscribers(Source[b]) : c # b => k \notin Held(chunks[c])
<2>1. \A k : k \in References(Source[b], others) <=>
                 \/ k \in Range(ready[Source[b]])
                 \/ k = pass[Source[b]].posted /\ k # 0
                 \/ \E c \in others : k \in Held(chunks[c])
  BY DEF References
<2>2. \A k \in Held(chunks[b]) : k # 0
  BY <1>4
<2>3. QED BY <2>1, <2>2
<1> HIDE DEF gone, B
<1>6. /\ B \in Seq(gone)
      /\ \A j \in 1..Len(chunks[b]) : chunks[b][j].buf \in gone =>
            \E i \in 1..Len(B) : chunks[b][j].buf = B[i]
      /\ (\A i, j \in 1..Len(chunks[b]) :
             chunks[b][i].buf \in gone /\ chunks[b][i].buf = chunks[b][j].buf => i = j) =>
         \A i, j \in 1..Len(B) : B[i] = B[j] => i = j
<2>1. /\ BuffersIn(chunks[b], gone) \in Seq(gone)
      /\ \A j \in 1..Len(chunks[b]) : chunks[b][j].buf \in gone =>
            \E i \in 1..Len(BuffersIn(chunks[b], gone)) :
                chunks[b][j].buf = BuffersIn(chunks[b], gone)[i]
      /\ (\A i, j \in 1..Len(chunks[b]) :
             chunks[b][i].buf \in gone /\ chunks[b][i].buf = chunks[b][j].buf => i = j) =>
         \A i, j \in 1..Len(BuffersIn(chunks[b], gone)) :
             BuffersIn(chunks[b], gone)[i] = BuffersIn(chunks[b], gone)[j] => i = j
<3>1. PICK q \in Seq(ChunkRecords) : q = chunks[b]
  BY <1>1
<3>2. /\ BuffersIn(q, gone) \in Seq(gone)
      /\ \A j \in 1..Len(q) : q[j].buf \in gone =>
            \E i \in 1..Len(BuffersIn(q, gone)) : q[j].buf = BuffersIn(q, gone)[i]
  BY BuffersFound
<3>3. (\A i, j \in 1..Len(q) : q[i].buf \in gone /\ q[i].buf = q[j].buf => i = j) =>
      \A i, j \in 1..Len(BuffersIn(q, gone)) : BuffersIn(q, gone)[i] = BuffersIn(q, gone)[j] => i = j
  BY BuffersFound, ZenonT(30)
<3>4. QED BY <3>1, <3>2, <3>3
<2>2. QED BY <1>3, <2>1
<1>7. \A i, j \in 1..Len(B) : B[i] = B[j] => i = j
<2>1. \A k \in gone : k # 0
  BY <1>4, <1>5
<2>2. \A i, j \in 1..Len(chunks[b]) :
          chunks[b][i].buf \in gone /\ chunks[b][i].buf = chunks[b][j].buf => i = j
  BY <2>1 DEF Apart
<2>3. QED BY <1>6, <2>2
<1>8. \A k : k \in Range(B) <=> k \in gone
<2>1. \A k : k \in Range(B) <=> \E i \in 1..Len(B) : B[i] = k
  BY <1>2, RangeIs
<2>2. \A i \in 1..Len(B) : B[i] \in gone
  BY <1>6, ElementOfSeq
<2>3. ASSUME NEW k \in gone PROVE \E i \in 1..Len(B) : B[i] = k
<3>1. PICK j \in 1..Len(chunks[b]) : chunks[b][j].buf = k
  BY <1>4, <1>5
<3>2. PICK i \in 1..Len(B) : chunks[b][j].buf = B[i]
  BY <1>6, <3>1
<3>3. QED BY ONLY <3>1, <3>2
<2>4. QED BY <2>1, <2>2, <2>3
<1>9. QED BY <1>2, <1>5, <1>7, <1>8 DEF B

\* A subscriber lets something go, and what nobody else refers to comes back.
LEMMA ReturnedKeep ==
    ASSUME TypeOK, NEW b \in Blocks, HasSource(b), KeepsBuffers(Source[b]),
           NEW queue \in Seq(ChunkRecords), Shrinks(chunks[b], queue),
           NEW flagging, ReturnBuffers(b, queue, flagging), pass'[Source[b]] = pass[Source[b]]
    PROVE  KeepsBuffers(Source[b])'
<1> DEFINE s == Source[b]
           B == Returned(b, queue)
           R == ready[s]
           n == room[s]
           n2 == room'[s]
           k == pass[s].posted
           m == pass[s].produce
           S == pass[s].subscribers
           U == Subscribers(s)
           more == R \o B
<1>1. s \in Blocks /\ b \in U /\ HasOutput(s) /\ U \subseteq Blocks
  BY Tree DEF HasOutput
<1>2. /\ R \in Seq(1..NumBuffers) /\ n \in Nat /\ m \in Nat /\ Managers /\ Chunks
      /\ \A c \in U : chunks[c] \in Seq(ChunkRecords)
  BY <1>1, BuffersTyped
<1>3. /\ Manages(R, n, k, m)
      /\ \A c \in U : Shares(R, n, k, m, c \in S, chunks[c])
      /\ \A x \in 1..NumBuffers : x \in Range(R) \/ x = k \/ \E c \in U : x \in Held(chunks[c])
  BY <1>1 DEF KeepsBuffers
<1>4. /\ B \in Seq(1..NumBuffers)
      /\ \A i, j \in 1..Len(B) : B[i] = B[j] => i = j
      /\ \A x : x \in Range(B) <=>
            /\ x \in Held(chunks[b]) /\ x \notin Held(queue) /\ x \notin Range(R) /\ x # k
            /\ \A c \in U : c # b => x \notin Held(chunks[c])
<2>1. Apart(chunks[b])
  BY <1>1, <1>3 DEF Shares
<2>2. QED BY <2>1, ReturnedOnes
<1>5. /\ chunks'[b] = queue /\ \A c \in Blocks : c # b => chunks'[c] = chunks[c]
      /\ (R # <<>> => n2 = n) /\ ready'[s] = more
  BY <1>1, <1>2, ReturnedBuffers
<1>6. \A x : x \in Range(more) <=> x \in Range(R) \/ x \in Range(B)
  BY <1>2, <1>4, RangeConcatenation
<1>7. \A i \in 1..Len(B) : B[i] \in Range(B)
  BY <1>4, RangeIs
<1>8. pass'[s].posted = k /\ pass'[s].produce = m /\ pass'[s].subscribers = S
  OBVIOUS
<1>9. Subscribers(s)' = U /\ HasOutput(s)' = HasOutput(s)
  BY <1>1, SubscribersStay
<1> HIDE DEF s, B, R, n, n2, k, m, S, U
<1>10. Manages(more, n2, k, m)
<2>1. \A i \in 1..Len(B) : B[i] # k /\ B[i] \notin Range(R)
  BY <1>4, <1>7
<2>2. \A i, j \in 1..Len(B) : B[i] = B[j] => i = j
  BY <1>4
<2>3. Manages(R, n, k, m) /\ (R # <<>> => n2 = n)
  BY <1>3, <1>5
<2>4. QED BY <1>2, <1>4, <2>1, <2>2, <2>3, ManagesMore
<1>11. ASSUME NEW c \in U PROVE Shares(more, n2, k, m, c \in S, chunks'[c])
<2> DEFINE owed == c \in S
<2>1. PICK less \in Seq(ChunkRecords) : less = chunks'[c]
  BY <1>1, <1>2, <1>5
<2>2. owed \in BOOLEAN /\ Shares(R, n, k, m, owed, chunks[c])
  BY <1>3
<2>3. \A i \in 1..Len(B) : B[i] \notin Held(less)
  BY <1>1, <1>4, <1>5, <1>7, <2>1
<2> HIDE DEF owed, more
<2>4. Shares(R, n, k, m, owed, less)
<3>1. CASE c = b
<4>1. Shrinks(chunks[c], less)
  BY <1>5, <2>1, <3>1
<4>2. QED BY <1>2, <2>2, <4>1, SharesLess
<3>2. CASE c # b
  BY <1>1, <1>5, <2>1, <2>2, <3>2
<3>3. QED BY <3>1, <3>2
<2>5. Shares(R \o B, n2, k, m, owed, less)
  BY <1>2, <1>4, <1>5, <2>2, <2>3, <2>4, SharesMore
<2>6. QED BY <2>1, <2>5 DEF owed, more
<1>12. ASSUME NEW x \in 1..NumBuffers
       PROVE  x \in Range(more) \/ x = k \/ \E c \in U : x \in Held(chunks'[c])
<2>1. CASE x \in Range(R) \/ x = k
  BY <1>6, <2>1
<2>2. CASE \E c \in U : c # b /\ x \in Held(chunks[c])
  BY <1>1, <1>5, <2>2
<2>3. CASE ~(x \in Range(R) \/ x = k) /\ ~(\E c \in U : c # b /\ x \in Held(chunks[c]))
<3>1. x \in Held(chunks[b])
  BY <1>3, <2>3
<3>2. x \in Held(queue) \/ x \in Range(B)
  BY <1>4, <2>3, <3>1
<3>3. QED BY <1>1, <1>5, <1>6, <3>2
<2>4. QED BY <2>1, <2>2, <2>3
<1>13. HasOutput(s) =>
          /\ Manages(ready'[s], n2, k, m)
          /\ \A c \in U : Shares(ready'[s], n2, k, m, c \in S, chunks'[c])
          /\ \A x \in 1..NumBuffers :
                x \in Range(ready'[s]) \/ x = k \/ \E c \in U : x \in Held(chunks'[c])
  BY <1>5, <1>10, <1>11, <1>12
<1>14. KeepsBuffers(s)'
  BY <1>8, <1>9, <1>13 DEF KeepsBuffers, n2
<1>15. QED BY <1>14 DEF s

LEMMA ApartBelow ==
    ASSUME BuffersSafe, NEW b \in Blocks, HasSource(b)
    PROVE  Apart(chunks[b])
<1>1. Source[b] \in Blocks /\ b \in Subscribers(Source[b]) /\ HasOutput(Source[b])
  BY Tree DEF HasOutput
<1>2. QED BY <1>1 DEF BuffersSafe, KeepsBuffers, Shares

\* A pass of b that takes something from its input and has posted nothing
LEMMA InputsKeep ==
    ASSUME TypeOK, BuffersSafe, NEW b \in Blocks, NEW queue \in Seq(ChunkRecords),
           HasSource(b) => Shrinks(chunks[b], queue),
           NEW flagging, ReturnBuffers(b, queue, flagging),
           pass[b].posted = 0, pass'[b].posted = 0, \A c \in Blocks : c # b => pass'[c] = pass[c]
    PROVE  BuffersSafe'
<1>1. /\ chunks'[b] = queue /\ \A c \in Blocks : c # b => chunks'[c] = chunks[c]
      /\ \A c \in Blocks :
            ~(HasSource(b) /\ c = Source[b]) => room'[c] = room[c] /\ ready'[c] = ready[c]
  BY BuffersTyped, ReturnedBuffers
<1>2. ASSUME NEW a \in Blocks PROVE KeepsBuffers(a)'
<2>1. KeepsBuffers(a)
  BY DEF BuffersSafe
<2>2. CASE a = b
<3>1. \A c \in Subscribers(b) : c \in Blocks /\ c # b
  BY Tree
<3>2. ~(HasSource(b) /\ b = Source[b])
  BY Tree
<3>3. QED BY <1>1, <2>1, <2>2, <3>1, <3>2, BuffersQuiet
<2>3. CASE HasSource(b) /\ a = Source[b]
<3>1. pass'[a] = pass[a]
  BY <2>3, Tree
<3>2. QED BY <2>1, <2>3, <3>1, ReturnedKeep
<2>4. CASE a # b /\ ~(HasSource(b) /\ a = Source[b])
<3>1. \A c \in Subscribers(a) : c \in Blocks /\ c # b
  BY <2>4, Tree
<3>2. pass'[a] = pass[a]
  BY <2>4
<3>3. QED BY <1>1, <2>1, <2>4, <3>1, <3>2, BuffersOnly
<2>5. QED BY <2>2, <2>3, <2>4
<1>3. QED BY <1>2 DEF BuffersSafe

LEMMA PreWorkInputsBuffers ==
    ASSUME TypesAndCounts, BuffersSafe, NEW b \in Blocks, PreWorkInputs(b)
    PROVE  BuffersSafe'
<1> USE DEF TypesAndCounts
<1> DEFINE queue == RequireChunks(chunks[b], Required(b))
           inputsReady == FrontElements(queue) >= Reserve(b)
           willWork == (HasOutput(b) => pass[b].ready) /\ (inputsReady \/ messages[b] # <<>>)
           call == IF slotCalls[b] = <<>> THEN {} ELSE {Head(slotCalls[b])}
           given == GivenBack(b, call)
           flagging == TokensTold(b, given)
<1>1. /\ pc[b] = "inputs" /\ ReturnBuffers(b, queue, flagging)
      /\ pass' = [pass EXCEPT ![b] =
              IF willWork THEN [@ EXCEPT !.inElems = FrontElements(queue)] ELSE NoPass]
  BY DEF PreWorkInputs, Goto
<1>2. chunks[b] \in Seq(ChunkRecords) /\ Required(b) \in Nat \ {0} /\ pass \in [Blocks -> PassRecords]
<2>1. Required(b) \in Nat \ {0}
  BY TreeAssumption DEF Required, Reserve
<2>2. QED BY <2>1, BuffersTyped DEF TypeOK
<1>3. queue \in Seq(ChunkRecords)
  BY <1>2, RequireKeeps
<1>4. HasSource(b) => Shrinks(chunks[b], queue)
  BY <1>2, ApartBelow, ShrinksByRequire
<1>5. pass[b].posted = 0
  BY <1>1 DEF Fits, PassFits
<1> HIDE DEF willWork, flagging, queue
<1>6. pass'[b].posted = 0 /\ \A c \in Blocks : c # b => pass'[c] = pass[c]
<2>1. PICK r \in PassRecords : r = pass[b]
  BY <1>2
<2>2. [r EXCEPT !.inElems = FrontElements(queue)].posted = 0
  BY <1>5, <2>1 DEF PassRecords
<2>3. pass'[b] = (IF willWork THEN [r EXCEPT !.inElems = FrontElements(queue)] ELSE NoPass)
  BY <1>1, <1>2, <2>1
<2>4. NoPass.posted = 0
  BY DEF NoPass
<2>5. \A c \in Blocks : c # b => pass'[c] = pass[c]
  BY <1>1, <1>2
<2>6. QED BY <2>2, <2>3, <2>4, <2>5
<1>7. QED BY <1>1, <1>3, <1>4, <1>5, <1>6, InputsKeep

LEMMA PostWorkInputsBuffers ==
    ASSUME TypesAndCounts, BuffersSafe, NEW b \in Blocks, PostWorkInputs(b)
    PROVE  BuffersSafe'
<1> USE DEF TypesAndCounts
<1> DEFINE n == pass[b].consume
           queue == IF n = 0 THEN chunks[b] ELSE PopChunk(chunks[b], n)
           flagging == IF n > 0 \/ pass[b].inEvents THEN {b} ELSE {}
<1>1. /\ pc[b] = "consume" /\ ReturnBuffers(b, queue, flagging)
      /\ pass' = [pass EXCEPT ![b] = IF HasOutput(b) THEN Propagated(b) ELSE NoPass]
  BY DEF PostWorkInputs, Goto
<1>2. chunks[b] \in Seq(ChunkRecords) /\ n \in Nat /\ n <= FrontElements(chunks[b])
      /\ pass \in [Blocks -> PassRecords]
<2>1. n <= pass[b].inElems /\ pass[b].inElems <= FrontElements(chunks[b])
  BY <1>1 DEF Fits, PassFits
<2>2. n \in Nat /\ pass[b].inElems \in Nat /\ FrontElements(chunks[b]) \in Nat
  BY PassIs
<2> HIDE DEF n
<2>3. n <= FrontElements(chunks[b])
  BY <2>1, <2>2
<2>4. pass \in [Blocks -> PassRecords]
  BY DEF TypeOK
<2>5. QED BY <2>2, <2>3, <2>4, BuffersTyped
<1>3. pass[b].posted = 0
  BY <1>1 DEF Fits, PassFits
<1> HIDE DEF n, flagging
<1>4. queue \in Seq(ChunkRecords)
<2>1. n > 0 => PopChunk(chunks[b], n) \in Seq(ChunkRecords)
  BY <1>2, PopTakes
<2>2. QED BY <1>2, <2>1
<1>5. HasSource(b) => Shrinks(chunks[b], queue)
<2>1. SUFFICES ASSUME HasSource(b) PROVE Shrinks(chunks[b], queue)
  OBVIOUS
<2>2. Apart(chunks[b])
  BY <2>1, ApartBelow
<2>3. CASE n = 0
  BY <1>2, <2>2, <2>3, ShrinksNot
<2>4. CASE n # 0
<3>1. n > 0
  BY <1>2, <2>4
<3>2. Shrinks(chunks[b], PopChunk(chunks[b], n))
  BY <1>2, <2>2, <3>1, ShrinksByPop
<3>3. QED BY <2>4, <3>2
<2>5. QED BY <2>3, <2>4
<1> HIDE DEF queue
<1>6. pass'[b].posted = 0 /\ \A c \in Blocks : c # b => pass'[c] = pass[c]
<2>1. PICK r \in PassRecords : r = pass[b]
  BY <1>2
<2> DEFINE posts == PassedLabels(b) # <<>>
<2>2. Propagated(b) = [r EXCEPT !.outEvents = @ \/ posts]
  BY <2>1 DEF Propagated
<2> HIDE DEF posts
<2>3. Propagated(b).posted = 0
  BY <1>3, <2>1, <2>2 DEF PassRecords
<2>4. NoPass.posted = 0
  BY DEF NoPass
<2>5. pass'[b] = (IF HasOutput(b) THEN Propagated(b) ELSE NoPass)
      /\ \A c \in Blocks : c # b => pass'[c] = pass[c]
  BY <1>1, <1>2
<2>6. QED BY <2>3, <2>4, <2>5
<1>7. QED BY <1>1, <1>3, <1>4, <1>5, <1>6, InputsKeep

LEMMA HeldStays ==
    ASSUME NEW queue \in Seq(ChunkRecords), NEW chunk \in ChunkRecords, NEW k \in Held(queue)
    PROVE  k \in Held(PushChunk(queue, chunk))
<1> DEFINE more == PushChunk(queue, chunk)
           L == Len(queue)
<1>1. more \in Seq(ChunkRecords) /\ L \in Nat
  BY PushAdds, ChunkIs
<1>2. PICK i \in 1..L : k # 0 /\ queue[i].buf = k
  BY HeldAre
<1>3. i \in 1..Len(more) /\ more[i].buf = k
<2>1. CASE more = Append(queue, chunk)
<3>1. Len(more) = L + 1 /\ more[i] = queue[i]
  BY <2>1, AppendProperties
<3>2. i \in 1..(L + 1)
  BY <1>1
<3>3. QED BY <1>2, <3>1, <3>2
<2>2. CASE more # Append(queue, chunk)
<3> DEFINE last == [queue[L] EXCEPT !.len = @ + chunk.len]
<3>1. more = [queue EXCEPT ![L].len = @ + chunk.len]
  BY <2>2 DEF PushChunk
<3>2. L \in 1..L /\ queue[L] \in ChunkRecords
  BY <1>1, ElementOfSeq
<3>3. last.buf = queue[L].buf /\ last \in ChunkRecords
<4>1. queue[L].len + chunk.len \in Nat \ {0}
<5>1. queue[L].len \in Nat \ {0} /\ chunk.len \in Nat \ {0}
  BY <3>2 DEF ChunkRecords
<5>2. QED BY <5>1
<4>2. PICK n \in Nat \ {0} : n = queue[L].len + chunk.len
  BY <4>1
<4>3. last = [queue[L] EXCEPT !.len = n]
  BY <4>2
<4> HIDE DEF last
<4>4. QED BY <3>2, <4>3 DEF ChunkRecords
<3>4. more = [queue EXCEPT ![L] = last]
  BY <3>1
<3> HIDE DEF last, more
<3>5. Len(more) = L /\ more[i] = IF i = L THEN last ELSE queue[i]
<4>1. /\ Len([queue EXCEPT ![L] = last]) = L
      /\ [queue EXCEPT ![L] = last][i] = IF i = L THEN last ELSE queue[i]
  BY <3>2, <3>3, ExceptSeq
<4>2. QED BY <3>4, <4>1
<3>6. QED BY <1>2, <3>3, <3>5
<2>3. QED BY <2>1, <2>2
<1> HIDE DEF more
<1>4. k \in Held(more)
  BY <1>1, <1>2, <1>3, HeldAre
<1>5. QED BY <1>4 DEF more

\* A step of b's pass that posts nothing
LEMMA QuietSteps ==
    ASSUME TypesAndCounts, BuffersSafe, NEW b \in Blocks, pass[b].posted = 0, pass'[b].posted = 0,
           \A c \in Blocks : c # b => pass'[c] = pass[c],
           ready' = ready, room' = room, chunks' = chunks
    PROVE  BuffersSafe'
<1>1. ASSUME NEW a \in Blocks PROVE KeepsBuffers(a)'
<2>1. KeepsBuffers(a) /\ TypeOK
  BY DEF BuffersSafe, TypesAndCounts
<2>2. CASE a = b
  BY <2>1, <2>2, BuffersQuiet
<2>3. CASE a # b
<3>1. pass'[a] = pass[a]
  BY <2>3
<3>2. QED BY <2>1, <3>1, BuffersOnly
<2>4. QED BY <2>2, <2>3
<1>2. QED BY <1>1 DEF BuffersSafe

LEMMA PostWorkOutputsBuffers ==
    ASSUME TypesAndCounts, BuffersSafe, NEW b \in Blocks, PostWorkOutputs(b)
    PROVE  BuffersSafe'
<1> USE DEF TypesAndCounts
<1> DEFINE n == pass[b].produce
           buf == IF n = 0 THEN 0 ELSE Head(ready[b])
           R == ready[b]
           U == Subscribers(b)
<1>1. /\ PopBuffer(b, n) /\ pc[b] = "post" /\ chunks' = chunks
      /\ pass' = [pass EXCEPT ![b].subscribers = Subscribers(b), ![b].posted = buf]
  BY DEF PostWorkOutputs, Goto
<1>2. /\ n \in Nat /\ n <= room[b] /\ pass[b].posted = 0 /\ pass[b].subscribers = {}
      /\ room[b] \in Nat /\ room[b] <= BufSize /\ Managers /\ R \in Seq(1..NumBuffers)
<2>1. n <= pass[b].outElems /\ pass[b].outElems <= room[b]
  BY <1>1 DEF Fits, PassFits
<2>2. n \in Nat /\ pass[b].outElems \in Nat /\ room[b] \in Nat
  BY PassIs
<2>3. pass[b].posted = 0 /\ pass[b].subscribers = {}
  BY <1>1 DEF Fits, PassFits
<2> HIDE DEF n
<2>4. n <= room[b]
  BY <2>1, <2>2
<2>5. QED BY <2>2, <2>3, <2>4, BuffersTyped
<1> HIDE DEF buf
<1>3. /\ pass'[b].posted = buf /\ pass'[b].produce = n /\ pass'[b].subscribers = U
      /\ \A c \in Blocks : c # b => pass'[c] = pass[c]
<2>1. PICK r \in PassRecords : r = pass[b]
  BY PassIs
<2>2. pass' = [pass EXCEPT ![b] = [r EXCEPT !.subscribers = U, !.posted = buf]] /\ r.produce = n
  BY <1>1, <2>1
<2> HIDE DEF n, U
<2>3. /\ [r EXCEPT !.subscribers = U, !.posted = buf].posted = buf
      /\ [r EXCEPT !.subscribers = U, !.posted = buf].subscribers = U
      /\ [r EXCEPT !.subscribers = U, !.posted = buf].produce = r.produce
  BY DEF PassRecords
<2>4. pass \in [Blocks -> PassRecords]
  BY DEF TypeOK
<2>5. QED BY <2>2, <2>3, <2>4
<1>4. /\ \A c \in Blocks : c # b => room'[c] = room[c] /\ ready'[c] = ready[c]
      /\ n > 0 => R # <<>>
  BY <1>1, <1>2, PoppedBuffer
<1>5. U \subseteq Blocks /\ \A c \in U : chunks[c] \in Seq(ChunkRecords)
  BY Tree, BuffersTyped
<1>6. KeepsBuffers(b)
  BY DEF BuffersSafe
<1>7. CASE n = 0
<2>1. ready' = ready /\ room' = room
  BY <1>1, <1>7 DEF PopBuffer, managers
<2>2. buf = 0
  BY <1>7 DEF buf
<2>3. QED BY <1>1, <1>2, <1>3, <2>1, <2>2, QuietSteps
<1>8. CASE n # 0 /\ HasOutput(b)
<2>0. n > 0 /\ R # <<>> /\ buf = R[1]
<3>1. n > 0 /\ R # <<>>
  BY <1>2, <1>4, <1>8
<3>2. Head(R) = R[1]
  BY <1>2, <3>1, FrontOf
<3>3. buf = Head(R)
  BY <1>8 DEF buf
<3>4. QED BY <3>1, <3>2, <3>3
<2>1. /\ Manages(R, room[b], 0, n)
      /\ \A c \in U : Shares(R, room[b], 0, n, c \in {}, chunks[c])
      /\ \A k \in 1..NumBuffers : k \in Range(R) \/ k = 0 \/ \E c \in U : k \in Held(chunks[c])
  BY <1>2, <1>6, <1>8 DEF KeepsBuffers
<2>2. \A k \in 1..NumBuffers : k # 0
  BY SizesAssumption
<2> HIDE DEF n, R, U
<2>3. ASSUME UsedAgain(b, n) PROVE KeepsBuffers(b)'
<3>1. ready'[b] = R /\ room'[b] = room[b] - n
<4>1. room' = [room EXCEPT ![b] = @ - n] /\ ready' = ready
  BY <1>1, <1>8, <2>3 DEF PopBuffer
<4>2. QED BY <4>1, <1>2 DEF Managers, R
<3>2. Manages(R, room[b] - n, R[1], n)
  BY <1>2, <2>0, <2>1, ManagesAgain
<3>3. ASSUME NEW c \in U PROVE Shares(R, room[b] - n, R[1], n, c \in U, chunks[c])
<4> DEFINE none == c \in {}
<4>1. none \in BOOLEAN /\ Shares(R, room[b], 0, n, none, chunks[c]) /\ chunks[c] \in Seq(ChunkRecords)
  BY <1>5, <2>1
<4> HIDE DEF none
<4>2. Shares(R, room[b] - n, R[1], n, TRUE, chunks[c])
  BY <1>2, <2>0, <4>1, SharesAgain
<4>3. (c \in U) = TRUE
  OBVIOUS
<4>4. QED BY <4>2, <4>3
<3>4. KeepsBuffers(b)'
  BY <1>1, <1>3, <2>0, <2>1, <2>2, <3>1, <3>2, <3>3, SubscribersStay DEF KeepsBuffers, U
<3>5. QED BY <3>4
<2>4. ASSUME ~UsedAgain(b, n) PROVE KeepsBuffers(b)'
<3>1. ready'[b] = Tail(R)
<4>1. ready' = [ready EXCEPT ![b] = Tail(@)]
  BY <1>1, <1>8, <2>4 DEF PopBuffer
<4>2. QED BY <4>1, <1>2 DEF Managers, R
<3>2. Manages(Tail(R), room'[b], R[1], n)
  BY <1>2, <2>0, <2>1, ManagesNext
<3>3. ASSUME NEW c \in U PROVE Shares(Tail(R), room'[b], R[1], n, c \in U, chunks[c])
<4> DEFINE none == c \in {}
<4>1. none \in BOOLEAN /\ Shares(R, room[b], 0, n, none, chunks[c]) /\ chunks[c] \in Seq(ChunkRecords)
  BY <1>5, <2>1
<4> HIDE DEF none
<4>2. Shares(Tail(R), room'[b], R[1], n, TRUE, chunks[c])
  BY <1>2, <2>0, <4>1, SharesNext
<4>3. (c \in U) = TRUE
  OBVIOUS
<4>4. QED BY <4>2, <4>3
<3>4. \A k \in Range(R) : k = R[1] \/ k \in Range(Tail(R))
<4>1. /\ Tail(R) \in Seq(1..NumBuffers) /\ Len(Tail(R)) = Len(R) - 1 /\ Len(R) \in Nat
      /\ \A i \in 1..Len(Tail(R)) : Tail(R)[i] = R[i + 1]
  BY <1>2, <2>0, HeadTailProperties, LenProperties
<4>2. \A i \in 1..Len(R) : i = 1 \/ (i - 1 \in 1..(Len(R) - 1) /\ (i - 1) + 1 = i)
  BY <4>1
<4>3. \A i \in 1..Len(R) : R[i] = R[1] \/ \E j \in 1..Len(Tail(R)) : Tail(R)[j] = R[i]
<5>1. ASSUME NEW i \in 1..Len(R), i # 1 PROVE Tail(R)[i - 1] = R[i] /\ i - 1 \in 1..Len(Tail(R))
  BY <4>1, <4>2, <5>1
<5>2. QED BY <5>1
<4>4. \A k : k \in Range(Tail(R)) <=> \E j \in 1..Len(Tail(R)) : Tail(R)[j] = k
  BY <4>1, RangeIs
<4>5. \A k : k \in Range(R) <=> \E i \in 1..Len(R) : R[i] = k
  BY <1>2, RangeIs
<4>6. QED BY <4>3, <4>4, <4>5
<3>5. KeepsBuffers(b)'
<4>1. \A k \in 1..NumBuffers :
          k \in Range(Tail(R)) \/ k = R[1] \/ \E c \in U : k \in Held(chunks[c])
  BY <2>1, <2>2, <3>4
<4>2. QED BY <1>1, <1>3, <2>0, <3>1, <3>2, <3>3, <4>1, SubscribersStay DEF KeepsBuffers, U
<3>6. QED BY <3>5
<2>5. KeepsBuffers(b)'
  BY <2>3, <2>4
<2>6. ASSUME NEW a \in Blocks, a # b PROVE KeepsBuffers(a)'
<3>1. pass'[a] = pass[a] /\ room'[a] = room[a] /\ ready'[a] = ready[a] /\ KeepsBuffers(a)
  BY <1>3, <1>4, <2>6 DEF BuffersSafe
<3>2. QED BY <1>1, <3>1, BuffersOnly
<2>7. QED BY <2>5, <2>6 DEF BuffersSafe
<1>9. HasOutput(b)
  BY <1>1 DEF Fits, PassFits
<1>10. QED BY <1>7, <1>8, <1>9

LEMMA PushToSubscriberBuffers ==
    ASSUME TypesAndCounts, BuffersSafe, NEW b \in Blocks, PushToSubscriber(b)
    PROVE  BuffersSafe'
<1> USE DEF TypesAndCounts
<1>0. PICK c \in pass[b].subscribers : c = Min(pass[b].subscribers)
<2>1. pass[b].subscribers \subseteq Subscribers(b)
  BY DEF Fits, PassFits
<2>2. pass[b].subscribers \in SUBSET Nat
  BY <2>1, Tree
<2>3. pass[b].subscribers # {}
  BY DEF PushToSubscriber
<2>4. QED BY <2>2, <2>3, LeastElement
<1> DEFINE n == pass[b].produce
           k == pass[b].posted
           S == pass[b].subscribers
           U == Subscribers(b)
           R == ready[b]
           chunk == [buf |-> k, len |-> n]
<1>1. /\ pc[b] = "push" /\ ready' = ready /\ room' = room
      /\ chunks' = IF n = 0 THEN chunks ELSE [chunks EXCEPT ![c] = PushChunk(@, chunk)]
      /\ pass' = [pass EXCEPT ![b].subscribers = @ \ {c}]
  BY <1>0 DEF PushToSubscriber, managers
<1>2. /\ c \in U /\ c \in Blocks /\ U \subseteq Blocks /\ HasOutput(b) /\ (n > 0 <=> k # 0)
      /\ \A a \in Blocks : a # b => c \notin Subscribers(a)
<2>1. S \subseteq U /\ U \subseteq Blocks
  BY Tree DEF Fits, PassFits
<2>2. \A a \in Blocks : c \in Subscribers(a) => Source[c] = a
  BY Tree
<2>3. n > 0 <=> k # 0
  BY <1>1 DEF Fits, PassFits
<2>4. QED BY <2>1, <2>2, <2>3 DEF HasOutput
<1>3. /\ R \in Seq(1..NumBuffers) /\ room[b] \in Nat /\ n \in Nat /\ k \in 0..NumBuffers
      /\ NumBuffers \in Nat
      /\ \A a \in U : chunks[a] \in Seq(ChunkRecords)
  BY <1>2, BuffersTyped, SizesAssumption
<1>4. /\ pass'[b].posted = k /\ pass'[b].produce = n /\ pass'[b].subscribers = S \ {c}
      /\ \A a \in Blocks : a # b => pass'[a] = pass[a]
<2>1. PICK r \in PassRecords : r = pass[b]
  BY PassIs
<2>2. pass' = [pass EXCEPT ![b] = [r EXCEPT !.subscribers = r.subscribers \ {c}]]
  BY <1>1, <2>1
<2>3. /\ [r EXCEPT !.subscribers = r.subscribers \ {c}].posted = r.posted
      /\ [r EXCEPT !.subscribers = r.subscribers \ {c}].subscribers = r.subscribers \ {c}
      /\ [r EXCEPT !.subscribers = r.subscribers \ {c}].produce = r.produce
  BY DEF PassRecords
<2>4. pass \in [Blocks -> PassRecords]
  BY DEF TypeOK
<2>5. QED BY <2>1, <2>2, <2>3, <2>4
<1>5. ASSUME NEW a \in Blocks, a # b PROVE KeepsBuffers(a)'
<2>1. \A x \in Subscribers(a) : x # c /\ x \in Blocks
  BY <1>2, <1>5, Tree
<2>2. \A x \in Subscribers(a) : chunks'[x] = chunks[x]
  BY <1>1, <2>1, BuffersTyped DEF Chunks
<2>3. pass'[a] = pass[a] /\ KeepsBuffers(a)
  BY <1>4, <1>5 DEF BuffersSafe
<2>4. QED BY <1>1, <2>2, <2>3, BuffersOnly
<1>6. ASSUME n = 0 PROVE KeepsBuffers(b)'
<2>1. k = 0
  BY <1>2, <1>3, <1>6
<2>2. chunks' = chunks
  BY <1>1, <1>6
<2>3. KeepsBuffers(b)
  BY DEF BuffersSafe
<2>4. QED BY <1>1, <1>4, <2>1, <2>2, <2>3, BuffersQuiet
<1>7. ASSUME n # 0 PROVE KeepsBuffers(b)'
<2>1. /\ Manages(R, room[b], k, n)
      /\ \A a \in U : Shares(R, room[b], k, n, a \in S, chunks[a])
      /\ \A x \in 1..NumBuffers : x \in Range(R) \/ x = k \/ \E a \in U : x \in Held(chunks[a])
  BY <1>2 DEF BuffersSafe, KeepsBuffers
<2>2. n > 0 /\ k \in 1..NumBuffers
  BY <1>2, <1>3, <1>7
<2>3. chunks'[c] = PushChunk(chunks[c], chunk) /\ \A a \in U : a # c => chunks'[a] = chunks[a]
<3>1. chunks' = [chunks EXCEPT ![c] = PushChunk(@, chunk)]
  BY <1>1, <1>7
<3>2. QED BY <1>2, <3>1, BuffersTyped DEF Chunks
<2>4. chunk \in ChunkRecords
  BY <1>3, <2>2 DEF ChunkRecords
<2>5. ASSUME NEW a \in U PROVE Shares(R, room[b], k, n, a \in S \ {c}, chunks'[a])
<3>1. CASE a = c
<4>1. TRUE \in BOOLEAN /\ Shares(R, room[b], k, n, TRUE, chunks[c])
<5>1. (c \in S) = TRUE
  BY <1>0
<5>2. Shares(R, room[b], k, n, c \in S, chunks[c])
  BY <1>2, <2>1
<5>3. QED BY <5>1, <5>2
<4> HIDE DEF R, n, k, S, U
<4>2. Shares(R, room[b], k, n, FALSE, chunks'[c])
  BY <1>2, <1>3, <2>1, <2>2, <2>3, <4>1, SharesPushed DEF chunk
<4>3. (c \in S \ {c}) = FALSE
  OBVIOUS
<4>4. QED BY <3>1, <4>2, <4>3
<3>2. CASE a # c
<4>1. (a \in S \ {c}) = (a \in S)
  BY <3>2
<4>2. Shares(R, room[b], k, n, a \in S, chunks'[a])
  BY <2>1, <2>3, <3>2
<4>3. QED BY <4>1, <4>2
<3>3. QED BY <3>1, <3>2
<2>6. \A x \in 1..NumBuffers : x \in Range(R) \/ x = k \/ \E a \in U : x \in Held(chunks'[a])
<3>1. \A a \in U : \A x \in Held(chunks[a]) : x \in Held(chunks'[a])
<4> HIDE DEF R, n, k, S, U, chunk
<4>1. \A x \in Held(chunks[c]) : x \in Held(chunks'[c])
  BY <1>2, <1>3, <2>3, <2>4, HeldStays
<4>2. QED BY <2>3, <4>1
<3>2. QED BY <2>1, <3>1
<2>7. QED BY <1>1, <1>4, <2>1, <2>5, <2>6, SubscribersStay DEF KeepsBuffers
<1>8. \A a \in Blocks : KeepsBuffers(a)'
  BY <1>5, <1>6, <1>7
<1>9. QED BY <1>8 DEF BuffersSafe

LEMMA EndPassBuffers ==
    ASSUME TypesAndCounts, BuffersSafe, NEW b \in Blocks, EndPass(b)
    PROVE  BuffersSafe'
<1> USE DEF TypesAndCounts
<1> DEFINE k == pass[b].posted
           m == pass[b].produce
           R == ready[b]
           n == room[b]
           n2 == room'[b]
           U == Subscribers(b)
           held == Range(R) \cup UNION {Held(chunks[c]) : c \in U}
           B == IF k \in held \cup {0} THEN <<>> ELSE <<k>>
           more == R \o B
<1>1. /\ PushBuffers(b, B) /\ pass[b].subscribers = {} /\ pc[b] = "push"
      /\ pass' = [pass EXCEPT ![b] = NoPass] /\ chunks' = chunks
  BY DEF EndPass, Goto
<1>2. /\ R \in Seq(1..NumBuffers) /\ n \in Nat /\ m \in Nat /\ Managers /\ U \subseteq Blocks
      /\ k \in 0..NumBuffers /\ NumBuffers \in Nat
      /\ \A c \in U : chunks[c] \in Seq(ChunkRecords)
      /\ HasOutput(b)
  BY <1>1, Tree, BuffersTyped, SizesAssumption DEF Fits, PassFits
<1>3. /\ Manages(R, n, k, m)
      /\ \A c \in U : Shares(R, n, k, m, c \in {}, chunks[c])
      /\ \A x \in 1..NumBuffers : x \in Range(R) \/ x = k \/ \E c \in U : x \in Held(chunks[c])
  BY <1>1, <1>2 DEF BuffersSafe, KeepsBuffers
<1>4. \A x : x \in held <=> x \in Range(R) \/ \E c \in U : x \in Held(chunks[c])
  OBVIOUS
<1> HIDE DEF held
<1>5. /\ B \in Seq(1..NumBuffers)
      /\ \A i \in 1..Len(B) : i = 1 /\ B[i] = k /\ k # 0 /\ k \notin held
      /\ k # 0 /\ k \notin held => k \in Range(B)
<2>1. CASE k \in held \cup {0}
<3>1. B = <<>> /\ Len(<<>>) = 0 /\ \A i \in 1..0 : FALSE
  BY <2>1
<3>2. <<>> \in Seq(1..NumBuffers)
  BY EmptySeq
<3> HIDE DEF B
<3>3. QED BY <2>1, <3>1, <3>2
<2>2. CASE k \notin held \cup {0}
<3>1. B = <<k>> /\ k \in 1..NumBuffers
  BY <1>2, <2>2
<3>2. <<k>> \in Seq(1..NumBuffers) /\ Len(<<k>>) = 1 /\ <<k>>[1] = k /\ k \in Range(<<k>>)
  BY <3>1 DEF Range
<3> HIDE DEF B, k
<3>3. QED BY <2>2, <3>1, <3>2
<2>3. QED BY <2>1, <2>2
<1> HIDE DEF B, k, m, n, n2, R, U
<1>6. /\ ready' = [ready EXCEPT ![b] = @ \o B]
      /\ \A c \in Blocks : c # b => room'[c] = room[c] /\ ready'[c] = ready[c]
      /\ R # <<>> => n2 = n
<2>1. PushBuffers(b, B) /\ Managers /\ B \in Seq(1..NumBuffers)
  BY <1>1, <1>2, <1>5
<2>2. /\ ready' = [ready EXCEPT ![b] = @ \o B]
      /\ \A c \in Blocks : ready[c] # <<>> => room'[c] = room[c]
      /\ \A c \in Blocks : c # b => room'[c] = room[c] /\ ready'[c] = ready[c]
  BY <2>1, PushedBuffers
<2>3. QED BY <2>2 DEF R, n, n2
<1>7. ready'[b] = more
  BY <1>2, <1>6 DEF Managers, R
<1>8. /\ pass'[b] = NoPass /\ NoPass.posted = 0 /\ NoPass.produce = 0 /\ NoPass.subscribers = {}
      /\ \A c \in Blocks : c # b => pass'[c] = pass[c]
<2>1. pass'[b] = NoPass /\ \A c \in Blocks : c # b => pass'[c] = pass[c]
  BY <1>1 DEF TypeOK
<2>2. QED BY <2>1 DEF NoPass
<1>9. \A x : x \in Range(more) <=> x \in Range(R) \/ x \in Range(B)
  BY <1>2, <1>5, RangeConcatenation
<1>10. Manages(more, n2, 0, 0)
<2>1. Manages(R, n, 0, 0)
  BY <1>2, <1>3, ManagesQuiet
<2>2. \A i \in 1..Len(B) : B[i] # 0 /\ B[i] \notin Range(R)
  BY <1>4, <1>5
<2>3. \A i, j \in 1..Len(B) : B[i] = B[j] => i = j
  BY <1>5
<2>4. R # <<>> => n2 = n
  BY <1>6
<2>5. QED BY <1>2, <1>5, <2>1, <2>2, <2>3, <2>4, ManagesMore
<1>11. ASSUME NEW c \in U PROVE Shares(more, n2, 0, 0, c \in {}, chunks[c])
<2> DEFINE none == c \in {}
<2>1. none \in BOOLEAN /\ Shares(R, n, k, m, none, chunks[c]) /\ chunks[c] \in Seq(ChunkRecords)
  BY <1>2, <1>3
<2> HIDE DEF none, more
<2>2. Shares(R, n, 0, 0, none, chunks[c])
  BY <1>2, <2>1, SharesQuiet
<2>3. \A i \in 1..Len(B) : B[i] \notin Held(chunks[c])
  BY <1>4, <1>5
<2>4. Shares(R \o B, n2, 0, 0, none, chunks[c])
  BY <1>2, <1>5, <1>6, <2>1, <2>2, <2>3, SharesMore
<2>5. QED BY <2>4 DEF none, more
<1>12. \A x \in 1..NumBuffers : x \in Range(more) \/ x = 0 \/ \E c \in U : x \in Held(chunks[c])
<2>1. \A x \in 1..NumBuffers : x # 0
  BY <1>2
<2>2. QED BY <1>3, <1>4, <1>5, <1>9, <2>1
<1> HIDE DEF more
<1>13. KeepsBuffers(b)'
<2>1. /\ Manages(ready'[b], room'[b], pass'[b].posted, pass'[b].produce)
      /\ \A c \in U : Shares(ready'[b], room'[b], pass'[b].posted, pass'[b].produce,
                             c \in pass'[b].subscribers, chunks'[c])
      /\ \A x \in 1..NumBuffers : \/ x \in Range(ready'[b]) \/ x = pass'[b].posted
                                  \/ \E c \in U : x \in Held(chunks'[c])
  BY <1>1, <1>7, <1>8, <1>10, <1>11, <1>12 DEF n2
<2>2. QED BY <2>1, SubscribersStay DEF KeepsBuffers, U
<1>14. ASSUME NEW a \in Blocks, a # b PROVE KeepsBuffers(a)'
<2>1. pass'[a] = pass[a] /\ room'[a] = room[a] /\ ready'[a] = ready[a] /\ KeepsBuffers(a)
  BY <1>6, <1>8, <1>14 DEF BuffersSafe
<2>2. QED BY <1>1, <2>1, BuffersOnly
<1>15. QED BY <1>13, <1>14 DEF BuffersSafe

LEMMA BuffersUnchanged ==
    ASSUME BuffersSafe, pass' = pass, ready' = ready, room' = room, chunks' = chunks
    PROVE  BuffersSafe'
<1>1. ASSUME NEW b \in Blocks PROVE KeepsBuffers(b)'
  BY BuffersOnly DEF BuffersSafe
<1>2. QED BY <1>1 DEF BuffersSafe

\* Elements from outside enter the first block, which has no source.
LEMMA PushBufferBuffers ==
    ASSUME TypesAndCounts, BuffersSafe, PushBuffer
    PROVE  BuffersSafe'
<1>1. pass' = pass /\ ready' = ready /\ room' = room
  BY DEF PushBuffer, managers
<1>2. PICK queue : chunks' = [chunks EXCEPT ![1] = queue]
  BY DEF PushBuffer
<1>3. \A c \in Blocks : c # 1 => chunks'[c] = chunks[c]
  BY <1>2 DEF TypesAndCounts, TypeOK
<1>4. \A b \in Blocks : \A c \in Subscribers(b) : c \in Blocks /\ c # 1
  BY Tree
<1>5. ASSUME NEW b \in Blocks PROVE KeepsBuffers(b)'
  BY <1>1, <1>3, <1>4, BuffersOnly DEF BuffersSafe
<1>6. QED BY <1>5 DEF BuffersSafe

LEMMA EmitSignalBuffers ==
    ASSUME TypesAndCounts, BuffersSafe, NEW b \in Blocks, EmitSignal(b)
    PROVE  BuffersSafe'
<1>1. PICK counted \in BOOLEAN :
        /\ pass' = [pass EXCEPT ![b].outEvents = @ \/ counted]
        /\ UNCHANGED <<flowVars, managers>>
  BY DEF EmitSignal
<1>2. ready' = ready /\ room' = room /\ chunks' = chunks
  BY <1>1 DEF managers, flowVars
<1>3. PICK r \in PassRecords : r = pass[b]
  BY DEF TypesAndCounts, TypeOK
<1> DEFINE outs == r.outEvents \/ counted
<1>4. pass' = [pass EXCEPT ![b] = [r EXCEPT !.outEvents = outs]]
  BY <1>1, <1>3
<1> HIDE DEF outs
<1>5. /\ [r EXCEPT !.outEvents = outs].posted = r.posted
      /\ [r EXCEPT !.outEvents = outs].produce = r.produce
      /\ [r EXCEPT !.outEvents = outs].subscribers = r.subscribers
  BY DEF PassRecords
<1>6. \A c \in Blocks : /\ pass'[c].posted = pass[c].posted /\ pass'[c].produce = pass[c].produce
                        /\ pass'[c].subscribers = pass[c].subscribers
  BY <1>3, <1>4, <1>5 DEF TypesAndCounts, TypeOK
<1>7. ASSUME NEW c \in Blocks PROVE KeepsBuffers(c)'
  BY <1>2, <1>6, BuffersOnly DEF BuffersSafe
<1>8. QED BY <1>7 DEF BuffersSafe

\* Looking at the outputs, and work(), which neither posts a buffer nor pops one
LEMMA WorkBuffers ==
    ASSUME TypesAndCounts, BuffersSafe, NEW b \in Blocks, PreWorkOutputs(b) \/ Work(b)
    PROVE  BuffersSafe'
<1>1. ready' = ready /\ room' = room /\ chunks' = chunks
  BY DEF PreWorkOutputs, Work, managers, flowVars
<1>2. pc[b] \in {"outputs", "work"} /\ pc'[b] \in {"inputs", "consume"}
<2>1. Goto(b, "outputs", "inputs") \/ Goto(b, "work", "consume")
  BY DEF PreWorkOutputs, Work
<2>2. pc \in [Blocks -> States]
  BY DEF TypesAndCounts, TypeOK, States
<2>3. QED BY <2>1, <2>2 DEF Goto
<1>3. [Next]_vars
<2>1. WorkerStep(b)
  BY DEF WorkerStep
<2>2. QED BY <2>1 DEF Next
<1>4. TypesAndCounts'
  BY <1>3, TypesKept
<1>5. pass[b].posted = 0
  BY <1>2 DEF TypesAndCounts, Fits, PassFits
<1>6. pass'[b].posted = 0
  BY <1>2, <1>4 DEF TypesAndCounts, Fits, PassFits
<1>7. \A c \in Blocks : c # b => pass'[c] = pass[c]
<2>1. PICK p : pass' = [pass EXCEPT ![b] = p]
  BY DEF PreWorkOutputs, Work
<2>2. QED BY <2>1 DEF TypesAndCounts, TypeOK
<1>8. QED BY <1>1, <1>5, <1>6, <1>7, QuietSteps

LEMMA BuffersKept == TypesAndCounts /\ BuffersSafe /\ [Next]_vars => BuffersSafe'
<1> SUFFICES ASSUME TypesAndCounts, BuffersSafe, [Next]_vars PROVE BuffersSafe'
  OBVIOUS
<1>1. CASE UNCHANGED vars
  BY <1>1, BuffersUnchanged DEF vars, managers, flowVars
<1>2. CASE PushMessage \/ SlotCallsPush
  BY <1>2, BuffersUnchanged DEF PushMessage, SlotCallsPush, managers, flowVars
<1>3. CASE PushBuffer
  BY <1>3, PushBufferBuffers
<1>4. ASSUME NEW b \in Blocks, WorkerStep(b) PROVE BuffersSafe'
<2>1. CASE StartPass(b)
  BY <2>1, BuffersUnchanged DEF StartPass, managers, flowVars
<2>2. CASE PreWorkOutputs(b) \/ Work(b)
  BY <2>2, WorkBuffers
<2>3. CASE PreWorkInputs(b) \/ PostWorkInputs(b)
  BY <2>3, PreWorkInputsBuffers, PostWorkInputsBuffers
<2>4. CASE PostWorkOutputs(b)
  BY <2>4, PostWorkOutputsBuffers
<2>5. CASE PushToSubscriber(b) \/ EndPass(b)
  BY <2>5, PushToSubscriberBuffers, EndPassBuffers
<2>6. QED BY <1>4, <2>1, <2>2, <2>3, <2>4, <2>5 DEF WorkerStep
<1>5. ASSUME NEW b \in Blocks, SetActiveStateOn(b) \/ SetActiveStateOff(b) PROVE BuffersSafe'
  BY <1>5, BuffersUnchanged DEF SetActiveStateOn, SetActiveStateOff, managers, flowVars
<1>6. ASSUME NEW b \in Blocks, EmitSignal(b) PROVE BuffersSafe'
  BY <1>6, EmitSignalBuffers
<1>7. QED BY <1>1, <1>2, <1>3, <1>4, <1>5, <1>6 DEF Next

LEMMA InitBuffers == Init => BuffersSafe
<1> SUFFICES ASSUME Init, NEW b \in Blocks PROVE KeepsBuffers(b)
  BY DEF BuffersSafe
<1> DEFINE R == [i \in 1..NumBuffers |-> i]
<1>1. NumBuffers \in Nat \ {0} /\ BufSize \in Nat
  BY SizesAssumption
<1>2. Len(R) = NumBuffers /\ \A i \in 1..NumBuffers : R[i] = i
  BY <1>1
<1>3. ready[b] = R /\ room[b] = BufSize /\ pass[b] = NoPass
      /\ \A c \in Subscribers(b) : chunks[c] = <<>>
  BY Tree DEF Init
<1>4. NoPass.posted = 0 /\ NoPass.produce = 0 /\ NoPass.subscribers = {}
  BY DEF NoPass
<1>5. Held(<<>>) = {} /\ Len(<<>>) = 0
  BY DEF Held, Range
<1>6. Range(R) = 1..NumBuffers
  BY DEF Range
<1> HIDE DEF R
<1>7. Manages(R, BufSize, 0, 0)
  BY <1>1, <1>2 DEF Manages
<1>8. Shares(R, BufSize, 0, 0, FALSE, <<>>)
  BY <1>5 DEF Shares, Apart
<1>9. \A c \in Subscribers(b) : Shares(R, BufSize, 0, 0, c \in {}, chunks[c])
<2>1. ASSUME NEW c \in Subscribers(b) PROVE Shares(R, BufSize, 0, 0, c \in {}, chunks[c])
<3>1. (c \in {}) = FALSE /\ chunks[c] = <<>>
  BY <1>3
<3>2. QED BY <1>8, <3>1
<2>2. QED BY <2>1
<1>10. QED BY <1>3, <1>4, <1>6, <1>7, <1>9 DEF KeepsBuffers

LEMMA ResourcesFollow ==
    ASSUME TypeOK, TokensSafe, BuffersSafe
    PROVE  ResourcesConserved
<1> SUFFICES ASSUME NEW b \in Blocks, HasOutput(b)
    PROVE /\ tokens[b] \cup Sent(Subscribers(b)) = 1..NumTokens
          /\ tokens[b] \cap Sent(Subscribers(b)) = {}
          /\ \A i, j \in DOMAIN ready[b] : ready[b][i] = ready[b][j] => i = j
          /\ References(b, Subscribers(b)) = 1..NumBuffers
          /\ \A i \in 2..Len(ready[b]), c \in Subscribers(b) : ready[b][i] \notin Held(chunks[c])
          /\ \A c \in Subscribers(b) : \A i, j \in DOMAIN chunks[c] :
                chunks[c][i].buf = chunks[c][j].buf => i = j \/ chunks[c][i].buf = 0
          /\ ready[b] # <<>> => \A c \in Subscribers(b) : \A x \in Range(chunks[c]) :
                x.buf = Head(ready[b]) => room[b] + x.len <= BufSize
  BY DEF ResourcesConserved
<1> DEFINE R == ready[b]
           U == Subscribers(b)
           k == pass[b].posted
           m == pass[b].produce
           n == room[b]
<1>1. /\ R \in Seq(1..NumBuffers) /\ DOMAIN R = 1..Len(R) /\ n \in Nat /\ m \in Nat
      /\ k \in 0..NumBuffers /\ NumBuffers \in Nat /\ BufSize \in Nat
      /\ \A c \in U : /\ chunks[c] \in Seq(ChunkRecords) /\ DOMAIN chunks[c] = 1..Len(chunks[c])
                      /\ c \in Blocks
  BY Tree, BuffersTyped, LenProperties, SizesAssumption
<1>2. /\ Manages(R, n, k, m)
      /\ \A c \in U : Shares(R, n, k, m, c \in pass[b].subscribers, chunks[c])
      /\ \A x \in 1..NumBuffers : x \in Range(R) \/ x = k \/ \E c \in U : x \in Held(chunks[c])
  BY DEF BuffersSafe, KeepsBuffers
<1>3. \A t \in 1..NumTokens : t \in tokens[b] <=> t \notin Sent(U)
  BY DEF TokensSafe, KeepsTokens
<1>4. tokens[b] \subseteq 1..NumTokens /\ Sent(U) \subseteq 1..NumTokens
<2>1. \A c \in U : messages[c] \in Seq(0..NumTokens) /\ slotCalls[c] \in Seq(0..NumTokens)
  BY <1>1 DEF TypeOK
<2>2. \A c \in U : Range(messages[c]) \cup Range(slotCalls[c]) \subseteq 0..NumTokens
  BY <2>1, RangeIs
<2>3. \A t \in 0..NumTokens : t # 0 => t \in 1..NumTokens
  BY SizesAssumption
<2>4. \A t \in Sent(U) : t # 0 /\ t \in 0..NumTokens
  BY <2>2 DEF Sent
<2>5. tokens[b] \subseteq 1..NumTokens
  BY DEF TypeOK
<2>6. QED BY <2>3, <2>4, <2>5
<1>5. tokens[b] \cup Sent(U) = 1..NumTokens /\ tokens[b] \cap Sent(U) = {}
  BY <1>3, <1>4
<1>6. References(b, U) = 1..NumBuffers
<2>1. \A x : x \in References(b, U) <=>
          x \in Range(R) \/ (x = k /\ x # 0) \/ \E c \in U : x \in Held(chunks[c])
  BY DEF References
<2>2. Range(R) \subseteq 1..NumBuffers /\ (k # 0 => k \in 1..NumBuffers)
      /\ \A x \in 1..NumBuffers : x # 0
<3>1. Range(R) \subseteq 1..NumBuffers
  BY <1>1, RangeIs
<3> HIDE DEF k
<3>2. QED BY <1>1, <3>1
<2>3. \A c \in U : Held(chunks[c]) \subseteq 1..NumBuffers
  BY <1>1, HeldAre
<2>4. \A x : x \in References(b, U) <=> x \in 1..NumBuffers
  BY <1>2, <2>1, <2>2, <2>3
<2>5. QED BY <2>4
<1>7. \A i, j \in DOMAIN R : R[i] = R[j] => i = j
  BY <1>1, <1>2 DEF Manages
<1>8. \A i \in 2..Len(R), c \in U : R[i] \notin Held(chunks[c])
<2>1. \A i \in 2..Len(R) : i \in 1..Len(R) /\ i # 1
  BY <1>1, LenProperties
<2>2. QED BY <1>2, <2>1 DEF Shares
<1>9. \A c \in U : \A i, j \in DOMAIN chunks[c] :
          chunks[c][i].buf = chunks[c][j].buf => i = j \/ chunks[c][i].buf = 0
  BY <1>1, <1>2 DEF Shares, Apart
<1>10. ASSUME R # <<>>, NEW c \in U, NEW x \in Range(chunks[c]), x.buf = Head(R)
       PROVE  n + x.len <= BufSize
<2>1. Head(R) = R[1]
  BY <1>1, <1>10, FrontOf
<2>2. PICK i \in 1..Len(chunks[c]) : chunks[c][i] = x
  BY <1>1, RangeIs
<2> DEFINE due == IF c \in pass[b].subscribers /\ k = R[1] THEN m ELSE 0
<2>3. n + x.len + due <= BufSize
  BY <1>2, <1>10, <2>1, <2>2 DEF Shares
<2>4. x.len \in Nat /\ due \in Nat
  BY <1>1, <2>2, ChunkIs
<2> HIDE DEF due, n
<2>5. QED BY <1>1, <2>3, <2>4
<1>11. QED BY <1>5, <1>6, <1>7, <1>8, <1>9, <1>10

\* Every message token is with the output's manager or with exactly one
\* message or call downstream, every buffer is with the manager or in use, and
\* what the manager hands out again is not what a subscriber still reads: for
\* any tree of blocks, any numbers of buffers and tokens, and every order of
\* posts, pops, signals and returns.
THEOREM NothingIsLost == Spec => []ResourcesConserved
<1>1. TypesAndCounts /\ TokensSafe /\ BuffersSafe => ResourcesConserved
  BY ResourcesFollow DEF TypesAndCounts
<1>2. TypesAndCounts /\ TokensSafe /\ [Next]_vars => TokensSafe'
  BY TokensKept DEF TypesAndCounts
<1>3. Spec => []TokensSafe
  BY <1>2, InitTokens, AlwaysTypesAndCounts, PTL DEF Spec
<1>4. Spec => []BuffersSafe
  BY InitBuffers, BuffersKept, AlwaysTypesAndCounts, PTL DEF Spec
<1>5. QED BY <1>1, <1>3, <1>4, AlwaysTypesAndCounts, PTL

(***************************************************************************)
(* Labels stay with their elements                                         *)
(***************************************************************************)

\* Indices of a queue count from the element base, in units of a scale, and the
\* labels are on elements from low to before high.
Marks(queue, base, scale, low, high) ==
    \A i \in 1..Len(queue) : /\ queue[i].index = (queue[i].origin - base) * scale
                             /\ low <= queue[i].origin /\ queue[i].origin < high

Ascends(queue) == \A i, j \in 1..Len(queue) : i < j => queue[i].origin < queue[j].origin

\* What a pass has been offered it consumes before any label that came later.
Offered(b) == IF pc[b] \in {"work", "consume"} THEN pass[b].inElems ELSE 0

InMarks(b) ==
    /\ Marks(inputLabels[b], consumed[b], ElemSize, consumed[b] + Offered(b), arrived[b])
    /\ Marks(labels[b], consumed[b], 1, consumed[b], arrived[b])
    /\ Ascends(inputLabels[b]) /\ Ascends(labels[b])
    /\ \A i \in 1..Len(labels[b]), j \in 1..Len(inputLabels[b]) :
          labels[b][i].origin < inputLabels[b][j].origin

OutMarks(b) ==
    /\ pc[b] \notin {"post", "push"} => postedLabels[b] = <<>>
    /\ Ascends(postedLabels[b])
    /\ \A c \in Pending(b) :
          Marks(postedLabels[b], arrived[c], ElemSize, arrived[c], arrived[c] + pass[b].produce)
    /\ \A c \in Subscribers(b) : arrived[c] + Due(b, c) = consumed[b]
    /\ pc[b] = "consume" /\ HasOutput(b) => pass[b].produce = pass[b].consume

AllMarked == \A b \in Blocks : InMarks(b) /\ OutMarks(b)

LEMMA ElementsOut ==
    \A x, y \in Int : /\ x * ElemSize \in Int /\ (x + y) * ElemSize = x * ElemSize + y * ElemSize
                      /\ (x - y) * ElemSize = x * ElemSize - y * ElemSize
                      /\ x * ElemSize <= y * ElemSize => x <= y
<1> SUFFICES ASSUME NEW x \in Int, NEW y \in Int
             PROVE  /\ x * ElemSize \in Int /\ (x + y) * ElemSize = x * ElemSize + y * ElemSize
                    /\ (x - y) * ElemSize = x * ElemSize - y * ElemSize
                    /\ x * ElemSize <= y * ElemSize => x <= y
  OBVIOUS
<1>1. ElemSize \in Nat \ {0}
  BY SizesAssumption
<1>2. x * ElemSize \in Int /\ (x + y) * ElemSize = x * ElemSize + y * ElemSize
      /\ (x - y) * ElemSize = x * ElemSize - y * ElemSize
  BY <1>1
<1>3. x * ElemSize <= y * ElemSize => x <= y
<2>1. SUFFICES ASSUME y + 1 <= x PROVE y * ElemSize < x * ElemSize
  BY <1>2, ElementsWide
<2>2. PICK d \in Nat : x = y + 1 + d
  BY <2>1
<2>3. x * ElemSize = y * ElemSize + ElemSize + d * ElemSize /\ d * ElemSize >= 0
      /\ y * ElemSize \in Int
  BY <1>1, <2>2
<2>4. d * ElemSize \in Int
  BY <1>1
<2>5. QED BY <1>1, <2>3, <2>4
<1>4. QED BY <1>2, <1>3

\* In a queue in order, the labels before an element are the first ones.
LEMMA FirstOnes ==
    ASSUME NEW queue \in Seq(LabelRecords), NEW n \in Int,
           \A i, j \in 1..Len(queue) : i < j => queue[i].index <= queue[j].index
    PROVE  LET S == {i \in DOMAIN queue : queue[i].index < n}
           IN  \A i \in 1..Len(queue) : queue[i].index < n <=> i <= Cardinality(S)
<1> DEFINE L == Len(queue)
           S == {i \in DOMAIN queue : queue[i].index < n}
           Others == {k \in 1..(L + 1) : k \notin S}
           m == Min(Others)
<1>1. L \in Nat /\ DOMAIN queue = 1..L /\ \A i \in 1..L : queue[i].index \in Int
  BY LabelIs
<1>2. L + 1 \in Others /\ Others \in SUBSET Nat
  BY <1>1
<1>3. m \in Others /\ \A k \in Others : m <= k
<2> HIDE DEF Others
<2>1. QED BY <1>2, LeastElement
<1> HIDE DEF m
<1>4. \A k \in 1..L : k \in S <=> k < m
<2>1. m \in 1..(L + 1) /\ m \notin S
  BY <1>3
<2>2. ASSUME NEW k \in 1..L, k < m PROVE k \in S
<3>1. k \in 1..(L + 1)
  BY <1>1
<3>2. k \notin Others
  BY <1>1, <1>3, <2>1, <2>2
<3>3. QED BY <3>1, <3>2
<2>3. ASSUME NEW k \in 1..L, ~(k < m) PROVE k \notin S
<3>1. CASE k = m
  BY <2>1, <3>1
<3>2. CASE k # m
<4>1. m \in 1..L /\ m < k
  BY <1>1, <2>1, <2>3, <3>2
<4>2. queue[m].index <= queue[k].index /\ ~(queue[m].index < n)
  BY <1>1, <2>1, <4>1
<4>3. queue[m].index \in Int /\ queue[k].index \in Int
  BY <1>1, <4>1
<4>4. ~(queue[k].index < n)
  BY <4>2, <4>3
<4>5. QED BY <4>4
<3>3. QED BY <3>1, <3>2
<2>4. QED BY <2>2, <2>3
<1>5. S = 1..(m - 1)
<2>1. m \in 1..(L + 1)
  BY <1>3
<2>2. \A k : k \in S => k \in 1..L
  BY <1>1
<2> HIDE DEF S
<2>3. \A k : k \in 1..(m - 1) <=> k \in 1..L /\ k < m
  BY <1>1, <2>1
<2>4. \A k : k \in S <=> k \in 1..(m - 1)
  BY <1>4, <2>2, <2>3
<2>5. QED BY <2>4
<1>6. m - 1 \in Nat
  BY <1>1, <1>3
<1>7. Cardinality(S) = m - 1
<2> HIDE DEF S
<2>2. Cardinality(1..(m - 1)) = m - 1
  BY <1>6, FS_Interval
<2>3. QED BY <1>5, <2>2
<1>8. \A k \in 1..L : queue[k].index < n <=> k \in S
  BY <1>1
<1> HIDE DEF S, L, Others
<1>9. \A k \in 1..L : k \in S <=> k <= Cardinality(S)
<2>1. \A k \in 1..L : k < m <=> k <= m - 1
<3>1. \A k \in 1..L : k \in Int
  BY <1>1
<3>2. m \in Int
  BY <1>6, <1>3, <1>1 DEF Others
<3>3. QED BY <3>1, <3>2
<2>2. QED BY <1>4, <1>7, <2>1
<1>10. \A i \in 1..L : queue[i].index < n <=> i <= Cardinality(S)
  BY <1>8, <1>9
<1>11. QED BY <1>10 DEF S, L

\* What nearly every step leaves alone
LabelsTyped(b) ==
    /\ inputLabels[b] \in Seq(LabelRecords) /\ labels[b] \in Seq(LabelRecords)
    /\ postedLabels[b] \in Seq(LabelRecords)
    /\ consumed[b] \in Nat /\ arrived[b] \in Nat /\ Offered(b) \in Nat

LEMMA LabelsAreTyped ==
    ASSUME NEW b \in Blocks, TypeOK
    PROVE  LabelsTyped(b)
<1>1. inputLabels[b] \in Seq(LabelRecords) /\ labels[b] \in Seq(LabelRecords)
      /\ postedLabels[b] \in Seq(LabelRecords)
  BY DEF TypeOK
<1>2. consumed[b] \in Nat /\ arrived[b] \in Nat /\ pass[b].inElems \in Nat
  BY PassIs
<1>3. QED BY <1>1, <1>2 DEF LabelsTyped, Offered

LEMMA MarksWider ==
    ASSUME NEW queue \in Seq(LabelRecords), NEW base, NEW scale,
           NEW low \in Int, NEW high \in Int, NEW low2 \in Int, NEW high2 \in Int,
           Marks(queue, base, scale, low, high), low2 <= low, high <= high2
    PROVE  Marks(queue, base, scale, low2, high2)
<1>1. ASSUME NEW i \in 1..Len(queue)
      PROVE  /\ queue[i].index = (queue[i].origin - base) * scale
             /\ low2 <= queue[i].origin /\ queue[i].origin < high2
<2>1. queue[i].origin \in Int
  BY LabelIs
<2>2. low <= queue[i].origin /\ queue[i].origin < high
      /\ queue[i].index = (queue[i].origin - base) * scale
  BY DEF Marks
<2>3. low2 <= queue[i].origin /\ queue[i].origin < high2
  BY <2>1, <2>2
<2>4. QED BY <2>2, <2>3
<1>2. QED BY <1>1 DEF Marks

LEMMA MarksNone ==
    ASSUME NEW base, NEW scale, NEW low, NEW high
    PROVE  Marks(<<>>, base, scale, low, high) /\ Ascends(<<>>)
<1>1. \A i \in 1..Len(<<>>) : FALSE
  OBVIOUS
<1>2. QED BY <1>1 DEF Marks, Ascends

LEMMA MarksJoin ==
    ASSUME NEW p \in Seq(LabelRecords), NEW q \in Seq(LabelRecords), NEW base, NEW scale,
           NEW low, NEW high, Marks(p, base, scale, low, high), Marks(q, base, scale, low, high)
    PROVE  Marks(p \o q, base, scale, low, high)
<1>1. \A i \in 1..Len(p \o q) :
          \/ i \in 1..Len(p) /\ (p \o q)[i] = p[i]
          \/ i - Len(p) \in 1..Len(q) /\ (p \o q)[i] = q[i - Len(p)]
  BY ConcatProperties
<1>2. QED BY <1>1 DEF Marks

LEMMA AscendsJoin ==
    ASSUME NEW p \in Seq(LabelRecords), NEW q \in Seq(LabelRecords), Ascends(p), Ascends(q),
           \A i \in 1..Len(p), j \in 1..Len(q) : p[i].origin < q[j].origin
    PROVE  Ascends(p \o q)
<1>1. \A i \in 1..Len(p \o q) :
          \/ i \in 1..Len(p) /\ (p \o q)[i] = p[i]
          \/ i - Len(p) \in 1..Len(q) /\ (p \o q)[i] = q[i - Len(p)] /\ i \notin 1..Len(p)
  BY ConcatProperties
<1>2. ASSUME NEW i \in 1..Len(p \o q), NEW j \in 1..Len(p \o q), i < j
      PROVE  (p \o q)[i].origin < (p \o q)[j].origin
<2>0. Len(p) \in Nat /\ i \in Nat /\ j \in Nat
  BY ConcatProperties
<2>1. CASE i \in 1..Len(p) /\ j \in 1..Len(p)
  BY <1>1, <1>2, <2>0, <2>1 DEF Ascends
<2>2. CASE i \in 1..Len(p) /\ j \notin 1..Len(p)
<3>1. (p \o q)[i] = p[i] /\ j - Len(p) \in 1..Len(q) /\ (p \o q)[j] = q[j - Len(p)]
  BY <1>1, <2>0, <2>2
<3>2. QED BY <2>2, <3>1
<2>3. CASE i \notin 1..Len(p)
<3>1. j \notin 1..Len(p)
  BY <1>2, <2>0, <2>3
<3>2. /\ i - Len(p) \in 1..Len(q) /\ (p \o q)[i] = q[i - Len(p)]
      /\ j - Len(p) \in 1..Len(q) /\ (p \o q)[j] = q[j - Len(p)]
  BY <1>1, <2>3, <3>1
<3>3. i - Len(p) < j - Len(p)
  BY <1>2, <2>0
<3>4. QED BY <3>2, <3>3 DEF Ascends
<2>4. QED BY <2>1, <2>2, <2>3
<1>3. QED BY <1>2 DEF Ascends

LEMMA AscendsSame ==
    ASSUME NEW p, NEW q, Len(p) = Len(q), \A i \in 1..Len(q) : p[i].origin = q[i].origin, Ascends(q)
    PROVE  Ascends(p)
  BY DEF Ascends

\* The labels of an input of which no label moves
LEMMA InStays ==
    ASSUME NEW b \in Blocks, TypeOK, InMarks(b), inputLabels'[b] = inputLabels[b],
           labels'[b] = labels[b], consumed'[b] = consumed[b], arrived'[b] = arrived[b],
           Offered(b)' \in {0, Offered(b)}
    PROVE  InMarks(b)'
<1>1. LabelsTyped(b)
  BY LabelsAreTyped
<1>2. /\ consumed[b] + Offered(b)' <= consumed[b] + Offered(b)
      /\ consumed[b] + Offered(b) \in Int /\ consumed[b] + Offered(b)' \in Int
      /\ arrived[b] \in Int /\ arrived[b] <= arrived[b] /\ inputLabels[b] \in Seq(LabelRecords)
  BY <1>1 DEF LabelsTyped
<1>3. Marks(inputLabels[b], consumed[b], ElemSize, consumed[b] + Offered(b), arrived[b])
  BY DEF InMarks
<1>0. PICK offered : offered = Offered(b)'
  OBVIOUS
<1>4. Marks(inputLabels[b], consumed[b], ElemSize, consumed[b] + offered, arrived[b])
  BY <1>0, <1>2, <1>3, MarksWider
<1>5. Marks(labels[b], consumed[b], 1, consumed[b], arrived[b])
      /\ Ascends(inputLabels[b]) /\ Ascends(labels[b])
      /\ \A i \in 1..Len(labels[b]), j \in 1..Len(inputLabels[b]) :
            labels[b][i].origin < inputLabels[b][j].origin
  BY DEF InMarks
<1>6. QED BY <1>0, <1>4, <1>5 DEF InMarks, Marks, Ascends

\* The labels on the way out of a block whose pass does not move
LEMMA OutStays ==
    ASSUME NEW b \in Blocks, PassFits(b), OutMarks(b), pc'[b] = pc[b],
           pass'[b].produce = pass[b].produce, pass'[b].consume = pass[b].consume,
           pass'[b].subscribers = pass[b].subscribers, postedLabels'[b] = postedLabels[b],
           consumed'[b] = consumed[b], \A c \in Subscribers(b) : arrived'[c] = arrived[c]
    PROVE  OutMarks(b)'
<1>1. Subscribers(b)' = Subscribers(b) /\ HasOutput(b)' = HasOutput(b)
  BY DEF Subscribers, HasOutput
<1>2. Pending(b)' = Pending(b) /\ Pending(b) \subseteq Subscribers(b)
  BY <1>1 DEF Pending, PassFits
<1>3. \A c : Due(b, c)' = Due(b, c)
  BY DEF Due, Owed
<1>4. \A c \in Pending(b) :
          Marks(postedLabels'[b], arrived'[c], ElemSize, arrived'[c], arrived'[c] + pass'[b].produce)
  BY <1>2 DEF OutMarks
<1>5. QED BY <1>1, <1>2, <1>3, <1>4 DEF OutMarks, Marks, Ascends

\* Nothing is posted where nothing is to be sent.
LEMMA OutQuiet ==
    ASSUME NEW b \in Blocks, OutMarks(b), pc[b] \notin {"post", "push"},
           pc'[b] \notin {"post", "push"},
           pc'[b] = "consume" /\ HasOutput(b) => pass'[b].produce = pass'[b].consume,
           postedLabels'[b] = postedLabels[b],
           \A c \in Subscribers(b) : consumed'[b] = consumed[b] /\ arrived'[c] = arrived[c]
    PROVE  OutMarks(b)'
<1>1. Subscribers(b)' = Subscribers(b) /\ HasOutput(b)' = HasOutput(b)
  BY DEF Subscribers, HasOutput
<1>2. postedLabels'[b] = <<>>
  BY DEF OutMarks
<1>3. \A c : Due(b, c)' = 0 /\ Due(b, c) = 0
  BY DEF Due, Owed
<1>4. \A i \in 1..Len(postedLabels'[b]) : FALSE
  BY <1>2
<1>5. \A c \in Subscribers(b) : arrived'[c] + 0 = consumed'[b]
  BY <1>3 DEF OutMarks
<1>6. QED BY <1>1, <1>2, <1>3, <1>4, <1>5 DEF OutMarks, Marks, Ascends

\* A step that moves no label and no element, whatever passes it moves on
LEMMA NoLabelMoves ==
    ASSUME TypesAndCounts, AllMarked,
           inputLabels' = inputLabels, labels' = labels, postedLabels' = postedLabels,
           consumed' = consumed, arrived' = arrived,
           \A d \in Blocks :
              \/ /\ pc'[d] = pc[d] /\ pass'[d].inElems = pass[d].inElems
                 /\ pass'[d].produce = pass[d].produce /\ pass'[d].consume = pass[d].consume
                 /\ pass'[d].subscribers = pass[d].subscribers
              \/ /\ pc[d] \notin {"post", "push"} /\ pc'[d] \notin {"post", "push"}
                 /\ \/ pc'[d] \notin {"work", "consume"}
                    \/ inputLabels[d] = <<>>
                    \/ pc[d] = "work" /\ pass'[d].inElems = pass[d].inElems
                 /\ pc'[d] = "consume" /\ HasOutput(d) => pass'[d].produce = pass'[d].consume
    PROVE  AllMarked'
<1> USE DEF TypesAndCounts
<1> SUFFICES ASSUME NEW d \in Blocks PROVE InMarks(d)' /\ OutMarks(d)'
  BY DEF AllMarked
<1>1. InMarks(d) /\ OutMarks(d) /\ PassFits(d)
  BY DEF AllMarked, Fits
<1>2. CASE /\ pc'[d] = pc[d] /\ pass'[d].inElems = pass[d].inElems
           /\ pass'[d].produce = pass[d].produce /\ pass'[d].consume = pass[d].consume
           /\ pass'[d].subscribers = pass[d].subscribers
<2>1. Offered(d)' = Offered(d)
  BY <1>2 DEF Offered
<2>2. InMarks(d)'
  BY <1>1, <2>1, InStays
<2>3. \A c \in Subscribers(d) : arrived'[c] = arrived[c]
  OBVIOUS
<2>4. OutMarks(d)'
  BY <1>1, <1>2, <2>3, OutStays
<2>5. QED BY <2>2, <2>4
<1>3. CASE /\ pc[d] \notin {"post", "push"} /\ pc'[d] \notin {"post", "push"}
           /\ \/ pc'[d] \notin {"work", "consume"}
              \/ inputLabels[d] = <<>>
              \/ pc[d] = "work" /\ pass'[d].inElems = pass[d].inElems
           /\ pc'[d] = "consume" /\ HasOutput(d) => pass'[d].produce = pass'[d].consume
<2>1. OutMarks(d)'
  BY <1>1, <1>3, OutQuiet
<2>2. CASE pc'[d] \notin {"work", "consume"}
<3>1. Offered(d)' = 0
  BY <2>2 DEF Offered
<3>2. QED BY <1>1, <2>1, <3>1, InStays
<2>3. CASE inputLabels[d] = <<>>
<3>1. \A i \in 1..Len(inputLabels'[d]) : FALSE
  BY <2>3
<3>2. InMarks(d)'
  BY <1>1, <3>1 DEF InMarks, Marks, Ascends
<3>3. QED BY <2>1, <3>2
<2>4. CASE pc'[d] \in {"work", "consume"} /\ pc[d] = "work" /\ pass'[d].inElems = pass[d].inElems
<3>1. Offered(d)' = Offered(d)
  BY <2>4 DEF Offered
<3>2. QED BY <1>1, <2>1, <3>1, InStays
<2>5. QED BY <1>3, <2>2, <2>3, <2>4
<1>4. QED BY <1>2, <1>3

LEMMA StartPassMarks ==
    ASSUME TypesAndCounts, AllMarked, NEW b \in Blocks, StartPass(b) \/ PreWorkOutputs(b)
    PROVE  AllMarked'
<1>1. /\ inputLabels' = inputLabels /\ labels' = labels /\ postedLabels' = postedLabels
      /\ consumed' = consumed /\ arrived' = arrived
      /\ \A d \in Blocks : d # b => pass'[d] = pass[d]
  BY DEF StartPass, PreWorkOutputs, flowVars, ghosts, TypesAndCounts, TypeOK
<1>2. PICK from \in {"idle", "outputs"}, to \in {"idle", "outputs", "inputs"} : Goto(b, from, to)
  BY DEF StartPass, PreWorkOutputs
<1>3. pc[b] = from /\ pc'[b] = to /\ \A d \in Blocks : d # b => pc'[d] = pc[d]
<2>1. to \in States
  BY DEF States
<2>2. QED BY <1>2, <2>1, Went DEF TypesAndCounts
<1>4. QED BY <1>1, <1>2, <1>3, NoLabelMoves

\* What a block that keeps the rate consumes it produces.
LEMMA WorkMarks ==
    ASSUME TypesAndCounts, AllMarked, NEW b \in Blocks, Work(b), HasOutput(b) => Decimation[b] = 1
    PROVE  AllMarked'
<1>1. /\ inputLabels' = inputLabels /\ labels' = labels /\ postedLabels' = postedLabels
      /\ consumed' = consumed /\ arrived' = arrived /\ Goto(b, "work", "consume")
  BY DEF Work, flowVars, ghosts
<1>2. PICK n \in Consumable(b), k \in Poppable(b) : pass' = [pass EXCEPT ![b] = Worked(b, n, k)]
  BY DEF Work
<1>3. pc[b] = "work" /\ pc'[b] = "consume" /\ \A d \in Blocks : d # b => pc'[d] = pc[d]
<2>1. "consume" \in States
  BY DEF States
<2>2. QED BY <1>1, <2>1, Went DEF TypesAndCounts
<1>4. pass'[b] = Worked(b, n, k) /\ \A d \in Blocks : d # b => pass'[d] = pass[d]
  BY <1>2 DEF TypesAndCounts, TypeOK
<1>5. n \in Nat
<2>1. pass[b].inElems \in Nat
  BY PassIs DEF TypesAndCounts
<2>2. QED BY <2>1 DEF Consumable
<1>6. pass'[b].inElems = pass[b].inElems /\ (HasOutput(b) => pass'[b].produce = pass'[b].consume)
<2>1. PICK r \in PassRecords : r = pass[b]
  BY PassIs DEF TypesAndCounts
<2>2. Worked(b, n, k).inElems = r.inElems /\ Worked(b, n, k).consume = n
      /\ (HasOutput(b) => Worked(b, n, k).produce = n \div Decimation[b])
  BY <2>1 DEF Worked, PassRecords
<2>3. n \div 1 = n
  BY <1>5
<2>4. QED BY <1>4, <2>1, <2>2, <2>3
<1>7. QED BY <1>1, <1>3, <1>4, <1>6, NoLabelMoves

LEMMA OutsideMarks ==
    ASSUME TypesAndCounts, AllMarked,
           \/ PushMessage \/ SlotCallsPush \/ UNCHANGED vars
           \/ \E b \in Blocks : SetActiveStateOn(b) \/ SetActiveStateOff(b) \/ EmitSignal(b)
    PROVE  AllMarked'
<1>1. /\ inputLabels' = inputLabels /\ labels' = labels /\ postedLabels' = postedLabels
      /\ consumed' = consumed /\ arrived' = arrived /\ pc' = pc
  BY DEF PushMessage, SlotCallsPush, SetActiveStateOn, SetActiveStateOff, EmitSignal, flowVars,
         ghosts, vars
<1>2. CASE pass' = pass
  BY <1>1, <1>2, NoLabelMoves
<1>3. CASE \E b \in Blocks : EmitSignal(b)
<2>1. PICK b \in Blocks, counted \in BOOLEAN : pass' = [pass EXCEPT ![b].outEvents = @ \/ counted]
  BY <1>3 DEF EmitSignal
<2>2. ASSUME NEW d \in Blocks
      PROVE  /\ pass'[d].inElems = pass[d].inElems
             /\ pass'[d].produce = pass[d].produce /\ pass'[d].consume = pass[d].consume
             /\ pass'[d].subscribers = pass[d].subscribers
<3>1. PICK r \in PassRecords : r = pass[d]
  BY PassIs DEF TypesAndCounts
<3>2. PICK outs : outs = (pass[b].outEvents \/ counted)
  OBVIOUS
<3>3. pass'[d] = r \/ pass'[d] = [r EXCEPT !.outEvents = outs]
  BY <2>1, <3>1, <3>2 DEF TypesAndCounts, TypeOK
<3>4. QED BY <3>1, <3>3 DEF PassRecords
<2>3. QED BY <1>1, <2>2, NoLabelMoves
<1>4. pass' = pass \/ \E b \in Blocks : EmitSignal(b)
  BY DEF PushMessage, SlotCallsPush, SetActiveStateOn, SetActiveStateOff, vars
<1>5. QED BY <1>2, <1>3, <1>4

\* The labels that have arrived join those of the port.
LEMMA PreWorkInputsMarks ==
    ASSUME TypesAndCounts, AllMarked, NEW b \in Blocks, PreWorkInputs(b)
    PROVE  AllMarked'
<1> USE DEF TypesAndCounts
<1> DEFINE new == inputLabels[b]
           old == labels[b]
<1>1. /\ labels' = [labels EXCEPT ![b] = @ \o Joining(inputLabels[b])]
      /\ inputLabels' = [inputLabels EXCEPT ![b] = <<>>]
      /\ postedLabels' = postedLabels /\ consumed' = consumed /\ arrived' = arrived
  BY DEF PreWorkInputs, ghosts, Joining
<1>2. PICK to \in {"work", "idle"} : Goto(b, "inputs", to)
  BY DEF PreWorkInputs
<1>3. pc[b] = "inputs" /\ pc'[b] = to /\ \A d \in Blocks : d # b => pc'[d] = pc[d]
<2>1. to \in States
  BY DEF States
<2>2. QED BY <1>2, <2>1, Went
<1>4. \A d \in Blocks : d # b => pass'[d] = pass[d]
  BY DEF PreWorkInputs, TypeOK
<1>5. /\ labels'[b] = old \o Joining(new) /\ inputLabels'[b] = <<>>
      /\ \A d \in Blocks : d # b => labels'[d] = labels[d] /\ inputLabels'[d] = inputLabels[d]
  BY <1>1 DEF TypeOK
<1>6. LabelsTyped(b) /\ InMarks(b) /\ OutMarks(b)
  BY LabelsAreTyped DEF AllMarked
<1>7. /\ Joining(new) \in Seq(LabelRecords) /\ Len(Joining(new)) = Len(new)
      /\ \A i \in 1..Len(new) : /\ Joining(new)[i].index = new[i].index \div ElemSize
                                /\ Joining(new)[i].origin = new[i].origin
      /\ old \in Seq(LabelRecords)
  BY <1>6, JoiningAre DEF LabelsTyped
<1>8. /\ Marks(new, consumed[b], ElemSize, consumed[b], arrived[b])
      /\ Marks(old, consumed[b], 1, consumed[b], arrived[b])
      /\ Ascends(new) /\ Ascends(old)
      /\ \A i \in 1..Len(old), j \in 1..Len(new) : old[i].origin < new[j].origin
<2>1. Offered(b) = 0 /\ consumed[b] + 0 = consumed[b]
  BY <1>3, <1>6 DEF Offered, LabelsTyped
<2>2. QED BY <1>6, <2>1 DEF InMarks
<1>9. Marks(Joining(new), consumed[b], 1, consumed[b], arrived[b])
<2>1. ASSUME NEW i \in 1..Len(new)
      PROVE  /\ Joining(new)[i].index = (Joining(new)[i].origin - consumed[b]) * 1
             /\ consumed[b] <= Joining(new)[i].origin /\ Joining(new)[i].origin < arrived[b]
<3>1. PICK x \in Int : x = new[i].origin - consumed[b]
<4>1. new \in Seq(LabelRecords) /\ consumed[b] \in Nat
  BY <1>6 DEF LabelsTyped
<4>2. new[i].origin \in Nat
  BY <4>1, LabelIs
<4>3. QED BY <4>1, <4>2
<3>2. new[i].index = x * ElemSize /\ consumed[b] <= new[i].origin /\ new[i].origin < arrived[b]
  BY <1>8, <3>1 DEF Marks
<3>3. (x * ElemSize) \div ElemSize = x /\ x * 1 = x
  BY <3>1, ElementsWide
<3>4. QED BY <1>7, <3>1, <3>2, <3>3
<2>2. QED BY <1>7, <2>1 DEF Marks
<1> HIDE DEF new, old
<1>10. Marks(old \o Joining(new), consumed[b], 1, consumed[b], arrived[b])
  BY <1>7, <1>8, <1>9, MarksJoin
<1>11. Ascends(old \o Joining(new))
<2>1. Ascends(Joining(new))
  BY <1>7, <1>8, AscendsSame
<2>2. \A i \in 1..Len(old), j \in 1..Len(Joining(new)) : old[i].origin < Joining(new)[j].origin
  BY <1>7, <1>8
<2>3. QED BY <1>7, <1>8, <2>1, <2>2, AscendsJoin
<1>12. InMarks(b)'
<2>1. \A i \in 1..Len(inputLabels'[b]) : FALSE
  BY <1>5
<2>2. Marks(labels'[b], consumed[b], 1, consumed[b], arrived[b]) /\ Ascends(labels'[b])
  BY <1>5, <1>10, <1>11
<2>3. QED BY <1>1, <2>1, <2>2 DEF InMarks, Marks, Ascends
<1>13. OutMarks(b)'
  BY <1>1, <1>3, <1>6, OutQuiet
<1>14. ASSUME NEW d \in Blocks, d # b PROVE InMarks(d)' /\ OutMarks(d)'
<2>1. pc'[d] = pc[d] /\ pass'[d] = pass[d] /\ InMarks(d) /\ OutMarks(d) /\ PassFits(d)
  BY <1>3, <1>4, <1>14 DEF AllMarked, Fits
<2>2. Offered(d)' = Offered(d)
  BY <2>1 DEF Offered
<2>3. InMarks(d)'
  BY <1>1, <1>5, <1>14, <2>1, <2>2, InStays
<2>4. OutMarks(d)'
  BY <1>1, <2>1, OutStays
<2>5. QED BY <2>3, <2>4
<1>15. QED BY <1>12, <1>13, <1>14 DEF AllMarked

\* To sort leaves no two labels on one element that were on two.
LEMMA SortedApart ==
    ASSUME NEW queue \in Seq(LabelRecords), NEW s \in Sorted(queue), Ascends(queue)
    PROVE  \A i, j \in 1..Len(s) : i # j => s[i].origin # s[j].origin
<1>1. DOMAIN queue = 1..Len(queue) /\ Len(queue) \in Nat
      /\ \A i \in 1..Len(queue) : queue[i].origin \in Nat
  BY LabelIs
<1>2. PICK order \in Bijection(1..Len(queue), 1..Len(queue)) :
          s = [i \in 1..Len(queue) |-> queue[order[i]]]
  BY <1>1 DEF Sorted
<1>3. /\ order \in [1..Len(queue) -> 1..Len(queue)]
      /\ \A i, j \in 1..Len(queue) : order[i] = order[j] => i = j
  BY DEF Bijection, Injection, IsInjective
<1>4. Len(s) = Len(queue)
  BY SortedAre
<1>5. \A i, j \in 1..Len(queue) : i # j => queue[i].origin # queue[j].origin
  BY <1>1 DEF Ascends
<1>6. ASSUME NEW i \in 1..Len(s), NEW j \in 1..Len(s), i # j PROVE s[i].origin # s[j].origin
<2>1. /\ order[i] \in 1..Len(queue) /\ order[j] \in 1..Len(queue) /\ order[i] # order[j]
      /\ s[i] = queue[order[i]] /\ s[j] = queue[order[j]]
  BY <1>2, <1>3, <1>4, <1>6
<2>2. QED BY <1>5, <2>1
<1>7. QED BY <1>6

\* Where labels are on elements, to sort them by index is to sort them by element.
LEMMA PostWorkOutputsMarks ==
    ASSUME TypesAndCounts, AllMarked, NEW b \in Blocks, PostWorkOutputs(b)
    PROVE  AllMarked'
<1> USE DEF TypesAndCounts
<1>1. /\ inputLabels' = inputLabels /\ labels' = labels
      /\ consumed' = consumed /\ arrived' = arrived /\ Goto(b, "post", "push")
  BY DEF PostWorkOutputs, ghosts
<1>2. PICK s \in Sorted(postedLabels[b]) : postedLabels' = [postedLabels EXCEPT ![b] = s]
  BY DEF PostWorkOutputs
<1>3. pc[b] = "post" /\ pc'[b] = "push" /\ \A d \in Blocks : d # b => pc'[d] = pc[d]
<2>1. "push" \in States
  BY DEF States
<2>2. QED BY <1>1, <2>1, Went
<1>4. /\ pass'[b].produce = pass[b].produce /\ pass'[b].subscribers = Subscribers(b)
      /\ \A d \in Blocks : d # b => pass'[d] = pass[d]
<2>1. PICK r \in PassRecords : r = pass[b]
  BY PassIs
<2>2. PICK k : k = (IF pass[b].produce = 0 THEN 0 ELSE Head(ready[b]))
  OBVIOUS
<2>3. pass' = [pass EXCEPT ![b].subscribers = Subscribers(b), ![b].posted = k]
  BY <2>2 DEF PostWorkOutputs
<2>4. pass'[b] = [r EXCEPT !.subscribers = Subscribers(b), !.posted = k]
      /\ \A d \in Blocks : d # b => pass'[d] = pass[d]
  BY <2>1, <2>3 DEF TypeOK
<2>5. QED BY <2>1, <2>4 DEF PassRecords
<1>5. /\ postedLabels'[b] = s /\ \A d \in Blocks : d # b => postedLabels'[d] = postedLabels[d]
  BY <1>2 DEF TypeOK
<1>6. postedLabels[b] \in Seq(LabelRecords) /\ InMarks(b) /\ OutMarks(b) /\ PassFits(b)
  BY LabelsAreTyped DEF AllMarked, LabelsTyped, Fits
<1>7. /\ s \in Seq(LabelRecords) /\ Len(s) = Len(postedLabels[b])
      /\ \A i \in 1..Len(s) : \E j \in 1..Len(postedLabels[b]) : s[i] = postedLabels[b][j]
      /\ \A i, j \in 1..Len(s) : i < j => s[i].index <= s[j].index
      /\ \A i, j \in 1..Len(s) : i # j => s[i].origin # s[j].origin
  BY <1>6, SortedAre, SortedApart DEF OutMarks
<1>8. \A c \in Subscribers(b) :
          Marks(s, arrived[c], ElemSize, arrived[c], arrived[c] + pass[b].produce)
<2>1. Pending(b) = Subscribers(b)
  BY <1>3 DEF Pending
<2>2. ASSUME NEW c \in Subscribers(b)
      PROVE  Marks(s, arrived[c], ElemSize, arrived[c], arrived[c] + pass[b].produce)
<3>1. Marks(postedLabels[b], arrived[c], ElemSize, arrived[c], arrived[c] + pass[b].produce)
  BY <1>6, <2>1 DEF OutMarks
<3>2. QED BY <1>7, <3>1 DEF Marks
<2>3. QED BY <2>2
<1>9. Ascends(s)
<2>1. PICK c \in Subscribers(b) : TRUE
  BY <1>3, <1>6 DEF PassFits, HasOutput
<2>2. arrived[c] \in Int
  BY Tree, PassIs
<2>3. ASSUME NEW i \in 1..Len(s), NEW j \in 1..Len(s), i < j PROVE s[i].origin < s[j].origin
<3>0. s \in Seq(LabelRecords) /\ s[i].index <= s[j].index
  BY <1>7, <2>3
<3>1. s[i].origin \in Int /\ s[j].origin \in Int
<4>1. s[i].origin \in Nat /\ s[j].origin \in Nat
  BY <3>0, LabelIs, Zenon
<4>2. QED BY <4>1
<3>2. PICK x \in Int : x = s[i].origin - arrived[c]
  BY <2>2, <3>1
<3>3. PICK y \in Int : y = s[j].origin - arrived[c]
  BY <2>2, <3>1
<3>4. s[i].index = x * ElemSize /\ s[j].index = y * ElemSize
  BY <1>8, <3>2, <3>3 DEF Marks
<3>5. x <= y
<4>1. x * ElemSize <= y * ElemSize
  BY <3>0, <3>4
<4>2. QED BY <4>1, ElementsOut, Zenon
<3>6. s[i].origin <= s[j].origin
  BY <2>2, <3>1, <3>2, <3>3, <3>5
<3>7. s[i].origin # s[j].origin
<4>1. i # j
  BY <2>3
<4>2. QED BY <1>7, <4>1
<3>8. QED BY <3>1, <3>6, <3>7
<2>4. QED BY <2>3 DEF Ascends
<1>10. OutMarks(b)'
<2>1. Subscribers(b)' = Subscribers(b)
  BY DEF Subscribers
<2>2. Pending(b)' = Subscribers(b)
  BY <1>3, <1>4, <2>1 DEF Pending
<2>3. \A c \in Subscribers(b) : Due(b, c)' = Due(b, c)
  BY <1>3, <1>4 DEF Due, Owed
<2>4. Ascends(postedLabels'[b])
  BY <1>5, <1>9
<2>5. \A c \in Subscribers(b) : Marks(postedLabels'[b], arrived'[c], ElemSize, arrived'[c],
                                      arrived'[c] + pass'[b].produce)
  BY <1>1, <1>4, <1>5, <1>8
<2>6. \A c \in Subscribers(b) : arrived'[c] + Due(b, c)' = consumed'[b]
  BY <1>1, <1>6, <2>3 DEF OutMarks
<2>7. QED BY <1>3, <2>1, <2>2, <2>4, <2>5, <2>6 DEF OutMarks, Marks, Ascends
<1>11. InMarks(b)'
<2>1. Offered(b)' = 0
  BY <1>3 DEF Offered
<2>2. QED BY <1>1, <1>6, <2>1, InStays
<1>12. ASSUME NEW d \in Blocks, d # b PROVE InMarks(d)' /\ OutMarks(d)'
<2>1. pc'[d] = pc[d] /\ pass'[d] = pass[d] /\ InMarks(d) /\ OutMarks(d) /\ PassFits(d)
  BY <1>3, <1>4, <1>12 DEF AllMarked, Fits
<2>2. Offered(d)' = Offered(d)
  BY <2>1 DEF Offered
<2>3. InMarks(d)'
  BY <1>1, <2>1, <2>2, InStays
<2>4. OutMarks(d)'
  BY <1>1, <1>5, <1>12, <2>1, OutStays
<2>5. QED BY <2>3, <2>4
<1>13. QED BY <1>10, <1>11, <1>12 DEF AllMarked

LEMMA EndPassMarks ==
    ASSUME TypesAndCounts, AllMarked, NEW b \in Blocks, EndPass(b)
    PROVE  AllMarked'
<1> USE DEF TypesAndCounts
<1>1. /\ inputLabels' = inputLabels /\ labels' = labels
      /\ consumed' = consumed /\ arrived' = arrived /\ Goto(b, "push", "idle")
      /\ postedLabels' = [postedLabels EXCEPT ![b] = <<>>] /\ pass[b].subscribers = {}
      /\ pass' = [pass EXCEPT ![b] = NoPass]
  BY DEF EndPass, ghosts
<1>2. pc[b] = "push" /\ pc'[b] = "idle" /\ \A d \in Blocks : d # b => pc'[d] = pc[d]
<2>1. "idle" \in States
  BY DEF States
<2>2. QED BY <1>1, <2>1, Went
<1>3. postedLabels'[b] = <<>>
      /\ \A d \in Blocks : d # b => postedLabels'[d] = postedLabels[d] /\ pass'[d] = pass[d]
  BY <1>1 DEF TypeOK
<1>4. InMarks(b) /\ OutMarks(b)
  BY DEF AllMarked
<1>5. OutMarks(b)'
<2>1. Subscribers(b)' = Subscribers(b)
  BY DEF Subscribers
<2>2. \A c : Due(b, c)' = Due(b, c)
  BY <1>1, <1>2 DEF Due, Owed
<2>3. \A i \in 1..Len(postedLabels'[b]) : FALSE
  BY <1>3
<2>4. \A c \in Subscribers(b) : arrived'[c] + Due(b, c)' = consumed'[b]
  BY <1>1, <1>4, <2>2 DEF OutMarks
<2>5. QED BY <1>2, <1>3, <2>1, <2>3, <2>4 DEF OutMarks, Marks, Ascends
<1>6. InMarks(b)'
<2>1. Offered(b)' = 0
  BY <1>2 DEF Offered
<2>2. QED BY <1>1, <1>4, <2>1, InStays
<1>7. ASSUME NEW d \in Blocks, d # b PROVE InMarks(d)' /\ OutMarks(d)'
<2>1. pc'[d] = pc[d] /\ pass'[d] = pass[d] /\ InMarks(d) /\ OutMarks(d) /\ PassFits(d)
  BY <1>2, <1>3, <1>7 DEF AllMarked, Fits
<2>2. Offered(d)' = Offered(d)
  BY <2>1 DEF Offered
<2>3. InMarks(d)'
  BY <1>1, <2>1, <2>2, InStays
<2>4. OutMarks(d)'
  BY <1>1, <1>3, <1>7, <2>1, OutStays
<2>5. QED BY <2>3, <2>4
<1>8. QED BY <1>5, <1>6, <1>7 DEF AllMarked

\* Labels that arrive with elements lie behind those that came before.
LEMMA LabelsArrive ==
    ASSUME TypesAndCounts, NEW c \in Blocks, InMarks(c), NEW new \in Seq(LabelRecords), NEW n \in Nat,
           Marks(new, arrived[c], ElemSize, arrived[c], arrived[c] + n), Ascends(new),
           BufferLabelPush(c, new, chunks[c]), arrived'[c] = arrived[c] + n,
           consumed'[c] = consumed[c], labels'[c] = labels[c], Offered(c)' = Offered(c)
    PROVE  InMarks(c)' /\ \A d \in Blocks : d # c => inputLabels'[d] = inputLabels[d]
<1> USE DEF TypesAndCounts
<1>1. LabelsTyped(c)
  BY LabelsAreTyped
<1>2. PICK old \in Seq(LabelRecords) : old = inputLabels[c]
  BY <1>1 DEF LabelsTyped
<1>3. PICK e \in Nat : /\ e = Elements(chunks[c]) /\ consumed[c] + e = arrived[c]
                       /\ Offered(c) <= e
<2>1. Elements(chunks[c]) \in Nat /\ FrontElements(chunks[c]) \in Nat
      /\ FrontElements(chunks[c]) <= Elements(chunks[c]) /\ pass[c].inElems \in Nat
  BY PassIs, ElementsCount
<2>2. consumed[c] + Elements(chunks[c]) = arrived[c]
  BY DEF Counts, Queued
<2>3. pc[c] \in {"work", "consume"} => pass[c].inElems <= FrontElements(chunks[c])
  BY DEF Fits, PassFits
<2>4. QED BY <2>1, <2>2, <2>3 DEF Offered
<1>4. PICK k \in Int : k = e * ElemSize
  BY <1>3, ElementsWide
<1>5. PICK moved \in Seq(LabelRecords) :
          /\ moved = MovedBy(new, k) /\ Len(moved) = Len(new)
          /\ \A i \in 1..Len(new) : /\ moved[i].index = new[i].index + k
                                    /\ moved[i].origin = new[i].origin
  BY MovedAre
<1>6. inputLabels'[c] = old \o moved /\ \A d \in Blocks : d # c => inputLabels'[d] = inputLabels[d]
<2>1. inputLabels' = [inputLabels EXCEPT ![c] = @ \o MovedBy(new, k)]
  BY <1>3, <1>4, LabelsPushed
<2>2. QED BY <1>2, <1>5, <2>1 DEF TypeOK
<1>7. PICK x \in Nat : x = consumed[c]
  BY <1>1 DEF LabelsTyped
<1>8. PICK a \in Nat : a = arrived[c]
  BY <1>1 DEF LabelsTyped
<1>9. PICK o \in Nat : o = Offered(c)
  BY <1>1 DEF LabelsTyped
<1>10. x + e = a /\ o <= e /\ x + o <= a
  BY <1>3, <1>7, <1>8, <1>9
<1>11. Marks(moved, x, ElemSize, x + o, a + n)
<2>1. ASSUME NEW i \in 1..Len(new)
      PROVE  /\ moved[i].index = (moved[i].origin - x) * ElemSize
             /\ x + o <= moved[i].origin /\ moved[i].origin < a + n
<3>1. new[i].origin \in Nat
  BY LabelIs
<3>2. PICK y \in Int : y = new[i].origin - a
  BY <3>1
<3>3. new[i].index = y * ElemSize /\ a <= new[i].origin /\ new[i].origin < a + n
  BY <1>8, <3>2 DEF Marks
<3>4. (y + e) * ElemSize = y * ElemSize + e * ElemSize
<4>1. y \in Int /\ e \in Int
  OBVIOUS
<4>2. QED BY <4>1, ElementsOut, Zenon
<3>5. moved[i].index = (y + e) * ElemSize /\ moved[i].origin = new[i].origin
  BY <1>4, <1>5, <3>3, <3>4
<3>6. y + e = moved[i].origin - x
<4>1. PICK z \in Nat : z = new[i].origin
  BY <3>1
<4>2. y = z - a /\ x + e = a
  BY <1>10, <3>2, <4>1
<4>3. y + e = z - x
  BY <4>2
<4>4. QED BY <3>5, <4>1, <4>3
<3>7. x + o <= moved[i].origin /\ moved[i].origin < a + n
  BY <1>10, <3>1, <3>3, <3>5
<3>8. QED BY <3>5, <3>6, <3>7
<2>2. QED BY <1>5, <2>1 DEF Marks
<1>12. Marks(old, x, ElemSize, x + o, a + n)
<2>1. Marks(old, x, ElemSize, x + o, a)
  BY <1>2, <1>7, <1>8, <1>9 DEF InMarks
<2>2. x + o \in Int /\ a \in Int /\ a + n \in Int /\ x + o <= x + o /\ a <= a + n
  OBVIOUS
<2>3. QED BY <2>1, <2>2, MarksWider
<1>13. Marks(old \o moved, x, ElemSize, x + o, a + n)
  BY <1>11, <1>12, MarksJoin
<1>14. Ascends(old) /\ Ascends(moved) /\ Ascends(labels[c])
<2>1. Ascends(moved)
  BY <1>5, AscendsSame
<2>2. QED BY <1>2, <2>1 DEF InMarks
\* What has arrived lies before what arrives.
<1>15. \A i \in 1..Len(moved) : a <= moved[i].origin /\ moved[i].origin \in Nat
  BY <1>5, <1>8, LabelIs DEF Marks
<1>16. \A i \in 1..Len(old) : old[i].origin < a /\ old[i].origin \in Nat
<2>1. Marks(old, x, ElemSize, x + o, a)
  BY <1>2, <1>7, <1>8, <1>9 DEF InMarks
<2>2. QED BY <2>1, LabelIs DEF Marks
<1>17. Ascends(old \o moved)
<2>1. \A i \in 1..Len(old), j \in 1..Len(moved) : old[i].origin < moved[j].origin
  BY <1>15, <1>16
<2>2. QED BY <1>14, <2>1, AscendsJoin
<1>18. \A i \in 1..Len(labels[c]), j \in 1..Len(old \o moved) :
          labels[c][i].origin < (old \o moved)[j].origin
<2>1. \A i \in 1..Len(labels[c]) : labels[c][i].origin < a /\ labels[c][i].origin \in Nat
<3>1. Marks(labels[c], x, 1, x, a) /\ labels[c] \in Seq(LabelRecords)
  BY <1>1, <1>7, <1>8 DEF InMarks, LabelsTyped
<3>2. QED BY <3>1, LabelIs DEF Marks
<2>2. ASSUME NEW i \in 1..Len(labels[c]), NEW j \in 1..Len(old \o moved)
      PROVE  labels[c][i].origin < (old \o moved)[j].origin
<3>1. \/ j \in 1..Len(old) /\ (old \o moved)[j] = old[j]
      \/ j - Len(old) \in 1..Len(moved) /\ (old \o moved)[j] = moved[j - Len(old)]
  BY ConcatProperties
<3>2. CASE j \in 1..Len(old) /\ (old \o moved)[j] = old[j]
  BY <1>2, <3>2 DEF InMarks
<3>3. CASE j - Len(old) \in 1..Len(moved) /\ (old \o moved)[j] = moved[j - Len(old)]
<4>1. a <= moved[j - Len(old)].origin /\ moved[j - Len(old)].origin \in Nat
  BY <1>15, <3>3
<4>2. labels[c][i].origin < a /\ labels[c][i].origin \in Nat
  BY <2>1
<4>3. labels[c][i].origin < moved[j - Len(old)].origin
<5>1. PICK u \in Nat, v \in Nat :
         u = labels[c][i].origin /\ v = moved[j - Len(old)].origin /\ u < a /\ a <= v
  BY ONLY <4>1, <4>2
<5>2. u < a /\ a <= v
  BY ONLY <5>1
<5>3. u < v
  BY ONLY <5>2
<5>4. QED BY ONLY <5>1, <5>3
<4>4. QED BY <3>3, <4>3
<3>4. QED BY <3>1, <3>2, <3>3
<2>3. QED BY <2>2
<1>19. Marks(labels[c], x, 1, x, a + n)
<2>1. Marks(labels[c], x, 1, x, a) /\ labels[c] \in Seq(LabelRecords)
  BY <1>1, <1>7, <1>8 DEF InMarks, LabelsTyped
<2>2. x \in Int /\ a \in Int /\ a + n \in Int /\ x <= x /\ a <= a + n
  OBVIOUS
<2>3. QED BY <2>1, <2>2, MarksWider
<1>20. InMarks(c)'
<2>1. consumed'[c] = x /\ arrived'[c] = a + n /\ Offered(c)' = o /\ labels'[c] = labels[c]
      /\ inputLabels'[c] = old \o moved
  BY <1>6, <1>7, <1>8, <1>9
<2>2. QED BY <2>1, <1>13, <1>14, <1>17, <1>18, <1>19 DEF InMarks, Marks, Ascends
<1>21. QED BY <1>6, <1>20

LEMMA PushToSubscriberMarks ==
    ASSUME TypesAndCounts, AllMarked, NEW b \in Blocks, PushToSubscriber(b)
    PROVE  AllMarked'
<1> USE DEF TypesAndCounts
<1>0. PICK c \in pass[b].subscribers : c = Min(pass[b].subscribers)
<2>1. pass[b].subscribers \subseteq Subscribers(b)
  BY DEF Fits, PassFits
<2>2. pass[b].subscribers \in SUBSET Nat
  BY <2>1, Tree
<2>3. pass[b].subscribers # {}
  BY DEF PushToSubscriber
<2>4. QED BY <2>2, <2>3, LeastElement
<1>1. PICK n \in Nat : n = pass[b].produce
  BY PassIs
<1>2. /\ pc[b] = "push" /\ BufferLabelPush(c, postedLabels[b], chunks[c])
      /\ arrived' = [arrived EXCEPT ![c] = @ + n]
      /\ pass' = [pass EXCEPT ![b].subscribers = @ \ {c}]
      /\ pc' = pc /\ labels' = labels /\ postedLabels' = postedLabels /\ consumed' = consumed
  BY <1>0, <1>1 DEF PushToSubscriber
<1>3. /\ c \in Subscribers(b) /\ c \in Blocks /\ c # b
      /\ pass[b].subscribers \subseteq Subscribers(b)
      /\ \A d \in Blocks : d # b => c \notin Subscribers(d)
<2>1. pass[b].subscribers \subseteq Subscribers(b)
  BY DEF Fits, PassFits
<2>2. QED BY <1>0, <2>1, Tree
<1>4. /\ pass'[b].produce = pass[b].produce /\ pass'[b].consume = pass[b].consume
      /\ pass'[b].inElems = pass[b].inElems
      /\ pass'[b].subscribers = pass[b].subscribers \ {c}
      /\ \A d \in Blocks : d # b => pass'[d] = pass[d]
<2>1. PICK r \in PassRecords : r = pass[b]
  BY PassIs
<2>2. PICK S : S = r.subscribers \ {c}
  OBVIOUS
<2>3. pass'[b] = [r EXCEPT !.subscribers = S]
      /\ \A d \in Blocks : d # b => pass'[d] = pass[d]
  BY <1>2, <2>1, <2>2 DEF TypeOK
<2>4. QED BY <2>1, <2>2, <2>3 DEF PassRecords
<1>5. arrived'[c] = arrived[c] + n /\ \A d \in Blocks : d # c => arrived'[d] = arrived[d]
  BY <1>2, <1>3 DEF TypeOK
<1>6. InMarks(c) /\ OutMarks(b) /\ postedLabels[b] \in Seq(LabelRecords)
  BY <1>3, LabelsAreTyped DEF AllMarked, LabelsTyped
<1>7. \A d \in Blocks : Offered(d)' = Offered(d)
  BY <1>2, <1>4 DEF Offered
<1>8. InMarks(c)' /\ \A d \in Blocks : d # c => inputLabels'[d] = inputLabels[d]
<2>1. Marks(postedLabels[b], arrived[c], ElemSize, arrived[c], arrived[c] + n)
      /\ Ascends(postedLabels[b])
  BY <1>0, <1>1, <1>2, <1>6 DEF OutMarks, Pending
<2>2. consumed'[c] = consumed[c] /\ labels'[c] = labels[c] /\ Offered(c)' = Offered(c)
  BY <1>2, <1>3, <1>7
<2>3. QED BY <1>2, <1>3, <1>5, <1>6, <2>1, <2>2, LabelsArrive
<1>9. ASSUME NEW d \in Blocks, d # c PROVE InMarks(d)'
<2>1. InMarks(d) /\ Offered(d)' = Offered(d)
  BY <1>7 DEF AllMarked
<2>2. QED BY <1>2, <1>5, <1>8, <1>9, <2>1, InStays
<1>10. ASSUME NEW d \in Blocks, d # b PROVE OutMarks(d)'
<2>1. OutMarks(d) /\ PassFits(d) /\ pass'[d] = pass[d]
  BY <1>4, <1>10 DEF AllMarked, Fits
<2>2. \A e \in Subscribers(d) : arrived'[e] = arrived[e]
  BY <1>3, <1>5, <1>10, Tree
<2>3. QED BY <1>2, <2>1, <2>2, OutStays
<1>11. OutMarks(b)'
<2>1. Subscribers(b)' = Subscribers(b)
  BY DEF Subscribers
<2>2. Pending(b)' = pass[b].subscribers \ {c} /\ Pending(b) = pass[b].subscribers
  BY <1>2, <1>4 DEF Pending
<2>3. \A e \in Pending(b)' : e \in Pending(b) /\ arrived'[e] = arrived[e]
  BY <1>3, <1>5, <2>2, Tree
<2>4. \A e \in Pending(b)' : Marks(postedLabels[b], arrived'[e], ElemSize, arrived'[e],
                                   arrived'[e] + pass'[b].produce)
  BY <1>4, <1>6, <2>3 DEF OutMarks
<2>5. ASSUME NEW e \in Subscribers(b) PROVE arrived'[e] + Due(b, e)' = consumed'[b]
<3>1. arrived[e] + Due(b, e) = consumed'[b] /\ e \in Blocks /\ arrived[e] \in Nat
  BY <1>2, <1>6, Tree, PassIs DEF OutMarks
<3>2. CASE e = c
<4>1. Due(b, c) = n /\ Due(b, c)' = 0
  BY <1>0, <1>1, <1>2, <1>4 DEF Due, Owed
<4>2. QED BY <1>5, <3>1, <3>2, <4>1
<3>3. CASE e # c
<4>1. Due(b, e)' = Due(b, e)
  BY <1>2, <1>4, <3>3 DEF Due, Owed
<4>2. QED BY <1>5, <3>1, <3>3, <4>1
<3>4. QED BY <3>2, <3>3
<2>6. Ascends(postedLabels[b])
  BY <1>2, <1>6 DEF OutMarks
<2>7. QED BY <1>2, <2>1, <2>4, <2>5, <2>6 DEF OutMarks, Marks, Ascends
<1>12. QED BY <1>8, <1>9, <1>10, <1>11 DEF AllMarked

LEMMA PushBufferMarks ==
    ASSUME TypesAndCounts, AllMarked, PushBuffer
    PROVE  AllMarked'
<1> USE DEF TypesAndCounts
<1>1. PICK n \in 1..left.elements :
        \E newLabels \in {<<>>} \cup
               {<<[index |-> i * ElemSize, origin |-> arrived[1] + i]>> : i \in 0..(n - 1)} :
            /\ BufferLabelPush(1, newLabels, chunks[1])
            /\ arrived' = [arrived EXCEPT ![1] = @ + n]
            /\ pc' = pc /\ pass' = pass /\ labels' = labels /\ postedLabels' = postedLabels
            /\ consumed' = consumed
  BY DEF PushBuffer
<1>2. PICK new \in {<<>>} \cup
               {<<[index |-> i * ElemSize, origin |-> arrived[1] + i]>> : i \in 0..(n - 1)} :
            /\ BufferLabelPush(1, new, chunks[1])
            /\ arrived' = [arrived EXCEPT ![1] = @ + n]
            /\ pc' = pc /\ pass' = pass /\ labels' = labels /\ postedLabels' = postedLabels
            /\ consumed' = consumed
  BY <1>1
<1>3. 1 \in Blocks /\ arrived[1] \in Nat /\ n \in Nat
  BY Tree, PassIs
<1>4. new \in Seq(LabelRecords) /\ Ascends(new)
      /\ Marks(new, arrived[1], ElemSize, arrived[1], arrived[1] + n)
<2>1. CASE new = <<>>
  BY <2>1, MarksNone
<2>2. ASSUME NEW i \in 0..(n - 1), new = <<[index |-> i * ElemSize, origin |-> arrived[1] + i]>>
      PROVE  new \in Seq(LabelRecords) /\ Ascends(new)
             /\ Marks(new, arrived[1], ElemSize, arrived[1], arrived[1] + n)
<3>1. PICK a \in Nat : a = arrived[1]
  BY <1>3
<3>2. i \in Nat /\ i < n /\ a + i \in Nat /\ (a + i) - a = i
  BY <1>3
<3>3. PICK x \in Int : x = i * ElemSize
  BY <3>2, ElementsWide
<3>4. PICK l \in LabelRecords : l = [index |-> x, origin |-> a + i]
  BY <3>2 DEF LabelRecords
<3>5. new = <<l>> /\ l.index = x /\ l.origin = a + i
  BY <2>2, <3>1, <3>3, <3>4
<3>6. new \in Seq(LabelRecords) /\ Len(new) = 1 /\ new[1] = l
  BY <3>5
<3>7. \A j \in 1..Len(new) : j = 1
  BY <3>6
<3>8. l.index = (l.origin - a) * ElemSize /\ a <= l.origin /\ l.origin < a + n
  BY <1>3, <3>2, <3>3, <3>5
<3>9. Marks(new, a, ElemSize, a, a + n)
  BY <3>6, <3>7, <3>8 DEF Marks
<3>10. Ascends(new)
  BY <3>7 DEF Ascends
<3>11. QED BY <3>1, <3>6, <3>9, <3>10
<2>3. QED BY <1>2, <2>1, <2>2
<1>5. arrived'[1] = arrived[1] + n /\ \A d \in Blocks : d # 1 => arrived'[d] = arrived[d]
  BY <1>2, <1>3 DEF TypeOK
<1>6. \A d \in Blocks : Offered(d)' = Offered(d)
  BY <1>2 DEF Offered
<1>7. InMarks(1)' /\ \A d \in Blocks : d # 1 => inputLabels'[d] = inputLabels[d]
<2>1. InMarks(1) /\ Offered(1)' = Offered(1) /\ labels'[1] = labels[1]
      /\ consumed'[1] = consumed[1]
  BY <1>2, <1>3, <1>6 DEF AllMarked
<2>2. QED BY <1>2, <1>3, <1>4, <1>5, <2>1, LabelsArrive
<1>8. ASSUME NEW d \in Blocks, d # 1 PROVE InMarks(d)'
<2>1. InMarks(d) /\ Offered(d)' = Offered(d)
  BY <1>6 DEF AllMarked
<2>2. QED BY <1>2, <1>5, <1>7, <1>8, <2>1, InStays
<1>9. ASSUME NEW d \in Blocks PROVE OutMarks(d)'
<2>1. OutMarks(d) /\ PassFits(d)
  BY DEF AllMarked, Fits
<2>2. \A e \in Subscribers(d) : arrived'[e] = arrived[e]
  BY <1>5, Tree
<2>3. QED BY <1>2, <2>1, <2>2, OutStays
<1>10. QED BY <1>7, <1>8, <1>9 DEF AllMarked

\* A pass that has consumed n elements: its labels before the n-th are the ones
\* it passes on, the others lie n elements nearer.
LEMMA LabelsAreSplit ==
    ASSUME NEW b \in Blocks, TypeOK, InMarks(b)
    PROVE  LET n == pass[b].consume
               k == NumPassed(b)
               rest == SubSeq(Adjusted(b), k + 1, Len(labels[b]))
           IN  /\ k \in 0..Len(labels[b])
               /\ PassedLabels(b) \in Seq(LabelRecords) /\ Len(PassedLabels(b)) = k
               /\ \A i \in 1..k : /\ PassedLabels(b)[i].index = labels[b][i].index
                                  /\ PassedLabels(b)[i].origin = labels[b][i].origin
                                  /\ labels[b][i].index < n
               /\ rest \in Seq(LabelRecords) /\ Len(rest) = Len(labels[b]) - k
               /\ \A i \in 1..(Len(labels[b]) - k) :
                     /\ rest[i].index = labels[b][k + i].index - n
                     /\ rest[i].origin = labels[b][k + i].origin
                     /\ ~(labels[b][k + i].index < n)
<1> DEFINE n == pass[b].consume
           k == NumPassed(b)
           L == Len(labels[b])
           rest == SubSeq(Adjusted(b), k + 1, L)
<1>1. labels[b] \in Seq(LabelRecords) /\ consumed[b] \in Nat /\ n \in Nat
  BY PassIs DEF TypeOK
<1>2. k \in 0..L /\ L \in Nat
  BY <1>1, NumPassedIs, LabelIs
<1>3. /\ Len(Adjusted(b)) = L
      /\ \A i \in 1..L : /\ Adjusted(b)[i].origin = labels[b][i].origin
                         /\ labels[b][i].index < n => Adjusted(b)[i].index = labels[b][i].index
                         /\ ~(labels[b][i].index < n) =>
                               Adjusted(b)[i].index = labels[b][i].index - n
  BY <1>1, AdjustedAre
<1>4. /\ PassedLabels(b) \in Seq(LabelRecords) /\ Len(PassedLabels(b)) = k
      /\ \A i \in 1..k : PassedLabels(b)[i] = Adjusted(b)[i]
      /\ rest \in Seq(LabelRecords) /\ Len(rest) = L - k
      /\ \A i \in 1..(L - k) : rest[i] = Adjusted(b)[k + i]
  BY <1>1, PassedLabelsAre
<1>5. \A i, j \in 1..L : i < j => labels[b][i].index <= labels[b][j].index
<2>1. ASSUME NEW i \in 1..L, NEW j \in 1..L, i < j
      PROVE  labels[b][i].index <= labels[b][j].index
<3>1. labels[b][i].origin \in Nat /\ labels[b][j].origin \in Nat
  BY <1>1, LabelIs
<3>2. labels[b][i].index = (labels[b][i].origin - consumed[b]) * 1
      /\ labels[b][j].index = (labels[b][j].origin - consumed[b]) * 1
  BY DEF InMarks, Marks
<3>3. labels[b][i].origin < labels[b][j].origin
  BY <2>1 DEF InMarks, Ascends
<3>4. QED BY <1>1, <3>1, <3>2, <3>3
<2>2. QED BY <2>1
<1>6. \A i \in 1..L : labels[b][i].index < n <=> i <= k
<2>1. n \in Int
  BY <1>1
<2> HIDE DEF n
<2>2. LET S == {i \in DOMAIN labels[b] : labels[b][i].index < n}
      IN  \A i \in 1..Len(labels[b]) : labels[b][i].index < n <=> i <= Cardinality(S)
  BY <1>1, <1>5, <2>1, FirstOnes
<2>3. QED BY <2>2 DEF NumPassed, n
<1> HIDE DEF n, k, L, rest
<1>7. \A i \in 1..k : i \in 1..L /\ i <= k
  BY <1>2
<1>8. \A i \in 1..(L - k) : k + i \in 1..L /\ ~(k + i <= k)
  BY <1>2
<1>9. \A i \in 1..k : /\ PassedLabels(b)[i].index = labels[b][i].index
                      /\ PassedLabels(b)[i].origin = labels[b][i].origin
                      /\ labels[b][i].index < n
  BY <1>3, <1>4, <1>6, <1>7
<1>10. \A i \in 1..(L - k) : /\ rest[i].index = labels[b][k + i].index - n
                             /\ rest[i].origin = labels[b][k + i].origin
                             /\ ~(labels[b][k + i].index < n)
  BY <1>3, <1>4, <1>6, <1>8
<1>11. QED BY <1>2, <1>4, <1>9, <1>10 DEF n, k, L, rest

LEMMA PostWorkInputsMarks ==
    ASSUME TypesAndCounts, AllMarked, NEW b \in Blocks, PostWorkInputs(b)
    PROVE  AllMarked'
<1> USE DEF TypesAndCounts
<1> DEFINE k == NumPassed(b)
           old == labels[b]
           L == Len(labels[b])
           rest == SubSeq(Adjusted(b), k + 1, L)
           passed == PassedLabels(b)
           to == IF HasOutput(b) THEN "post" ELSE "idle"
<1>1. PICK n \in Nat : n = pass[b].consume
  BY PassIs
<1>2. /\ Goto(b, "consume", to)
      /\ labels' = [labels EXCEPT ![b] = rest]
      /\ inputLabels' = [inputLabels EXCEPT ![b] = Shifted(b)]
      /\ consumed' = [consumed EXCEPT ![b] = @ + n]
      /\ pass' = [pass EXCEPT ![b] = IF HasOutput(b) THEN Propagated(b) ELSE NoPass]
      /\ postedLabels' = IF HasOutput(b)
                         THEN [postedLabels EXCEPT ![b] = @ \o Widened(passed)]
                         ELSE postedLabels
      /\ arrived' = arrived
  BY <1>1 DEF PostWorkInputs, Widened
<1>3. pc[b] = "consume" /\ pc'[b] = to /\ \A d \in Blocks : d # b => pc'[d] = pc[d]
<2>1. to \in States
  BY DEF States
<2> HIDE DEF to
<2>2. QED BY <1>2, <2>1, Went
<1>4. \A d \in Blocks : d # b => /\ labels'[d] = labels[d] /\ inputLabels'[d] = inputLabels[d]
                                 /\ consumed'[d] = consumed[d] /\ pass'[d] = pass[d]
                                 /\ postedLabels'[d] = postedLabels[d]
  BY <1>2 DEF TypeOK
<1>5. labels'[b] = rest /\ inputLabels'[b] = Shifted(b) /\ consumed'[b] = consumed[b] + n
  BY <1>2 DEF TypeOK
<1>6. InMarks(b) /\ OutMarks(b) /\ PassFits(b) /\ LabelsTyped(b)
  BY LabelsAreTyped DEF AllMarked, Fits
<1>7. PICK x \in Nat : x = consumed[b]
  BY <1>6 DEF LabelsTyped
<1>8. PICK a \in Nat : a = arrived[b]
  BY <1>6 DEF LabelsTyped
<1>9. PICK o \in Nat : o = pass[b].inElems /\ n <= o /\ Offered(b) = o
  BY <1>1, <1>3, <1>6, PassIs DEF PassFits, Offered
<1>10. PICK new \in Seq(LabelRecords) : new = inputLabels[b]
  BY <1>6 DEF LabelsTyped
<1>11. /\ Marks(new, x, ElemSize, x + o, a) /\ Marks(old, x, 1, x, a)
       /\ Ascends(new) /\ Ascends(old)
       /\ \A i \in 1..L, j \in 1..Len(new) : old[i].origin < new[j].origin
       /\ old \in Seq(LabelRecords) /\ L \in Nat
  BY <1>6, <1>7, <1>8, <1>9, <1>10, LabelIs DEF InMarks, LabelsTyped
<1>12. PICK moved \in Seq(LabelRecords) :
          /\ moved = Shifted(b) /\ Len(moved) = Len(new)
          /\ \A i \in 1..Len(new) : /\ moved[i].index = new[i].index - n * ElemSize
                                    /\ moved[i].origin = new[i].origin
  BY <1>1, <1>6, <1>10, ShiftedAre DEF LabelsTyped
<1>13. /\ k \in 0..L
       /\ passed \in Seq(LabelRecords) /\ Len(passed) = k
       /\ \A i \in 1..k : /\ passed[i].index = old[i].index
                          /\ passed[i].origin = old[i].origin /\ old[i].index < n
       /\ rest \in Seq(LabelRecords) /\ Len(rest) = L - k
       /\ \A i \in 1..(L - k) : /\ rest[i].index = old[k + i].index - n
                                /\ rest[i].origin = old[k + i].origin
                                /\ ~(old[k + i].index < n)
  BY <1>1, <1>6, LabelsAreSplit
<1> HIDE DEF k, L, old, rest, passed
<1>14. \A i \in 1..L : old[i].index = old[i].origin - x /\ x <= old[i].origin
                       /\ old[i].origin < a /\ old[i].origin \in Nat /\ old[i].index \in Int
<2>1. ASSUME NEW i \in 1..L
      PROVE  old[i].index = old[i].origin - x /\ x <= old[i].origin
             /\ old[i].origin < a /\ old[i].origin \in Nat /\ old[i].index \in Int
<3>1. old[i].index = (old[i].origin - x) * 1 /\ x <= old[i].origin /\ old[i].origin < a
  BY <1>11 DEF Marks, L, old
<3>2. old[i].origin \in Nat /\ old[i].index \in Int
  BY <1>11, LabelIs DEF L, old
<3>3. QED BY <3>1, <3>2
<2>2. QED BY <2>1
<1>15. Marks(moved, x + n, ElemSize, x + n, a)
<2>1. ASSUME NEW i \in 1..Len(new)
      PROVE  /\ moved[i].index = (moved[i].origin - (x + n)) * ElemSize
             /\ x + n <= moved[i].origin /\ moved[i].origin < a
<3>1. PICK z \in Nat : z = new[i].origin
  BY LabelIs
<3>2. PICK y \in Int : y = z - x
  BY <3>1
<3>3. new[i].index = y * ElemSize /\ x + o <= z /\ z < a
  BY <1>11, <3>1, <3>2 DEF Marks
<3>4. (y - n) * ElemSize = y * ElemSize - n * ElemSize
<4>1. y \in Int /\ n \in Int
  OBVIOUS
<4>2. QED BY <4>1, ElementsOut, Zenon
<3>5. moved[i].index = (y - n) * ElemSize /\ moved[i].origin = z
  BY <1>12, <3>1, <3>3, <3>4
<3>6. y - n = z - (x + n) /\ x + n <= z
  BY <1>9, <3>2, <3>3
<3>7. QED BY <3>3, <3>5, <3>6
<2>2. QED BY <1>12, <2>1 DEF Marks
<1>16. \A i \in 1..(L - k) : k + i \in 1..L
  BY <1>11, <1>13
<1>17. Marks(rest, x + n, 1, x + n, a)
<2>1. ASSUME NEW i \in 1..(L - k)
      PROVE  /\ rest[i].index = (rest[i].origin - (x + n)) * 1
             /\ x + n <= rest[i].origin /\ rest[i].origin < a
<3>1. k + i \in 1..L
  BY <1>16
<3>2. PICK z \in Nat : z = old[k + i].origin
  BY <1>14, <3>1
<3>3. old[k + i].index = z - x /\ z < a
  BY <1>14, <3>1, <3>2
<3>4. rest[i].index = z - x - n /\ rest[i].origin = z /\ ~(z - x < n)
  BY <1>13, <3>2, <3>3
<3>5. x + n <= z
  BY <3>4
<3>6. (z - (x + n)) * 1 = z - x - n
  OBVIOUS
<3>7. QED BY <3>3, <3>4, <3>5, <3>6
<2>2. QED BY <1>13, <2>1 DEF Marks
<1>18. Ascends(rest)
<2>1. ASSUME NEW i \in 1..(L - k), NEW j \in 1..(L - k), i < j
      PROVE  rest[i].origin < rest[j].origin
<3>1. k + i < k + j
  BY <1>13, <2>1
<3>2. old[k + i].origin < old[k + j].origin
  BY <1>11, <1>16, <3>1 DEF Ascends, L, old
<3>3. QED BY <1>13, <3>2
<2>2. QED BY <1>13, <2>1 DEF Ascends
<1>19. \A i \in 1..Len(rest), j \in 1..Len(moved) : rest[i].origin < moved[j].origin
<2>1. ASSUME NEW i \in 1..(L - k), NEW j \in 1..Len(new) PROVE rest[i].origin < moved[j].origin
<3>1. old[k + i].origin < new[j].origin
  BY <1>11, <1>16
<3>2. rest[i].origin = old[k + i].origin /\ moved[j].origin = new[j].origin
  BY <1>12, <1>13
<3>3. QED BY <3>1, <3>2
<2>2. QED BY <1>12, <1>13, <2>1
<1>20. InMarks(b)'
<2>1. Offered(b)' = 0
  BY <1>3 DEF Offered
<2>2. Ascends(moved)
  BY <1>11, <1>12, AscendsSame
<2>3. consumed'[b] = x + n /\ arrived'[b] = a /\ labels'[b] = rest /\ inputLabels'[b] = moved
      /\ (x + n) + 0 = x + n
  BY <1>2, <1>5, <1>7, <1>8, <1>12
<2>4. QED BY <1>15, <1>17, <1>18, <1>19, <2>1, <2>2, <2>3 DEF InMarks, Marks, Ascends
<1>21. ASSUME HasOutput(b) PROVE OutMarks(b)'
<2>1. PICK wide \in Seq(LabelRecords) :
          /\ wide = Widened(passed) /\ Len(wide) = k
          /\ \A i \in 1..k : /\ wide[i].index = passed[i].index * ElemSize
                             /\ wide[i].origin = passed[i].origin
  BY <1>13, WidenedAre
<2>2. postedLabels'[b] = wide
<3>1. postedLabels[b] = <<>>
  BY <1>3, <1>6 DEF OutMarks
<3>2. postedLabels' = [postedLabels EXCEPT ![b] = @ \o wide]
  BY <1>2, <1>21, <2>1
<3>3. <<>> \o wide = wide
  BY <2>1, ConcatEmptySeq
<3>4. QED BY <3>1, <3>2, <3>3 DEF TypeOK
<2>3. Marks(wide, x, ElemSize, x, x + n)
<3>1. ASSUME NEW i \in 1..k
      PROVE  /\ wide[i].index = (wide[i].origin - x) * ElemSize
             /\ x <= wide[i].origin /\ wide[i].origin < x + n
<4>1. i \in 1..L
  BY <1>11, <1>13
<4>2. PICK z \in Nat : z = old[i].origin
  BY <1>14, <4>1
<4>3. old[i].index = z - x /\ x <= z
  BY <1>14, <4>1, <4>2
<4>4. wide[i].index = (z - x) * ElemSize /\ wide[i].origin = z /\ z - x < n
<5>1. wide[i].index = passed[i].index * ElemSize /\ wide[i].origin = passed[i].origin
  BY <2>1
<5>2. passed[i].index = old[i].index /\ passed[i].origin = old[i].origin /\ old[i].index < n
  BY <1>13
<5>3. QED BY <4>2, <4>3, <5>1, <5>2
<4>5. z < x + n
  BY <4>4
<4>6. QED BY <4>3, <4>4, <4>5
<3>2. QED BY <2>1, <3>1 DEF Marks
<2>4. /\ pass'[b].produce = n /\ pc'[b] = "post"
<3>1. PICK r \in PassRecords : r = pass[b]
  BY PassIs
<3>2. PICK outs : outs = (pass[b].outEvents \/ PassedLabels(b) # <<>>)
  OBVIOUS
<3>3. pass'[b] = [r EXCEPT !.outEvents = outs]
  BY <1>2, <1>21, <3>1, <3>2 DEF TypeOK, Propagated
<3>4. pass'[b].produce = r.produce
  BY <3>1, <3>3 DEF PassRecords
<3>5. pass[b].produce = pass[b].consume
  BY <1>3, <1>6, <1>21 DEF OutMarks
<3>6. QED BY <1>1, <1>3, <1>21, <3>1, <3>4, <3>5
<2>5. \A c \in Subscribers(b) : arrived'[c] = x /\ Due(b, c)' = n
<3>1. \A c \in Subscribers(b) : Due(b, c) = 0 /\ c \in Blocks
  BY <1>3, Tree DEF Due, Owed
<3>2. ASSUME NEW c \in Subscribers(b) PROVE arrived'[c] = x
<4>1. arrived[c] + 0 = x /\ arrived[c] \in Nat
  BY <1>6, <1>7, <3>1, PassIs DEF OutMarks
<4>2. QED BY <1>2, <4>1
<3>3. \A c : Due(b, c)' = n
  BY <2>4 DEF Due, Owed
<3>4. QED BY <3>2, <3>3
<2>6. Subscribers(b)' = Subscribers(b) /\ Pending(b)' = Subscribers(b)
  BY <2>4 DEF Subscribers, Pending
<2>7. \A c \in Subscribers(b) : arrived'[c] + Due(b, c)' = consumed'[b]
  BY <1>5, <1>7, <2>5
<2>8. \A c \in Subscribers(b) : Marks(postedLabels'[b], arrived'[c], ElemSize, arrived'[c],
                                      arrived'[c] + pass'[b].produce)
  BY <2>2, <2>3, <2>4, <2>5
<2>9. Ascends(postedLabels'[b])
<3>1. ASSUME NEW i \in 1..k, NEW j \in 1..k, i < j PROVE wide[i].origin < wide[j].origin
<4>1. i \in 1..L /\ j \in 1..L
  BY <1>11, <1>13
<4>2. old[i].origin < old[j].origin
  BY <1>11, <3>1, <4>1 DEF Ascends, L, old
<4>3. wide[i].origin = old[i].origin /\ wide[j].origin = old[j].origin
  BY <1>13, <2>1
<4>4. QED BY <4>2, <4>3
<3>2. QED BY <2>1, <2>2, <3>1 DEF Ascends
<2>10. OutMarks(b)'
  BY <2>4, <2>6, <2>7, <2>8, <2>9 DEF OutMarks, Marks, Ascends
<2>11. QED BY <2>10
<1>22. ASSUME ~HasOutput(b) PROVE OutMarks(b)'
<2>1. OutMarks(b)'
<3>1. Subscribers(b) = {} /\ pc'[b] = "idle" /\ postedLabels'[b] = postedLabels[b]
  BY <1>2, <1>3, <1>22 DEF HasOutput
<3>2. QED BY <1>3, <1>6, <3>1, OutQuiet
<2>2. QED BY <2>1
<1>23. ASSUME NEW d \in Blocks, d # b PROVE InMarks(d)' /\ OutMarks(d)'
<2>1. pc'[d] = pc[d] /\ pass'[d] = pass[d] /\ InMarks(d) /\ OutMarks(d) /\ PassFits(d)
  BY <1>3, <1>4, <1>23 DEF AllMarked, Fits
<2>2. Offered(d)' = Offered(d)
  BY <2>1 DEF Offered
<2>3. InMarks(d)'
  BY <1>2, <1>4, <1>23, <2>1, <2>2, InStays
<2>4. OutMarks(d)'
  BY <1>2, <1>4, <1>23, <2>1, OutStays
<2>5. QED BY <2>3, <2>4
<1>24. OutMarks(b)'
  BY <1>21, <1>22
<1>25. QED BY <1>20, <1>23, <1>24 DEF AllMarked

LEMMA InitMarks == Init => AllMarked
<1> SUFFICES ASSUME Init, NEW b \in Blocks PROVE InMarks(b) /\ OutMarks(b)
  BY DEF AllMarked
<1>1. /\ inputLabels[b] = <<>> /\ labels[b] = <<>> /\ postedLabels[b] = <<>> /\ pc[b] = "idle"
      /\ consumed[b] = 0 /\ \A c \in Subscribers(b) : arrived[c] = 0
  BY Tree DEF Init
<1>2. \A i \in 1..Len(<<>>) : FALSE
  OBVIOUS
<1>3. \A c : Due(b, c) = 0
  BY <1>1 DEF Due, Owed
<1>4. InMarks(b)
  BY <1>1, <1>2 DEF InMarks, Marks, Ascends
<1>5. OutMarks(b)
  BY <1>1, <1>2, <1>3 DEF OutMarks, Marks, Ascends
<1>6. QED BY <1>4, <1>5

LEMMA MarksKept ==
    ASSUME \A b \in Blocks : HasOutput(b) => Decimation[b] = 1,
           TypesAndCounts, AllMarked, [Next]_vars
    PROVE  AllMarked'
<1>1. CASE PushMessage \/ SlotCallsPush \/ UNCHANGED vars
  BY <1>1, OutsideMarks
<1>2. CASE PushBuffer
  BY <1>2, PushBufferMarks
<1>3. ASSUME NEW b \in Blocks, EmitSignal(b) \/ SetActiveStateOn(b) \/ SetActiveStateOff(b)
      PROVE  AllMarked'
  BY <1>3, OutsideMarks
<1>4. ASSUME NEW b \in Blocks, WorkerStep(b) PROVE AllMarked'
<2>1. CASE StartPass(b) \/ PreWorkOutputs(b)
  BY <2>1, StartPassMarks
<2>2. CASE PreWorkInputs(b) \/ Work(b)
  BY <2>2, PreWorkInputsMarks, WorkMarks
<2>3. CASE PostWorkInputs(b) \/ PostWorkOutputs(b)
  BY <2>3, PostWorkInputsMarks, PostWorkOutputsMarks
<2>4. CASE PushToSubscriber(b) \/ EndPass(b)
  BY <2>4, PushToSubscriberMarks, EndPassMarks
<2>5. QED BY <1>4, <2>1, <2>2, <2>3, <2>4 DEF WorkerStep
<1>5. QED BY <1>1, <1>2, <1>3, <1>4 DEF Next

LEMMA LabelsFollow == TypeOK /\ Fits /\ AllMarked => LabelsStayWithData
<1> SUFFICES ASSUME TypeOK, Fits, AllMarked, NEW b \in Blocks
             PROVE  /\ \A l \in Range(inputLabels[b]) :
                          l.index = (l.origin - consumed[b]) * ElemSize
                    /\ \A l \in Range(labels[b]) : l.index = l.origin - consumed[b]
                    /\ \A c \in Pending(b), l \in Range(postedLabels[b]) :
                          l.index = (l.origin - arrived[c]) * ElemSize
  BY DEF LabelsStayWithData
<1>1. LabelsTyped(b) /\ InMarks(b) /\ OutMarks(b)
  BY LabelsAreTyped DEF AllMarked
<1>2. ASSUME NEW l \in Range(inputLabels[b]) PROVE l.index = (l.origin - consumed[b]) * ElemSize
<2>1. PICK i \in 1..Len(inputLabels[b]) : inputLabels[b][i] = l
  BY <1>1, RangeIs DEF LabelsTyped
<2>2. QED BY <1>1, <2>1 DEF InMarks, Marks
<1>3. ASSUME NEW l \in Range(labels[b]) PROVE l.index = l.origin - consumed[b]
<2>1. PICK i \in 1..Len(labels[b]) : labels[b][i] = l
  BY <1>1, RangeIs DEF LabelsTyped
<2>2. l.index = (l.origin - consumed[b]) * 1
  BY <1>1, <2>1 DEF InMarks, Marks
<2>3. l.origin \in Nat /\ consumed[b] \in Nat
  BY <1>1, <2>1, LabelIs DEF LabelsTyped
<2>4. QED BY <2>2, <2>3
<1>4. ASSUME NEW c \in Pending(b), NEW l \in Range(postedLabels[b])
      PROVE  l.index = (l.origin - arrived[c]) * ElemSize
<2>1. PICK i \in 1..Len(postedLabels[b]) : postedLabels[b][i] = l
  BY <1>1, RangeIs DEF LabelsTyped
<2>2. QED BY <1>1, <2>1 DEF OutMarks, Marks
<1>5. QED BY <1>2, <1>3, <1>4

\* A label stays with the element it was put on, through the queues of every
\* input port and from block to block, whatever arrives, is consumed and is
\* posted in the meantime: for any tree in which the blocks that pass labels on
\* produce what they consume, any element size and any order of the passes.
THEOREM LabelsStay ==
    ASSUME \A b \in Blocks : HasOutput(b) => Decimation[b] = 1
    PROVE  Spec => []LabelsStayWithData
<1>1. TypesAndCounts /\ AllMarked => LabelsStayWithData
  BY LabelsFollow DEF TypesAndCounts
<1>2. TypesAndCounts /\ AllMarked /\ [Next]_vars => AllMarked'
  BY MarksKept
<1>3. Spec => []AllMarked
  BY <1>2, InitMarks, AlwaysTypesAndCounts, PTL DEF Spec
<1>4. QED BY <1>1, <1>3, AlwaysTypesAndCounts, PTL

(***************************************************************************)
(* Labels are delivered once                                               *)
(***************************************************************************)

\* f counts, from the first block down, a number of labels and those lost on the way.
Counted(start, less, f) ==
    /\ f \in [Blocks -> Int]
    /\ \A b \in Blocks : f[b] = IF ~HasSource(b) THEN start ELSE f[Source[b]] - less[b]

LEMMA Downwards ==
    /\ NumBlocks \in Nat /\ Blocks = 1..NumBlocks
    /\ \A b \in Blocks : HasSource(b) => Source[b] \in Blocks /\ Source[b] < b
<1>1. /\ NumBlocks \in Nat \ {0} /\ Blocks = 1..NumBlocks
      /\ \A b \in Blocks : Source[b] \in Nat /\ Source[b] < b
  BY TreeAssumption DEF Blocks
<1>2. QED BY <1>1, Tree

LEMMA CountedExist ==
    ASSUME NEW start \in Int, NEW less \in [Blocks -> Int]
    PROVE  \E f : Counted(start, less, f)
<1> DEFINE Upto(k, f) == \A b \in 1..k : f[b] = IF ~HasSource(b) THEN start ELSE f[Source[b]] - less[b]
           Without == {k \in 0..NumBlocks : \A f \in [1..k -> Int] : ~Upto(k, f)}
<1>1. /\ NumBlocks \in Nat /\ Blocks = 1..NumBlocks
      /\ \A b \in Blocks : HasSource(b) => Source[b] \in Blocks /\ Source[b] < b
  BY Downwards
<1>2. ASSUME Without # {} PROVE FALSE
<2> DEFINE m == Min(Without)
<2>0. Without \in SUBSET Nat
  BY <1>1
<2>1. m \in Without /\ \A k \in Without : m <= k
<3> HIDE DEF Without
<3>1. QED BY <2>0, <1>2, LeastElement
<2> HIDE DEF m
<2>2. CASE m = 0
<3> DEFINE f == [b \in 1..0 |-> 0]
<3>1. f \in [1..0 -> Int] /\ Upto(0, f)
  OBVIOUS
<3>2. QED BY <2>1, <2>2, <3>1
<2>3. CASE m # 0
<3>0. m \in Blocks /\ m - 1 \in 0..NumBlocks /\ m \in Nat
  BY <2>1, <2>3, <1>1
<3>1. m - 1 \notin Without
<4>1. m - 1 < m /\ ~(m <= m - 1)
  BY <3>0, <1>1
<4> HIDE DEF Without
<4>2. QED BY <4>1, <2>1
<3>2. PICK g \in [1..(m - 1) -> Int] : Upto(m - 1, g)
  BY <3>0, <3>1
<3>3. PICK x \in Int : x = IF ~HasSource(m) THEN start ELSE g[Source[m]] - less[m]
<4>1. HasSource(m) => Source[m] \in 1..(m - 1)
  BY <1>1, <3>0
<4>2. HasSource(m) => g[Source[m]] \in Int /\ less[m] \in Int
  BY <3>0, <4>1
<4>3. QED BY <4>2
<3> DEFINE f == [b \in 1..m |-> IF b = m THEN x ELSE g[b]]
<3>4. f \in [1..m -> Int]
  BY <3>0
<3>5. \A b \in 1..m : HasSource(b) => Source[b] \in 1..(m - 1) /\ Source[b] \in 1..m /\ Source[b] # m
  BY <1>1, <3>0
<3>6. ASSUME NEW b \in 1..m PROVE f[b] = IF ~HasSource(b) THEN start ELSE f[Source[b]] - less[b]
<4>1. HasSource(b) => f[Source[b]] = g[Source[b]]
  BY <3>5
<4>2. CASE b = m
  BY <3>3, <4>1, <4>2
<4>3. CASE b # m
<5>1. b \in 1..(m - 1)
  BY <3>0, <4>3
<5>2. g[b] = IF ~HasSource(b) THEN start ELSE g[Source[b]] - less[b]
  BY <3>2, <5>1
<5>3. QED BY <4>1, <4>3, <5>2
<4>4. QED BY <4>2, <4>3
<3>7. QED BY <3>4, <3>6, <2>1
<2>4. QED BY <2>2, <2>3
<1>3. NumBlocks \in 0..NumBlocks
  BY <1>1
<1>4. NumBlocks \notin Without
<2> HIDE DEF Without
<2>1. QED BY <1>2
<1>5. PICK f \in [1..NumBlocks -> Int] : Upto(NumBlocks, f)
  BY <1>3, <1>4
<1>6. QED BY <1>1, <1>5 DEF Counted

LEMMA CountedAreOne ==
    ASSUME NEW start \in Int, NEW less \in [Blocks -> Int], NEW f, Counted(start, less, f),
           NEW g, \A b \in Blocks : g[b] = IF ~HasSource(b) THEN start ELSE g[Source[b]] - less[b]
    PROVE  \A b \in Blocks : g[b] = f[b]
<1> DEFINE Differ == {b \in Blocks : g[b] # f[b]}
<1>1. /\ NumBlocks \in Nat /\ Blocks = 1..NumBlocks
      /\ \A b \in Blocks : HasSource(b) => Source[b] \in Blocks /\ Source[b] < b
  BY Downwards
<1>2. ASSUME Differ # {} PROVE FALSE
<2> DEFINE m == Min(Differ)
<2>0. Differ \in SUBSET Nat
  BY <1>1
<2>1. m \in Differ /\ \A k \in Differ : m <= k
<3> HIDE DEF Differ
<3>1. QED BY <2>0, <1>2, LeastElement
<2> HIDE DEF m
<2>2. m \in Blocks /\ m \in Nat
  BY <1>1, <2>1
<2>3. HasSource(m) => Source[m] \in Blocks /\ ~(m <= Source[m])
  BY <1>1, <2>2
<2>4. HasSource(m) => g[Source[m]] = f[Source[m]]
  BY <2>1, <2>3
<2>5. g[m] = f[m]
  BY <2>2, <2>4 DEF Counted
<2>6. QED BY <2>1, <2>5
<1>3. QED BY <1>2

\* The labels that have come to each block are those its source has sent on.
Following ==
    /\ Arrivals \in [Blocks -> Int] /\ MaxLabels - left.labels \in Int
    /\ \A b \in Blocks :
          /\ Waiting(b) \in Nat /\ Len(postedLabels[b]) \in Nat
          /\ HasSource(b) => Behind(b) \in Int
          /\ Arrivals[b] = IF ~HasSource(b) THEN MaxLabels - left.labels
                           ELSE Arrivals[Source[b]] - Behind(b)

LEMMA ArrivalsFollow == TypeOK => Following
<1> SUFFICES ASSUME TypeOK PROVE Following
  OBVIOUS
<1>1. PICK start \in Int : start = MaxLabels - left.labels
  BY BudgetAssumption DEF TypeOK
<1>2. \A b \in Blocks : Waiting(b) \in Nat /\ Len(postedLabels[b]) \in Nat
<2>1. ASSUME NEW b \in Blocks PROVE Waiting(b) \in Nat /\ Len(postedLabels[b]) \in Nat
<3>1. Len(inputLabels[b]) \in Nat /\ Len(labels[b]) \in Nat /\ Len(postedLabels[b]) \in Nat
  BY LabelsAreTyped, LabelIs DEF LabelsTyped
<3>2. PICK x \in Nat : x = Len(inputLabels[b])
  BY <3>1
<3>3. PICK y \in Nat : y = Len(labels[b])
  BY <3>1
<3>4. Waiting(b) = x + y
  BY <3>2, <3>3 DEF Waiting
<3>5. QED BY <3>1, <3>4
<2>2. QED BY <2>1
<1>3. \A b \in Blocks : HasSource(b) => Behind(b) \in Int
  BY <1>2, Tree DEF Behind
<1>4. PICK less \in [Blocks -> Int] : \A b \in Blocks : HasSource(b) => less[b] = Behind(b)
<2> DEFINE h == [b \in Blocks |-> IF HasSource(b) THEN Behind(b) ELSE 0]
<2>1. h \in [Blocks -> Int]
  BY <1>3
<2>2. QED BY <2>1
<1>5. PICK f : Counted(start, less, f)
  BY CountedExist
<1> DEFINE Rec(g) == [b \in Blocks |->
                         IF HasSource(b) THEN g[Source[b]] - Behind(b) ELSE MaxLabels - left.labels]
           labelsAt == CHOOSE g : g = Rec(g)
<1>6. f = Rec(f)
<2>1. f \in [Blocks -> Int]
  BY <1>5 DEF Counted
<2>2. ASSUME NEW b \in Blocks PROVE f[b] = Rec(f)[b]
<3>1. CASE ~HasSource(b)
  BY <1>1, <1>5, <3>1 DEF Counted
<3>2. CASE HasSource(b)
  BY <1>4, <1>5, <3>2 DEF Counted
<3>3. QED BY <3>1, <3>2
<2>3. QED BY <2>1, <2>2
<1>7. labelsAt = Rec(labelsAt)
  BY <1>6
<1>8. \A b \in Blocks : labelsAt[b] = IF ~HasSource(b) THEN start ELSE labelsAt[Source[b]] - less[b]
<2> HIDE DEF labelsAt
<2>1. QED BY <1>1, <1>4, <1>7
<1>9. labelsAt \in [Blocks -> Int]
<2> HIDE DEF labelsAt
<2>1. \A b \in Blocks : labelsAt[b] = f[b]
  BY <1>5, <1>8, CountedAreOne
<2>2. f \in [Blocks -> Int]
  BY <1>5 DEF Counted
<2>3. labelsAt = [b \in Blocks |-> labelsAt[b]]
  BY <1>7
<2>4. QED BY <2>1, <2>2, <2>3
<1>10. Arrivals = labelsAt
  BY DEF Arrivals
<1> HIDE DEF labelsAt
<1>11. \A b \in Blocks : Arrivals[b] = IF ~HasSource(b) THEN MaxLabels - left.labels
                                        ELSE Arrivals[Source[b]] - Behind(b)
  BY <1>1, <1>4, <1>8, <1>10
<1>12. QED BY <1>1, <1>2, <1>3, <1>9, <1>10, <1>11 DEF Following

\* What a block without output has seen are the labels that have come to it and
\* do not wait, in the order of their elements, which are consumed.
Delivers(b) ==
    ~HasOutput(b) =>
        /\ Len(delivered[b]) = Arrivals[b] - Waiting(b)
        /\ \A i, j \in 1..Len(delivered[b]) : i < j => delivered[b][i] < delivered[b][j]
        /\ \A i \in 1..Len(delivered[b]) : delivered[b][i] < consumed[b]

AllDeliver == \A b \in Blocks : Delivers(b)

\* m labels come to c, from outside or from where they were behind it.
LEMMA ArrivalsAfter ==
    ASSUME NEW c \in Blocks, NEW m \in Int, Following, Following',
           MaxLabels - left'.labels = MaxLabels - left.labels + IF ~HasSource(c) THEN m ELSE 0,
           \A b \in Blocks : HasSource(b) =>
              Behind(b)' = Behind(b) + (IF Source[b] = c THEN m ELSE 0) - (IF b = c THEN m ELSE 0)
    PROVE  \A b \in Blocks : Arrivals'[b] = Arrivals[b] + IF b = c THEN m ELSE 0
<1> DEFINE g == [b \in Blocks |-> Arrivals[b] + IF b = c THEN m ELSE 0]
<1>1. \A b \in Blocks : (HasSource(b) => Source[b] \in Blocks /\ Source[b] # b)
                        /\ (~HasSource(b) /\ ~HasSource(c) => b = c)
<2>1. \A b \in Blocks : Source[b] = 0 => b = 1
  BY TreeAssumption
<2>2. QED BY <2>1, Tree DEF HasSource
<1>2. PICK start \in Int : start = MaxLabels - left'.labels
  BY DEF Following
<1>3. \A b \in Blocks : HasSource(b) => Behind(b) \in Int /\ Behind(b)' \in Int
  BY DEF Following, HasSource
<1>4. PICK less \in [Blocks -> Int] : \A b \in Blocks : HasSource(b) => less[b] = Behind(b)'
<2> DEFINE h == [b \in Blocks |-> IF HasSource(b) THEN Behind(b)' ELSE 0]
<2>1. \A b \in Blocks : h[b] \in Int
<3>1. ASSUME NEW b \in Blocks PROVE (IF HasSource(b) THEN Behind(b)' ELSE 0) \in Int
  BY <1>3
<3>2. QED BY <3>1
<2>2. h \in [Blocks -> Int]
  BY <2>1
<2>3. \A b \in Blocks : HasSource(b) => h[b] = Behind(b)'
  OBVIOUS
<2>4. QED BY <2>2, <2>3
<1>5. Counted(start, less, Arrivals')
  BY <1>2, <1>4 DEF Counted, Following, HasSource
<1>6. /\ Arrivals \in [Blocks -> Int] /\ MaxLabels - left.labels \in Int
      /\ \A b \in Blocks : Arrivals[b] = IF ~HasSource(b) THEN MaxLabels - left.labels
                                         ELSE Arrivals[Source[b]] - Behind(b)
  BY DEF Following
<1>7. ASSUME NEW b \in Blocks PROVE g[b] = IF ~HasSource(b) THEN start ELSE g[Source[b]] - less[b]
<2>1. CASE ~HasSource(b)
<3>1. Arrivals[b] = MaxLabels - left.labels
  BY <1>6, <2>1
<3>2. start = (MaxLabels - left.labels) + IF b = c THEN m ELSE 0
  BY <1>1, <1>2, <2>1
<3>3. QED BY <2>1, <3>1, <3>2
<2>2. CASE HasSource(b)
<3>1. Source[b] \in Blocks /\ Source[b] # b
  BY <1>1, <2>2
<3>2. PICK x \in Int : x = Arrivals[Source[b]]
  BY <1>6, <3>1
<3>3. PICK y \in Int : y = Behind(b)
  BY <1>3, <2>2
<3>4. Arrivals[b] = x - y
  BY <1>6, <2>2, <3>2, <3>3
<3>5. less[b] = y + (IF Source[b] = c THEN m ELSE 0) - (IF b = c THEN m ELSE 0)
  BY <1>4, <2>2, <3>3
<3>6. g[Source[b]] = x + IF Source[b] = c THEN m ELSE 0
  BY <3>1, <3>2
<3>7. g[b] = x - y + IF b = c THEN m ELSE 0
  BY <3>4
<3>8. QED
<4> HIDE DEF g
<4>1. CASE b = c
  BY <2>2, <3>1, <3>5, <3>6, <3>7, <4>1
<4>2. CASE b # c /\ Source[b] = c
  BY <2>2, <3>5, <3>6, <3>7, <4>2
<4>3. CASE b # c /\ Source[b] # c
  BY <2>2, <3>5, <3>6, <3>7, <4>3
<4>4. QED BY <4>1, <4>2, <4>3
<2>3. QED BY <2>1, <2>2
<1>8. \A b \in Blocks : g[b] = Arrivals'[b]
<2> HIDE DEF g
<2>1. QED BY <1>5, <1>7, CountedAreOne
<1>9. QED BY <1>8

\* No label comes, none leaves.
LEMMA NoneArrives ==
    ASSUME Following, Following', left'.labels = left.labels,
           \A b \in Blocks : HasSource(b) => Behind(b)' = Behind(b)
    PROVE  \A b \in Blocks : Arrivals'[b] = Arrivals[b]
<1>1. 1 \in Blocks /\ ~HasSource(1)
  BY Tree
<1>2. MaxLabels - left.labels \in Int
      /\ \A b \in Blocks : Arrivals[b] \in Int /\ (HasSource(b) => Behind(b) \in Int)
  BY DEF Following
<1>3. MaxLabels - left'.labels = MaxLabels - left.labels + IF ~HasSource(1) THEN 0 ELSE 0
  BY <1>2
<1>4. \A b \in Blocks : HasSource(b) =>
          Behind(b)' = Behind(b) + (IF Source[b] = 1 THEN 0 ELSE 0) - (IF b = 1 THEN 0 ELSE 0)
  BY <1>2
<1>5. \A b \in Blocks : Arrivals'[b] = Arrivals[b] + IF b = 1 THEN 0 ELSE 0
<2>1. 0 \in Int
  OBVIOUS
<2>2. QED BY <1>1, <1>3, <1>4, <2>1, ArrivalsAfter
<1>6. QED BY <1>2, <1>5

\* A block that sees no label
LEMMA DeliversOnly ==
    ASSUME NEW b \in Blocks, Delivers(b), delivered'[b] = delivered[b], consumed'[b] = consumed[b],
           ~HasOutput(b) => Arrivals'[b] - Waiting(b)' = Arrivals[b] - Waiting(b)
    PROVE  Delivers(b)'
<1>1. HasOutput(b)' = HasOutput(b)
  BY DEF HasOutput, Subscribers
<1>2. QED BY <1>1 DEF Delivers

\* A step that moves no label
LEMMA NoneDelivered ==
    ASSUME Following, Following', AllDeliver, left'.labels = left.labels,
           \A b \in Blocks : Waiting(b)' = Waiting(b),
           \A b \in Blocks : HasSource(b) => Behind(b)' = Behind(b),
           delivered' = delivered, consumed' = consumed
    PROVE  AllDeliver'
<1>1. \A b \in Blocks : Arrivals'[b] = Arrivals[b]
  BY NoneArrives
<1>2. ASSUME NEW b \in Blocks PROVE Delivers(b)'
  BY <1>1, DeliversOnly DEF AllDeliver
<1>3. QED BY <1>2 DEF AllDeliver

LEMMA QuietDelivers ==
    ASSUME Following, Following', AllDeliver, left'.labels = left.labels,
           inputLabels' = inputLabels, labels' = labels, postedLabels' = postedLabels,
           delivered' = delivered, consumed' = consumed,
           \A d \in Blocks : \/ pc'[d] = pc[d] /\ pass'[d].subscribers = pass[d].subscribers
                             \/ pc[d] # "push" /\ pc'[d] # "push"
    PROVE  AllDeliver'
<1>1. \A b \in Blocks : Waiting(b)' = Waiting(b)
  BY DEF Waiting
<1>2. \A d \in Blocks : Pending(d)' = Pending(d)
<2>1. \A d : Subscribers(d)' = Subscribers(d)
  BY DEF Subscribers
<2>2. QED BY <2>1 DEF Pending
<1>3. ASSUME NEW b \in Blocks, HasSource(b) PROVE Behind(b)' = Behind(b)
<2>1. Source[b] \in Blocks
  BY <1>3, Tree
<2>2. QED BY <1>1, <1>2, <2>1 DEF Behind
<1>4. QED BY <1>1, <1>3, NoneDelivered

LEMMA LeftIs ==
    ASSUME TypeOK
    PROVE  /\ left.labels \in Int /\ left.elements \in Int
           /\ \A k : [left EXCEPT !.events = k].labels = left.labels
           /\ \A j, k : [left EXCEPT !.elements = j, !.labels = k].labels = k
<1>1. PICK l \in [elements : 0..MaxElements, labels : 0..MaxLabels, events : 0..MaxEvents] : l = left
  BY DEF TypeOK
<1>2. MaxElements \in Nat /\ MaxLabels \in Nat
  BY BudgetAssumption
<1>3. QED BY <1>1, <1>2

LEMMA StartPassDelivers ==
    ASSUME TypesAndCounts, Following, Following', AllDeliver,
           NEW b \in Blocks, StartPass(b) \/ PreWorkOutputs(b)
    PROVE  AllDeliver'
<1>1. /\ inputLabels' = inputLabels /\ labels' = labels /\ postedLabels' = postedLabels
      /\ consumed' = consumed /\ delivered' = delivered /\ left' = left
      /\ \A d \in Blocks : d # b => pass'[d] = pass[d]
  BY DEF StartPass, PreWorkOutputs, flowVars, ghosts, TypesAndCounts, TypeOK
<1>2. PICK from \in {"idle", "outputs"}, to \in {"idle", "outputs", "inputs"} : Goto(b, from, to)
  BY DEF StartPass, PreWorkOutputs
<1>3. pc[b] = from /\ pc'[b] = to /\ \A d \in Blocks : d # b => pc'[d] = pc[d]
<2>1. to \in States
  BY DEF States
<2>2. QED BY <1>2, <2>1, Went DEF TypesAndCounts
<1>4. \A d \in Blocks : \/ pc'[d] = pc[d] /\ pass'[d].subscribers = pass[d].subscribers
                        \/ pc[d] # "push" /\ pc'[d] # "push"
  BY <1>1, <1>3
<1>5. QED BY <1>1, <1>4, QuietDelivers

LEMMA WorkDelivers ==
    ASSUME TypesAndCounts, Following, Following', AllDeliver, NEW b \in Blocks, Work(b)
    PROVE  AllDeliver'
<1>1. /\ inputLabels' = inputLabels /\ labels' = labels /\ postedLabels' = postedLabels
      /\ consumed' = consumed /\ delivered' = delivered /\ left' = left
      /\ Goto(b, "work", "consume")
  BY DEF Work, flowVars, ghosts
<1>2. \A d \in Blocks : d # b => pass'[d] = pass[d]
  BY DEF Work, TypesAndCounts, TypeOK
<1>3. pc[b] = "work" /\ pc'[b] = "consume" /\ \A d \in Blocks : d # b => pc'[d] = pc[d]
<2>1. "consume" \in States
  BY DEF States
<2>2. QED BY <1>1, <2>1, Went DEF TypesAndCounts
<1>4. \A d \in Blocks : \/ pc'[d] = pc[d] /\ pass'[d].subscribers = pass[d].subscribers
                        \/ pc[d] # "push" /\ pc'[d] # "push"
  BY <1>2, <1>3
<1>5. QED BY <1>1, <1>4, QuietDelivers

LEMMA OutsideDelivers ==
    ASSUME TypesAndCounts, Following, Following', AllDeliver,
           \/ PushMessage \/ SlotCallsPush \/ UNCHANGED vars
           \/ \E b \in Blocks : SetActiveStateOn(b) \/ SetActiveStateOff(b) \/ EmitSignal(b)
    PROVE  AllDeliver'
<1>1. /\ inputLabels' = inputLabels /\ labels' = labels /\ postedLabels' = postedLabels
      /\ consumed' = consumed /\ delivered' = delivered /\ pc' = pc
  BY DEF PushMessage, SlotCallsPush, SetActiveStateOn, SetActiveStateOff, EmitSignal, flowVars,
         ghosts, vars
<1>2. left'.labels = left.labels
<2>1. left' = left \/ \E k : left' = [left EXCEPT !.events = k]
  BY DEF PushMessage, SlotCallsPush, SetActiveStateOn, SetActiveStateOff, EmitSignal, vars
<2>2. QED BY <2>1, LeftIs DEF TypesAndCounts
<1>3. \A d \in Blocks : pass'[d].subscribers = pass[d].subscribers
<2>1. CASE pass' = pass
  BY <2>1
<2>2. CASE \E b \in Blocks : EmitSignal(b)
<3>1. PICK b \in Blocks, counted \in BOOLEAN : pass' = [pass EXCEPT ![b].outEvents = @ \/ counted]
  BY <2>2 DEF EmitSignal
<3>2. ASSUME NEW d \in Blocks PROVE pass'[d].subscribers = pass[d].subscribers
<4>1. PICK r \in PassRecords : r = pass[d]
  BY PassIs DEF TypesAndCounts
<4>2. PICK outs : outs = (pass[b].outEvents \/ counted)
  OBVIOUS
<4>3. pass'[d] = r \/ pass'[d] = [r EXCEPT !.outEvents = outs]
  BY <3>1, <4>1, <4>2 DEF TypesAndCounts, TypeOK
<4>4. QED BY <4>1, <4>3 DEF PassRecords
<3>3. QED BY <3>2
<2>3. pass' = pass \/ \E b \in Blocks : EmitSignal(b)
  BY DEF PushMessage, SlotCallsPush, SetActiveStateOn, SetActiveStateOff, vars
<2>4. QED BY <2>1, <2>2, <2>3
<1>4. QED BY <1>1, <1>2, <1>3, QuietDelivers

\* Labels only change queues.
LEMMA PreWorkInputsDelivers ==
    ASSUME TypesAndCounts, Following, Following', AllDeliver, NEW b \in Blocks, PreWorkInputs(b)
    PROVE  AllDeliver'
<1> USE DEF TypesAndCounts
<1>1. /\ labels' = [labels EXCEPT ![b] = @ \o Joining(inputLabels[b])]
      /\ inputLabels' = [inputLabels EXCEPT ![b] = <<>>]
      /\ postedLabels' = postedLabels /\ consumed' = consumed /\ delivered' = delivered
      /\ left' = left
  BY DEF PreWorkInputs, ghosts, Joining
<1>2. PICK to \in {"work", "idle"} : Goto(b, "inputs", to)
  BY DEF PreWorkInputs
<1>3. pc[b] = "inputs" /\ pc'[b] = to /\ \A d \in Blocks : d # b => pc'[d] = pc[d]
<2>1. to \in States
  BY DEF States
<2>2. QED BY <1>2, <2>1, Went
<1>4. \A d \in Blocks : d # b => pass'[d] = pass[d]
  BY DEF PreWorkInputs, TypeOK
<1>5. \A d \in Blocks : Waiting(d)' = Waiting(d)
<2>1. \A d \in Blocks : d # b => labels'[d] = labels[d] /\ inputLabels'[d] = inputLabels[d]
  BY <1>1 DEF TypeOK
<2>2. Waiting(b)' = Waiting(b)
<3>1. PICK new \in Seq(LabelRecords) : new = inputLabels[b]
  BY DEF TypeOK
<3>2. PICK old \in Seq(LabelRecords) : old = labels[b]
  BY DEF TypeOK
<3>3. PICK joining \in Seq(LabelRecords) : joining = Joining(new) /\ Len(joining) = Len(new)
  BY JoiningAre
<3>4. labels'[b] = old \o joining /\ inputLabels'[b] = <<>>
  BY <1>1, <3>1, <3>2, <3>3 DEF TypeOK
<3>5. Len(old \o joining) = Len(old) + Len(new) /\ Len(old) \in Nat /\ Len(new) \in Nat
<4>1. Len(old \o joining) = Len(old) + Len(joining)
  BY ConcatProperties
<4>2. Len(old) \in Nat /\ Len(new) \in Nat
  BY LabelIs
<4>3. QED BY <3>3, <4>1, <4>2
<3>6. Waiting(b)' = 0 + (Len(old) + Len(new))
  BY <3>4, <3>5 DEF Waiting
<3>7. Waiting(b) = Len(new) + Len(old)
  BY <3>1, <3>2 DEF Waiting
<3>8. QED BY <3>5, <3>6, <3>7
<2>3. QED BY <2>1, <2>2 DEF Waiting
<1>6. ASSUME NEW d \in Blocks, HasSource(d) PROVE Behind(d)' = Behind(d)
<2>1. Source[d] \in Blocks
  BY <1>6, Tree
<2>2. \A a \in Blocks : Pending(a)' = Pending(a)
<3>1. \A a : Subscribers(a)' = Subscribers(a)
  BY DEF Subscribers
<3>2. QED BY <1>3, <1>4, <3>1 DEF Pending
<2>3. QED BY <1>1, <1>5, <2>1, <2>2 DEF Behind
<1>7. QED BY <1>1, <1>5, <1>6, NoneDelivered

\* Sorted labels are as many as before.
LEMMA PostWorkOutputsDelivers ==
    ASSUME TypesAndCounts, Following, Following', AllDeliver, NEW b \in Blocks, PostWorkOutputs(b)
    PROVE  AllDeliver'
<1> USE DEF TypesAndCounts
<1>1. /\ inputLabels' = inputLabels /\ labels' = labels /\ left' = left
      /\ consumed' = consumed /\ delivered' = delivered /\ Goto(b, "post", "push")
  BY DEF PostWorkOutputs, ghosts
<1>2. PICK s \in Sorted(postedLabels[b]) : postedLabels' = [postedLabels EXCEPT ![b] = s]
  BY DEF PostWorkOutputs
<1>3. pc[b] = "post" /\ pc'[b] = "push" /\ \A d \in Blocks : d # b => pc'[d] = pc[d]
<2>1. "push" \in States
  BY DEF States
<2>2. QED BY <1>1, <2>1, Went
<1>4. /\ pass'[b].subscribers = Subscribers(b)
      /\ \A d \in Blocks : d # b => pass'[d] = pass[d]
<2>1. PICK r \in PassRecords : r = pass[b]
  BY PassIs
<2>2. PICK k : k = (IF pass[b].produce = 0 THEN 0 ELSE Head(ready[b]))
  OBVIOUS
<2>3. pass' = [pass EXCEPT ![b].subscribers = Subscribers(b), ![b].posted = k]
  BY <2>2 DEF PostWorkOutputs
<2>4. pass'[b] = [r EXCEPT !.subscribers = Subscribers(b), !.posted = k]
      /\ \A d \in Blocks : d # b => pass'[d] = pass[d]
  BY <2>1, <2>3 DEF TypeOK
<2>5. QED BY <2>1, <2>4 DEF PassRecords
<1>5. \A d \in Blocks : Len(postedLabels'[d]) = Len(postedLabels[d])
<2>1. /\ postedLabels'[b] = s /\ \A d \in Blocks : d # b => postedLabels'[d] = postedLabels[d]
      /\ postedLabels[b] \in Seq(LabelRecords)
  BY <1>2 DEF TypeOK
<2>2. Len(s) = Len(postedLabels[b])
  BY <2>1, SortedAre
<2>3. QED BY <2>1, <2>2
<1>6. \A d \in Blocks : Waiting(d)' = Waiting(d) /\ Pending(d)' = Pending(d)
<2>1. \A a : Subscribers(a)' = Subscribers(a)
  BY DEF Subscribers
<2>2. Pending(b)' = Subscribers(b) /\ Pending(b) = Subscribers(b)
  BY <1>3, <1>4, <2>1 DEF Pending
<2>3. QED BY <1>1, <1>3, <1>4, <2>1, <2>2 DEF Pending, Waiting
<1>7. ASSUME NEW d \in Blocks, HasSource(d) PROVE Behind(d)' = Behind(d)
<2>1. Source[d] \in Blocks
  BY <1>7, Tree
<2>2. QED BY <1>5, <1>6, <2>1 DEF Behind
<1>8. QED BY <1>1, <1>6, <1>7, NoneDelivered

\* What is cleared has gone to all subscribers.
LEMMA EndPassDelivers ==
    ASSUME TypesAndCounts, Following, Following', AllMarked, AllDeliver, NEW b \in Blocks, EndPass(b)
    PROVE  AllDeliver'
<1> USE DEF TypesAndCounts
<1>1. /\ inputLabels' = inputLabels /\ labels' = labels /\ left' = left
      /\ consumed' = consumed /\ delivered' = delivered /\ Goto(b, "push", "idle")
      /\ postedLabels' = [postedLabels EXCEPT ![b] = <<>>] /\ pass[b].subscribers = {}
      /\ pass' = [pass EXCEPT ![b] = NoPass]
  BY DEF EndPass, ghosts
<1>2. pc[b] = "push" /\ pc'[b] = "idle" /\ \A d \in Blocks : d # b => pc'[d] = pc[d]
<2>1. "idle" \in States
  BY DEF States
<2>2. QED BY <1>1, <2>1, Went
<1>3. postedLabels'[b] = <<>>
      /\ \A d \in Blocks : d # b => postedLabels'[d] = postedLabels[d] /\ pass'[d] = pass[d]
  BY <1>1 DEF TypeOK
<1>4. \A d \in Blocks : Waiting(d)' = Waiting(d)
  BY <1>1 DEF Waiting
<1>5. ASSUME NEW d \in Blocks, HasSource(d) PROVE Behind(d)' = Behind(d)
<2>1. Source[d] \in Blocks
  BY <1>5, Tree
<2>2. \A a : Subscribers(a)' = Subscribers(a)
  BY DEF Subscribers
<2>3. CASE Source[d] = b
<3>1. Pending(b) = {}
  BY <1>1, <1>2 DEF Pending
<3>2. Behind(d) = Waiting(b) + 0 /\ Behind(d)' = Waiting(b)' + 0
<4>1. Len(postedLabels'[b]) = 0
  BY <1>3
<4>2. QED BY <2>3, <3>1, <4>1 DEF Behind
<3>3. QED BY <1>4, <3>2
<2>4. CASE Source[d] # b
<3>1. Pending(Source[d])' = Pending(Source[d]) /\ postedLabels'[Source[d]] = postedLabels[Source[d]]
  BY <1>2, <1>3, <2>1, <2>2, <2>4 DEF Pending
<3>2. QED BY <1>4, <2>1, <3>1 DEF Behind
<2>5. QED BY <2>3, <2>4
<1>6. QED BY <1>1, <1>4, <1>5, NoneDelivered

\* As many labels join those that wait as were pushed.
LEMMA LabelsWait ==
    ASSUME TypeOK, NEW c \in Blocks, NEW new \in Seq(LabelRecords),
           BufferLabelPush(c, new, chunks[c]), labels' = labels
    PROVE  /\ Waiting(c)' = Waiting(c) + Len(new)
           /\ \A d \in Blocks : d # c => Waiting(d)' = Waiting(d)
<1>1. PICK k \in Int : k = Elements(chunks[c]) * ElemSize
<2>1. Elements(chunks[c]) \in Int
  BY PassIs
<2>2. QED BY <2>1, ElementsWide, Zenon
<1>2. PICK moved \in Seq(LabelRecords) : moved = MovedBy(new, k) /\ Len(moved) = Len(new)
  BY MovedAre
<1>3. PICK old \in Seq(LabelRecords) : old = inputLabels[c]
  BY DEF TypeOK
<1>4. inputLabels' = [inputLabels EXCEPT ![c] = @ \o moved]
  BY <1>1, <1>2, LabelsPushed
<1>5. inputLabels'[c] = old \o moved /\ \A d \in Blocks : d # c => inputLabels'[d] = inputLabels[d]
  BY <1>3, <1>4 DEF TypeOK
<1>6. Len(old \o moved) = Len(old) + Len(new)
<2>1. Len(old \o moved) = Len(old) + Len(moved)
  BY ConcatProperties
<2>2. QED BY <1>2, <2>1
<1>7. Len(old) \in Nat /\ Len(new) \in Nat /\ Len(labels[c]) \in Nat
<2>1. labels[c] \in Seq(LabelRecords)
  BY DEF TypeOK
<2>2. QED BY <2>1, LabelIs
<1>8. Waiting(c)' = (Len(old) + Len(new)) + Len(labels[c])
  BY <1>5, <1>6 DEF Waiting
<1>9. Waiting(c) = Len(old) + Len(labels[c])
  BY <1>3 DEF Waiting
<1>10. Waiting(c)' = Waiting(c) + Len(new)
<2>1. PICK x \in Nat, y \in Nat, z \in Nat : x = Len(old) /\ y = Len(new) /\ z = Len(labels[c])
  BY <1>7
<2>2. (x + y) + z = (x + z) + y
  OBVIOUS
<2>3. QED BY <1>8, <1>9, <2>1, <2>2
<1>11. \A d \in Blocks : d # c => Waiting(d)' = Waiting(d)
  BY <1>5 DEF Waiting
<1>12. QED BY <1>10, <1>11

\* Labels that come to c and wait there: nothing is delivered.
LEMMA LabelsCome ==
    ASSUME Following, Following', AllDeliver, NEW c \in Blocks, NEW m \in Int,
           MaxLabels - left'.labels = MaxLabels - left.labels + IF ~HasSource(c) THEN m ELSE 0,
           \A b \in Blocks : HasSource(b) =>
              Behind(b)' = Behind(b) + (IF Source[b] = c THEN m ELSE 0) - (IF b = c THEN m ELSE 0),
           \A b \in Blocks : Waiting(b)' = Waiting(b) + IF b = c THEN m ELSE 0,
           delivered' = delivered, consumed' = consumed
    PROVE  AllDeliver'
<1>1. \A b \in Blocks : Arrivals'[b] = Arrivals[b] + IF b = c THEN m ELSE 0
  BY ArrivalsAfter
<1>2. ASSUME NEW b \in Blocks PROVE Delivers(b)'
<2>1. PICK x \in Int : x = Arrivals[b]
  BY DEF Following
<2>2. PICK y \in Int : y = Waiting(b)
  BY DEF Following
<2>3. Arrivals'[b] = x + (IF b = c THEN m ELSE 0) /\ Waiting(b)' = y + IF b = c THEN m ELSE 0
  BY <1>1, <2>1, <2>2
<2>4. PICK z \in Int : z = IF b = c THEN m ELSE 0
  OBVIOUS
<2>5. Arrivals'[b] - Waiting(b)' = Arrivals[b] - Waiting(b)
<3>1. (x + z) - (y + z) = x - y
  OBVIOUS
<3>2. QED BY <2>1, <2>2, <2>3, <2>4, <3>1
<2>6. QED BY <2>5, DeliversOnly DEF AllDeliver
<1>3. QED BY <1>2 DEF AllDeliver

LEMMA PushBufferDelivers ==
    ASSUME TypesAndCounts, Following, Following', AllDeliver, PushBuffer
    PROVE  AllDeliver'
<1> USE DEF TypesAndCounts
<1>1. PICK n \in 1..left.elements :
        \E newLabels \in {<<>>} \cup
               {<<[index |-> i * ElemSize, origin |-> arrived[1] + i]>> : i \in 0..(n - 1)} :
            /\ BufferLabelPush(1, newLabels, chunks[1])
            /\ left' = [left EXCEPT !.elements = @ - n, !.labels = @ - Len(newLabels)]
            /\ pc' = pc /\ pass' = pass /\ labels' = labels /\ postedLabels' = postedLabels
            /\ consumed' = consumed /\ delivered' = delivered
  BY DEF PushBuffer
<1>2. PICK new \in {<<>>} \cup
               {<<[index |-> i * ElemSize, origin |-> arrived[1] + i]>> : i \in 0..(n - 1)} :
            /\ BufferLabelPush(1, new, chunks[1])
            /\ left' = [left EXCEPT !.elements = @ - n, !.labels = @ - Len(new)]
            /\ pc' = pc /\ pass' = pass /\ labels' = labels /\ postedLabels' = postedLabels
            /\ consumed' = consumed /\ delivered' = delivered
  BY <1>1
<1>3. 1 \in Blocks /\ ~HasSource(1) /\ arrived[1] \in Nat /\ n \in Nat
  BY Tree, PassIs
<1>4. new \in Seq(LabelRecords)
<2>1. CASE new = <<>>
  BY <2>1
<2>2. ASSUME NEW i \in 0..(n - 1), new = <<[index |-> i * ElemSize, origin |-> arrived[1] + i]>>
      PROVE  new \in Seq(LabelRecords)
<3>1. i \in Nat /\ arrived[1] + i \in Nat
  BY <1>3
<3>2. PICK x \in Int : x = i * ElemSize
  BY <3>1, ElementsWide
<3>3. PICK l \in LabelRecords : l = [index |-> x, origin |-> arrived[1] + i]
  BY <3>1 DEF LabelRecords
<3>4. new = <<l>>
  BY <2>2, <3>2, <3>3
<3>5. QED BY <3>4
<2>3. QED BY <1>2, <2>1, <2>2
<1>5. PICK m \in Nat : m = Len(new)
  BY <1>4, LabelIs
<1>6. MaxLabels - left'.labels = MaxLabels - left.labels + m
<2>1. PICK j : j = left.elements - n
  OBVIOUS
<2>2. PICK k : k = left.labels - m
  OBVIOUS
<2>3. left' = [left EXCEPT !.elements = j, !.labels = k]
  BY <1>2, <1>5, <2>1, <2>2
<2>4. left'.labels = left.labels - m
  BY <2>2, <2>3, LeftIs
<2>5. left.labels \in Int /\ MaxLabels \in Int
  BY LeftIs, BudgetAssumption
<2>6. QED BY <2>4, <2>5
<1>7. Waiting(1)' = Waiting(1) + m /\ \A d \in Blocks : d # 1 => Waiting(d)' = Waiting(d)
  BY <1>2, <1>3, <1>4, <1>5, LabelsWait
<1>8. \A d \in Blocks : Waiting(d) \in Int /\ Len(postedLabels[d]) \in Int
  BY DEF Following
<1>9. \A b \in Blocks : Waiting(b)' = Waiting(b) + IF b = 1 THEN m ELSE 0
  BY <1>7, <1>8
<1>10. ASSUME NEW b \in Blocks, HasSource(b)
       PROVE  Behind(b)' = Behind(b) + (IF Source[b] = 1 THEN m ELSE 0) - (IF b = 1 THEN m ELSE 0)
<2>1. Source[b] \in Blocks /\ b # 1
  BY <1>3, <1>10, Tree
<2>2. Pending(Source[b])' = Pending(Source[b])
  BY <1>2 DEF Pending, Subscribers
<2>3. PICK p \in Int : p = IF b \in Pending(Source[b]) THEN Len(postedLabels[Source[b]]) ELSE 0
<3>1. Len(postedLabels[Source[b]]) \in Int
  BY <1>8, <2>1
<3>2. PICK x \in Int : x = Len(postedLabels[Source[b]])
  BY <3>1
<3>3. (IF b \in Pending(Source[b]) THEN x ELSE 0) \in Int
  BY <3>2
<3>4. (IF b \in Pending(Source[b]) THEN x ELSE 0) = IF b \in Pending(Source[b]) THEN Len(postedLabels[Source[b]]) ELSE 0
  BY <3>2
<3>5. QED BY <3>3, <3>4
<2>4. PICK w \in Int : w = Waiting(Source[b])
  BY <1>8, <2>1
<2>5. Behind(b) = w + p
  BY <2>3, <2>4 DEF Behind
<2>6. Behind(b)' = (w + IF Source[b] = 1 THEN m ELSE 0) + p
  BY <1>2, <1>9, <2>1, <2>2, <2>3, <2>4 DEF Behind
<2>7. QED BY <2>1, <2>5, <2>6
<1>11. MaxLabels - left'.labels = MaxLabels - left.labels + IF ~HasSource(1) THEN m ELSE 0
  BY <1>3, <1>6
<1>12. QED BY <1>2, <1>3, <1>9, <1>10, <1>11, LabelsCome

\* What is pushed was behind and waits, before the subscribers of the subscriber.
LEMMA PushToSubscriberDelivers ==
    ASSUME TypesAndCounts, Following, Following', AllDeliver, NEW b \in Blocks, PushToSubscriber(b)
    PROVE  AllDeliver'
<1> USE DEF TypesAndCounts
<1>0. PICK c \in pass[b].subscribers : c = Min(pass[b].subscribers)
<2>1. pass[b].subscribers \subseteq Subscribers(b)
  BY DEF Fits, PassFits
<2>2. pass[b].subscribers \in SUBSET Nat
  BY <2>1, Tree
<2>3. pass[b].subscribers # {}
  BY DEF PushToSubscriber
<2>4. QED BY <2>2, <2>3, LeastElement
<1>1. /\ pc[b] = "push" /\ BufferLabelPush(c, postedLabels[b], chunks[c])
      /\ pass' = [pass EXCEPT ![b].subscribers = @ \ {c}] /\ left' = left
      /\ pc' = pc /\ labels' = labels /\ postedLabels' = postedLabels /\ consumed' = consumed
      /\ delivered' = delivered
  BY <1>0 DEF PushToSubscriber
<1>2. /\ c \in Subscribers(b) /\ c \in Blocks /\ c # b /\ Source[c] = b /\ HasSource(c)
<2>1. pass[b].subscribers \subseteq Subscribers(b)
  BY DEF Fits, PassFits
<2>2. QED BY <1>0, <2>1, Tree
<1>3. /\ pass'[b].subscribers = pass[b].subscribers \ {c}
      /\ \A d \in Blocks : d # b => pass'[d] = pass[d]
<2>1. PICK r \in PassRecords : r = pass[b]
  BY PassIs
<2>2. PICK S : S = r.subscribers \ {c}
  OBVIOUS
<2>3. pass'[b] = [r EXCEPT !.subscribers = S]
      /\ \A d \in Blocks : d # b => pass'[d] = pass[d]
  BY <1>1, <2>1, <2>2 DEF TypeOK
<2>4. QED BY <2>1, <2>2, <2>3 DEF PassRecords
<1>4. postedLabels[b] \in Seq(LabelRecords)
  BY DEF TypeOK
<1>5. PICK m \in Nat : m = Len(postedLabels[b])
  BY <1>4, LabelIs
<1>6. Waiting(c)' = Waiting(c) + m /\ \A d \in Blocks : d # c => Waiting(d)' = Waiting(d)
  BY <1>1, <1>2, <1>4, <1>5, LabelsWait
<1>7. \A d \in Blocks : Waiting(d) \in Int /\ Len(postedLabels[d]) \in Int
  BY DEF Following
<1>8. \A d \in Blocks : Waiting(d)' = Waiting(d) + IF d = c THEN m ELSE 0
  BY <1>6, <1>7
<1>9. \A a \in Blocks : a # b => Pending(a)' = Pending(a)
  BY <1>1, <1>3 DEF Pending, Subscribers
<1>10. Pending(b) = pass[b].subscribers /\ Pending(b)' = pass[b].subscribers \ {c}
  BY <1>1, <1>3 DEF Pending
<1>11. ASSUME NEW d \in Blocks, HasSource(d)
       PROVE  Behind(d)' = Behind(d) + (IF Source[d] = c THEN m ELSE 0) - (IF d = c THEN m ELSE 0)
<2>1. Source[d] \in Blocks
  BY <1>11, Tree
<2>2. PICK w \in Int : w = Waiting(Source[d])
  BY <1>7, <2>1
<2>3. PICK p \in Int : p = IF d \in Pending(Source[d]) THEN Len(postedLabels[Source[d]]) ELSE 0
<3>1. Len(postedLabels[Source[d]]) \in Int
  BY <1>7, <2>1
<3>2. PICK x \in Int : x = Len(postedLabels[Source[d]])
  BY <3>1
<3>3. (IF d \in Pending(Source[d]) THEN x ELSE 0) \in Int
  BY <3>2
<3>4. (IF d \in Pending(Source[d]) THEN x ELSE 0) = IF d \in Pending(Source[d]) THEN Len(postedLabels[Source[d]]) ELSE 0
  BY <3>2
<3>5. QED BY <3>3, <3>4
<2>4. PICK q \in Int : q = IF d \in Pending(Source[d])' THEN Len(postedLabels[Source[d]]) ELSE 0
<3>1. Len(postedLabels[Source[d]]) \in Int
  BY <1>7, <2>1
<3>2. PICK x \in Int : x = Len(postedLabels[Source[d]])
  BY <3>1
<3>3. (IF d \in Pending(Source[d])' THEN x ELSE 0) \in Int
  BY <3>2
<3>4. (IF d \in Pending(Source[d])' THEN x ELSE 0) = IF d \in Pending(Source[d])' THEN Len(postedLabels[Source[d]]) ELSE 0
  BY <3>2
<3>5. QED BY <3>3, <3>4
<2>5. Behind(d) = w + p
  BY <2>2, <2>3 DEF Behind
<2>6. Behind(d)' = (w + IF Source[d] = c THEN m ELSE 0) + q
<3>1. Behind(d)' = Waiting(Source[d])' + q
  BY <1>1, <2>4 DEF Behind
<3>2. QED BY <1>8, <2>1, <2>2, <3>1
<2>7. CASE d = c
<3>1. Source[d] # c /\ p = m /\ q = 0
  BY <1>0, <1>2, <1>5, <1>10, <2>3, <2>4, <2>7
<3>2. QED BY <2>5, <2>6, <2>7, <3>1
<2>8. CASE d # c
<3>1. q = p
<4>1. d \in Pending(Source[d])' <=> d \in Pending(Source[d])
  BY <1>9, <1>10, <2>1, <2>8
<4>2. QED BY <2>3, <2>4, <4>1
<3>2. QED BY <2>5, <2>6, <2>8, <3>1
<2>9. QED BY <2>7, <2>8
<1>12. MaxLabels - left'.labels = MaxLabels - left.labels + IF ~HasSource(c) THEN m ELSE 0
<2>1. MaxLabels - left.labels \in Int
  BY DEF Following
<2>2. QED BY <1>1, <1>2, <2>1
<1>13. QED BY <1>1, <1>2, <1>8, <1>11, <1>12, LabelsCome

\* The origins of labels passed on by a block that delivers them
LEMMA OriginsAre ==
    ASSUME NEW queue \in Seq(LabelRecords)
    PROVE  LET origins == [i \in DOMAIN queue |-> queue[i].origin]
           IN  /\ origins \in Seq(Nat) /\ Len(origins) = Len(queue)
               /\ \A i \in 1..Len(queue) : origins[i] = queue[i].origin
<1> DEFINE origins == [i \in DOMAIN queue |-> queue[i].origin]
<1>1. /\ DOMAIN queue = 1..Len(queue) /\ Len(queue) \in Nat
      /\ \A i \in 1..Len(queue) : queue[i].origin \in Nat
  BY LabelIs
<1>2. \A i \in 1..Len(queue) : origins[i] = queue[i].origin /\ origins[i] \in Nat
  BY <1>1
<1>3. DOMAIN origins = 1..Len(queue) /\ origins = [i \in 1..Len(queue) |-> origins[i]]
  BY <1>1
<1> HIDE DEF origins
<1>4. origins \in Seq(Nat) /\ Len(origins) = Len(queue)
  BY <1>1, <1>2, <1>3
<1>5. QED BY <1>2, <1>4 DEF origins

\* Origins in order, of elements now consumed, follow those of elements consumed
\* before.
LEMMA DeliveredJoin ==
    ASSUME NEW p \in Seq(Nat), NEW q \in Seq(Nat), NEW x \in Nat, NEW n \in Nat,
           \A i, j \in 1..Len(p) : i < j => p[i] < p[j],
           \A i, j \in 1..Len(q) : i < j => q[i] < q[j],
           \A i \in 1..Len(p) : p[i] < x,
           \A i \in 1..Len(q) : x <= q[i] /\ q[i] < x + n
    PROVE  /\ Len(p \o q) = Len(p) + Len(q) /\ p \o q \in Seq(Nat)
           /\ \A i, j \in 1..Len(p \o q) : i < j => (p \o q)[i] < (p \o q)[j]
           /\ \A i \in 1..Len(p \o q) : (p \o q)[i] < x + n
<1>1. /\ Len(p \o q) = Len(p) + Len(q) /\ p \o q \in Seq(Nat)
      /\ \A i \in 1..Len(p \o q) :
            \/ i \in 1..Len(p) /\ (p \o q)[i] = p[i]
            \/ i - Len(p) \in 1..Len(q) /\ (p \o q)[i] = q[i - Len(p)] /\ i \notin 1..Len(p)
  BY ConcatProperties
<1>2. /\ Len(p) \in Nat /\ Len(q) \in Nat
      /\ \A i \in 1..Len(p) : p[i] \in Nat
      /\ \A i \in 1..Len(q) : q[i] \in Nat
  BY LenProperties, ElementOfSeq
<1>3. ASSUME NEW i \in 1..Len(p \o q), NEW j \in 1..Len(p \o q), i < j
      PROVE  (p \o q)[i] < (p \o q)[j]
<2>0. i \in Nat /\ j \in Nat
  BY <1>1, <1>2
<2>1. CASE i \in 1..Len(p) /\ j \in 1..Len(p)
  BY <1>1, <1>3, <2>0, <2>1
<2>2. CASE i \in 1..Len(p) /\ j \notin 1..Len(p)
<3>1. (p \o q)[i] = p[i] /\ j - Len(p) \in 1..Len(q) /\ (p \o q)[j] = q[j - Len(p)]
  BY <1>1, <2>2
<3>2. p[i] < x /\ x <= q[j - Len(p)] /\ p[i] \in Nat /\ q[j - Len(p)] \in Nat
  BY <1>2, <2>2, <3>1
<3>3. QED BY <3>1, <3>2
<2>3. CASE i \notin 1..Len(p)
<3>1. j \notin 1..Len(p)
  BY <1>1, <1>2, <1>3, <2>0, <2>3
<3>2. /\ i - Len(p) \in 1..Len(q) /\ (p \o q)[i] = q[i - Len(p)]
      /\ j - Len(p) \in 1..Len(q) /\ (p \o q)[j] = q[j - Len(p)]
  BY <1>1, <2>3, <3>1
<3>3. i - Len(p) < j - Len(p)
  BY <1>2, <1>3, <2>0
<3>4. QED BY <3>2, <3>3
<2>4. QED BY <2>1, <2>2, <2>3
<1>4. ASSUME NEW i \in 1..Len(p \o q) PROVE (p \o q)[i] < x + n
<2>1. CASE i \in 1..Len(p) /\ (p \o q)[i] = p[i]
<3>1. p[i] < x /\ p[i] \in Nat
  BY <1>2, <2>1
<3>2. QED BY <2>1, <3>1
<2>2. CASE i - Len(p) \in 1..Len(q) /\ (p \o q)[i] = q[i - Len(p)]
  BY <2>2
<2>3. QED BY <1>1, <2>1, <2>2
<1>5. QED BY <1>1, <1>3, <1>4

\* As many labels as leave the port of a block are posted or delivered.
LEMMA PostWorkInputsDelivers ==
    ASSUME TypesAndCounts, AllMarked, Following, Following', AllDeliver,
           NEW b \in Blocks, PostWorkInputs(b)
    PROVE  AllDeliver'
<1> USE DEF TypesAndCounts
<1> DEFINE k == NumPassed(b)
           old == labels[b]
           L == Len(labels[b])
           rest == SubSeq(Adjusted(b), k + 1, L)
           passed == PassedLabels(b)
           to == IF HasOutput(b) THEN "post" ELSE "idle"
           origins == [i \in DOMAIN passed |-> passed[i].origin]
<1>1. PICK n \in Nat : n = pass[b].consume
  BY PassIs
<1>2. /\ Goto(b, "consume", to)
      /\ labels' = [labels EXCEPT ![b] = rest]
      /\ inputLabels' = [inputLabels EXCEPT ![b] = Shifted(b)]
      /\ consumed' = [consumed EXCEPT ![b] = @ + n]
      /\ pass' = [pass EXCEPT ![b] = IF HasOutput(b) THEN Propagated(b) ELSE NoPass]
      /\ postedLabels' = IF HasOutput(b)
                         THEN [postedLabels EXCEPT ![b] = @ \o Widened(passed)]
                         ELSE postedLabels
      /\ delivered' = IF HasOutput(b) THEN delivered
                      ELSE [delivered EXCEPT ![b] = @ \o origins]
      /\ left' = left
  BY <1>1 DEF PostWorkInputs, Widened
<1>3. pc[b] = "consume" /\ pc'[b] = to /\ \A d \in Blocks : d # b => pc'[d] = pc[d]
<2>1. to \in States
  BY DEF States
<2> HIDE DEF to
<2>2. QED BY <1>2, <2>1, Went
<1>4. \A d \in Blocks : d # b => /\ labels'[d] = labels[d] /\ inputLabels'[d] = inputLabels[d]
                                 /\ consumed'[d] = consumed[d] /\ pass'[d] = pass[d]
                                 /\ postedLabels'[d] = postedLabels[d]
                                 /\ delivered'[d] = delivered[d]
  BY <1>2 DEF TypeOK
<1>5. labels'[b] = rest /\ inputLabels'[b] = Shifted(b) /\ consumed'[b] = consumed[b] + n
  BY <1>2 DEF TypeOK
<1>6. InMarks(b) /\ OutMarks(b) /\ LabelsTyped(b) /\ Delivers(b)
  BY LabelsAreTyped DEF AllMarked, AllDeliver
<1>7. PICK x \in Nat : x = consumed[b]
  BY <1>6 DEF LabelsTyped
<1>8. PICK new \in Seq(LabelRecords) : new = inputLabels[b]
  BY <1>6 DEF LabelsTyped
<1>9. Marks(old, x, 1, x, arrived[b]) /\ Ascends(old) /\ old \in Seq(LabelRecords) /\ L \in Nat
  BY <1>6, <1>7, LabelIs DEF InMarks, LabelsTyped
<1>10. Len(Shifted(b)) = Len(new)
  BY <1>1, <1>6, <1>8, ShiftedAre DEF LabelsTyped
<1>11. /\ k \in 0..L
       /\ passed \in Seq(LabelRecords) /\ Len(passed) = k
       /\ \A i \in 1..k : passed[i].origin = old[i].origin /\ old[i].index < n
       /\ Len(rest) = L - k
  BY <1>1, <1>6, LabelsAreSplit
<1>12. origins \in Seq(Nat) /\ Len(origins) = k /\ \A i \in 1..k : origins[i] = passed[i].origin
<2> HIDE DEF passed
<2>1. QED BY <1>11, OriginsAre
<1>13. PICK w \in Int : w = Waiting(b) /\ Waiting(b)' = w - k
<2>1. PICK m \in Nat : m = Len(new)
  BY LabelIs
<2>2. Waiting(b) = m + L
  BY <1>8, <2>1 DEF Waiting
<2> HIDE DEF k, L, rest
<2>3. Waiting(b)' = m + (L - k)
  BY <1>5, <1>10, <1>11, <2>1 DEF Waiting
<2>4. (m + L) - k = m + (L - k) /\ m + L \in Int
  BY <1>9, <1>11
<2>5. QED BY <2>2, <2>3, <2>4
<1> HIDE DEF k, L, old, rest, passed, origins
<1>14. \A d \in Blocks : d # b => Waiting(d)' = Waiting(d) /\ Pending(d)' = Pending(d)
  BY <1>3, <1>4 DEF Waiting, Pending, Subscribers
<1>15. ASSUME NEW d \in Blocks, HasSource(d), Source[d] # b PROVE Behind(d)' = Behind(d)
<2>1. Source[d] \in Blocks
  BY <1>15, Tree
<2>2. QED BY <1>4, <1>14, <1>15, <2>1 DEF Behind
<1>16. ASSUME NEW d \in Blocks, HasSource(d), Source[d] = b PROVE Behind(d)' = Behind(d)
<2>1. d \in Subscribers(b) /\ HasOutput(b)
  BY <1>16 DEF Subscribers, HasOutput
<2>2. pc'[b] = "post" /\ d \in Pending(b)' /\ d \in Pending(b)
<3>1. pc'[b] = "post"
  BY <1>3, <2>1
<3>2. Pending(b)' = Subscribers(b) /\ Pending(b) = Subscribers(b)
  BY <1>3, <3>1 DEF Pending, Subscribers
<3>3. QED BY <2>1, <3>1, <3>2
<2>3. PICK wide \in Seq(LabelRecords) : wide = Widened(passed) /\ Len(wide) = k
  BY <1>11, WidenedAre
<2>4. postedLabels[b] = <<>> /\ postedLabels'[b] = wide
<3>1. postedLabels[b] = <<>>
  BY <1>3, <1>6 DEF OutMarks
<3>2. postedLabels' = [postedLabels EXCEPT ![b] = @ \o wide]
  BY <1>2, <2>1, <2>3
<3>3. <<>> \o wide = wide
  BY <2>3, ConcatEmptySeq
<3>4. QED BY <3>1, <3>2, <3>3 DEF TypeOK
<2>5. Behind(d) = w + 0
<3>1. Len(postedLabels[b]) = 0
  BY <2>4
<3>2. QED BY <1>13, <1>16, <2>2, <3>1 DEF Behind
<2>6. Behind(d)' = (w - k) + k
<3>1. Len(postedLabels'[b]) = k
  BY <2>3, <2>4
<3>2. QED BY <1>13, <1>16, <2>2, <3>1 DEF Behind
<2>7. k \in Int
  BY <1>9, <1>11
<2>8. QED BY <2>5, <2>6, <2>7
<1>17. \A d \in Blocks : Arrivals'[d] = Arrivals[d]
<2>1. \A d \in Blocks : HasSource(d) => Behind(d)' = Behind(d)
  BY <1>15, <1>16
<2>2. left'.labels = left.labels
  BY <1>2
<2>3. QED BY <2>1, <2>2, NoneArrives
<1>18. ASSUME NEW d \in Blocks, d # b PROVE Delivers(d)'
<2>1. Delivers(d) /\ delivered'[d] = delivered[d] /\ consumed'[d] = consumed[d]
  BY <1>4, <1>18 DEF AllDeliver
<2>2. Arrivals'[d] - Waiting(d)' = Arrivals[d] - Waiting(d)
  BY <1>14, <1>17, <1>18
<2>3. QED BY <2>1, <2>2, DeliversOnly
<1>19. HasOutput(b)' = HasOutput(b)
  BY DEF HasOutput, Subscribers
<1>20. ASSUME ~HasOutput(b) PROVE Delivers(b)'
<2>1. PICK p \in Seq(Nat) : p = delivered[b]
  BY DEF TypeOK
<2>2. delivered'[b] = p \o origins
  BY <1>2, <1>20, <2>1 DEF TypeOK
<2>3. /\ Len(p) = Arrivals[b] - w
      /\ \A i, j \in 1..Len(p) : i < j => p[i] < p[j]
      /\ \A i \in 1..Len(p) : p[i] < x
  BY <1>6, <1>7, <1>13, <1>20, <2>1 DEF Delivers
<2>4. ASSUME NEW i \in 1..Len(origins) PROVE x <= origins[i] /\ origins[i] < x + n
<3>1. i \in 1..k /\ i \in 1..L
  BY <1>9, <1>11, <1>12
<3>2. PICK z \in Nat : z = old[i].origin
  BY <1>9, <3>1, LabelIs DEF L, old
<3>3. old[i].index = (z - x) * 1 /\ x <= z
  BY <1>9, <3>1, <3>2 DEF Marks, L, old
<3>4. (z - x) * 1 < n
  BY <1>11, <3>1, <3>3
<3>5. z < x + n
  BY <3>4
<3>6. origins[i] = z
  BY <1>11, <1>12, <3>1, <3>2
<3>7. QED BY <3>3, <3>5, <3>6
<2>5. ASSUME NEW i \in 1..Len(origins), NEW j \in 1..Len(origins), i < j
      PROVE  origins[i] < origins[j]
<3>1. i \in 1..k /\ j \in 1..k /\ i \in 1..L /\ j \in 1..L
  BY <1>9, <1>11, <1>12
<3>2. old[i].origin < old[j].origin
  BY <1>9, <2>5, <3>1 DEF Ascends, L, old
<3>3. origins[i] = old[i].origin /\ origins[j] = old[j].origin
  BY <1>11, <1>12, <3>1
<3>4. QED BY <3>2, <3>3
<2>6. /\ Len(p \o origins) = Len(p) + Len(origins)
      /\ \A i, j \in 1..Len(p \o origins) : i < j => (p \o origins)[i] < (p \o origins)[j]
      /\ \A i \in 1..Len(p \o origins) : (p \o origins)[i] < x + n
  BY <1>12, <2>3, <2>4, <2>5, DeliveredJoin
<2>7. Len(p \o origins) = Arrivals'[b] - Waiting(b)'
<3>1. PICK a \in Int : a = Arrivals[b]
  BY DEF Following
<3>2. k \in Int
  BY <1>9, <1>11
<3>3. (a - w) + k = a - (w - k)
  BY <3>2
<3>4. Len(p \o origins) = (a - w) + k
  BY <1>12, <2>3, <2>6, <3>1
<3>5. Arrivals'[b] - Waiting(b)' = a - (w - k)
  BY <1>13, <1>17, <3>1
<3>6. QED BY <3>3, <3>4, <3>5
<2>8. consumed'[b] = x + n
  BY <1>5, <1>7
<2>9. QED BY <2>2, <2>6, <2>7, <2>8 DEF Delivers
<1>21. Delivers(b)'
  BY <1>19, <1>20 DEF Delivers
<1>22. QED BY <1>18, <1>21 DEF AllDeliver

LEMMA InitDelivers == Init => AllDeliver
<1> SUFFICES ASSUME Init PROVE AllDeliver
  OBVIOUS
<1>1. Following
  BY ArrivalsFollow, InitTypes DEF TypesAndCounts
<1>2. \A b \in Blocks : /\ inputLabels[b] = <<>> /\ labels[b] = <<>> /\ postedLabels[b] = <<>>
                        /\ delivered[b] = <<>>
  BY DEF Init
<1>3. MaxLabels - left.labels = 0
<2>1. left.labels = MaxLabels /\ MaxLabels \in Nat
  BY BudgetAssumption DEF Init
<2>2. QED BY <2>1
<1>4. \A b \in Blocks : Waiting(b) = 0
<2>1. Len(<<>>) + Len(<<>>) = 0
  OBVIOUS
<2>2. ASSUME NEW b \in Blocks PROVE Waiting(b) = 0
<3>1. inputLabels[b] = <<>> /\ labels[b] = <<>>
  BY <1>2
<3>2. QED BY <2>1, <3>1 DEF Waiting
<2>3. QED BY <2>2
<1>5. \A b \in Blocks : HasSource(b) => Behind(b) = 0
<2>1. ASSUME NEW b \in Blocks, HasSource(b) PROVE Behind(b) = 0
<3>1. Source[b] \in Blocks
  BY <2>1, Tree
<3>2. Waiting(Source[b]) = 0 /\ Len(postedLabels[Source[b]]) = 0
  BY <1>2, <1>4, <3>1
<3>3. QED BY <3>2 DEF Behind
<2>2. QED BY <2>1
<1>6. \A b \in Blocks : Arrivals[b] = 0
<2> DEFINE none == [b \in Blocks |-> 0]
<2>1. \A b \in Blocks : none[b] = IF ~HasSource(b) THEN 0 ELSE none[Source[b]] - none[b]
  BY Tree
<2>2. Counted(0, none, Arrivals)
<3>1. \A b \in Blocks : Arrivals[b] = IF ~HasSource(b) THEN 0 ELSE Arrivals[Source[b]] - none[b]
  BY <1>1, <1>3, <1>5 DEF Following
<3>2. QED BY <1>1, <3>1 DEF Counted, Following
<2>3. none \in [Blocks -> Int] /\ 0 \in Int
  OBVIOUS
<2>4. \A b \in Blocks : none[b] = 0
  OBVIOUS
<2> HIDE DEF none
<2>5. QED BY <2>1, <2>2, <2>3, <2>4, CountedAreOne
<1>7. ASSUME NEW b \in Blocks PROVE Delivers(b)
<2>1. Len(delivered[b]) = 0 /\ Arrivals[b] - Waiting(b) = 0
  BY <1>2, <1>4, <1>6
<2>2. \A i \in 1..Len(delivered[b]) : FALSE
  BY <2>1
<2>3. QED BY <2>1, <2>2 DEF Delivers
<1>8. QED BY <1>7 DEF AllDeliver

LEMMA DeliversKept ==
    ASSUME TypesAndCounts, AllMarked, Following, Following', AllDeliver, [Next]_vars
    PROVE  AllDeliver'
<1>1. CASE PushMessage \/ SlotCallsPush \/ UNCHANGED vars
  BY <1>1, OutsideDelivers
<1>2. CASE PushBuffer
  BY <1>2, PushBufferDelivers
<1>3. ASSUME NEW b \in Blocks, EmitSignal(b) \/ SetActiveStateOn(b) \/ SetActiveStateOff(b)
      PROVE  AllDeliver'
  BY <1>3, OutsideDelivers
<1>4. ASSUME NEW b \in Blocks, WorkerStep(b) PROVE AllDeliver'
<2>1. CASE StartPass(b) \/ PreWorkOutputs(b)
  BY <2>1, StartPassDelivers
<2>2. CASE PreWorkInputs(b) \/ Work(b)
  BY <2>2, PreWorkInputsDelivers, WorkDelivers
<2>3. CASE PostWorkInputs(b) \/ PostWorkOutputs(b)
  BY <2>3, PostWorkInputsDelivers, PostWorkOutputsDelivers
<2>4. CASE PushToSubscriber(b) \/ EndPass(b)
  BY <2>4, PushToSubscriberDelivers, EndPassDelivers
<2>5. QED BY <1>4, <2>1, <2>2, <2>3, <2>4 DEF WorkerStep
<1>5. QED BY <1>1, <1>2, <1>3, <1>4 DEF Next

LEMMA DeliveredFollow == TypeOK /\ AllMarked /\ AllDeliver => LabelsDeliveredOnce
<1> SUFFICES ASSUME TypeOK, AllMarked, AllDeliver PROVE LabelsDeliveredOnce
  OBVIOUS
<1>1. ASSUME NEW b \in Blocks, ~HasOutput(b)
      PROVE  /\ Len(delivered[b]) = Arrivals[b] - Waiting(b)
             /\ \A i, j \in DOMAIN delivered[b] : i < j => delivered[b][i] < delivered[b][j]
             /\ \A l \in Range(delivered[b]) : l < consumed[b]
<2>1. Delivers(b) /\ delivered[b] \in Seq(Nat)
  BY DEF AllDeliver, TypeOK
<2>2. DOMAIN delivered[b] = 1..Len(delivered[b])
  BY <2>1, LenProperties
<2>3. ASSUME NEW l \in Range(delivered[b]) PROVE l < consumed[b]
<3>1. PICK i \in 1..Len(delivered[b]) : delivered[b][i] = l
  BY <2>1, RangeIs
<3>2. QED BY <1>1, <2>1, <3>1 DEF Delivers
<2>4. QED BY <1>1, <2>1, <2>2, <2>3 DEF Delivers
<1>2. ASSUME NEW b \in Blocks, NEW l \in Range(labels[b]) PROVE l.origin >= consumed[b]
<2>1. LabelsTyped(b) /\ InMarks(b)
  BY LabelsAreTyped DEF AllMarked
<2>2. PICK i \in 1..Len(labels[b]) : labels[b][i] = l
  BY <2>1, RangeIs DEF LabelsTyped
<2>3. l.origin \in Nat /\ consumed[b] \in Nat
  BY <2>1, <2>2, LabelIs DEF LabelsTyped
<2>4. consumed[b] <= l.origin
  BY <2>1, <2>2 DEF InMarks, Marks
<2>5. QED BY <2>3, <2>4
<1>3. QED BY <1>1, <1>2 DEF LabelsDeliveredOnce

\* Of all labels that came into the first block those that are not still on
\* the way have come out at each block without output, once, in the order of
\* their elements and with them: for any tree in which the blocks that pass
\* labels on produce what they consume.
THEOREM LabelsComeOnce ==
    ASSUME \A b \in Blocks : HasOutput(b) => Decimation[b] = 1
    PROVE  Spec => []LabelsDeliveredOnce
<1>1. TypesAndCounts => Following
  BY ArrivalsFollow DEF TypesAndCounts
<1>2. TypesAndCounts /\ AllMarked /\ [Next]_vars => AllMarked'
  BY MarksKept
<1>3. TypesAndCounts /\ AllMarked /\ Following /\ Following' /\ AllDeliver /\ [Next]_vars => AllDeliver'
  BY DeliversKept
<1>4. TypesAndCounts /\ AllMarked /\ AllDeliver => LabelsDeliveredOnce
  BY DeliveredFollow DEF TypesAndCounts
<1>5. Spec => []AllMarked
  BY <1>2, InitMarks, AlwaysTypesAndCounts, PTL DEF Spec
<1>6. Spec => []Following
  BY <1>1, AlwaysTypesAndCounts, PTL
<1>7. Spec => []AllDeliver
  BY <1>3, <1>5, <1>6, InitDelivers, AlwaysTypesAndCounts, PTL DEF Spec
<1>8. QED BY <1>4, <1>5, <1>7, AlwaysTypesAndCounts, PTL
=============================================================================
