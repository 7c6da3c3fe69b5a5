-------------------------- MODULE BufferFlowProofs --------------------------
(***************************************************************************)
(* Proofs about BufferFlow: slabs are conserved and come back in turn,     *)
(* nobody writes into what a reader has, the stream stays intact, and a    *)
(* block with nothing left to read never starves its upstream block.       *)
(***************************************************************************)
EXTENDS BufferFlow, SequenceTheorems, FiniteSetTheorems, WellFoundedInduction, TLAPS

(***************************************************************************)
(* Numbers                                                                 *)
(***************************************************************************)

\* A set of numbers that is not empty has a least one.
LEMMA LeastElement ==
    ASSUME NEW S \in SUBSET Nat, S # {}
    PROVE  \E m \in S : \A x \in S : m <= x
<1> DEFINE Below == {1..x : x \in S}
<1>1. Below \subseteq FiniteSubsetsOf(Nat) /\ Below # {}
<2>1. \A x \in S : IsFiniteSet(1..x) /\ 1..x \subseteq Nat
  BY FS_Interval
<2>2. QED BY <2>1 DEF FiniteSubsetsOf
<1>2. PICK B \in Below : \A C \in Below : <<C, B>> \notin StrictSubsetOrdering(Nat)
  BY <1>1, FS_StrictSubsetOrderingWellFounded, WFMin
<1>3. PICK m \in S : B = 1..m
  OBVIOUS
<1>4. ASSUME NEW x \in S, x < m PROVE FALSE
<2>1. 1..x \in Below /\ 1..x \subseteq 1..m /\ m \in 1..m /\ m \notin 1..x
  BY <1>4
<2>2. <<1..x, B>> \in StrictSubsetOrdering(Nat)
  BY <2>1, <1>3 DEF StrictSubsetOrdering
<2>3. QED BY <2>1, <2>2, <1>2
<1>5. \A x \in S : m <= x
  BY <1>4
<1>6. QED BY <1>5

LEMMA ModRange ==
    ASSUME NEW x \in Int, NEW L \in Nat \ {0}
    PROVE  x % L \in 0..(L - 1)
OBVIOUS

LEMMA ModQuotient ==
    ASSUME NEW x \in Int, NEW L \in Nat \ {0}
    PROVE  \E k \in Int : x = L * k + (x % L)
<1>1. x \div L \in Int
  OBVIOUS
<1>2. x = L * (x \div L) + (x % L)
  OBVIOUS
<1>3. QED BY <1>1, <1>2

LEMMA ModUnique ==
    ASSUME NEW L \in Nat \ {0}, NEW k \in Int, NEW r \in 0..(L - 1)
    PROVE  (L * k + r) % L = r
OBVIOUS

LEMMA ModSmall ==
    ASSUME NEW L \in Nat \ {0}, NEW r \in 0..(L - 1)
    PROVE  r % L = r
OBVIOUS

\* Remainders may be taken before or after a sum or difference.
LEMMA ModLinear ==
    ASSUME NEW L \in Nat \ {0}, NEW a \in Int, NEW b \in Int, NEW d \in Int
    PROVE  ((a % L) - (b % L) + d) % L = (a - b + d) % L
<1>1. PICK k \in Int : a = L * k + (a % L)
  BY ModQuotient
<1>2. PICK j \in Int : b = L * j + (b % L)
  BY ModQuotient
<1> DEFINE x == (a % L) - (b % L) + d
<1>3. a % L \in 0..(L - 1) /\ b % L \in 0..(L - 1) /\ x \in Int
  BY ModRange
<1>4. PICK i \in Int : x = L * i + (x % L)
  BY ModQuotient, <1>3
<1>5. x % L \in 0..(L - 1)
  BY ModRange, <1>3
<1>6. a - b + d = L * (k - j + i) + (x % L)
<2>1. L * (k - j + i) = L * k - L * j + L * i
  OBVIOUS
<2>2. PICK A \in Int : A = L * k
  OBVIOUS
<2>3. PICK B \in Int : B = L * j
  OBVIOUS
<2>4. PICK C \in Int : C = L * i
  OBVIOUS
<2>5. PICK P \in Int : P = a % L
  BY <1>3
<2>6. PICK R \in Int : R = b % L
  BY <1>3
<2>7. PICK T \in Int : T = x % L
  BY <1>5
<2>8. a = A + P /\ b = B + R /\ P - R + d = C + T
  BY <1>1, <1>2, <1>4, <2>2, <2>3, <2>4, <2>5, <2>6, <2>7
<2>9. a - b + d = A - B + C + T
  BY <2>8
<2>10. QED BY <2>9, <2>1, <2>2, <2>3, <2>4, <2>7
<1>7. (L * (k - j + i) + (x % L)) % L = x % L
  BY <1>5, ModUnique
<1>8. QED BY <1>6, <1>7

LEMMA ModPlus ==
    ASSUME NEW L \in Nat \ {0}, NEW a \in Int, NEW d \in Int
    PROVE  ((a % L) + d) % L = (a + d) % L
<1>1. PICK z \in Int : z = 0 /\ z % L = 0
  BY ModSmall
<1>2. ((a % L) - (z % L) + d) % L = (a - z + d) % L
  BY ModLinear
<1>3. a % L \in Int
  BY ModRange
<1>4. (a % L) - (z % L) + d = (a % L) + d /\ a - z + d = a + d
  BY <1>1, <1>3
<1>5. QED BY <1>2, <1>4

LEMMA ModWrap ==
    ASSUME NEW L \in Nat \ {0}, NEW x \in L..(2 * L - 1)
    PROVE  x % L = x - L
<1>1. x = L * 1 + (x - L) /\ x - L \in 0..(L - 1)
  OBVIOUS
<1>2. QED BY <1>1, ModUnique

LEMMA ModBelow ==
    ASSUME NEW L \in Nat \ {0}, NEW x \in (0 - L)..(0 - 1)
    PROVE  x % L = x + L
<1>1. x = L * (0 - 1) + (x + L) /\ x + L \in 0..(L - 1) /\ 0 - 1 \in Int
  OBVIOUS
<1>2. QED BY <1>1, ModUnique

(***************************************************************************)
(* Slabs in turn                                                           *)
(***************************************************************************)

ChunkRecords == [mem : {Ring, Nowhere} \cup PoolBuffers, address : Nat, length : Nat,
                 base : Nat, size : Nat, slab : Slabs \cup {0}]

ManagerRecords == [ready : Seq(Slabs), pushed : SUBSET Slabs, indexToAck : Slabs,
                   frontAddress : 0..(RingLength - 1), bytesToPop : 0..(SlabSize - 1),
                   front : ChunkRecords]

\* The number of a slab, counted over the end of the ring
Turn(x) == IF x >= 1 THEN x ELSE x + NumSlabs

\* The slab that is at the front, or will be next
NextSlab(m) == IF m.ready = <<>> THEN m.indexToAck ELSE Head(m.ready)

\* How many slabs have come to the front since slab s did: 0 for the one at the
\* front, and as many as there are for the one whose turn it is if none is ready
Age(m, s) ==
    IF m.ready = <<>>
    THEN IF s < m.indexToAck THEN m.indexToAck - s ELSE m.indexToAck - s + NumSlabs
    ELSE IF s <= Head(m.ready) THEN Head(m.ready) - s ELSE Head(m.ready) - s + NumSlabs

\* Where in the stream the slab at the front begins, or the next one will, when
\* n bytes have been produced
FrontStart(m, n) == n - m.bytesToPop

FrontOf(m) ==
    IF m.ready = <<>> THEN NullChunk
    ELSE [mem |-> Ring, address |-> m.frontAddress + m.bytesToPop,
          length |-> SlabSize - m.bytesToPop,
          base |-> m.frontAddress, size |-> SlabSize, slab |-> Head(m.ready)]

\* SlabsConserved, of any manager and set of slabs kept alive
Conserved(m, alive) ==
    /\ Range(m.ready) \cup m.pushed \cup alive = Slabs
    /\ m.pushed \cap (Range(m.ready) \cup alive) = {}
    /\ \A i \in 2..Len(m.ready) : m.ready[i] \notin alive

\* The manager's part of the inductive invariant: n bytes have been produced,
\* and these slabs are kept alive.
ManagerFits(m, n, alive) ==
    /\ m \in ManagerRecords
    /\ Len(m.ready) <= NumSlabs
    /\ \A i \in 1..Len(m.ready) : m.ready[i] = Turn(m.indexToAck - Len(m.ready) + i - 1)
    /\ m.indexToAck \notin m.pushed
    /\ m.bytesToPop <= n
    /\ m.frontAddress = FrontStart(m, n) % RingLength
    /\ m.front = FrontOf(m)
    /\ m.ready = <<>> => m.bytesToPop = 0
    /\ Conserved(m, alive)
    /\ m.ready # <<>> /\ m.bytesToPop = 0 => Head(m.ready) \notin alive

LEMMA Constants ==
    /\ NumSlabs \in Nat /\ NumSlabs >= 1
    /\ SlabSize \in Nat /\ SlabSize >= 1
    /\ RingLength \in Nat /\ RingLength >= 1
    /\ PoolSize \in Nat /\ PoolSize >= 1
    /\ SlabSize <= RingLength
    /\ Slabs = 1..NumSlabs
<1>1. /\ NumSlabs \in Nat \ {0} /\ SlabSize \in Nat \ {0}
      /\ RingLength \in Nat \ {0} /\ PoolSize \in Nat \ {0} /\ RingLength = NumSlabs * SlabSize
  BY SlabAssumption, MemoryAssumption
<1>2. ASSUME NEW a \in Nat \ {0}, NEW b \in Nat \ {0} PROVE b <= a * b
  OBVIOUS
<1>3. SlabSize <= RingLength
  BY <1>1, <1>2
<1>4. QED BY <1>1, <1>3 DEF Slabs

\* The slabs of a few turns end before the rest of the ring.
LEMMA AgeBound ==
    ASSUME NEW a \in Int, a <= NumSlabs - 1
    PROVE  /\ a * SlabSize \in Int
           /\ a * SlabSize <= RingLength - SlabSize
           /\ (a + 1) * SlabSize = a * SlabSize + SlabSize
<1>1. ASSUME NEW n \in Nat, NEW b \in Nat, a <= n - 1
      PROVE  a * b \in Int /\ (a + 1) * b = a * b + b /\ a * b <= n * b - b
<2>1. a * b \in Int /\ (a + 1) * b = a * b + b
  OBVIOUS
<2>2. (n - 1) * b = n * b - b
  OBVIOUS
<2>3. n - 1 - a \in Nat
  BY <1>1
<2>4. (n - 1 - a) * b \in Nat
  BY <2>3
<2>5. (n - 1 - a) * b = (n - 1) * b - a * b
  OBVIOUS
<2>6. PICK x \in Int, y \in Int, z \in Int : x = (n - 1 - a) * b /\ y = (n - 1) * b /\ z = a * b
  OBVIOUS
<2>7. QED BY <2>1, <2>2, <2>4, <2>5, <2>6
<1>2. RingLength = NumSlabs * SlabSize /\ NumSlabs \in Nat /\ SlabSize \in Nat
  BY SlabAssumption, MemoryAssumption
<1>3. QED BY <1>1, <1>2

LEMMA InTurnIs ==
    ASSUME NEW m, m.indexToAck \in Slabs, NEW k \in 0..NumSlabs
    PROVE  InTurn(m, k) = IF m.indexToAck + k <= NumSlabs
                          THEN m.indexToAck + k ELSE m.indexToAck + k - NumSlabs
<1>1. PICK t \in 1..NumSlabs : t = m.indexToAck
  BY Constants
<1>2. PICK x \in 0..(2 * NumSlabs - 1) : x = t - 1 + k
  BY Constants
<1>3. InTurn(m, k) = (x % NumSlabs) + 1
  BY <1>1, <1>2 DEF InTurn
<1>4. CASE x < NumSlabs
<2>1. NumSlabs \in Nat \ {0} /\ x \in 0..(NumSlabs - 1)
  BY <1>4, Constants
<2>2. x % NumSlabs = x
  BY <2>1, ModSmall
<2>3. InTurn(m, k) = x + 1
  BY <1>3, <2>2
<2>4. QED BY <1>1, <1>2, <1>4, <2>3, Constants
<1>5. CASE x >= NumSlabs
<2>1. NumSlabs \in Nat \ {0} /\ x \in NumSlabs..(2 * NumSlabs - 1)
  BY <1>5, Constants
<2>2. x % NumSlabs = x - NumSlabs
  BY <2>1, ModWrap
<2>3. InTurn(m, k) = x - NumSlabs + 1
  BY <1>3, <2>2
<2>4. QED BY <1>1, <1>2, <1>5, <2>3, Constants, SMTT(30)
<1>6. QED BY <1>2, <1>4, <1>5, Constants

LEMMA AckedIs ==
    ASSUME NEW m, m.indexToAck \in Slabs, NEW pushed \in SUBSET Slabs
    PROVE  \E c \in 0..NumSlabs :
              /\ \A i \in 0..(c - 1) : InTurn(m, i) \in pushed
              /\ c < NumSlabs => InTurn(m, c) \notin pushed
              /\ Acked(m, pushed) = [i \in 1..c |-> InTurn(m, i - 1)]
<1> DEFINE Stops == {k \in 0..NumSlabs : k < NumSlabs => InTurn(m, k) \notin pushed}
           Fits(k) == /\ \A i \in 0..(k - 1) : InTurn(m, i) \in pushed
                      /\ k < NumSlabs => InTurn(m, k) \notin pushed
<1>1. Stops \in SUBSET Nat /\ NumSlabs \in Stops
  BY Constants
<1>2. PICK c \in Stops : \A x \in Stops : c <= x
<2> HIDE DEF Stops
<2>1. QED BY <1>1, LeastElement
<1>3. c \in 0..NumSlabs /\ (c < NumSlabs => InTurn(m, c) \notin pushed)
  BY <1>2
<1>4. ASSUME NEW i \in 0..(c - 1) PROVE InTurn(m, i) \in pushed
<2>1. i \in 0..NumSlabs /\ i < NumSlabs /\ ~(c <= i)
  BY <1>3, Constants
<2>2. i \notin Stops
<3> HIDE DEF Stops
<3>1. QED BY <2>1, <1>2
<2>3. QED BY <2>1, <2>2
<1>5. Fits(c)
  BY <1>3, <1>4
<1>6. ASSUME NEW d \in 0..NumSlabs, Fits(d) PROVE d = c
<2>1. CASE d < c
<3>1. d \in 0..(c - 1) /\ d < NumSlabs
  BY <2>1, <1>3, Constants
<3>2. QED BY <3>1, <1>4, <1>6
<2>2. CASE c < d
<3>1. c \in 0..(d - 1) /\ c < NumSlabs
  BY <2>2, <1>3, Constants
<3>2. QED BY <3>1, <1>3, <1>6
<2>3. QED BY <2>1, <2>2, <1>3, Constants
<1>7. (CHOOSE k \in 0..NumSlabs : Fits(k)) = c
<2> HIDE DEF Fits
<2>1. QED BY <1>3, <1>5, <1>6
<1>8. Acked(m, pushed) = [i \in 1..c |-> InTurn(m, i - 1)]
  BY <1>7 DEF Acked
<1>9. QED BY <1>3, <1>4, <1>8

LEMMA ReadyFacts ==
    ASSUME NEW m, NEW n \in Nat, NEW alive, ManagerFits(m, n, alive)
    PROVE  /\ m.ready \in Seq(Slabs) /\ Len(m.ready) \in 0..NumSlabs
           /\ m.indexToAck \in 1..NumSlabs
           /\ \A i \in 1..Len(m.ready) : m.ready[i] \in 1..NumSlabs
           /\ \A i, j \in 1..Len(m.ready) : m.ready[i] = m.ready[j] => i = j
           /\ m.ready # <<>> => /\ Len(m.ready) >= 1
                                /\ Head(m.ready) = m.ready[1]
                                /\ Head(m.ready) = Turn(m.indexToAck - Len(m.ready))
<1>1. m.ready \in Seq(Slabs) /\ m.indexToAck \in 1..NumSlabs /\ Len(m.ready) <= NumSlabs
  BY Constants DEF ManagerFits, ManagerRecords
<1>2. Len(m.ready) \in 0..NumSlabs
  BY <1>1, Constants
<1>3. \A i \in 1..Len(m.ready) : m.ready[i] \in 1..NumSlabs
  BY <1>1, Constants, ElementOfSeq
<1>4. ASSUME NEW i \in 1..Len(m.ready), NEW j \in 1..Len(m.ready), m.ready[i] = m.ready[j]
      PROVE  i = j
<2>1. Turn(m.indexToAck - Len(m.ready) + i - 1) = Turn(m.indexToAck - Len(m.ready) + j - 1)
  BY <1>4 DEF ManagerFits
<2>2. PICK l \in 0..NumSlabs, t \in 1..NumSlabs : l = Len(m.ready) /\ t = m.indexToAck
  BY <1>1, <1>2
<2>3. i \in 1..l /\ j \in 1..l /\ Turn(t - l + i - 1) = Turn(t - l + j - 1)
  BY <2>1, <2>2
<2>4. PICK x \in Int, y \in Int : x = t - l + i - 1 /\ y = t - l + j - 1
  BY <2>2, <2>3
<2>5. (IF x >= 1 THEN x ELSE x + NumSlabs) = (IF y >= 1 THEN y ELSE y + NumSlabs)
  BY <2>3, <2>4 DEF Turn
<2>6. i \in 1..l /\ j \in 1..l /\ l <= NumSlabs /\ l \in Nat /\ NumSlabs \in Nat /\ t \in Nat
  BY <2>2, <2>3, Constants
<2>7. x - y = i - j
  BY <2>6, <2>4
<2>8. x - y < NumSlabs /\ y - x < NumSlabs
  BY <2>6, <2>7, <2>4
<2>9. x = y
  BY <2>6, <2>4, <2>5, <2>8
<2>10. QED BY <2>6, <2>7, <2>9
<1>5. ASSUME m.ready # <<>>
      PROVE  /\ Len(m.ready) >= 1
             /\ Head(m.ready) = m.ready[1]
             /\ Head(m.ready) = Turn(m.indexToAck - Len(m.ready))
<2>1. Len(m.ready) >= 1 /\ Head(m.ready) = m.ready[1]
  BY <1>1, <1>5, EmptySeq, LenProperties
<2>2. m.ready[1] = Turn(m.indexToAck - Len(m.ready) + 1 - 1)
  BY <2>1, <1>2 DEF ManagerFits
<2>3. m.indexToAck - Len(m.ready) + 1 - 1 = m.indexToAck - Len(m.ready)
  BY <1>1, <1>2
<2>4. QED BY <2>1, <2>2, <2>3
<1>6. QED BY <1>1, <1>2, <1>3, <1>4, <1>5

LEMMA FrontFacts ==
    ASSUME NEW m, NEW n \in Nat, NEW alive, ManagerFits(m, n, alive), m.ready # <<>>
    PROVE  /\ m.bytesToPop \in 0..(SlabSize - 1)
           /\ m.frontAddress \in 0..(RingLength - 1)
           /\ m.front.mem = Ring /\ m.front.address = m.frontAddress + m.bytesToPop
           /\ m.front.length = SlabSize - m.bytesToPop
           /\ m.front.base = m.frontAddress /\ m.front.size = SlabSize
           /\ m.front.slab = Head(m.ready)
           /\ m.front = [mem |-> Ring, address |-> m.frontAddress + m.bytesToPop,
                         length |-> SlabSize - m.bytesToPop,
                         base |-> m.frontAddress, size |-> SlabSize, slab |-> Head(m.ready)]
           /\ Age(m, Head(m.ready)) = 0
<1>1. m.bytesToPop \in 0..(SlabSize - 1) /\ m.frontAddress \in 0..(RingLength - 1)
  BY DEF ManagerFits, ManagerRecords
<1>2. m.front = [mem |-> Ring, address |-> m.frontAddress + m.bytesToPop,
                 length |-> SlabSize - m.bytesToPop,
                 base |-> m.frontAddress, size |-> SlabSize, slab |-> Head(m.ready)]
  BY DEF ManagerFits, FrontOf
<1>3. Head(m.ready) \in 1..NumSlabs
  BY ReadyFacts
<1>4. Age(m, Head(m.ready)) = 0
  BY <1>3, Constants DEF Age
<1>5. QED BY <1>1, <1>2, <1>4

\* pop() of fewer bytes than half of what is left: the slab stays at the front.
LEMMA PopStays ==
    ASSUME NEW m, NEW n \in Nat, NEW alive \in SUBSET Slabs, ManagerFits(m, n, alive),
           m.ready # <<>>, NEW k \in 1..m.front.length, m.front.length >= 2 * k
    PROVE  /\ ManagerFits(PopSlab(m, k), n + k, alive \cup {Head(m.ready)})
           /\ PopSlab(m, k).ready = m.ready
           /\ PopSlab(m, k).bytesToPop = m.bytesToPop + k
<1> DEFINE r == PopSlab(m, k)
<1>1. /\ m.ready \in Seq(Slabs) /\ m.pushed \in SUBSET Slabs /\ m.indexToAck \in Slabs
      /\ m \in ManagerRecords
  BY DEF ManagerFits, ManagerRecords
<1>2. PICK b \in 0..(SlabSize - 1), a \in 0..(RingLength - 1) : b = m.bytesToPop /\ a = m.frontAddress
  BY FrontFacts
<1>3. m.front = [mem |-> Ring, address |-> a + b, length |-> SlabSize - b,
                 base |-> a, size |-> SlabSize, slab |-> Head(m.ready)]
  BY FrontFacts, <1>2
<1>4. k \in 1..(SlabSize - b) /\ SlabSize - b >= 2 * k
  BY <1>3
<1>5. r = [m EXCEPT !.front.address = @ + k, !.front.length = @ - k, !.bytesToPop = @ + k]
  BY DEF PopSlab
<1>6. /\ m.front \in ChunkRecords /\ m.front.mem = Ring /\ m.front.address = a + b
      /\ m.front.length = SlabSize - b /\ m.front.base = a /\ m.front.size = SlabSize
      /\ m.front.slab = Head(m.ready)
  BY <1>1, <1>3 DEF ManagerRecords
<1>7. PICK f \in ChunkRecords : f = [m.front EXCEPT !.address = @ + k, !.length = @ - k]
<2>1. m.front.address + k \in Nat /\ m.front.length - k \in Nat
  BY <1>6, <1>4, Constants
<2>2. QED BY <1>6, <2>1 DEF ChunkRecords
<1>8. /\ f.mem = Ring /\ f.address = a + b + k /\ f.length = SlabSize - b - k
      /\ f.base = a /\ f.size = SlabSize /\ f.slab = Head(m.ready)
  BY <1>6, <1>7 DEF ChunkRecords
<1>9. r = [m EXCEPT !.front = f, !.bytesToPop = b + k]
  BY <1>1, <1>2, <1>5, <1>7 DEF ManagerRecords
<1> HIDE DEF r
<1>10. Head(m.ready) \in Slabs
  BY ReadyFacts, Constants
<1>11. b + k \in 0..(SlabSize - 1)
  BY <1>4, Constants
<1>12. /\ r \in ManagerRecords /\ r.ready = m.ready /\ r.pushed = m.pushed
       /\ r.indexToAck = m.indexToAck /\ r.frontAddress = a /\ r.bytesToPop = b + k /\ r.front = f
  BY <1>1, <1>2, <1>9, <1>7, <1>11 DEF ManagerRecords
<1>13. r.front = FrontOf(r)
<2>1. FrontOf(r) = [mem |-> Ring, address |-> a + (b + k), length |-> SlabSize - (b + k),
                    base |-> a, size |-> SlabSize, slab |-> Head(m.ready)]
  BY <1>12 DEF FrontOf
<2>2. a + (b + k) = a + b + k /\ SlabSize - (b + k) = SlabSize - b - k
  BY <1>4, Constants
<2>3. f = [mem |-> f.mem, address |-> f.address, length |-> f.length,
           base |-> f.base, size |-> f.size, slab |-> f.slab]
  BY DEF ChunkRecords
<2>4. QED BY <2>1, <2>2, <2>3, <1>8, <1>12
<1>14. r.frontAddress = FrontStart(r, n + k) % RingLength /\ r.bytesToPop <= n + k
<2>1. b <= n /\ a = (n - b) % RingLength
  BY <1>2 DEF ManagerFits, FrontStart
<2>2. n + k - (b + k) = n - b
  BY <1>4
<2>3. QED BY <2>1, <2>2, <1>4, <1>12 DEF FrontStart
<1>15. Conserved(r, alive \cup {Head(m.ready)})
<2>1. Conserved(m, alive)
  BY DEF ManagerFits
<2>2. Head(m.ready) \in Range(m.ready)
  BY ReadyFacts, LenProperties DEF Range
<2>3. ASSUME NEW i \in 2..Len(m.ready) PROVE m.ready[i] # Head(m.ready)
<3>1. i \in 1..Len(m.ready) /\ 1 \in 1..Len(m.ready) /\ i # 1
  BY ReadyFacts
<3>2. Head(m.ready) = m.ready[1]
  BY ReadyFacts
<3>3. QED BY <3>1, <3>2, ReadyFacts
<2>4. \A i \in 2..Len(m.ready) : m.ready[i] \notin alive \cup {Head(m.ready)}
  BY <2>1, <2>3 DEF Conserved
<2>5. /\ Range(m.ready) \cup m.pushed \cup (alive \cup {Head(m.ready)}) = Slabs
      /\ m.pushed \cap (Range(m.ready) \cup (alive \cup {Head(m.ready)})) = {}
  BY <2>1, <2>2, <1>10 DEF Conserved
<2>6. QED BY <2>4, <2>5, <1>12 DEF Conserved
<1>16. r.bytesToPop # 0
  BY <1>12, <1>4, <1>2
<1>17. ManagerFits(r, n + k, alive \cup {Head(m.ready)})
  BY <1>12, <1>13, <1>14, <1>15, <1>16 DEF ManagerFits
<1>18. QED BY <1>17, <1>12, <1>2 DEF r

LEMMA CircFrontIs ==
    ASSUME NEW ready \in Seq(Slabs), NEW address \in 0..(RingLength - 1)
    PROVE  CircFront(ready, address) \in ChunkRecords
<1>1. CASE ready = <<>>
<2>1. NullChunk \in ChunkRecords
  BY DEF NullChunk, ChunkRecords
<2>2. QED BY <1>1, <2>1 DEF CircFront
<1>2. CASE ready # <<>>
<2>1. Head(ready) \in Slabs /\ SlabSize \in Nat /\ address \in Nat
  BY <1>2, Constants
<2>2. QED BY <1>2, <2>1 DEF CircFront, ChunkRecords
<1>3. QED BY <1>1, <1>2

\* pop() of half of what is left or more: the next slab comes to the front, and
\* begins where the bytes of this one end.
LEMMA PopLeaves ==
    ASSUME NEW m, NEW n \in Nat, NEW alive \in SUBSET Slabs, ManagerFits(m, n, alive),
           m.ready # <<>>, NEW k \in 1..m.front.length, ~(m.front.length >= 2 * k)
    PROVE  /\ ManagerFits(PopSlab(m, k), n + k, alive \cup {Head(m.ready)})
           /\ PopSlab(m, k).bytesToPop = 0
           /\ \A s \in alive \cup {Head(m.ready)} : Age(PopSlab(m, k), s) = Age(m, s) + 1
<1> DEFINE r == PopSlab(m, k)
           H == Head(m.ready)
<1>1. /\ m.ready \in Seq(Slabs) /\ m.pushed \in SUBSET Slabs /\ m.indexToAck \in Slabs
      /\ m \in ManagerRecords
  BY DEF ManagerFits, ManagerRecords
<1>2. PICK b \in 0..(SlabSize - 1), a \in 0..(RingLength - 1) : b = m.bytesToPop /\ a = m.frontAddress
  BY FrontFacts
<1>3. k \in 1..(SlabSize - b)
<2>1. m.front.length = SlabSize - b
  BY FrontFacts, <1>2
<2>2. QED BY <2>1
<1>4. PICK w \in 0..(RingLength - 1) : w = Advanced(m, k) /\ w = (n + k) % RingLength
<2>1. b <= n /\ a = (n - b) % RingLength
  BY <1>2 DEF ManagerFits, FrontStart
<2>2. RingLength \in Nat \ {0} /\ n - b \in Int /\ b + k \in Int
  BY <1>3, Constants
<2>3. (((n - b) % RingLength) + (b + k)) % RingLength = (n - b + (b + k)) % RingLength
  BY <2>2, ModPlus
<2>4. n - b + (b + k) = n + k
  BY <1>3
<2>5. (a + (b + k)) % RingLength = (n + k) % RingLength
  BY <2>1, <2>3, <2>4
<2>6. PICK x \in 0..(2 * RingLength - 1) : x = a + (b + k)
  BY <1>3, Constants
<2>7. a + b + k = x
  BY <2>6, <1>3
<2>8. Advanced(m, k) = IF x >= RingLength THEN x - RingLength ELSE x
  BY <1>2, <2>7 DEF Advanced
<2>9. CASE x < RingLength
<3>1. x \in 0..(RingLength - 1) /\ RingLength \in Nat \ {0}
  BY <2>9, Constants
<3>2. x % RingLength = x
  BY <3>1, ModSmall
<3>3. QED BY <3>1, <3>2, <2>5, <2>6, <2>8, <2>9
<2>10. CASE x >= RingLength
<3>1. x \in RingLength..(2 * RingLength - 1) /\ RingLength \in Nat \ {0}
  BY <2>10, Constants
<3>2. x % RingLength = x - RingLength
  BY <3>1, ModWrap
<3>3. x - RingLength \in 0..(RingLength - 1)
  BY <3>1
<3>4. QED BY <3>2, <3>3, <2>5, <2>6, <2>8, <2>10
<2>11. QED BY <2>9, <2>10, Constants, SMTT(30)
<1>5. PICK rest \in Seq(Slabs) :
        /\ rest = Tail(m.ready) /\ Len(rest) = Len(m.ready) - 1
        /\ \A i \in 1..Len(rest) : rest[i] = m.ready[i + 1]
  BY <1>1, HeadTailProperties
<1>6. r = [m EXCEPT !.ready = rest, !.frontAddress = w, !.bytesToPop = 0,
                    !.front = CircFront(rest, w)]
  BY <1>4, <1>5, <1>1 DEF PopSlab, ManagerRecords
<1> HIDE DEF r
<1>7. CircFront(rest, w) \in ChunkRecords
  BY CircFrontIs
<1>8. /\ r \in ManagerRecords /\ r.ready = rest /\ r.pushed = m.pushed
      /\ r.indexToAck = m.indexToAck /\ r.frontAddress = w /\ r.bytesToPop = 0
      /\ r.front = CircFront(rest, w)
<2>1. 0 \in 0..(SlabSize - 1)
  BY Constants
<2>2. QED BY <1>1, <1>6, <1>7, <2>1 DEF ManagerRecords
<1>9. PICK l \in 1..NumSlabs, t \in 1..NumSlabs : l = Len(m.ready) /\ t = m.indexToAck
  BY ReadyFacts, Constants
<1>10. l \in Nat /\ t \in Nat /\ NumSlabs \in Nat /\ l >= 1 /\ t >= 1 /\ l <= NumSlabs /\ t <= NumSlabs
  BY <1>9, Constants
<1>11. /\ Len(rest) = l - 1
       /\ rest = <<>> <=> l = 1
       /\ rest # <<>> => Head(rest) = m.ready[2] /\ 2 \in 1..l
<2>1. Len(rest) = l - 1 /\ (rest = <<>> <=> Len(rest) = 0)
  BY <1>5, <1>9, EmptySeq
<2>2. rest = <<>> <=> l = 1
  BY <2>1, <1>10
<2>3. ASSUME rest # <<>> PROVE Head(rest) = m.ready[2] /\ 2 \in 1..l
<3>1. 1 \in 1..Len(rest) /\ 2 \in 1..l
  BY <2>1, <2>2, <2>3, <1>10
<3>2. Head(rest) = rest[1]
  BY <2>3, <1>5
<3>3. QED BY <3>1, <3>2, <1>5
<2>4. QED BY <2>1, <2>2, <2>3
<1>12. r.front = FrontOf(r)
<2>1. CASE rest = <<>>
  BY <2>1, <1>8 DEF FrontOf, CircFront
<2>2. CASE rest # <<>>
<3>1. w + 0 = w /\ SlabSize - 0 = SlabSize
  BY Constants
<3>2. QED BY <2>2, <3>1, <1>8 DEF FrontOf, CircFront
<2>3. QED BY <2>1, <2>2
<1>13. r.frontAddress = FrontStart(r, n + k) % RingLength /\ r.bytesToPop <= n + k
<2>1. n + k - 0 = n + k /\ n + k >= 0
  BY <1>3
<2>2. QED BY <2>1, <1>4, <1>8 DEF FrontStart
<1>14. ASSUME NEW i \in 1..Len(rest)
       PROVE  /\ rest[i] = Turn(m.indexToAck - Len(rest) + i - 1)
              /\ rest[i] \notin alive \cup {H}
<2>1. i + 1 \in 2..Len(m.ready) /\ i + 1 \in 1..Len(m.ready) /\ i \in 1..(l - 1)
  BY <1>9, <1>11
<2>2. rest[i] = m.ready[i + 1]
  BY <1>5
<2>3. m.ready[i + 1] = Turn(t - l + (i + 1) - 1)
  BY <2>1, <1>9 DEF ManagerFits
<2>4. t - l + (i + 1) - 1 = t - (l - 1) + i - 1
  BY <1>10, <2>1, SMTT(30)
<2>5. rest[i] = Turn(m.indexToAck - Len(rest) + i - 1)
  BY <2>2, <2>3, <2>4, <1>9, <1>11
<2>6. m.ready[i + 1] \notin alive
  BY <2>1 DEF ManagerFits, Conserved
<2>7. m.ready[i + 1] # H
<3>1. H = m.ready[1] /\ 1 \in 1..Len(m.ready) /\ i + 1 # 1
  BY ReadyFacts, <2>1
<3>2. QED BY <3>1, <2>1, ReadyFacts
<2>8. QED BY <2>2, <2>5, <2>6, <2>7
<1>15. H \in Slabs /\ Range(m.ready) = {H} \cup Range(rest)
<2>1. H \in Slabs /\ H = m.ready[1]
  BY ReadyFacts, Constants
<2>2. Range(m.ready) = {m.ready[i] : i \in 1..l}
  BY <1>1, <1>9, LenProperties DEF Range
<2>3. Range(rest) = {rest[i] : i \in 1..(l - 1)}
  BY <1>11, LenProperties DEF Range
<2>4. ASSUME NEW x \in Range(m.ready) PROVE x \in {H} \cup Range(rest)
<3>1. PICK i \in 1..l : x = m.ready[i]
  BY <2>2
<3>2. CASE i = 1
  BY <3>1, <3>2, <2>1
<3>3. CASE i # 1
<4>1. i - 1 \in 1..(l - 1) /\ (i - 1) + 1 = i
  BY <3>3, <1>9
<4>2. rest[i - 1] = m.ready[i]
  BY <4>1, <1>5, <1>11
<4>3. QED BY <4>1, <4>2, <3>1, <2>3
<3>4. QED BY <3>2, <3>3
<2>5. ASSUME NEW x \in Range(rest) PROVE x \in Range(m.ready)
<3>1. PICK i \in 1..(l - 1) : x = rest[i]
  BY <2>3
<3>2. x = m.ready[i + 1] /\ i + 1 \in 1..l
  BY <3>1, <1>5, <1>9, <1>11
<3>3. QED BY <3>2, <2>2
<2>6. H \in Range(m.ready)
  BY <2>1, <2>2, <1>9
<2>7. QED BY <2>1, <2>4, <2>5, <2>6
<1>16. Conserved(r, alive \cup {H})
<2>1. /\ Range(m.ready) \cup m.pushed \cup alive = Slabs
      /\ m.pushed \cap (Range(m.ready) \cup alive) = {}
  BY DEF ManagerFits, Conserved
<2>2. /\ Range(rest) \cup m.pushed \cup (alive \cup {H}) = Slabs
      /\ m.pushed \cap (Range(rest) \cup (alive \cup {H})) = {}
  BY <2>1, <1>15
<2>3. \A i \in 2..Len(rest) : rest[i] \notin alive \cup {H}
  BY <1>14, <1>11
<2>4. QED BY <2>2, <2>3, <1>8 DEF Conserved
<1>17. r.ready # <<>> => Head(r.ready) \notin alive \cup {H}
<2>1. ASSUME rest # <<>> PROVE Head(rest) \notin alive \cup {H}
<3>1. 1 \in 1..Len(rest) /\ Head(rest) = rest[1]
  BY <2>1, <1>9, <1>11, EmptySeq
<3>2. QED BY <3>1, <1>14
<2>2. QED BY <2>1, <1>8
<1>18. Len(r.ready) <= NumSlabs
  BY <1>8, <1>9, <1>11, Constants
<1>19. r.indexToAck \notin r.pushed
  BY <1>8 DEF ManagerFits
<1>20. ManagerFits(r, n + k, alive \cup {H})
  BY <1>8, <1>12, <1>13, <1>14, <1>16, <1>17, <1>18, <1>19 DEF ManagerFits
<1>21. ASSUME NEW s \in alive \cup {H} PROVE Age(r, s) = Age(m, s) + 1
<2>1. PICK h \in 1..NumSlabs : h = H /\ h = Turn(t - l)
<3>1. H \in 1..NumSlabs
  BY <1>15, Constants
<3>2. H = Turn(m.indexToAck - Len(m.ready))
  BY ReadyFacts
<3>3. QED BY <3>1, <3>2, <1>9
<2>2. s \in 1..NumSlabs
  BY <1>15, Constants
<2>3. s \in Nat /\ h \in Nat /\ s >= 1 /\ h >= 1 /\ s <= NumSlabs /\ h <= NumSlabs
  BY <2>1, <2>2, <1>10
<2>4. Age(m, s) = IF s <= h THEN h - s ELSE h - s + NumSlabs
  BY <2>1 DEF Age
<2>5. CASE rest = <<>>
<3>1. Age(r, s) = IF s < t THEN t - s ELSE t - s + NumSlabs
  BY <2>5, <1>8, <1>9 DEF Age
<3>2. h = IF t - 1 >= 1 THEN t - 1 ELSE NumSlabs
<4>1. l = 1
  BY <2>5, <1>11
<4>2. h = IF t - l >= 1 THEN t - l ELSE t - l + NumSlabs
  BY <2>1 DEF Turn
<4>3. QED BY <4>1, <4>2, <1>10, <2>3
<3>3. QED BY <3>1, <3>2, <2>3, <2>4, <1>10
<2>6. CASE rest # <<>>
<3>1. PICK g \in 1..NumSlabs : g = Head(rest) /\ g = Turn(t - l + 1)
<4>1. 2 \in 1..l /\ Head(rest) = m.ready[2]
  BY <2>6, <1>11
<4>2. m.ready[2] = Turn(t - l + 2 - 1)
  BY <4>1, <1>9 DEF ManagerFits
<4>3. t - l + 2 - 1 = t - l + 1
  BY <1>9
<4>4. m.ready[2] \in 1..NumSlabs
  BY <4>1, <1>9, ReadyFacts
<4>5. QED BY <4>1, <4>2, <4>3, <4>4
<3>2. Age(r, s) = IF s <= g THEN g - s ELSE g - s + NumSlabs
  BY <2>6, <3>1, <1>8 DEF Age
<3>3. s # g
  BY <3>1, <2>6, <1>17, <1>8
<3>4. /\ h = IF t - l >= 1 THEN t - l ELSE t - l + NumSlabs
      /\ g = IF t - l + 1 >= 1 THEN t - l + 1 ELSE t - l + 1 + NumSlabs
  BY <2>1, <3>1 DEF Turn
<3>5. g \in Nat /\ g >= 1 /\ g <= NumSlabs
  BY <3>1, <1>10
<3>6. QED BY <3>2, <3>3, <3>4, <3>5, <2>3, <2>4, <1>10
<2>7. QED BY <2>5, <2>6
<1>22. QED BY <1>8, <1>20, <1>21 DEF r

\* The slabs that come back, `gone`, are no longer kept alive and not ready: the
\* manager goes on to fit, and every slab keeps its age.
LEMMA PushFits ==
    ASSUME NEW m, NEW n \in Nat, NEW before \in SUBSET Slabs, ManagerFits(m, n, before),
           NEW alive \in SUBSET before, NEW gone \in SUBSET Slabs,
           gone = (before \ alive) \ Range(m.ready)
    PROVE  /\ ManagerFits(PushSlabs(m, gone), n, alive)
           /\ PushSlabs(m, gone).bytesToPop = m.bytesToPop
           /\ \A s \in alive : Age(PushSlabs(m, gone), s) = Age(m, s)
<1> DEFINE r == PushSlabs(m, gone)
           pushed == m.pushed \cup gone
<1>1. /\ m.ready \in Seq(Slabs) /\ m.pushed \in SUBSET Slabs /\ m.indexToAck \in Slabs
      /\ m \in ManagerRecords /\ pushed \in SUBSET Slabs
  BY DEF ManagerFits, ManagerRecords
<1>2. PICK c \in 0..NumSlabs :
        /\ \A i \in 0..(c - 1) : InTurn(m, i) \in pushed
        /\ c < NumSlabs => InTurn(m, c) \notin pushed
        /\ Acked(m, pushed) = [i \in 1..c |-> InTurn(m, i - 1)]
  BY <1>1, AckedIs
<1>3. PICK l \in 0..NumSlabs, t \in 1..NumSlabs : l = Len(m.ready) /\ t = m.indexToAck
  BY ReadyFacts, Constants
<1>4. /\ l \in Nat /\ t \in Nat /\ c \in Nat /\ NumSlabs \in Nat
      /\ l <= NumSlabs /\ t >= 1 /\ t <= NumSlabs /\ c <= NumSlabs /\ NumSlabs >= 1
  BY <1>2, <1>3, Constants
<1>5. ASSUME NEW k \in 0..NumSlabs
      PROVE  /\ InTurn(m, k) = IF t + k <= NumSlabs THEN t + k ELSE t + k - NumSlabs
             /\ InTurn(m, k) \in 1..NumSlabs
<2>1. InTurn(m, k) = IF t + k <= NumSlabs THEN t + k ELSE t + k - NumSlabs
  BY <1>1, <1>3, InTurnIs
<2>2. QED BY <2>1, <1>4
<1>6. PICK run \in Seq(Slabs) : /\ run = Acked(m, pushed) /\ Len(run) = c
                                /\ \A i \in 1..c : run[i] = InTurn(m, i - 1)
<2>1. \A i \in 1..c : InTurn(m, i - 1) \in Slabs
<3>1. \A i \in 1..c : i - 1 \in 0..NumSlabs
  BY <1>4
<3>2. QED BY <3>1, <1>5, Constants
<2>2. [i \in 1..c |-> InTurn(m, i - 1)] \in [1..c -> Slabs]
  BY <2>1
<2>3. Acked(m, pushed) \in Seq(Slabs) /\ DOMAIN Acked(m, pushed) = 1..c
  BY <2>2, <1>2, <1>4
<2>4. Len(Acked(m, pushed)) = c
  BY <2>3, <1>4, LenProperties
<2>5. QED BY <2>3, <2>4, <1>2
<1>7. Range(run) = {run[i] : i \in 1..c} /\ Range(run) \subseteq pushed
<2>1. Range(run) = {run[i] : i \in 1..c}
  BY <1>6, <1>4, LenProperties DEF Range
<2>2. \A i \in 1..c : i - 1 \in 0..(c - 1)
  BY <1>4
<2>3. QED BY <2>1, <2>2, <1>2, <1>6
<1>8. PICK ready \in Seq(Slabs) :
        /\ ready = m.ready \o run /\ Len(ready) = l + c
        /\ \A i \in 1..l : ready[i] = m.ready[i]
        /\ \A i \in (l + 1)..(l + c) : ready[i] = run[i - l]
<2>1. PICK front \in Seq(Slabs) : front = m.ready
  BY <1>1
<2>2. /\ front \o run \in Seq(Slabs) /\ Len(front \o run) = l + c
      /\ \A i \in 1..(l + c) : (front \o run)[i] = IF i <= l THEN front[i] ELSE run[i - l]
<3>1. /\ front \o run \in Seq(Slabs) /\ Len(front \o run) = Len(front) + Len(run)
      /\ \A i \in 1..Len(front) + Len(run) :
            (front \o run)[i] = IF i <= Len(front) THEN front[i] ELSE run[i - Len(front)]
  BY <2>1, <1>6, ConcatProperties
<3>2. Len(front) = l /\ Len(run) = c
  BY <2>1, <1>3, <1>6
<3>3. QED BY <3>1, <3>2
<2>3. \A i \in 1..l : i \in 1..(l + c) /\ i <= l
  BY <1>4
<2>4. \A i \in (l + 1)..(l + c) : i \in 1..(l + c) /\ ~(i <= l)
  BY <1>4
<2>5. QED BY <2>1, <2>2, <2>3, <2>4
<1>9. Range(ready) = Range(m.ready) \cup Range(run)
  BY <1>1, <1>6, <1>8, RangeConcatenation
<1>10. PICK f \in ChunkRecords :
         f = IF m.ready = <<>> THEN CircFront(ready, m.frontAddress) ELSE m.front
  BY <1>1, <1>8, CircFrontIs DEF ManagerRecords
<1>11. r = [m EXCEPT !.ready = ready, !.pushed = pushed \ Range(run),
                     !.indexToAck = InTurn(m, c), !.front = f]
  BY <1>1, <1>6, <1>8, <1>10 DEF PushSlabs, StillPushed, ManagerRecords
<1> HIDE DEF r
<1>12. InTurn(m, c) \in Slabs
  BY <1>2, <1>5, Constants
<1>13. /\ r \in ManagerRecords /\ r.ready = ready /\ r.pushed = pushed \ Range(run)
       /\ r.indexToAck = InTurn(m, c) /\ r.frontAddress = m.frontAddress
       /\ r.bytesToPop = m.bytesToPop /\ r.front = f
  BY <1>1, <1>8, <1>10, <1>11, <1>12 DEF ManagerRecords
<1>14. l + c <= NumSlabs
<2>1. CASE l = 0
  BY <2>1, <1>4
<2>2. CASE l # 0
<3>1. m.ready[1] = Turn(t - l + 1 - 1) /\ 1 \in 1..Len(m.ready)
  BY <2>2, <1>3, <1>4 DEF ManagerFits
<3>2. NumSlabs - l \in 0..NumSlabs /\ t - l + 1 - 1 = t - l
  BY <1>4
<3>3. InTurn(m, NumSlabs - l) = IF t - l >= 1 THEN t - l ELSE t - l + NumSlabs
<4>1. InTurn(m, NumSlabs - l) = IF t + (NumSlabs - l) <= NumSlabs
                                THEN t + (NumSlabs - l) ELSE t + (NumSlabs - l) - NumSlabs
  BY <3>2, <1>5
<4>2. QED BY <4>1, <1>4, <2>2
<3>4. InTurn(m, NumSlabs - l) = m.ready[1]
  BY <3>1, <3>2, <3>3 DEF Turn
<3>5. m.ready[1] \in Range(m.ready)
  BY <3>1, <1>1, LenProperties DEF Range
<3>6. m.ready[1] \notin pushed
  BY <3>5 DEF ManagerFits, Conserved
<3>7. NumSlabs - l \notin 0..(c - 1)
  BY <3>4, <3>6, <1>2
<3>8. QED BY <3>7, <3>2, <1>4
<2>3. QED BY <2>1, <2>2
<1>15. ASSUME NEW i \in 1..Len(r.ready)
       PROVE  r.ready[i] = Turn(r.indexToAck - Len(r.ready) + i - 1)
<2>1. i \in 1..(l + c) /\ Len(r.ready) = l + c /\ r.ready[i] = ready[i]
  BY <1>8, <1>13
<2>2. PICK z \in 1..NumSlabs : /\ z = r.indexToAck
                               /\ z = IF t + c <= NumSlabs THEN t + c ELSE t + c - NumSlabs
  BY <1>13, <1>2, <1>5
<2>3. CASE i <= l
<3>1. ready[i] = Turn(t - l + i - 1)
<4>1. i \in 1..Len(m.ready)
  BY <2>1, <2>3, <1>3, <1>4
<4>2. m.ready[i] = Turn(t - l + i - 1)
  BY <4>1, <1>3 DEF ManagerFits
<4>3. QED BY <4>1, <4>2, <1>3, <1>8
<3>2. i \in Nat /\ z \in Nat
  BY <2>1, <2>2, <1>4
<3>3. PICK x \in Int, y \in Int : x = t - l + i - 1 /\ y = z - (l + c) + i - 1
  BY <3>2, <1>4
<3>4. (IF x >= 1 THEN x ELSE x + NumSlabs) = (IF y >= 1 THEN y ELSE y + NumSlabs)
<4>1. CASE t + c <= NumSlabs
<5>1. y = x
  BY <4>1, <3>3, <2>1, <2>2, <1>4
<5>2. QED BY <5>1
<4>2. CASE ~(t + c <= NumSlabs)
<5>1. y = x - NumSlabs
  BY <4>2, <3>3, <2>1, <2>2, <1>4
<5>2. x >= 1 /\ x <= NumSlabs
  BY <4>2, <3>3, <2>1, <2>3, <1>4, <1>14
<5>3. QED BY <5>1, <5>2, <1>4
<4>3. QED BY <4>1, <4>2
<3>5. Turn(x) = Turn(y)
  BY <3>4 DEF Turn
<3>6. QED BY <2>1, <2>2, <3>1, <3>3, <3>5
<2>4. CASE i > l
<3>1. i - l \in 1..c /\ i \in (l + 1)..(l + c) /\ i - l - 1 \in 0..NumSlabs
  BY <2>1, <2>4, <1>4, SMTT(30)
<3>2. ready[i] = InTurn(m, i - l - 1)
  BY <3>1, <1>6, <1>8
<3>3. InTurn(m, i - l - 1) = IF t + (i - l - 1) <= NumSlabs THEN t + (i - l - 1)
                             ELSE t + (i - l - 1) - NumSlabs
  BY <3>1, <1>5
<3>4. PICK y \in Int : y = z - (l + c) + i - 1
  BY <2>1, <2>2, <1>4
<3>5. (IF y >= 1 THEN y ELSE y + NumSlabs) = IF t + (i - l - 1) <= NumSlabs THEN t + (i - l - 1)
                                             ELSE t + (i - l - 1) - NumSlabs
  BY <3>4, <3>1, <2>1, <2>2, <1>4, <1>14
<3>6. Turn(y) = InTurn(m, i - l - 1)
  BY <3>3, <3>5 DEF Turn
<3>7. QED BY <2>1, <2>2, <3>2, <3>4, <3>6
<2>5. QED BY <2>1, <2>3, <2>4, <1>4
<1>16. r.indexToAck \notin r.pushed
<2>1. CASE c < NumSlabs
  BY <2>1, <1>2, <1>13
<2>2. CASE c = NumSlabs
<3>1. InTurn(m, c) = t /\ InTurn(m, 0) = t /\ 1 \in 1..c
  BY <2>2, <1>4, <1>5
<3>2. run[1] = InTurn(m, 0)
<4>1. 1 - 1 = 0
  OBVIOUS
<4>2. run[1] = InTurn(m, 1 - 1)
  BY <3>1, <1>6
<4>3. QED BY <4>1, <4>2
<3>3. t \in Range(run)
  BY <3>1, <3>2, <1>7
<3>4. QED BY <3>1, <3>3, <1>13
<2>3. QED BY <2>1, <2>2, <1>4
<1>17. Conserved(m, before)
  BY DEF ManagerFits
<1>18. /\ Range(r.ready) \cup r.pushed \cup alive = Slabs
       /\ r.pushed \cap (Range(r.ready) \cup alive) = {}
       /\ pushed \cap alive = {} /\ pushed \cap Range(m.ready) = {}
<2>1. /\ Range(m.ready) \cup m.pushed \cup before = Slabs
      /\ m.pushed \cap (Range(m.ready) \cup before) = {}
  BY <1>17 DEF Conserved
<2>2. pushed \cap alive = {} /\ pushed \cap Range(m.ready) = {}
  BY <2>1
<2>3. Range(m.ready) \cup pushed \cup alive = Slabs
  BY <2>1
<2>4. Range(r.ready) = Range(m.ready) \cup Range(run) /\ r.pushed = pushed \ Range(run)
  BY <1>9, <1>13
<2>5. QED BY <2>2, <2>3, <2>4, <1>7
<1>19. ASSUME NEW i \in 1..Len(r.ready), r.ready[i] \in alive
       PROVE  i \in 1..l /\ r.ready[i] = m.ready[i]
<2>1. i \in 1..(l + c) /\ r.ready[i] = ready[i]
  BY <1>8, <1>13
<2>2. CASE i <= l
<3>1. i \in 1..l
  BY <2>1, <2>2, <1>4
<3>2. QED BY <3>1, <2>1, <1>8
<2>3. CASE i > l
<3>1. i - l \in 1..c /\ i \in (l + 1)..(l + c)
  BY <2>1, <2>3, <1>4
<3>2. ready[i] \in Range(run)
  BY <3>1, <1>7, <1>8
<3>3. QED BY <3>2, <2>1, <1>7, <1>18, <1>19
<2>4. QED BY <2>1, <2>2, <2>3, <1>4
<1>20. Conserved(r, alive)
<2>1. ASSUME NEW i \in 2..Len(r.ready), r.ready[i] \in alive PROVE FALSE
<3>1. i \in 1..Len(r.ready)
  BY <1>8, <1>13, <1>4
<3>2. i \in 2..Len(m.ready) /\ m.ready[i] \in before
  BY <3>1, <2>1, <1>19, <1>3
<3>3. QED BY <3>2, <1>17 DEF Conserved
<2>2. QED BY <2>1, <1>18 DEF Conserved
<1>21. m.ready # <<>> => r.ready # <<>> /\ Head(r.ready) = Head(m.ready) /\ l >= 1
<2>1. ASSUME m.ready # <<>>
      PROVE  r.ready # <<>> /\ Head(r.ready) = Head(m.ready) /\ l >= 1
<3>1. l >= 1 /\ Head(m.ready) = m.ready[1]
  BY <2>1, ReadyFacts, <1>3
<3>2. 1 \in 1..l /\ Len(ready) # 0
  BY <3>1, <1>4, <1>8
<3>3. ready # <<>> /\ Head(ready) = ready[1] /\ ready[1] = m.ready[1]
  BY <3>2, <1>8, EmptySeq
<3>4. QED BY <3>1, <3>3, <1>13
<2>2. QED BY <2>1
<1>22. m.ready = <<>> => l = 0 /\ m.bytesToPop = 0 /\ (r.ready = <<>> <=> c = 0)
                         /\ (r.ready # <<>> => Head(r.ready) = t /\ t \in pushed)
<2>1. ASSUME m.ready = <<>>
      PROVE  /\ l = 0 /\ m.bytesToPop = 0 /\ (r.ready = <<>> <=> c = 0)
             /\ (r.ready # <<>> => Head(r.ready) = t /\ t \in pushed)
<3>1. l = 0 /\ m.bytesToPop = 0
  BY <2>1, <1>3, EmptySeq DEF ManagerFits
<3>2. r.ready = <<>> <=> c = 0
  BY <3>1, <1>8, <1>13, <1>4, EmptySeq
<3>3. ASSUME r.ready # <<>> PROVE Head(r.ready) = t /\ t \in pushed
<4>1. c >= 1 /\ 1 \in 1..c /\ 1 \in (l + 1)..(l + c) /\ 0 \in 0..(c - 1) /\ 1 - l = 1
  BY <3>1, <3>2, <3>3, <1>4
<4>2. ready[1] = run[1] /\ run[1] = InTurn(m, 0)
<5>1. 1 - 1 = 0
  OBVIOUS
<5>2. run[1] = InTurn(m, 1 - 1)
  BY <4>1, <1>6
<5>3. ready[1] = run[1 - l]
  BY <4>1, <1>8
<5>4. QED BY <5>1, <5>2, <5>3, <4>1
<4>3. InTurn(m, 0) = t
  BY <1>4, <1>5
<4>4. Head(ready) = ready[1]
  BY <3>3, <1>8, <1>13
<4>5. QED BY <4>1, <4>2, <4>3, <4>4, <1>2, <1>13
<3>4. QED BY <3>1, <3>2, <3>3
<2>2. QED BY <2>1
<1>23. r.front = FrontOf(r)
<2>1. CASE m.ready # <<>>
  BY <2>1, <1>10, <1>13, <1>21 DEF FrontOf, ManagerFits
<2>2. CASE m.ready = <<>>
<3>1. m.frontAddress + 0 = m.frontAddress /\ SlabSize - 0 = SlabSize
  BY Constants DEF ManagerFits, ManagerRecords
<3>2. r.front = CircFront(r.ready, r.frontAddress) /\ r.bytesToPop = 0
  BY <2>2, <1>10, <1>13, <1>22
<3>3. QED BY <3>1, <3>2, <1>13 DEF FrontOf, CircFront
<2>3. QED BY <2>1, <2>2
<1>24. r.ready = <<>> => r.bytesToPop = 0
  BY <1>13, <1>21, <1>22
<1>25. r.ready # <<>> /\ r.bytesToPop = 0 => Head(r.ready) \notin alive
<2>1. CASE m.ready # <<>>
  BY <2>1, <1>13, <1>21 DEF ManagerFits
<2>2. CASE m.ready = <<>>
  BY <2>2, <1>18, <1>22
<2>3. QED BY <2>1, <2>2
<1>26. /\ r.bytesToPop <= n
       /\ r.frontAddress = FrontStart(r, n) % RingLength
       /\ Len(r.ready) <= NumSlabs
  BY <1>8, <1>13, <1>14 DEF FrontStart, ManagerFits
<1>27. ManagerFits(r, n, alive)
  BY <1>13, <1>15, <1>16, <1>20, <1>23, <1>24, <1>25, <1>26 DEF ManagerFits
<1>28. ASSUME NEW s \in alive PROVE Age(r, s) = Age(m, s)
<2>1. CASE m.ready # <<>>
  BY <2>1, <1>21 DEF Age
<2>2. CASE m.ready = <<>> /\ r.ready = <<>>
<3>1. c = 0 /\ r.indexToAck = t
  BY <2>2, <1>22, <1>13, <1>4, <1>5
<3>2. QED BY <3>1, <2>2, <1>3 DEF Age
<2>3. CASE m.ready = <<>> /\ r.ready # <<>>
<3>1. Head(r.ready) = t /\ s # t
  BY <2>3, <1>18, <1>22
<3>2. s \in 1..NumSlabs
  BY Constants
<3>3. /\ Age(m, s) = IF s < t THEN t - s ELSE t - s + NumSlabs
      /\ Age(r, s) = IF s <= t THEN t - s ELSE t - s + NumSlabs
  BY <2>3, <3>1, <1>3 DEF Age
<3>4. QED BY <3>1, <3>2, <3>3, <1>4
<2>4. QED BY <2>1, <2>2, <2>3
<1>29. QED BY <1>13, <1>27, <1>28 DEF r

(***************************************************************************)
(* Bytes of a queue of chunks                                              *)
(***************************************************************************)

\* f[k] is the number of bytes in the chunks k, k + 1, ...
Froms(queue, f) ==
    /\ f \in [1..(Len(queue) + 1) -> Nat]
    /\ f[Len(queue) + 1] = 0
    /\ \A k \in 1..Len(queue) : f[k] = queue[k].length + f[k + 1]

LEMMA ChunkFacts ==
    ASSUME NEW queue \in Seq(ChunkRecords)
    PROVE  /\ Len(queue) \in Nat
           /\ \A k \in 1..Len(queue) : queue[k] \in ChunkRecords /\ queue[k].length \in Nat
<1>1. \A k \in 1..Len(queue) : queue[k] \in ChunkRecords
  BY ElementOfSeq
<1>2. \A c \in ChunkRecords : c.length \in Nat
  BY DEF ChunkRecords
<1>3. QED BY <1>1, <1>2

LEMMA BytesFromIs ==
    ASSUME NEW queue \in Seq(ChunkRecords), NEW f, Froms(queue, f)
    PROVE  \A i \in 1..(Len(queue) + 1) : BytesFrom(queue, i) = f[i]
<1> DEFINE L == Len(queue)
           Rec(g) == [k \in 1..(L + 1) |-> IF k = L + 1 THEN 0 ELSE queue[k].length + g[k + 1]]
           from == CHOOSE g : g = Rec(g)
<1>1. L \in Nat
  BY ChunkFacts
<1>2. f \in [1..(L + 1) -> Nat] /\ f[L + 1] = 0 /\ \A k \in 1..L : f[k] = queue[k].length + f[k + 1]
  BY DEF Froms
<1>3. f = Rec(f)
<2>1. \A k \in 1..(L + 1) : k # L + 1 => k \in 1..L
  BY <1>1
<2>2. \A k \in 1..(L + 1) : f[k] = Rec(f)[k]
  BY <1>1, <1>2, <2>1
<2>3. QED BY <1>2, <2>2
<1>4. from = Rec(from)
  BY <1>3
<1>5. from[L + 1] = 0 /\ \A k \in 1..L : from[k] = queue[k].length + from[k + 1]
<2> HIDE DEF from
<2>1. L + 1 \in 1..(L + 1) /\ \A k \in 1..L : k \in 1..(L + 1) /\ k # L + 1
  BY <1>1
<2>2. QED BY <1>4, <2>1
<1>6. \A i \in 1..(L + 1) : from[i] = f[i]
<2> HIDE DEF from
<2> DEFINE Differ == {j \in 0..L : from[L + 1 - j] # f[L + 1 - j]}
<2>1. ASSUME Differ # {} PROVE FALSE
<3>1. PICK m \in Differ : \A x \in Differ : m <= x
<4>1. Differ \in SUBSET Nat
  BY <1>1
<4> HIDE DEF Differ
<4>2. QED BY <4>1, <2>1, LeastElement
<3>2. m # 0
<4>1. m = 0 => L + 1 - m = L + 1
  BY <1>1
<4>2. QED BY <4>1, <3>1, <1>2, <1>5
<3>3. m - 1 \in 0..L /\ ~(m <= m - 1) /\ L + 1 - m \in 1..L /\ L + 1 - (m - 1) = (L + 1 - m) + 1
  BY <3>1, <3>2, <1>1
<3>4. m - 1 \notin Differ
<4> HIDE DEF Differ
<4>1. QED BY <3>1, <3>3
<3>5. from[(L + 1 - m) + 1] = f[(L + 1 - m) + 1]
  BY <3>3, <3>4
<3>6. QED BY <3>1, <3>3, <3>5, <1>2, <1>5
<2>2. ASSUME NEW i \in 1..(L + 1) PROVE from[i] = f[i]
<3>1. L + 1 - i \in 0..L /\ L + 1 - (L + 1 - i) = i
  BY <1>1
<3>2. L + 1 - i \notin Differ
<4> HIDE DEF Differ
<4>1. QED BY <2>1
<3>3. QED BY <3>1, <3>2
<2>3. QED BY <2>2
<1>7. \A i : BytesFrom(queue, i) = from[i]
  BY DEF BytesFrom
<1>8. QED BY <1>6, <1>7

(***************************************************************************)
(* Chunks in their places                                                  *)
(***************************************************************************)

\* Where in the stream the buffer of chunk c begins, if the chunk begins behind
\* p bytes
Start(c, p) == p - (c.address - c.base)

\* Chunk c has the bytes of the ring behind the first p of the stream, and its
\* slab keeps them: all that was produced since its slab began is in the ring.
\* `cells` is the memory, n the number of bytes produced.
InRing(cells, m, n, c, p) ==
    /\ c \in ChunkRecords /\ c.mem = Ring /\ c.slab \in Slabs /\ c.size = SlabSize
    /\ c.base <= c.address /\ p + c.length <= n
    /\ Start(c, p) \in 0..FrontStart(m, n)
    /\ c.base = Start(c, p) % RingLength
    /\ FrontStart(m, n) - Start(c, p) <= Age(m, c.slab) * SlabSize
    /\ \A o \in Start(c, p)..(n - 1) : cells[Ring][o % RingLength] = o + 1

\* Chunk c has these bytes in a pool buffer.
InPool(cells, n, c, p) ==
    /\ c \in ChunkRecords /\ c.mem \in PoolBuffers
    /\ c.slab = 0 /\ c.size = PoolSize /\ c.base = 0
    /\ c.address + c.length <= PoolSize /\ p + c.length <= n
    /\ \A i \in 0..(c.length - 1) : cells[c.mem][c.address + i] = p + i + 1

Placed(cells, m, n, c, p) == InRing(cells, m, n, c, p) \/ InPool(cells, n, c, p)

LEMMA AgeIsInt ==
    ASSUME NEW m, NEW n \in Nat, NEW alive, ManagerFits(m, n, alive), NEW s \in Slabs
    PROVE  /\ Age(m, s) \in 0..NumSlabs
           /\ m.ready # <<>> => Age(m, s) <= NumSlabs - 1
           /\ Age(m, s) * SlabSize \in Int
<1>1. m.indexToAck \in 1..NumSlabs /\ (m.ready # <<>> => Head(m.ready) \in 1..NumSlabs)
<2>1. m.indexToAck \in 1..NumSlabs
  BY ReadyFacts
<2>2. ASSUME m.ready # <<>> PROVE Head(m.ready) \in 1..NumSlabs
<3>1. Len(m.ready) \in 0..NumSlabs /\ Len(m.ready) >= 1 /\ Head(m.ready) = m.ready[1]
  BY <2>2, ReadyFacts
<3>2. 1 \in 1..Len(m.ready)
  BY <3>1, Constants
<3>3. m.ready[1] \in 1..NumSlabs
  BY <3>2, ReadyFacts
<3>4. QED BY <3>1, <3>3
<2>3. QED BY <2>1, <2>2
<1>2. NumSlabs \in Nat /\ SlabSize \in Nat /\ s \in 1..NumSlabs
  BY Constants
<1>3. CASE m.ready = <<>>
<2>1. PICK t \in 1..NumSlabs : t = m.indexToAck
  BY <1>1
<2>2. Age(m, s) = IF s < t THEN t - s ELSE t - s + NumSlabs
  BY <1>3, <2>1 DEF Age
<2>3. Age(m, s) \in 0..NumSlabs
  BY <1>2, <2>2
<2>4. QED BY <1>2, <1>3, <2>3
<1>4. CASE m.ready # <<>>
<2>1. PICK t \in 1..NumSlabs : t = Head(m.ready)
  BY <1>1, <1>4
<2>2. Age(m, s) = IF s <= t THEN t - s ELSE t - s + NumSlabs
  BY <1>4, <2>1 DEF Age
<2>3. Age(m, s) \in 0..NumSlabs /\ Age(m, s) <= NumSlabs - 1
  BY <1>2, <2>2
<2>4. QED BY <1>2, <2>3
<1>5. QED BY <1>3, <1>4

\* A chunk shows the bytes of the stream behind the first p.
LEMMA PlacedBytes ==
    ASSUME NEW m, NEW n \in Nat, NEW c, NEW p \in Nat, Placed(memory, m, n, c, p)
    PROVE  /\ Bytes(c) = Stream(p + 1, c.length)
           /\ c.length \in Nat
<1>1. c.length \in Nat /\ c.address \in Nat /\ c.base \in Nat
  BY DEF Placed, InRing, InPool, ChunkRecords
<1>2. ASSUME NEW i \in 1..c.length
      PROVE  memory[c.mem][(c.address + i - 1) % Sizes(c.mem)] = p + 1 + i - 1
<2>1. CASE InRing(memory, m, n, c, p)
<3>1. PICK q \in Nat : q = Start(c, p) /\ q <= FrontStart(m, n)
  BY <2>1 DEF InRing
<3>2. /\ c.mem = Ring /\ c.base = q % RingLength /\ c.base <= c.address /\ p + c.length <= n
      /\ q = p - (c.address - c.base)
      /\ \A o \in q..(n - 1) : memory[Ring][o % RingLength] = o + 1
  BY <2>1, <3>1 DEF InRing, Start
<3>3. PICK d \in Nat : d = c.address - c.base + i - 1
  BY <1>1, <3>2
<3>4. c.address + i - 1 = (q % RingLength) + d /\ q + d = p + i - 1
<4>1. PICK x \in Nat, y \in Nat, z \in Nat : x = c.address /\ y = c.base /\ z = c.length
  BY <1>1
<4>2. y <= x /\ q = p - (x - y) /\ d = x - y + i - 1
  BY <4>1, <3>2, <3>3
<4>3. i \in Nat
  BY <1>1
<4>4. x + i - 1 = y + d /\ q + d = p + i - 1
  BY <4>2, <4>3
<4>5. QED BY <4>1, <4>4, <3>2
<3>5. (c.address + i - 1) % RingLength = (p + i - 1) % RingLength
<4> RingLength \in Nat \ {0} /\ q \in Int /\ d \in Int
  BY Constants
<4>1. ((q % RingLength) + d) % RingLength = (q + d) % RingLength
  BY ModPlus
<4>2. QED BY <3>4, <4>1
<3>6. p + i - 1 \in q..(n - 1) /\ p + i - 1 + 1 = p + 1 + i - 1
  BY <1>1, <3>1, <3>2, <3>3, <3>4
<3>7. memory[Ring][(p + i - 1) % RingLength] = p + 1 + i - 1
  BY <3>2, <3>6
<3>8. QED BY <3>2, <3>5, <3>7 DEF Sizes
<2>2. CASE InPool(memory, n, c, p)
<3>1. /\ c.mem \in PoolBuffers /\ c.address + c.length <= PoolSize
      /\ \A j \in 0..(c.length - 1) : memory[c.mem][c.address + j] = p + j + 1
  BY <2>2 DEF InPool
<3>2. c.mem # Ring
  BY <3>1, FlowAssumption
<3>3. c.address + i - 1 \in 0..(PoolSize - 1) /\ PoolSize \in Nat \ {0}
  BY <1>1, <3>1, Constants
<3>4. (c.address + i - 1) % PoolSize = c.address + i - 1
  BY <3>3, ModSmall
<3>5. i - 1 \in 0..(c.length - 1) /\ c.address + (i - 1) = c.address + i - 1
      /\ p + (i - 1) + 1 = p + 1 + i - 1
  BY <1>1
<3>6. memory[c.mem][c.address + i - 1] = p + 1 + i - 1
  BY <3>1, <3>5
<3>7. QED BY <3>2, <3>4, <3>6 DEF Sizes
<2>3. QED BY <2>1, <2>2 DEF Placed
<1>3. QED BY <1>1, <1>2 DEF Bytes, Stream

\* The ring after work() has written into the front slab and produced k bytes
Written(ring, m, n, k) ==
    [i \in DOMAIN ring |->
        LET offset == (i - m.front.address) % RingLength
        IN  IF offset < k THEN n + offset + 1
            ELSE IF offset < m.front.length THEN Scribble ELSE ring[i]]

\* What the front slab has given so far is in the ring.
FrontWritten(cells, m, n) ==
    /\ cells[Ring] \in [0..(RingLength - 1) -> Nat]
    /\ \A o \in FrontStart(m, n)..(n - 1) : cells[Ring][o % RingLength] = o + 1

\* Of a ring that has become `new`: the n-th byte and the next ones have been
\* written, and nothing outside the slab that begins at byte f.
OnlyFrontWritten(ring, new, f, n, k) ==
    /\ new \in [0..(RingLength - 1) -> Nat]
    /\ \A o \in n..(n + k - 1) : new[o % RingLength] = o + 1
    /\ \A o \in (f + SlabSize - RingLength)..(n - 1) :
          new[o % RingLength] = ring[o % RingLength]

\* work() writes the bytes it produces behind the others, and nothing into the
\* bytes of the ring that are not of the front slab.
LEMMA WrittenIs ==
    ASSUME NEW m, NEW n \in Nat, NEW alive, ManagerFits(m, n, alive), m.ready # <<>>,
           NEW k \in 1..m.front.length, NEW ring \in [0..(RingLength - 1) -> Nat]
    PROVE  OnlyFrontWritten(ring, Written(ring, m, n, k), FrontStart(m, n), n, k)
<1> DEFINE new == Written(ring, m, n, k)
<1>1. PICK b \in 0..(SlabSize - 1) : b = m.bytesToPop
  BY FrontFacts
<1>2. PICK L \in Nat \ {0}, S \in Nat \ {0} : L = RingLength /\ S = SlabSize /\ S <= L
  BY Constants
<1>3. b \in Nat /\ b < S
  BY <1>1, <1>2
<1>4. m.front.length = S - b /\ m.front.address = m.frontAddress + b
  BY <1>1, <1>2, FrontFacts
<1>5. m.frontAddress = (n - b) % L
  BY <1>1, <1>2 DEF ManagerFits, FrontStart
<1>6. k \in Nat /\ k >= 1 /\ k <= S - b /\ m.front.length \in Nat
<2>1. PICK x \in Nat : x = m.front.length /\ x = S - b
  BY <1>2, <1>3, <1>4
<2>2. k \in 1..x
  BY <2>1
<2>3. QED BY <2>1, <2>2
<1>7. \A i \in 0..(L - 1) : (i - m.front.address) % L \in 0..(L - 1)
<2>1. m.front.address \in Int
<3>1. (n - b) % L \in 0..(L - 1)
<4> n - b \in Int
  BY <1>3
<4>1. QED BY ModRange
<3>2. QED BY <1>3, <1>4, <1>5, <3>1
<2>2. ASSUME NEW i \in 0..(L - 1) PROVE (i - m.front.address) % L \in 0..(L - 1)
<3> i - m.front.address \in Int
  BY <2>1
<3>1. QED BY ModRange
<2>3. QED BY <2>2
<1>8. \A i \in 0..(L - 1) :
         new[i] = IF ((i - m.front.address) % L) < k THEN n + ((i - m.front.address) % L) + 1
                  ELSE IF ((i - m.front.address) % L) < m.front.length THEN 0 ELSE ring[i]
<2>1. DOMAIN ring = 0..(L - 1)
  BY <1>2
<2>2. QED BY <1>2, <2>1 DEF Written, Scribble
<1>9. new \in [0..(L - 1) -> Nat]
<2>1. new = [i \in 0..(L - 1) |-> new[i]]
  BY <1>2 DEF Written
<2>2. ASSUME NEW i \in 0..(L - 1) PROVE new[i] \in Nat
<3>1. PICK d \in 0..(L - 1) : d = (i - m.front.address) % L
  BY <1>7
<3>2. new[i] = IF d < k THEN n + d + 1 ELSE IF d < m.front.length THEN 0 ELSE ring[i]
  BY <1>8, <3>1
<3>3. ring[i] \in Nat /\ n + d + 1 \in Nat
  BY <1>2, <3>1
<3>4. QED BY <3>2, <3>3
<2> HIDE DEF new
<2>3. QED BY <2>1, <2>2
<1> HIDE DEF new
<1>10. ASSUME NEW o \in Int
       PROVE  /\ o % L \in 0..(L - 1)
              /\ ((o % L) - m.front.address) % L = (o - n) % L
<2>1. o % L \in 0..(L - 1)
  BY ModRange
<2>2. ((o % L) - ((n - b) % L) + (0 - b)) % L = (o - (n - b) + (0 - b)) % L
<3> n - b \in Int /\ 0 - b \in Int
  BY <1>3
<3>1. QED BY ModLinear
<2>3. o - (n - b) + (0 - b) = o - n
  BY <1>3
<2>4. (o % L) - m.front.address = (o % L) - ((n - b) % L) + (0 - b)
<3>1. PICK x \in Int, y \in Int : x = o % L /\ y = (n - b) % L
<4> n - b \in Int
  BY <1>3
<4>1. (n - b) % L \in 0..(L - 1)
  BY ModRange
<4>2. QED BY <4>1, <2>1
<3>2. m.front.address = y + b
  BY <1>4, <1>5, <3>1
<3>3. x - (y + b) = x - y + (0 - b)
  BY <1>3
<3>4. QED BY <3>1, <3>2, <3>3
<2>5. QED BY <2>1, <2>2, <2>3, <2>4
<1>11. ASSUME NEW o \in n..(n + k - 1) PROVE new[o % L] = o + 1
<2>1. o \in Int /\ o - n \in 0..(L - 1) /\ o - n < k
  BY <1>2, <1>3, <1>6
<2>2. ((o % L) - m.front.address) % L = o - n
<3>1. (o - n) % L = o - n
  BY <2>1, ModSmall
<3>2. QED BY <2>1, <3>1, <1>10
<2>3. o % L \in 0..(L - 1)
  BY <2>1, <1>10
<2>4. n + (o - n) + 1 = o + 1
  BY <2>1
<2>5. new[o % L] = n + (o - n) + 1
  BY <1>8, <2>1, <2>2, <2>3
<2>6. QED BY <2>4, <2>5
<1>12. ASSUME NEW o \in (FrontStart(m, n) + S - L)..(n - 1) PROVE new[o % L] = ring[o % L]
<2>1. o \in Int /\ o - n \in (0 - L)..(0 - 1) /\ o - n + L >= S - b
<3>1. FrontStart(m, n) = n - b
  BY <1>1 DEF FrontStart
<3>2. QED BY <3>1, <1>2, <1>3
<2>2. ((o % L) - m.front.address) % L = o - n + L
<3>1. (o - n) % L = o - n + L
  BY <2>1, ModBelow
<3>2. QED BY <2>1, <3>1, <1>10
<2>3. o % L \in 0..(L - 1)
  BY <2>1, <1>10
<2>4. ~(o - n + L < k) /\ ~(o - n + L < m.front.length)
  BY <2>1, <1>2, <1>3, <1>4, <1>6
<2>5. QED BY <1>8, <2>2, <2>3, <2>4
<1>13. QED BY <1>2, <1>9, <1>11, <1>12 DEF new, OnlyFrontWritten

\* pop() of k bytes: all slabs grow older together, by one turn or not at all.
LEMMA PopAges ==
    ASSUME NEW m, NEW n \in Nat, NEW alive \in SUBSET Slabs, ManagerFits(m, n, alive),
           m.ready # <<>>, NEW k \in 1..m.front.length
    PROVE  /\ ManagerFits(PopSlab(m, k), n + k, alive \cup {Head(m.ready)})
           /\ \E d \in 0..1 :
                 /\ \A s \in alive \cup {Head(m.ready)} : Age(PopSlab(m, k), s) = Age(m, s) + d
                 /\ PopSlab(m, k).bytesToPop = IF d = 0 THEN m.bytesToPop + k ELSE 0
<1>1. CASE m.front.length >= 2 * k
<2>1. /\ ManagerFits(PopSlab(m, k), n + k, alive \cup {Head(m.ready)})
      /\ PopSlab(m, k).ready = m.ready
      /\ PopSlab(m, k).bytesToPop = m.bytesToPop + k
  BY <1>1, PopStays
<2>2. \A s \in alive \cup {Head(m.ready)} : Age(PopSlab(m, k), s) = Age(m, s) + 0
<3>1. Head(m.ready) \in Slabs
<4>1. m.ready \in Seq(Slabs)
  BY ReadyFacts
<4>2. QED BY <4>1, HeadTailProperties
<3>2. ASSUME NEW s \in Slabs PROVE Age(m, s) \in Int
  BY AgeIsInt
<3>3. ASSUME NEW s PROVE Age(PopSlab(m, k), s) = Age(m, s)
  BY <2>1 DEF Age
<3>4. QED BY <3>1, <3>2, <3>3
<2>3. QED BY <2>1, <2>2
<1>2. CASE ~(m.front.length >= 2 * k)
<2>1. /\ ManagerFits(PopSlab(m, k), n + k, alive \cup {Head(m.ready)})
      /\ PopSlab(m, k).bytesToPop = 0
      /\ \A s \in alive \cup {Head(m.ready)} : Age(PopSlab(m, k), s) = Age(m, s) + 1
  BY <1>2, PopLeaves
<2>2. QED BY <2>1
<1>3. QED BY <1>1, <1>2

\* What production does to the memory and to the manager's place in the stream:
\* `cells` becomes `after`, m becomes `next`, and slabs are d turns older.
Produced(cells, after, m, next, n, k, d) ==
    /\ d \in 0..1
    /\ after[Ring] = Written(cells[Ring], m, n, k)
    /\ next.bytesToPop = IF d = 0 THEN m.bytesToPop + k ELSE 0

LEMMA ProducedFront ==
    ASSUME NEW m, NEW n \in Nat, NEW alive \in SUBSET Slabs, ManagerFits(m, n, alive),
           m.ready # <<>>, NEW k \in 1..m.front.length, NEW cells, NEW after, NEW next, NEW d,
           Produced(cells, after, m, next, n, k, d)
    PROVE  /\ FrontStart(m, n) \in Nat /\ FrontStart(next, n + k) \in Nat
           /\ FrontStart(m, n) <= n
           /\ FrontStart(next, n + k) >= FrontStart(m, n)
           /\ FrontStart(next, n + k) <= FrontStart(m, n) + d * SlabSize
           /\ d = 0 => FrontStart(next, n + k) = FrontStart(m, n)
           /\ d = 1 => FrontStart(next, n + k) = n + k
           /\ k \in Nat /\ k <= SlabSize
<1>1. PICK b \in 0..(SlabSize - 1) : b = m.bytesToPop
  BY FrontFacts
<1>2. PICK S \in Nat \ {0} : S = SlabSize
  BY Constants
<1>3. b \in Nat /\ b < S /\ b <= n
  BY <1>1, <1>2 DEF ManagerFits
<1>4. k \in Nat /\ k >= 1 /\ k <= S - b
<2>1. m.front.length = SlabSize - m.bytesToPop
  BY FrontFacts
<2>2. PICK x \in Nat : x = m.front.length /\ x = S - b
  BY <1>1, <1>2, <1>3, <2>1
<2>3. k \in 1..x
  BY <2>2
<2>4. QED BY <2>2, <2>3
<1>5. FrontStart(m, n) = n - b
  BY <1>1 DEF FrontStart
<1>6. CASE d = 0
<2>1. FrontStart(next, n + k) = n + k - (b + k)
  BY <1>1, <1>6 DEF FrontStart, Produced
<2>2. n + k - (b + k) = n - b /\ d * S = 0
  BY <1>3, <1>4, <1>6, <1>2
<2>3. QED BY <1>2, <1>3, <1>4, <1>5, <1>6, <2>1, <2>2
<1>7. CASE d = 1
<2>1. FrontStart(next, n + k) = n + k - 0
  BY <1>7 DEF FrontStart, Produced
<2>2. d * S = S
  BY <1>2, <1>7
<2>3. QED BY <1>2, <1>3, <1>4, <1>5, <1>7, <2>1, <2>2
<1>8. QED BY <1>6, <1>7 DEF Produced

\* Chunks of the ring keep their bytes.
LEMMA RingCarried ==
    ASSUME NEW m, NEW n \in Nat, NEW alive \in SUBSET Slabs, ManagerFits(m, n, alive),
           m.ready # <<>>, NEW k \in 1..m.front.length, NEW cells, NEW after, NEW next, NEW d,
           Produced(cells, after, m, next, n, k, d), FrontWritten(cells, m, n),
           NEW c, NEW p \in Nat, InRing(cells, m, n, c, p),
           Age(next, c.slab) = Age(m, c.slab) + d
    PROVE  InRing(after, next, n + k, c, p)
<1>1. c.slab \in Slabs /\ c.length \in Nat
  BY DEF InRing, ChunkRecords
<1>2. PICK a \in Int : a = Age(m, c.slab) /\ a <= NumSlabs - 1
<2>1. Age(m, c.slab) \in 0..NumSlabs /\ Age(m, c.slab) <= NumSlabs - 1
  BY <1>1, AgeIsInt
<2>2. QED BY <2>1, Constants
<1>3. PICK t \in Int : t = a * SlabSize /\ t <= RingLength - SlabSize
                       /\ (a + 1) * SlabSize = t + SlabSize
  BY <1>2, AgeBound
<1>4. PICK s \in Nat : s = Start(c, p) /\ s <= FrontStart(m, n) /\ FrontStart(m, n) - s <= t
<2>1. FrontStart(m, n) \in Nat
  BY ProducedFront
<2>2. Start(c, p) \in 0..FrontStart(m, n) /\ FrontStart(m, n) - Start(c, p) <= t
  BY <1>2, <1>3 DEF InRing
<2>3. QED BY <2>1, <2>2
<1>5. PICK f \in Nat, g \in Nat : f = FrontStart(m, n) /\ g = FrontStart(next, n + k)
  BY ProducedFront
<1>6. f <= g /\ f <= n /\ g <= f + d * SlabSize /\ k \in Nat
  BY <1>5, ProducedFront
<1>7. SlabSize \in Nat /\ RingLength \in Nat
  BY Constants
<1>8. d \in 0..1
  BY DEF Produced
<1>9. g - s <= (a + d) * SlabSize
<2>1. CASE d = 0
<3>1. a + d = a /\ d * SlabSize = 0
  BY <2>1, <1>7
<3>2. QED BY <3>1, <1>3, <1>4, <1>5, <1>6
<2>2. CASE d = 1
<3>1. d * SlabSize = SlabSize /\ a + d = a + 1
  BY <2>2, <1>7
<3>2. QED BY <3>1, <1>3, <1>4, <1>5, <1>6, <1>7, SMTT(30)
<2>3. QED BY <2>1, <2>2, <1>8
<1>10. ASSUME NEW o \in s..(n + k - 1) PROVE after[Ring][o % RingLength] = o + 1
<2>1. PICK ring \in [0..(RingLength - 1) -> Nat] :
            ring = cells[Ring] /\ after[Ring] = Written(ring, m, n, k)
  BY DEF Produced, FrontWritten
<2>2. PICK new : new = after[Ring] /\ OnlyFrontWritten(ring, new, f, n, k)
  BY <2>1, <1>5, WrittenIs
<2>3. CASE o < n
<3>1. o \in s..(n - 1) /\ o \in (f + SlabSize - RingLength)..(n - 1)
  BY <2>3, <1>3, <1>4, <1>5, <1>6, <1>7, SMTT(30)
<3>2. new[o % RingLength] = ring[o % RingLength]
  BY <2>2, <3>1 DEF OnlyFrontWritten
<3>3. cells[Ring][o % RingLength] = o + 1
  BY <3>1, <1>4 DEF InRing
<3>4. QED BY <2>1, <2>2, <3>2, <3>3
<2>4. CASE ~(o < n)
<3>1. o \in n..(n + k - 1)
  BY <2>4, <1>4, <1>6
<3>2. QED BY <2>2, <3>1 DEF OnlyFrontWritten
<2>5. QED BY <2>3, <2>4
<1>11. p + c.length <= n + k
<2>1. p + c.length <= n
  BY DEF InRing
<2>2. QED BY <2>1, <1>1, <1>6
<1>12. s \in 0..g
  BY <1>4, <1>5, <1>6
<1>13. QED BY <1>2, <1>4, <1>5, <1>9, <1>10, <1>11, <1>12 DEF InRing

LEMMA FrontCarried ==
    ASSUME NEW m, NEW n \in Nat, NEW alive \in SUBSET Slabs, ManagerFits(m, n, alive),
           m.ready # <<>>, NEW k \in 1..m.front.length, NEW cells, NEW after, NEW next, NEW d,
           Produced(cells, after, m, next, n, k, d), FrontWritten(cells, m, n)
    PROVE  /\ FrontWritten(after, next, n + k)
           /\ \A o \in FrontStart(m, n)..(n + k - 1) : after[Ring][o % RingLength] = o + 1
<1>1. PICK ring \in [0..(RingLength - 1) -> Nat] :
            ring = cells[Ring] /\ after[Ring] = Written(ring, m, n, k)
  BY DEF Produced, FrontWritten
<1>2. PICK f \in Nat, g \in Nat : f = FrontStart(m, n) /\ g = FrontStart(next, n + k)
  BY ProducedFront
<1>3. PICK new : new = after[Ring] /\ OnlyFrontWritten(ring, new, f, n, k)
  BY <1>1, <1>2, WrittenIs
<1>4. f <= g /\ k \in Nat
  BY <1>2, ProducedFront
<1>5. SlabSize \in Nat /\ RingLength \in Nat /\ SlabSize <= RingLength
  BY Constants
<1>6. ASSUME NEW o \in f..(n + k - 1) PROVE after[Ring][o % RingLength] = o + 1
<2>1. CASE o < n
<3>1. o \in f..(n - 1) /\ o \in (f + SlabSize - RingLength)..(n - 1)
  BY <2>1, <1>2, <1>4, <1>5
<3>2. new[o % RingLength] = ring[o % RingLength]
  BY <1>3, <3>1 DEF OnlyFrontWritten
<3>3. cells[Ring][o % RingLength] = o + 1
  BY <3>1, <1>2 DEF FrontWritten
<3>4. QED BY <1>1, <1>3, <3>2, <3>3
<2>2. CASE ~(o < n)
<3>1. o \in n..(n + k - 1)
  BY <2>2, <1>2, <1>4
<3>2. QED BY <1>3, <3>1 DEF OnlyFrontWritten
<2>3. QED BY <2>1, <2>2
<1>7. \A o \in g..(n + k - 1) : o \in f..(n + k - 1)
  BY <1>2, <1>4
<1>8. after[Ring] \in [0..(RingLength - 1) -> Nat]
  BY <1>3 DEF OnlyFrontWritten
<1>9. QED BY <1>2, <1>6, <1>7, <1>8 DEF FrontWritten

LEMMA PoolCarried ==
    ASSUME NEW cells, NEW after, NEW n \in Nat, NEW l \in Nat, n <= l, NEW c, NEW p \in Nat,
           InPool(cells, n, c, p), after[c.mem] = cells[c.mem]
    PROVE  InPool(after, l, c, p)
<1>1. c.length \in Nat /\ p + c.length <= n
  BY DEF InPool, ChunkRecords
<1>2. p + c.length <= l
  BY <1>1
<1>3. QED BY <1>2 DEF InPool

\* The chunk of the k bytes at the front of the ring
FrontChunk(c, m, n, k) ==
    /\ c = [m.front EXCEPT !.length = k]
    /\ c.mem = Ring /\ c.address = m.frontAddress + m.bytesToPop /\ c.length = k
    /\ c.base = m.frontAddress /\ c.size = SlabSize /\ c.slab = Head(m.ready)
    /\ Start(c, n) = FrontStart(m, n)

\* The chunk that is pushed downstream
LEMMA NewChunk ==
    ASSUME NEW m, NEW n \in Nat, NEW alive \in SUBSET Slabs, ManagerFits(m, n, alive),
           m.ready # <<>>, NEW k \in 1..m.front.length
    PROVE  \E c \in ChunkRecords : FrontChunk(c, m, n, k)
<1>1. PICK S \in Nat \ {0}, L \in Nat \ {0} : S = SlabSize /\ L = RingLength
  BY Constants
<1>2. PICK b \in Nat, a \in Nat, s \in Slabs :
         b = m.bytesToPop /\ a = m.frontAddress /\ s = Head(m.ready) /\ b < S
<2>1. m.bytesToPop \in 0..(S - 1) /\ m.frontAddress \in 0..(L - 1)
  BY <1>1, FrontFacts
<2>2. m.ready \in Seq(Slabs)
  BY ReadyFacts
<2>3. Head(m.ready) \in Slabs
  BY <2>2, HeadTailProperties
<2>4. QED BY <1>1, <2>1, <2>3
<1>3. PICK front \in ChunkRecords : front = m.front
  BY DEF ManagerFits, ManagerRecords
<1>4. k \in Nat
<2>1. front.length \in Nat
  BY <1>3 DEF ChunkRecords
<2>2. QED BY <1>3, <2>1
<1>5. PICK c \in ChunkRecords : c = [front EXCEPT !.length = k]
  BY <1>3, <1>4 DEF ChunkRecords
<1>6. /\ c.mem = front.mem /\ c.address = front.address /\ c.length = k
      /\ c.base = front.base /\ c.size = front.size /\ c.slab = front.slab
  BY <1>3, <1>5 DEF ChunkRecords
<1>7. /\ c.mem = Ring /\ c.address = a + b /\ c.base = a /\ c.size = SlabSize /\ c.slab = s
  BY <1>2, <1>3, <1>6, FrontFacts
<1>8. Start(c, n) = FrontStart(m, n)
<2>1. Start(c, n) = n - ((a + b) - a) /\ FrontStart(m, n) = n - b
  BY <1>2, <1>7 DEF Start, FrontStart
<2>2. QED BY <2>1
<1>9. FrontChunk(c, m, n, k)
  BY <1>2, <1>3, <1>5, <1>6, <1>7, <1>8 DEF FrontChunk
<1>10. QED BY ONLY <1>9

LEMMA NewChunkPlaced ==
    ASSUME NEW m, NEW n \in Nat, NEW alive \in SUBSET Slabs, ManagerFits(m, n, alive),
           m.ready # <<>>, NEW k \in 1..m.front.length, NEW cells, NEW after, NEW next, NEW d,
           Produced(cells, after, m, next, n, k, d), FrontWritten(cells, m, n),
           Age(next, Head(m.ready)) = d
    PROVE  InRing(after, next, n + k, [m.front EXCEPT !.length = k], n)
<1>1. PICK c \in ChunkRecords :
              /\ c = [m.front EXCEPT !.length = k]
              /\ c.mem = Ring /\ c.address = m.frontAddress + m.bytesToPop /\ c.length = k
              /\ c.base = m.frontAddress /\ c.size = SlabSize /\ c.slab = Head(m.ready)
              /\ Start(c, n) = FrontStart(m, n)
<2>1. /\ n \in Nat /\ alive \in SUBSET Slabs /\ ManagerFits(m, n, alive)
      /\ m.ready # <<>> /\ k \in 1..m.front.length
  OBVIOUS
<2>2. PICK c \in ChunkRecords : FrontChunk(c, m, n, k)
  BY ONLY <2>1, NewChunk
<2>3. QED BY ONLY <2>2 DEF FrontChunk
<1>2. PICK f \in Nat, g \in Nat : f = FrontStart(m, n) /\ g = FrontStart(next, n + k)
  BY ProducedFront
<1>3. f <= g /\ g <= f + d * SlabSize /\ k \in Nat
  BY <1>2, ProducedFront
<1>4. c.base <= c.address
<2>1. PICK b \in Nat, a \in Nat : b = m.bytesToPop /\ a = m.frontAddress
<3>1. m.bytesToPop \in 0..(SlabSize - 1) /\ m.frontAddress \in 0..(RingLength - 1)
  BY FrontFacts
<3>2. QED BY <3>1
<2>2. QED BY <2>1, <1>1
<1>5. g - f <= d * SlabSize
<2>1. SlabSize \in Nat /\ d \in 0..1
  BY Constants DEF Produced
<2>2. PICK x \in Int : x = d * SlabSize
  BY <2>1
<2>3. QED BY <1>3, <2>2
<1>6. m.frontAddress = f % RingLength
  BY <1>2 DEF ManagerFits
<1>7. \A o \in f..(n + k - 1) : after[Ring][o % RingLength] = o + 1
  BY <1>2, FrontCarried
<1>8. Head(m.ready) \in Slabs
<2>1. m.ready \in Seq(Slabs)
  BY ReadyFacts
<2>2. QED BY <2>1, HeadTailProperties
<1>9. n + c.length <= n + k /\ f \in 0..g
  BY <1>1, <1>2, <1>3
<1>10. InRing(after, next, n + k, c, n)
  BY <1>1, <1>2, <1>4, <1>5, <1>6, <1>7, <1>8, <1>9 DEF InRing
<1>11. QED BY <1>1, <1>10

(***************************************************************************)
(* The queue                                                               *)
(***************************************************************************)

\* Chunk i begins behind pos[i] bytes of the stream: the first behind the k
\* bytes consumed, and each of them where the one before it ends, up to byte n.
Positions(q, pos, k, n) ==
    /\ pos \in [1..(Len(q) + 1) -> 0..n]
    /\ pos[1] = k
    /\ pos[Len(q) + 1] = n
    /\ \A i \in 1..Len(q) : pos[i + 1] = pos[i] + q[i].length

\* Only the front chunk may be one of the pool.
QueuePlaced(cells, m, n, q, pos) ==
    \/ q = <<NullChunk>>
    \/ /\ Placed(cells, m, n, q[1], pos[1])
       /\ \A i \in 2..Len(q) : InRing(cells, m, n, q[i], pos[i])

\* The chunks of the ring are of slabs that came to the front one after the
\* other; those that still continue each other have been merged.
Chained(m, q, pos) ==
    /\ \A i \in 1..(Len(q) - 1) : q[i].mem = Ring =>
          /\ Age(m, q[i].slab) = Age(m, q[i + 1].slab) + 1
          /\ Start(q[i + 1], pos[i + 1]) <= Start(q[i], pos[i]) + SlabSize
          /\ GetEnd(q[i]) = q[i + 1].address => q[i + 1].length = 0
    /\ Len(q) > 1 /\ q[1].mem # Ring => q[2].length > 0
    /\ q[1].mem = Ring /\ q[1].length = 0 => Age(m, q[1].slab) < NumSlabs

\* The last one is of the slab at the front if that has given something, or of
\* the one before.
LastFits(m, q) ==
    q[Len(q)].mem = Ring =>
        Age(m, q[Len(q)].slab) = IF m.bytesToPop > 0 THEN 0 ELSE 1

QueueFits(cells, m, n, k, q, pos) ==
    /\ q \in Seq(ChunkRecords) /\ q # <<>>
    /\ Positions(q, pos, k, n)
    /\ QueuePlaced(cells, m, n, q, pos)
    /\ Chained(m, q, pos)
    /\ LastFits(m, q)

SlabsOf(q) == {c.slab : c \in Range(q)} \ {0}

LEMMA PositionsBytes ==
    ASSUME NEW q \in Seq(ChunkRecords), NEW n \in Nat, NEW k, NEW pos, Positions(q, pos, k, n)
    PROVE  /\ \A i \in 1..(Len(q) + 1) : BytesFrom(q, i) = n - pos[i]
           /\ \A i \in 1..Len(q) : pos[i] + q[i].length <= n
<1> DEFINE f == [i \in 1..(Len(q) + 1) |-> n - pos[i]]
<1>1. /\ Len(q) \in Nat
      /\ \A i \in 1..Len(q) : q[i].length \in Nat
  BY ChunkFacts
<1>2. /\ \A i \in 1..(Len(q) + 1) : pos[i] \in 0..n
      /\ \A i \in 1..Len(q) : pos[i + 1] = pos[i] + q[i].length
      /\ pos[Len(q) + 1] = n
  BY DEF Positions
<1>3. \A i \in 1..(Len(q) + 1) : n - pos[i] \in Nat
  BY <1>2
<1>4. ASSUME NEW i \in 1..Len(q)
      PROVE  n - pos[i] = q[i].length + (n - pos[i + 1]) /\ pos[i] + q[i].length <= n
<2>1. i \in 1..(Len(q) + 1) /\ i + 1 \in 1..(Len(q) + 1)
  BY <1>1
<2>2. PICK x \in 0..n, y \in 0..n, z \in Nat :
         x = pos[i] /\ y = pos[i + 1] /\ z = q[i].length /\ y = x + z
  BY <2>1, <1>1, <1>2
<2>3. n - x = z + (n - y) /\ x + z <= n
  BY <2>2, SMTT(30)
<2>4. QED BY <2>2, <2>3
<1>5. Froms(q, f)
<2>1. f \in [1..(Len(q) + 1) -> Nat]
  BY <1>3
<2>2. Len(q) + 1 \in 1..(Len(q) + 1) /\ \A i \in 1..Len(q) : i \in 1..(Len(q) + 1) /\ i + 1 \in 1..(Len(q) + 1)
  BY <1>1
<2>3. f[Len(q) + 1] = 0
  BY <1>2, <2>2
<2>4. \A i \in 1..Len(q) : f[i] = q[i].length + f[i + 1]
  BY <1>4, <2>2
<2>5. QED BY <2>1, <2>3, <2>4 DEF Froms
<1>6. \A i \in 1..(Len(q) + 1) : BytesFrom(q, i) = f[i]
  BY <1>5, BytesFromIs
<1>7. QED BY <1>4, <1>6

\* What is in the memory Ring is a chunk of a slab, wherever it is in the queue.
LEMMA RingChunk ==
    ASSUME NEW cells, NEW m, NEW n, NEW k, NEW q, NEW pos, QueueFits(cells, m, n, k, q, pos)
    PROVE  /\ Len(q) \in Nat /\ Len(q) >= 1
           /\ \A i \in 1..Len(q) : /\ q[i] \in ChunkRecords
                                   /\ q[i].mem = Ring => /\ InRing(cells, m, n, q[i], pos[i])
                                                         /\ q[i].slab \in SlabsOf(q)
                                   /\ i >= 2 => q[i].mem = Ring
<1>1. q \in Seq(ChunkRecords) /\ q # <<>>
  BY DEF QueueFits
<1>2. Len(q) \in Nat /\ Len(q) >= 1
  BY <1>1, EmptySeq, LenProperties
<1>3. ASSUME NEW i \in 1..Len(q)
      PROVE  /\ q[i].mem = Ring => InRing(cells, m, n, q[i], pos[i]) /\ q[i].slab \in SlabsOf(q)
             /\ i >= 2 => q[i].mem = Ring
<2>1. q[i].mem = Ring => InRing(cells, m, n, q[i], pos[i])
<3>1. CASE q = <<NullChunk>>
<4>1. Len(q) = 1 /\ q[1] = NullChunk
  BY <3>1
<4>2. i = 1
  BY <4>1
<4>3. NullChunk.mem # Ring
  BY DEF NullChunk, Nowhere, Ring
<4>4. QED BY <4>1, <4>2, <4>3
<3>2. CASE q # <<NullChunk>>
<4>1. /\ Placed(cells, m, n, q[1], pos[1])
      /\ \A j \in 2..Len(q) : InRing(cells, m, n, q[j], pos[j])
  BY <3>2 DEF QueueFits, QueuePlaced
<4>2. InPool(cells, n, q[1], pos[1]) => q[1].mem # Ring
  BY FlowAssumption DEF InPool
<4>3. i = 1 \/ i \in 2..Len(q)
  BY <1>2
<4>4. QED BY <4>1, <4>2, <4>3 DEF Placed
<3>3. QED BY <3>1, <3>2
<2>2. i >= 2 => q[i].mem = Ring
<3>1. CASE q = <<NullChunk>>
<4>1. Len(q) = 1
  BY <3>1
<4>2. QED BY <4>1
<3>2. CASE q # <<NullChunk>>
<4>1. \A j \in 2..Len(q) : InRing(cells, m, n, q[j], pos[j])
  BY <3>2 DEF QueueFits, QueuePlaced
<4>2. i >= 2 => i \in 2..Len(q)
  BY <1>2
<4>3. QED BY <4>1, <4>2 DEF InRing
<3>3. QED BY <3>1, <3>2
<2>3. InRing(cells, m, n, q[i], pos[i]) => q[i].slab \in SlabsOf(q)
<3>1. q[i] \in Range(q)
  BY <1>1, <1>2, RangeEquality
<3>2. InRing(cells, m, n, q[i], pos[i]) => q[i].slab # 0
  BY Constants DEF InRing
<3>3. QED BY <3>1, <3>2 DEF SlabsOf
<2>4. QED BY <2>1, <2>2, <2>3
<1>4. QED BY <1>1, <1>2, <1>3, ChunkFacts

\* A chunk of the ring that is moved within its buffer, but not over the bytes
\* produced, stays in its place.
LEMMA RingMoved ==
    ASSUME NEW cells, NEW m, NEW n, NEW b, NEW p, InRing(cells, m, n, b, p),
           NEW c \in ChunkRecords, NEW l,
           c.mem = b.mem, c.slab = b.slab, c.base = b.base, c.size = b.size,
           Start(c, l) = Start(b, p), c.base <= c.address, l + c.length <= n
    PROVE  InRing(cells, m, n, c, l)
BY DEF InRing

\* The manager changes, but not the age of the slabs: the queue goes on to fit.
LEMMA QueueKept ==
    ASSUME NEW cells, NEW m, NEW n, NEW k, NEW q, NEW pos, QueueFits(cells, m, n, k, q, pos),
           NEW after, after[Ring] = cells[Ring],
           q[1].mem \in PoolBuffers => after[q[1].mem] = cells[q[1].mem],
           NEW next, next.bytesToPop = m.bytesToPop,
           \A s \in SlabsOf(q) : Age(next, s) = Age(m, s)
    PROVE  QueueFits(after, next, n, k, q, pos)
<1>1. /\ Len(q) \in Nat /\ Len(q) >= 1
      /\ \A i \in 1..Len(q) : /\ q[i] \in ChunkRecords
                              /\ q[i].mem = Ring => /\ InRing(cells, m, n, q[i], pos[i])
                                                    /\ q[i].slab \in SlabsOf(q)
                              /\ i >= 2 => q[i].mem = Ring
  BY RingChunk
<1>2. \A i \in 1..Len(q) : q[i].mem = Ring => Age(next, q[i].slab) = Age(m, q[i].slab)
  BY <1>1
<1>3. ASSUME NEW i \in 1..Len(q), q[i].mem = Ring
      PROVE  InRing(after, next, n, q[i], pos[i])
<2>1. InRing(cells, m, n, q[i], pos[i]) /\ Age(next, q[i].slab) = Age(m, q[i].slab)
  BY <1>1, <1>2, <1>3
<2>2. FrontStart(next, n) = FrontStart(m, n)
  BY DEF FrontStart
<2>3. QED BY <2>1, <2>2 DEF InRing
<1>4. QueuePlaced(after, next, n, q, pos)
<2>1. CASE q = <<NullChunk>>
  BY <2>1 DEF QueuePlaced
<2>2. CASE q # <<NullChunk>>
<3>1. 1 \in 1..Len(q) /\ \A i \in 2..Len(q) : i \in 1..Len(q) /\ i >= 2
  BY <1>1
<3>2. Placed(cells, m, n, q[1], pos[1])
  BY <2>2 DEF QueueFits, QueuePlaced
<3>3. InPool(cells, n, q[1], pos[1]) => InPool(after, n, q[1], pos[1])
  BY DEF InPool
<3>4. InRing(cells, m, n, q[1], pos[1]) => InRing(after, next, n, q[1], pos[1])
  BY <1>3, <3>1 DEF InRing
<3>5. \A i \in 2..Len(q) : InRing(after, next, n, q[i], pos[i])
  BY <1>1, <1>3, <3>1
<3>6. QED BY <3>2, <3>3, <3>4, <3>5 DEF QueuePlaced, Placed
<2>3. QED BY <2>1, <2>2
<1>5. Chained(next, q, pos)
<2>1. Chained(m, q, pos)
  BY DEF QueueFits
<2>2. 1 \in 1..Len(q) /\ \A i \in 1..(Len(q) - 1) : /\ i \in 1..Len(q) /\ i + 1 \in 1..Len(q)
                                                  /\ i + 1 >= 2
  BY <1>1
<2>3. ASSUME NEW i \in 1..(Len(q) - 1), q[i].mem = Ring
      PROVE  Age(next, q[i].slab) = Age(next, q[i + 1].slab) + 1
<3>1. q[i + 1].mem = Ring
  BY <1>1, <2>2
<3>2. Age(m, q[i].slab) = Age(m, q[i + 1].slab) + 1
  BY <2>1, <2>3 DEF Chained
<3>3. QED BY <1>2, <2>2, <2>3, <3>1, <3>2
<2>4. q[1].mem = Ring => Age(next, q[1].slab) = Age(m, q[1].slab)
  BY <1>2, <2>2
<2>5. QED BY <2>1, <2>3, <2>4 DEF Chained
<1>6. LastFits(next, q)
<2>1. LastFits(m, q) /\ Len(q) \in 1..Len(q)
  BY <1>1 DEF QueueFits
<2>2. QED BY <2>1, <1>2 DEF LastFits
<1>7. QED BY <1>4, <1>5, <1>6 DEF QueueFits

\* Two windows that end at the same address and at the same byte
LEMMA SameShift ==
    ASSUME NEW x \in Int, NEW y \in Int, NEW u \in Int, NEW v \in Int,
           NEW l \in Int, NEW p \in Int, x + y = u + v, l + y = p + v
    PROVE  /\ \A w \in Int : l - (x - w) = p - (u - w)
           /\ v = (x - u) + y /\ l = p + (x - u)
OBVIOUS

\* r is queue q from chunk j on, with another window of this chunk's buffer that
\* ends where it ends, and begins behind l bytes.
HeadWindow(q, pos, n, j, r, l) ==
    /\ j \in 1..Len(q) /\ r \in Seq(ChunkRecords) /\ Len(r) = Len(q) - j + 1
    /\ \A i \in 2..Len(r) : r[i] = q[i + j - 1]
    /\ r[1].mem = q[j].mem /\ r[1].slab = q[j].slab
    /\ r[1].base = q[j].base /\ r[1].size = q[j].size
    /\ GetEnd(r[1]) = GetEnd(q[j]) /\ r[1].base <= r[1].address
    /\ l \in 0..n /\ l + r[1].length = pos[j + 1]
    /\ r[1].mem # Ring => q[j].address <= r[1].address
    /\ r[1].length = 0 => j >= 2 /\ q[j].length = 0

\* The queue from chunk j on, with another window of this chunk's buffer that ends
\* where it ends, and begins behind l bytes, fits as well.
LEMMA HeadMoved ==
    ASSUME NEW cells, NEW m, NEW n \in Nat, NEW alive, ManagerFits(m, n, alive),
           NEW k, NEW q, NEW pos, QueueFits(cells, m, n, k, q, pos), q # <<NullChunk>>,
           NEW j \in 1..Len(q), NEW r \in Seq(ChunkRecords), NEW l \in 0..n,
           HeadWindow(q, pos, n, j, r, l)
    PROVE  \E new : QueueFits(cells, m, n, l, r, new)
<1> /\ Len(r) = Len(q) - j + 1
    /\ \A i \in 2..Len(r) : r[i] = q[i + j - 1]
    /\ r[1].mem = q[j].mem /\ r[1].slab = q[j].slab
    /\ r[1].base = q[j].base /\ r[1].size = q[j].size
    /\ GetEnd(r[1]) = GetEnd(q[j]) /\ r[1].base <= r[1].address
    /\ l + r[1].length = pos[j + 1]
    /\ r[1].mem # Ring => q[j].address <= r[1].address
    /\ r[1].length = 0 => j >= 2 /\ q[j].length = 0
  BY DEF HeadWindow
<1> DEFINE new == [i \in 1..(Len(r) + 1) |-> IF i = 1 THEN l ELSE pos[i + j - 1]]
<1>1. /\ Len(q) \in Nat /\ Len(q) >= 1
      /\ \A i \in 1..Len(q) : /\ q[i] \in ChunkRecords
                              /\ q[i].mem = Ring => /\ InRing(cells, m, n, q[i], pos[i])
                                                    /\ q[i].slab \in SlabsOf(q)
                              /\ i >= 2 => q[i].mem = Ring
  BY RingChunk
<1>2. PICK N \in Nat, R \in Nat : N = Len(q) /\ R = Len(r) /\ R = N - j + 1 /\ R >= 1 /\ j \in 1..N
  BY <1>1
<1>3. /\ 1 \in 1..R /\ R \in 1..R
      /\ \A i \in 1..N : i \in 1..(N + 1) /\ i + 1 \in 1..(N + 1)
      /\ \A i \in 1..(N - 1) : i \in 1..N /\ i + 1 \in 1..N
      /\ \A i \in 2..R : i + j - 1 \in 2..N /\ i \in 2..(R + 1)
      /\ \A i \in 2..(R + 1) : i + j - 1 \in 2..(N + 1) /\ i # 1 /\ i \in 1..(R + 1)
      /\ \A i \in 1..R : i + 1 \in 2..(R + 1) /\ i \in 1..(R + 1) /\ (i = 1 \/ i \in 2..R)
  BY <1>2
<1>4. r # <<>> /\ \A i \in 1..R : r[i] \in ChunkRecords
  BY <1>2, ChunkFacts, EmptySeq
<1>5. /\ \A i \in 1..(N + 1) : pos[i] \in 0..n
      /\ \A i \in 1..N : pos[i + 1] = pos[i] + q[i].length
      /\ pos[N + 1] = n
  BY <1>2 DEF QueueFits, Positions
<1>6. PICK B \in ChunkRecords, C \in ChunkRecords, P \in Nat : B = q[j] /\ C = r[1] /\ P = pos[j]
  BY <1>1, <1>2, <1>3, <1>4, <1>5
<1>7. /\ B.length \in Nat /\ C.length \in Nat /\ B.address \in Nat /\ C.address \in Nat
      /\ B.base \in Nat /\ C.base \in Nat
  BY <1>6 DEF ChunkRecords
<1>8. /\ C.mem = B.mem /\ C.slab = B.slab /\ C.base = B.base /\ C.size = B.size
      /\ C.address + C.length = B.address + B.length /\ C.base <= C.address
      /\ C.mem # Ring => B.address <= C.address
      /\ C.length = 0 => j >= 2 /\ B.length = 0
  BY <1>6 DEF GetEnd
<1>9. P + B.length <= n /\ l + C.length = P + B.length
<2>1. pos[j + 1] = P + B.length /\ pos[j + 1] \in 0..n
  BY <1>2, <1>3, <1>5, <1>6
<2>2. QED BY <2>1, <1>6, <1>7
<1>10. l \in Nat
  OBVIOUS
<1>11. Start(C, l) = Start(B, P)
<2>1. l - (C.address - C.base) = P - (B.address - B.base)
<3>1. PICK x \in Nat, y \in Nat, u \in Nat, v \in Nat, w \in Nat :
         x = C.address /\ y = C.length /\ u = B.address /\ v = B.length /\ w = C.base /\ w = B.base
  BY <1>7, <1>8
<3>2. x + y = u + v /\ l + y = P + v
  BY <3>1, <1>8, <1>9
<3>3. l - (x - w) = P - (u - w)
  BY ONLY <3>2, <1>10, SameShift
<3>4. QED BY <3>1, <3>3
<2>2. QED BY <2>1 DEF Start
<1>12. \A i \in 2..(R + 1) : new[i] = pos[i + j - 1]
  BY <1>2, <1>3
<1>13. new[1] = l
  BY <1>2, <1>3
<1>14. Positions(r, new, l, n)
<2>1. new \in [1..(R + 1) -> 0..n]
<3>1. ASSUME NEW i \in 1..(R + 1) PROVE (IF i = 1 THEN l ELSE pos[i + j - 1]) \in 0..n
<4>1. i = 1 \/ i \in 2..(R + 1)
  BY <1>2
<4>2. i \in 2..(R + 1) => pos[i + j - 1] \in 0..n
<5>1. i \in 2..(R + 1) => i + j - 1 \in 1..(N + 1)
  BY <1>2
<5>2. QED BY <5>1, <1>5
<4>3. QED BY <4>1, <4>2
<3>2. QED BY <3>1, <1>2
<2>2. new[R + 1] = n
<3>1. R + 1 \in 2..(R + 1) /\ (R + 1) + j - 1 = N + 1
  BY <1>2
<3>2. QED BY <3>1, <1>12, <1>5
<2>3. ASSUME NEW i \in 1..R PROVE new[i + 1] = new[i] + r[i].length
<3>1. new[i + 1] = pos[i + j]
<4>1. i + 1 \in 2..(R + 1) /\ (i + 1) + j - 1 = i + j
  BY <1>2
<4>2. QED BY <4>1, <1>12
<3>2. CASE i = 1
<4>1. new[i] = l /\ r[i] = C /\ i + j = j + 1
  BY <3>2, <1>2, <1>6, <1>13
<4>2. pos[j + 1] = P + B.length
  BY <1>2, <1>3, <1>5, <1>6
<4>3. QED BY <3>1, <4>1, <4>2, <1>9
<3>3. CASE i # 1
<4>1. i \in 2..R /\ i + j - 1 \in 1..N /\ (i + j - 1) + 1 = i + j
  BY <3>3, <1>2
<4>2. new[i] = pos[i + j - 1] /\ r[i] = q[i + j - 1]
  BY <4>1, <1>2, <1>3, <1>12
<4>3. QED BY <3>1, <4>1, <4>2, <1>5
<3>4. QED BY <3>2, <3>3
<2> HIDE DEF new
<2>4. QED BY <2>1, <2>2, <2>3, <1>2, <1>13 DEF Positions
<1> HIDE DEF new
<1>15. B.mem = Ring => InRing(cells, m, n, C, l)
<2>1. ASSUME B.mem = Ring PROVE InRing(cells, m, n, C, l)
<3>1. InRing(cells, m, n, B, P)
  BY <2>1, <1>1, <1>2, <1>6
<3>2. l + C.length <= n
  BY <1>9
<3>3. QED BY <3>1, <3>2, <1>8, <1>11, RingMoved
<2>2. QED BY <2>1
<1>16. B.mem # Ring => j = 1 /\ InPool(cells, n, C, l)
<2>1. ASSUME B.mem # Ring PROVE j = 1 /\ InPool(cells, n, C, l)
<3>1. j = 1
  BY <2>1, <1>1, <1>2, <1>6
<3>2. InPool(cells, n, B, P)
<4>1. Placed(cells, m, n, B, P)
  BY <3>1, <1>6 DEF QueueFits, QueuePlaced
<4>2. QED BY <4>1, <2>1 DEF Placed, InRing
<3>3. PICK x \in Nat : x = C.address - B.address
  BY <2>1, <1>7, <1>8
<3>4. PICK u \in Nat, y \in Nat, v \in Nat : u = B.address /\ v = B.length /\ y = C.length
  BY <1>7
<3>5. C.address = u + x /\ v = x + y /\ l = P + x
<4>1. PICK z \in Nat : z = C.address
  BY <1>7
<4>2. z + y = u + v /\ l + y = P + v
  BY <4>1, <3>3, <3>4, <1>8, <1>9
<4>3. x = z - u
  BY <4>1, <3>3, <3>4
<4>4. z = u + x
  BY ONLY <4>3
<4>5. v = (z - u) + y /\ l = P + (z - u)
  BY ONLY <4>2, <1>10, SameShift
<4>6. QED BY <4>1, <4>3, <4>4, <4>5
<3>6. \A i \in 0..(v - 1) : cells[B.mem][u + i] = P + i + 1
  BY <3>2, <3>4 DEF InPool
<3>7. ASSUME NEW i \in 0..(y - 1) PROVE cells[C.mem][C.address + i] = l + i + 1
<4>1. x + i \in 0..(v - 1) /\ u + (x + i) = (u + x) + i /\ P + (x + i) + 1 = (P + x) + i + 1
<5>1. i \in Nat /\ i <= y - 1
  BY <3>4
<5>2. v = x + y
  BY <3>5
<5>3. x + i \in 0..(v - 1)
  BY ONLY <5>1, <5>2
<5>4. u + (x + i) = (u + x) + i
  BY <5>1, <3>3, <3>4, SMTT(30)
<5>5. P + (x + i) + 1 = (P + x) + i + 1
  BY <5>1, <3>3, <1>6
<5>6. QED BY <5>3, <5>4, <5>5
<4>2. cells[B.mem][u + (x + i)] = P + (x + i) + 1
  BY <4>1, <3>6
<4>3. QED BY <4>1, <4>2, <3>5, <1>8
<3>8. C.address + C.length <= PoolSize /\ l + C.length <= n
  BY <3>2, <1>8, <1>9 DEF InPool
<3>9. InPool(cells, n, C, l)
  BY <3>2, <3>4, <3>7, <3>8, <1>8 DEF InPool
<3>10. QED BY <3>1, <3>9
<2>2. QED BY <2>1
<1>17. QueuePlaced(cells, m, n, r, new)
<2>1. Placed(cells, m, n, r[1], new[1])
  BY <1>6, <1>8, <1>13, <1>15, <1>16 DEF Placed
<2>2. ASSUME NEW i \in 2..R PROVE InRing(cells, m, n, r[i], new[i])
<3>1. r[i] = q[i + j - 1] /\ new[i] = pos[i + j - 1] /\ i + j - 1 \in 2..N
  BY <1>2, <1>3, <1>12
<3>2. i + j - 1 \in 1..N /\ i + j - 1 >= 2
  BY <3>1
<3>3. QED BY <3>1, <3>2, <1>1, <1>2
<2>3. QED BY <2>1, <2>2, <1>2 DEF QueuePlaced
<1>18. Chained(m, q, pos) /\ LastFits(m, q)
  BY DEF QueueFits
<1>19. ASSUME NEW i \in 1..(R - 1), r[i].mem = Ring
       PROVE  /\ Age(m, r[i].slab) = Age(m, r[i + 1].slab) + 1
              /\ Start(r[i + 1], new[i + 1]) <= Start(r[i], new[i]) + SlabSize
              /\ GetEnd(r[i]) = r[i + 1].address => r[i + 1].length = 0
<2>1. PICK t \in 1..(N - 1) : t = i + j - 1 /\ t + 1 = (i + 1) + j - 1
<3>1. i \in 1..(R - 1) /\ R = N - j + 1 /\ j \in 1..N /\ N \in Nat
  BY <1>2
<3>2. i + j - 1 \in 1..(N - 1) /\ (i + j - 1) + 1 = (i + 1) + j - 1
  BY ONLY <3>1
<3>3. QED BY <3>2
<2>2. i + 1 \in 2..R /\ i + 1 \in 2..(R + 1)
  BY <1>2
<2>3. r[i + 1] = q[t + 1] /\ new[i + 1] = pos[t + 1]
  BY <2>1, <2>2, <1>2, <1>12
<2>4. q[t].mem = r[i].mem /\ q[t].slab = r[i].slab /\ Start(r[i], new[i]) = Start(q[t], pos[t])
      /\ GetEnd(r[i]) = GetEnd(q[t])
<3>1. CASE i = 1
<4>1. t = j /\ r[i] = C /\ q[t] = B /\ new[i] = l /\ pos[t] = P
  BY <3>1, <2>1, <1>2, <1>6, <1>13
<4>2. QED BY <4>1, <1>6, <1>8, <1>11
<3>2. CASE i # 1
<4>1. i \in 2..R /\ i \in 2..(R + 1)
  BY <3>2, <1>2
<4>2. r[i] = q[t] /\ new[i] = pos[t]
  BY <4>1, <2>1, <1>2, <1>12
<4>3. QED BY <4>2
<3>3. QED BY <3>1, <3>2
<2>5. /\ Age(m, q[t].slab) = Age(m, q[t + 1].slab) + 1
      /\ Start(q[t + 1], pos[t + 1]) <= Start(q[t], pos[t]) + SlabSize
      /\ GetEnd(q[t]) = q[t + 1].address => q[t + 1].length = 0
  BY <1>18, <1>2, <2>4, <1>19 DEF Chained
<2>6. QED BY <2>3, <2>4, <2>5
<1>20. ASSUME R > 1, r[1].mem # Ring PROVE r[2].length > 0
<2>1. j = 1
  BY <1>20, <1>6, <1>8, <1>16
<2>2. N > 1 /\ q[1].mem # Ring /\ r[2] = q[2]
<3>1. 2 \in 2..R /\ 2 + j - 1 = 2 /\ N > 1
  BY <2>1, <1>20, <1>2
<3>2. r[2] = q[2 + j - 1]
  BY <3>1, <1>2
<3>3. QED BY <3>1, <3>2, <2>1, <1>20, <1>6, <1>8
<2>3. QED BY <2>2, <1>18, <1>2 DEF Chained
<1>21. ASSUME r[1].mem = Ring, r[1].length = 0 PROVE Age(m, r[1].slab) < NumSlabs
<2>1. j >= 2 /\ B.length = 0
  BY <1>21, <1>6, <1>8
<2>2. PICK t \in 1..(N - 1) : t = j - 1 /\ t + 1 = j /\ t \in 1..N
  BY <2>1, <1>2
<2>3. q[t].mem = Ring
<3>1. ASSUME q[t].mem # Ring PROVE FALSE
<4>1. t = 1 /\ j = 2 /\ N > 1
<5>1. ~(t >= 2)
  BY <3>1, <2>2, <1>1, <1>2
<5>2. QED BY <5>1, <2>2, <1>2
<4>2. q[2].length > 0
  BY <4>1, <3>1, <1>18, <1>2 DEF Chained
<4>3. QED BY <4>1, <4>2, <2>1, <1>6
<3>2. QED BY <3>1
<2>4. Age(m, q[t].slab) = Age(m, q[j].slab) + 1
  BY <2>2, <2>3, <1>18, <1>2 DEF Chained
<2>5. PICK x \in Int, y \in Int : x = Age(m, q[t].slab) /\ y = Age(m, q[j].slab) /\ x <= NumSlabs
<3>1. q[t].slab \in Slabs /\ q[j].slab \in Slabs
<4>1. B.mem = Ring
  BY <1>21, <1>6, <1>8
<4>2. QED BY <4>1, <2>2, <2>3, <1>1, <1>2, <1>6 DEF InRing
<3>2. Age(m, q[t].slab) \in 0..NumSlabs /\ Age(m, q[j].slab) \in 0..NumSlabs
  BY <3>1, AgeIsInt
<3>3. QED BY <3>2, Constants
<2>6. y < NumSlabs
<3>1. NumSlabs \in Nat /\ x = y + 1
  BY <2>4, <2>5, Constants
<3>2. QED BY <3>1, <2>5
<2>7. QED BY <2>5, <2>6, <1>6, <1>8
<1>22. Chained(m, r, new)
  BY <1>2, <1>19, <1>20, <1>21 DEF Chained
<1>23. LastFits(m, r)
<2>1. q[N].mem = r[R].mem /\ q[N].slab = r[R].slab
<3>1. CASE R = 1
<4>1. N = j
  BY <3>1, <1>2
<4>2. QED BY <4>1, <3>1, <1>6, <1>8
<3>2. CASE R # 1
<4>1. R \in 2..R /\ R + j - 1 = N
  BY <3>2, <1>2
<4>2. QED BY <4>1, <1>2
<3>3. QED BY <3>1, <3>2
<2>2. QED BY <2>1, <1>2, <1>18 DEF LastFits
<1>24. QED BY <1>4, <1>14, <1>17, <1>22, <1>23 DEF QueueFits

LEMMA HeadWindowFits ==
    ASSUME NEW cells, NEW m, NEW n \in Nat, NEW alive, ManagerFits(m, n, alive),
           NEW k, NEW q, NEW pos, QueueFits(cells, m, n, k, q, pos), q # <<NullChunk>>,
           NEW j, NEW r, NEW l, HeadWindow(q, pos, n, j, r, l)
    PROVE  \E new : QueueFits(cells, m, n, l, r, new)
<1>1. PICK i \in 1..Len(q), s \in Seq(ChunkRecords), o \in 0..n :
         i = j /\ s = r /\ o = l /\ HeadWindow(q, pos, n, i, s, o)
  BY DEF HeadWindow
<1>2. \E new : QueueFits(cells, m, n, o, s, new)
  BY <1>1, HeadMoved
<1>3. QED BY <1>1, <1>2

\* A queue of one chunk that has all the bytes: one of the pool, or none
LEMMA OneFits ==
    ASSUME NEW cells, NEW m, NEW n \in Nat, NEW k \in Nat, NEW c \in ChunkRecords,
           k + c.length = n, c = NullChunk \/ InPool(cells, n, c, k)
    PROVE  \E new : QueueFits(cells, m, n, k, <<c>>, new)
<1> DEFINE new == [i \in 1..2 |-> IF i = 1 THEN k ELSE n]
<1>1. c.length \in Nat /\ k <= n
<2>1. c.length \in Nat
  BY DEF ChunkRecords
<2>2. QED BY <2>1
<1>2. c.mem # Ring
<2>1. NullChunk.mem # Ring
  BY DEF NullChunk, Nowhere, Ring
<2>2. InPool(cells, n, c, k) => c.mem # Ring
  BY FlowAssumption DEF InPool
<2>3. QED BY <2>1, <2>2
<1>3. Len(<<c>>) = 1 /\ <<c>>[1] = c /\ <<c>> \in Seq(ChunkRecords) /\ <<c>> # <<>>
  OBVIOUS
<1>4. new \in [1..2 -> 0..n] /\ new[1] = k /\ new[2] = n
  BY <1>1
<1> HIDE DEF new
<1>5. Positions(<<c>>, new, k, n)
<2>1. \A i \in 1..1 : new[i + 1] = new[i] + <<c>>[i].length
<3>1. new[1 + 1] = new[1] + <<c>>[1].length
  BY <1>3, <1>4
<3>2. \A i \in 1..1 : i = 1
  OBVIOUS
<3>3. QED BY <3>1, <3>2
<2>2. 1 + 1 = 2
  OBVIOUS
<2>3. QED BY <1>3, <1>4, <2>1, <2>2 DEF Positions
<1>6. QueuePlaced(cells, m, n, <<c>>, new)
<2>1. \A i \in 2..1 : FALSE
  OBVIOUS
<2>2. c = NullChunk \/ Placed(cells, m, n, <<c>>[1], new[1])
  BY <1>3, <1>4 DEF Placed
<2>3. QED BY <1>3, <2>1, <2>2 DEF QueuePlaced
<1>7. Chained(m, <<c>>, new) /\ LastFits(m, <<c>>)
<2>1. \A i \in 1..(1 - 1) : FALSE
  OBVIOUS
<2>2. QED BY <1>2, <1>3, <2>1 DEF Chained, LastFits
<1>8. QED BY <1>3, <1>5, <1>6, <1>7 DEF QueueFits

\* A copy in a pool buffer comes before the chunks of the ring.
LEMMA CopyFirst ==
    ASSUME NEW cells, NEW m, NEW n \in Nat, NEW l, NEW q, NEW pos,
           QueueFits(cells, m, n, l, q, pos), q[1].mem = Ring, q[1].length > 0,
           NEW k \in Nat, NEW c \in ChunkRecords, InPool(cells, n, c, k), k + c.length = l
    PROVE  \E new : QueueFits(cells, m, n, k, <<c>> \o q, new)
<1> DEFINE r == <<c>> \o q
           new == [i \in 1..(Len(q) + 2) |-> IF i = 1 THEN k ELSE pos[i - 1]]
<1>1. /\ Len(q) \in Nat /\ Len(q) >= 1
      /\ \A i \in 1..Len(q) : /\ q[i] \in ChunkRecords
                              /\ q[i].mem = Ring => /\ InRing(cells, m, n, q[i], pos[i])
                                                    /\ q[i].slab \in SlabsOf(q)
                              /\ i >= 2 => q[i].mem = Ring
  BY RingChunk
<1>2. PICK N \in Nat : N = Len(q) /\ N >= 1
  BY <1>1
<1>3. q \in Seq(ChunkRecords) /\ Chained(m, q, pos) /\ LastFits(m, q)
  BY DEF QueueFits
<1>4. /\ r \in Seq(ChunkRecords) /\ Len(r) = N + 1 /\ r[1] = c
      /\ \A i \in 2..(N + 1) : r[i] = q[i - 1]
<2>1. <<c>> \in Seq(ChunkRecords) /\ Len(<<c>>) = 1 /\ <<c>>[1] = c
  OBVIOUS
<2>2. PICK a \in Seq(ChunkRecords) : a = <<c>> /\ Len(a) = 1 /\ a[1] = c
  BY <2>1
<2>3. PICK b \in Seq(ChunkRecords) : b = q /\ Len(b) = N
  BY <1>2, <1>3
<2>4. /\ a \o b \in Seq(ChunkRecords) /\ Len(a \o b) = Len(a) + Len(b)
      /\ \A i \in 1..(Len(a) + Len(b)) : (a \o b)[i] = IF i <= Len(a) THEN a[i] ELSE b[i - Len(a)]
  BY ConcatProperties
<2>5. a \o b = r
  BY <2>2, <2>3
<2>6. Len(r) = 1 + N /\ \A i \in 1..(1 + N) : r[i] = IF i <= 1 THEN a[i] ELSE b[i - 1]
  BY <2>2, <2>3, <2>4, <2>5
<2> HIDE DEF r
<2>7. 1 \in 1..(1 + N) /\ \A i \in 2..(N + 1) : i \in 1..(1 + N) /\ ~(i <= 1)
  BY <1>2
<2>8. r[1] = c
  BY <2>2, <2>6, <2>7
<2>9. \A i \in 2..(N + 1) : r[i] = q[i - 1]
  BY <2>3, <2>6, <2>7
<2>10. r \in Seq(ChunkRecords) /\ 1 + N = N + 1
  BY <2>4, <2>5
<2>11. QED BY <2>6, <2>8, <2>9, <2>10
<1> HIDE DEF r
<1>5. /\ \A i \in 1..(N + 1) : pos[i] \in 0..n
      /\ \A i \in 1..N : pos[i + 1] = pos[i] + q[i].length
      /\ pos[N + 1] = n /\ pos[1] = l
  BY <1>2 DEF QueueFits, Positions
<1>6. c.length \in Nat /\ l \in 0..n /\ k \in 0..n
<2>1. c.length \in Nat
  BY DEF ChunkRecords
<2>2. 1 \in 1..(N + 1)
  BY <1>2
<2>3. l \in 0..n
  BY <2>2, <1>5
<2>4. QED BY <2>1, <2>3
<1>7. new[1] = k /\ \A i \in 2..(N + 2) : new[i] = pos[i - 1]
<2>1. 1 \in 1..(N + 2) /\ \A i \in 2..(N + 2) : i \in 1..(N + 2) /\ i # 1
  BY <1>2
<2>2. QED BY <2>1, <1>2
<1>8. new \in [1..(N + 2) -> 0..n]
<2>1. ASSUME NEW i \in 1..(N + 2) PROVE (IF i = 1 THEN k ELSE pos[i - 1]) \in 0..n
<3>1. i # 1 => i - 1 \in 1..(N + 1)
  BY <1>2
<3>2. QED BY <3>1, <1>5, <1>6
<2>2. QED BY <2>1, <1>2
<1> HIDE DEF new
<1>9. Positions(r, new, k, n)
<2>1. new[N + 2] = n
<3>1. N + 2 \in 2..(N + 2) /\ (N + 2) - 1 = N + 1
  BY <1>2
<3>2. QED BY <3>1, <1>5, <1>7
<2>2. ASSUME NEW i \in 1..(N + 1) PROVE new[i + 1] = new[i] + r[i].length
<3>1. new[i + 1] = pos[i]
<4>1. i + 1 \in 2..(N + 2) /\ (i + 1) - 1 = i
  BY <1>2
<4>2. QED BY <4>1, <1>7
<3>2. CASE i = 1
  BY <3>1, <3>2, <1>4, <1>5, <1>7
<3>3. CASE i # 1
<4>1. i \in 2..(N + 1) /\ i \in 2..(N + 2) /\ i - 1 \in 1..N /\ (i - 1) + 1 = i
  BY <3>3, <1>2
<4>2. QED BY <4>1, <3>1, <1>4, <1>5, <1>7
<3>4. QED BY <3>2, <3>3
<2>3. (N + 1) + 1 = N + 2
  BY <1>2
<2>4. QED BY <1>4, <1>7, <1>8, <2>1, <2>2, <2>3 DEF Positions
<1>10. QueuePlaced(cells, m, n, r, new)
<2>1. Placed(cells, m, n, r[1], new[1])
  BY <1>4, <1>7 DEF Placed
<2>2. ASSUME NEW i \in 2..(N + 1) PROVE InRing(cells, m, n, r[i], new[i])
<3>1. i - 1 \in 1..N /\ i \in 2..(N + 2) /\ (i - 1 = 1 \/ i - 1 >= 2)
  BY <1>2
<3>2. r[i] = q[i - 1] /\ new[i] = pos[i - 1]
  BY <3>1, <1>4, <1>7
<3>3. q[i - 1].mem = Ring
  BY <3>1, <1>1, <1>2
<3>4. QED BY <3>1, <3>2, <3>3, <1>1, <1>2
<2>3. QED BY <2>1, <2>2, <1>4 DEF QueuePlaced
<1>11. c.mem # Ring
  BY FlowAssumption DEF InPool
<1>12. Chained(m, r, new)
<2>1. ASSUME NEW i \in 1..N, r[i].mem = Ring
      PROVE  /\ Age(m, r[i].slab) = Age(m, r[i + 1].slab) + 1
             /\ Start(r[i + 1], new[i + 1]) <= Start(r[i], new[i]) + SlabSize
             /\ GetEnd(r[i]) = r[i + 1].address => r[i + 1].length = 0
<3>1. i # 1
  BY <2>1, <1>4, <1>11
<3>2. PICK t \in 1..(N - 1) : t = i - 1 /\ t + 1 = (i + 1) - 1 /\ t + 1 = i
  BY <3>1, <1>2
<3>3. i \in 2..(N + 1) /\ i + 1 \in 2..(N + 1) /\ i \in 2..(N + 2) /\ i + 1 \in 2..(N + 2)
  BY <3>1, <1>2
<3>4. /\ r[i] = q[t] /\ r[i + 1] = q[t + 1]
      /\ new[i] = pos[t] /\ new[i + 1] = pos[t + 1]
  BY <3>2, <3>3, <1>4, <1>7
<3>5. QED BY <3>4, <2>1, <1>2, <1>3 DEF Chained
<2>2. r[2].length > 0
<3>1. 2 \in 2..(N + 1) /\ 2 - 1 = 1
  BY <1>2
<3>2. r[2] = q[2 - 1]
  BY <3>1, <1>4
<3>3. QED BY <3>1, <3>2
<2>3. (N + 1) - 1 = N
  BY <1>2
<2>4. QED BY <2>1, <2>2, <2>3, <1>4, <1>11 DEF Chained
<1>13. LastFits(m, r)
<2>1. N + 1 \in 2..(N + 1) /\ (N + 1) - 1 = N
  BY <1>2
<2>2. r[N + 1] = q[N]
  BY <2>1, <1>4
<2>3. QED BY <2>2, <1>2, <1>3, <1>4 DEF LastFits
<1>14. r # <<>>
  BY <1>2, <1>4, EmptySeq
<1>15. QED BY <1>4, <1>9, <1>10, <1>12, <1>13, <1>14 DEF QueueFits, r

\* What Amalgamate() makes of queue a, in which chunk i begins behind pos[i] bytes:
\* the chunks from `first` on continue each other, the one before does not.
Merged(a, pos, n, first, r) ==
    /\ r \in Seq(ChunkRecords) /\ Len(r) = Len(a) /\ first \in 1..Len(a)
    /\ \A i \in 1..Len(a) : /\ r[i].mem = a[i].mem /\ r[i].slab = a[i].slab
                            /\ r[i].base = a[i].base /\ r[i].size = a[i].size
    /\ \A i \in 1..(first - 1) : r[i] = a[i]
    /\ r[first].address = a[first].address /\ r[first].length = n - pos[first]
    /\ \A i \in (first + 1)..Len(a) : /\ r[i].address = a[i].address + (n - pos[i])
                                      /\ r[i].length = 0
    /\ \A i \in (first + 1)..Len(a) : Continues(a[i], a[i - 1])
    /\ first > 1 => ~Continues(a[first], a[first - 1])

LEMMA AmalgamateIs ==
    ASSUME NEW a \in Seq(ChunkRecords), a # <<>>, NEW n \in Nat, NEW k, NEW pos,
           Positions(a, pos, k, n)
    PROVE  \E first \in 1..Len(a) : Merged(a, pos, n, first, Amalgamate(a))
<1> DEFINE linked(j) == \A i \in (j + 1)..Len(a) : Continues(a[i], a[i - 1])
           least(j) == linked(j) /\ \A i \in DOMAIN a : linked(i) => j <= i
           first == CHOOSE j \in DOMAIN a : least(j)
           r == Amalgamate(a)
<1>1. PICK N \in Nat : N = Len(a) /\ N >= 1 /\ DOMAIN a = 1..N
<2>1. Len(a) \in Nat /\ Len(a) >= 1 /\ DOMAIN a = 1..Len(a)
  BY EmptySeq, LenProperties
<2>2. QED BY <2>1
<1>2. \E j \in DOMAIN a : least(j)
<2> DEFINE S == {j \in 1..N : linked(j)}
<2>1. N \in S
<3>1. \A i \in (N + 1)..N : FALSE
  BY <1>1
<3>2. linked(N)
  BY <3>1, <1>1
<3>3. N \in 1..N
  BY <1>1
<3> HIDE DEF linked
<3>4. QED BY <3>2, <3>3
<2>2. S \in SUBSET Nat /\ S # {}
<3> HIDE DEF linked
<3>1. QED BY <2>1
<2>3. PICK j \in S : \A x \in S : j <= x
<3> HIDE DEF S
<3>1. QED BY <2>2, LeastElement
<2> HIDE DEF linked
<2>4. j \in DOMAIN a /\ linked(j) /\ \A i \in DOMAIN a : linked(i) => j <= i
  BY <2>3, <1>1
<2>5. QED BY <2>4
<1>3. first \in DOMAIN a /\ least(first)
<2> HIDE DEF least
<2>1. QED BY <1>2
<1>4. r = [i \in DOMAIN a |->
              IF i < first THEN a[i]
              ELSE IF i = first THEN [a[i] EXCEPT !.length = BytesFrom(a, first)]
              ELSE [a[i] EXCEPT !.address = @ + BytesFrom(a, i), !.length = 0]]
  BY DEF Amalgamate
<1>5. linked(first) /\ \A i \in DOMAIN a : linked(i) => first <= i
<2> HIDE DEF first, linked
<2>1. QED BY <1>3
<1> HIDE DEF r, first
<1>6. PICK f \in 1..N : f = first
  BY <1>1, <1>3
<1>7. /\ \A i \in 1..N : BytesFrom(a, i) = n - pos[i] /\ pos[i] \in 0..n
      /\ \A i \in 1..N : a[i] \in ChunkRecords
<2>1. \A i \in 1..N : i \in 1..(N + 1)
  BY <1>1
<2>2. \A i \in 1..N : BytesFrom(a, i) = n - pos[i]
  BY <1>1, <2>1, PositionsBytes
<2>3. \A i \in 1..N : pos[i] \in 0..n
  BY <1>1, <2>1 DEF Positions
<2>4. \A i \in 1..N : a[i] \in ChunkRecords
  BY <1>1, ChunkFacts
<2>5. QED BY <2>2, <2>3, <2>4
<1>8. /\ \A i \in 1..(f - 1) : i \in 1..N /\ i < f
      /\ \A i \in (f + 1)..N : i \in 1..N /\ ~(i < f) /\ i # f
      /\ ~(f < f)
  BY <1>1, <1>6
<1>9. \A i \in 1..N : n - pos[i] \in Nat
  BY <1>7
<1>10. \A i \in 1..N :
          r[i] = IF i < f THEN a[i]
                 ELSE IF i = f THEN [a[i] EXCEPT !.length = BytesFrom(a, f)]
                 ELSE [a[i] EXCEPT !.address = @ + BytesFrom(a, i), !.length = 0]
  BY <1>1, <1>4, <1>6
<1>11. \A i \in 1..(f - 1) : r[i] = a[i]
  BY <1>8, <1>10
<1>12. /\ r[f] \in ChunkRecords /\ r[f].mem = a[f].mem /\ r[f].slab = a[f].slab
       /\ r[f].base = a[f].base /\ r[f].size = a[f].size
       /\ r[f].address = a[f].address /\ r[f].length = n - pos[f]
<2>1. PICK c \in ChunkRecords, x \in Nat : c = a[f] /\ x = n - pos[f] /\ x = BytesFrom(a, f)
  BY <1>6, <1>7, <1>9
<2>2. PICK e \in ChunkRecords : e = [c EXCEPT !.length = x]
  BY <2>1 DEF ChunkRecords
<2>3. /\ e.mem = c.mem /\ e.slab = c.slab /\ e.base = c.base /\ e.size = c.size
      /\ e.address = c.address /\ e.length = x
  BY <2>1, <2>2 DEF ChunkRecords
<2>4. r[f] = e
  BY <1>6, <1>8, <1>10, <2>1, <2>2
<2>5. QED BY <2>1, <2>3, <2>4
<1>13. ASSUME NEW i \in (f + 1)..N
       PROVE  /\ r[i] \in ChunkRecords /\ r[i].mem = a[i].mem /\ r[i].slab = a[i].slab
              /\ r[i].base = a[i].base /\ r[i].size = a[i].size
              /\ r[i].address = a[i].address + (n - pos[i]) /\ r[i].length = 0
<2>1. PICK c \in ChunkRecords, x \in Nat : c = a[i] /\ x = n - pos[i] /\ x = BytesFrom(a, i)
  BY <1>7, <1>8, <1>9
<2>2. PICK y \in Nat : y = c.address + x
  BY <2>1, SMTT(30) DEF ChunkRecords
<2>3. PICK e \in ChunkRecords : e = [c EXCEPT !.address = y, !.length = 0]
  BY <2>1, <2>2 DEF ChunkRecords
<2>4. /\ e.mem = c.mem /\ e.slab = c.slab /\ e.base = c.base /\ e.size = c.size
      /\ e.address = y /\ e.length = 0
  BY <2>1, <2>3, <2>2 DEF ChunkRecords
<2>5. r[i] = [c EXCEPT !.address = @ + x, !.length = 0]
  BY <1>8, <1>10, <2>1
<2>6. [c EXCEPT !.address = @ + x, !.length = 0] = [c EXCEPT !.address = y, !.length = 0]
  BY <2>2
<2>7. r[i] = e
  BY <2>3, <2>5, <2>6
<2>8. QED BY <2>1, <2>4, <2>7, <2>2
<1>14. ASSUME NEW i \in 1..N
       PROVE  /\ r[i] \in ChunkRecords
              /\ r[i].mem = a[i].mem /\ r[i].slab = a[i].slab
              /\ r[i].base = a[i].base /\ r[i].size = a[i].size
<2>1. i \in 1..(f - 1) \/ i = f \/ i \in (f + 1)..N
  BY <1>6
<2>2. CASE i \in 1..(f - 1)
  BY <2>2, <1>7, <1>11
<2>3. CASE i = f
  BY <2>3, <1>12
<2>4. CASE i \in (f + 1)..N
  BY <2>4, <1>13
<2>5. QED BY <2>1, <2>2, <2>3, <2>4
<1>15. r \in Seq(ChunkRecords) /\ Len(r) = N
<2>1. r = [i \in 1..N |-> r[i]]
  BY <1>1, <1>4
<2>2. r \in [1..N -> ChunkRecords]
  BY <2>1, <1>14
<2>3. QED BY <2>2, <1>1
<1>16. ASSUME f > 1, Continues(a[f], a[f - 1]) PROVE FALSE
<2>1. f - 1 \in 1..N /\ ~(f <= f - 1) /\ (f - 1) + 1 = f
  BY <1>6, <1>16
<2>2. ~linked(f - 1)
<3> HIDE DEF linked
<3>1. QED BY <2>1, <1>1, <1>5, <1>6
<2>3. PICK i \in f..N : ~Continues(a[i], a[i - 1])
  BY <2>1, <2>2, <1>1
<2>4. i = f \/ i \in (f + 1)..N
  BY <1>6, <2>3
<2>5. QED BY <2>3, <2>4, <1>1, <1>5, <1>6, <1>16
<1>17. \A i \in (f + 1)..N : Continues(a[i], a[i - 1])
  BY <1>1, <1>5, <1>6
<1>18. Merged(a, pos, n, f, r)
  BY <1>1, <1>6, <1>11, <1>12, <1>13, <1>14, <1>15, <1>16, <1>17 DEF Merged
<1>19. QED BY <1>1, <1>6, <1>18 DEF r

\* Where the merged chunks begin
Where(pos, n, first, len) == [i \in 1..(len + 1) |-> IF i <= first THEN pos[i] ELSE n]

\* The chunks of r, which has been made of queue a, are in their places.
InPlace(cells, m, n, k, a, pos, first, r, new) ==
    /\ Positions(r, new, k, n)
    /\ Placed(cells, m, n, r[1], new[1])
    /\ \A i \in 2..Len(a) : InRing(cells, m, n, r[i], new[i])
    /\ \A i \in 1..Len(a) : Start(r[i], new[i]) = Start(a[i], pos[i])
    /\ a[1].mem # Ring => first >= 2 /\ Len(a) >= 2

LEMMA MergedPlaced ==
    ASSUME NEW cells, NEW m, NEW n \in Nat, NEW k, NEW a \in Seq(ChunkRecords), NEW pos,
           Positions(a, pos, k, n), NEW first, NEW r, Merged(a, pos, n, first, r),
           a # <<>>, a[Len(a)].mem = Ring, Placed(cells, m, n, a[1], pos[1]),
           \A i \in 2..Len(a) : InRing(cells, m, n, a[i], pos[i]),
           NEW new, new = Where(pos, n, first, Len(a))
    PROVE  InPlace(cells, m, n, k, a, pos, first, r, new)
<1>1. PICK N \in Nat : N = Len(a) /\ N >= 1
<2>1. Len(a) \in Nat /\ Len(a) >= 1
  BY EmptySeq, LenProperties
<2>2. QED BY <2>1
<1>2. PICK f \in 1..N : f = first
  BY <1>1 DEF Merged
<1>3. /\ \A i \in 1..(N + 1) : pos[i] \in 0..n
      /\ \A i \in 1..N : pos[i + 1] = pos[i] + a[i].length
      /\ pos[N + 1] = n /\ pos[1] = k
  BY <1>1 DEF Positions
<1>4. \A i \in 1..N : a[i] \in ChunkRecords /\ a[i].length \in Nat
  BY <1>1, ChunkFacts
<1>5. \A i \in 1..(N + 1) : new[i] = IF i <= f THEN pos[i] ELSE n
  BY <1>1, <1>2 DEF Where
<1>6. /\ r \in Seq(ChunkRecords) /\ Len(r) = N
      /\ \A i \in 1..N : /\ r[i].mem = a[i].mem /\ r[i].slab = a[i].slab
                         /\ r[i].base = a[i].base /\ r[i].size = a[i].size
      /\ \A i \in 1..(f - 1) : r[i] = a[i]
      /\ r[f].address = a[f].address /\ r[f].length = n - pos[f]
      /\ \A i \in (f + 1)..N : r[i].address = a[i].address + (n - pos[i]) /\ r[i].length = 0
      /\ \A i \in (f + 1)..N : Continues(a[i], a[i - 1])
  BY <1>1, <1>2 DEF Merged
<1>7. \A i \in 1..N : r[i] \in ChunkRecords
  BY <1>6, ChunkFacts
<1>8. Positions(r, new, k, n)
<2>1. new \in [1..(N + 1) -> 0..n]
<3>1. \A i \in 1..(N + 1) : (IF i <= first THEN pos[i] ELSE n) \in 0..n
  BY <1>3
<3>2. QED BY <3>1, <1>1 DEF Where
<2>2. new[1] = k /\ new[N + 1] = n
<3>1. 1 \in 1..(N + 1) /\ 1 <= f /\ N + 1 \in 1..(N + 1) /\ ~(N + 1 <= f)
  BY <1>1, <1>2
<3>2. QED BY <3>1, <1>3, <1>5
<2>3. ASSUME NEW i \in 1..N PROVE new[i + 1] = new[i] + r[i].length
<3>1. i \in 1..(N + 1) /\ i + 1 \in 1..(N + 1) /\ i \in Nat /\ f \in Nat
  BY <1>1, <1>2
<3>2. CASE i < f
<4>1. i <= f /\ i + 1 <= f /\ i \in 1..(f - 1)
  BY <3>1, <3>2
<4>2. QED BY <4>1, <3>1, <1>3, <1>5, <1>6
<3>3. CASE i = f
<4>1. new[i + 1] = n /\ new[i] = pos[f] /\ r[i].length = n - pos[f]
<5>1. i <= f /\ ~(i + 1 <= f)
  BY <3>1, <3>3
<5>2. QED BY <5>1, <3>1, <3>3, <1>5, <1>6
<4>2. PICK x \in 0..n : x = pos[f]
  BY <3>1, <3>3, <1>3
<4>3. n = x + (n - x)
  BY <4>2
<4>4. QED BY <4>1, <4>2, <4>3
<3>4. CASE i > f
<4>1. ~(i <= f) /\ ~(i + 1 <= f) /\ i \in (f + 1)..N
  BY <3>1, <3>4
<4>2. new[i + 1] = n /\ new[i] = n /\ r[i].length = 0
  BY <4>1, <3>1, <1>5, <1>6
<4>3. QED BY <4>2
<3>5. QED BY <3>1, <3>2, <3>3, <3>4
<2>4. QED BY <2>1, <2>2, <2>3, <1>6 DEF Positions
<1>9. ASSUME NEW i \in 1..N
      PROVE  /\ Start(r[i], new[i]) = Start(a[i], pos[i])
             /\ a[i].address <= r[i].address
             /\ new[i] + r[i].length <= n
<2>1. PICK x \in Nat, y \in Nat, v \in Nat, p \in 0..n :
         /\ x = a[i].address /\ y = a[i].base /\ v = a[i].length /\ p = pos[i]
         /\ p + v <= n
<3>1. a[i].address \in Nat /\ a[i].base \in Nat /\ a[i].length \in Nat
  BY <1>4 DEF ChunkRecords
<3>2. i \in 1..(N + 1)
  BY <1>1
<3>3. pos[i] + a[i].length <= n
  BY <1>1, PositionsBytes
<3>4. QED BY <3>1, <3>2, <3>3, <1>3
<2>2. i \in 1..(N + 1) /\ i \in Nat /\ f \in Nat
  BY <1>1, <1>2
<2>3. CASE i < f
<3>1. i <= f /\ i \in 1..(f - 1)
  BY <2>2, <2>3
<3>2. r[i] = a[i] /\ new[i] = p
  BY <3>1, <2>1, <2>2, <1>5, <1>6
<3>3. QED BY <3>2, <2>1
<2>4. CASE i = f
<3>1. i <= f
  BY <2>2, <2>4
<3>2. r[i].address = x /\ r[i].base = y /\ new[i] = p /\ r[i].length = n - p
  BY <3>1, <2>1, <2>2, <2>4, <1>5, <1>6
<3>3. p + (n - p) <= n
  BY <2>1
<3>4. QED BY <3>2, <3>3, <2>1 DEF Start
<2>5. CASE i > f
<3>1. ~(i <= f) /\ i \in (f + 1)..N
  BY <2>2, <2>5
<3>2. r[i].address = x + (n - p) /\ r[i].base = y /\ new[i] = n /\ r[i].length = 0
  BY <3>1, <2>1, <2>2, <1>5, <1>6
<3>3. n - ((x + (n - p)) - y) = p - (x - y) /\ x <= x + (n - p) /\ n + 0 <= n
  BY <2>1, SMTT(30)
<3>4. QED BY <3>2, <3>3, <2>1 DEF Start
<2>6. QED BY <2>2, <2>3, <2>4, <2>5
<1>10. ASSUME NEW i \in 1..N, InRing(cells, m, n, a[i], pos[i])
       PROVE  InRing(cells, m, n, r[i], new[i])
<2>1. r[i].base <= r[i].address
<3>1. a[i].base <= a[i].address
  BY <1>10 DEF InRing
<3>2. PICK x \in Nat, y \in Nat, z \in Nat :
         x = a[i].base /\ y = a[i].address /\ z = r[i].address /\ r[i].base = x
  BY <1>4, <1>6, <1>7 DEF ChunkRecords
<3>3. x <= y /\ y <= z
  BY <3>1, <3>2, <1>9
<3>4. QED BY <3>2, <3>3
<2>2. QED BY <2>1, <1>6, <1>7, <1>9, <1>10, RingMoved, SMTT(30)
<1>11. a[1].mem # Ring => f >= 2 /\ N >= 2
<2>1. ASSUME a[1].mem # Ring PROVE f >= 2 /\ N >= 2
<3>1. N >= 2
  BY <2>1, <1>1
<3>2. ASSUME f = 1 PROVE FALSE
<4>1. 2 \in (f + 1)..N /\ 2 - 1 = 1 /\ 2 \in 2..N
  BY <3>1, <3>2
<4>2. Continues(a[2], a[2 - 1])
  BY <4>1, <1>6
<4>3. a[2].mem = Ring
  BY <4>1, <1>1 DEF InRing
<4>4. QED BY <4>1, <4>2, <4>3, <2>1 DEF Continues
<3>3. QED BY <3>1, <3>2, <1>2
<2>2. QED BY <2>1
<1>12. Placed(cells, m, n, r[1], new[1])
<2>1. 1 \in 1..N /\ 1 \in 1..(N + 1) /\ 1 <= f
  BY <1>1, <1>2
<2>2. CASE InRing(cells, m, n, a[1], pos[1])
  BY <2>1, <2>2, <1>10 DEF Placed
<2>3. CASE InPool(cells, n, a[1], pos[1])
<3>1. a[1].mem # Ring
  BY <2>3, FlowAssumption DEF InPool
<3>2. 1 \in 1..(f - 1)
  BY <3>1, <1>2, <1>11
<3>3. r[1] = a[1] /\ new[1] = pos[1]
  BY <3>2, <2>1, <1>5, <1>6
<3>4. QED BY <2>3, <3>3 DEF Placed
<2>4. QED BY <2>2, <2>3 DEF Placed
<1>13. \A i \in 2..N : i \in 1..N
  BY <1>1
<1>14. QED BY <1>1, <1>2, <1>8, <1>9, <1>10, <1>11, <1>12, <1>13 DEF InPlace

\* A queue a chunk is pushed to, when its used up front chunk is gone. It may be
\* empty. Nothing is written into the pool buffer at its front.
TailFits(cells, after, m, n, k, t, pos, alive) ==
    /\ t \in Seq(ChunkRecords)
    /\ Positions(t, pos, k, n)
    /\ SlabsOf(t) \subseteq alive
    /\ t # <<>> =>
          /\ QueueFits(cells, m, n, k, t, pos) /\ t # <<NullChunk>>
          /\ t[1].mem # Ring => after[t[1].mem] = cells[t[1].mem]
          /\ t[1].mem = Ring /\ t[1].length = 0 => Age(m, t[1].slab) + 1 < NumSlabs

\* Chunk c has been appended to queue t, which has become a.
Appended(cells, m, n, k, t, pos, c, a, new) ==
    /\ a \in Seq(ChunkRecords) /\ Len(a) = Len(t) + 1 /\ a # <<>>
    /\ a[Len(t) + 1] = c /\ \A i \in 1..Len(t) : a[i] = t[i]
    /\ Positions(a, new, k, n)
    /\ \A i \in 1..(Len(t) + 1) : new[i] = pos[i]
    /\ Placed(cells, m, n, a[1], new[1])
    /\ \A i \in 2..(Len(t) + 1) : InRing(cells, m, n, a[i], new[i])

LEMMA AppendedPlaced ==
    ASSUME NEW m, NEW n \in Nat, NEW alive \in SUBSET Slabs, ManagerFits(m, n, alive),
           m.ready # <<>>, NEW k \in 1..m.front.length, NEW cells, NEW after, NEW next, NEW d,
           Produced(cells, after, m, next, n, k, d), FrontWritten(cells, m, n),
           \A s \in alive \cup {Head(m.ready)} : Age(next, s) = Age(m, s) + d,
           NEW l, NEW t, NEW pos, TailFits(cells, after, m, n, l, t, pos, alive),
           NEW c \in ChunkRecords, c = [m.front EXCEPT !.length = k], c.length = k,
           NEW a, a = Append(t, c),
           NEW new, new = [i \in 1..(Len(t) + 2) |-> IF i <= Len(t) + 1 THEN pos[i] ELSE n + k]
    PROVE  Appended(after, next, n + k, l, t, pos, c, a, new)
<1>1. t \in Seq(ChunkRecords) /\ Positions(t, pos, l, n) /\ SlabsOf(t) \subseteq alive
  BY DEF TailFits
<1>2. PICK T \in Nat : T = Len(t)
  BY <1>1, ChunkFacts
<1>3. /\ a \in Seq(ChunkRecords) /\ Len(a) = T + 1 /\ a # <<>>
      /\ a[T + 1] = c /\ \A i \in 1..T : a[i] = t[i]
  BY <1>1, <1>2, AppendProperties
<1>4. k \in Nat
  BY ProducedFront
<1>5. /\ \A i \in 1..(T + 1) : pos[i] \in 0..n
      /\ \A i \in 1..T : pos[i + 1] = pos[i] + t[i].length
      /\ pos[T + 1] = n /\ pos[1] = l
  BY <1>1, <1>2 DEF Positions
<1>6. /\ \A i \in 1..(T + 1) : new[i] = pos[i]
      /\ new[T + 2] = n + k
<2>1. /\ \A i \in 1..(T + 1) : i \in 1..(T + 2) /\ i <= T + 1
      /\ T + 2 \in 1..(T + 2) /\ ~(T + 2 <= T + 1)
  BY <1>2
<2>2. QED BY <2>1, <1>2
<1>7. Positions(a, new, l, n + k)
<2>1. new \in [1..(T + 2) -> 0..(n + k)]
<3>1. ASSUME NEW i \in 1..(T + 2) PROVE (IF i <= T + 1 THEN pos[i] ELSE n + k) \in 0..(n + k)
<4>1. i <= T + 1 => i \in 1..(T + 1)
  BY <1>2
<4>2. i <= T + 1 => pos[i] \in 0..(n + k)
  BY <4>1, <1>4, <1>5
<4>3. n + k \in 0..(n + k)
  BY <1>4
<4>4. QED BY <4>2, <4>3
<3>2. QED BY <3>1, <1>2
<2>2. ASSUME NEW i \in 1..(T + 1) PROVE new[i + 1] = new[i] + a[i].length
<3>1. CASE i = T + 1
<4>1. i \in 1..(T + 1) /\ i + 1 = T + 2
  BY <3>1, <1>2
<4>2. QED BY <4>1, <3>1, <1>3, <1>5, <1>6
<3>2. CASE i # T + 1
<4>1. i \in 1..T /\ i + 1 \in 1..(T + 1)
  BY <3>2, <1>2
<4>2. QED BY <4>1, <1>3, <1>5, <1>6
<3>3. QED BY <3>1, <3>2
<2>3. new[1] = l
<3>1. 1 \in 1..(T + 1)
  BY <1>2
<3>2. QED BY <3>1, <1>5, <1>6
<2>4. (T + 1) + 1 = T + 2
  BY <1>2
<2>5. QED BY <2>1, <2>2, <2>3, <2>4, <1>3, <1>6 DEF Positions
<1>8. InRing(after, next, n + k, c, n)
<2>1. Age(next, Head(m.ready)) = d
<3>1. Age(m, Head(m.ready)) = 0
  BY FrontFacts
<3>2. d \in 0..1
  BY DEF Produced
<3>3. QED BY <3>1, <3>2
<2>2. InRing(after, next, n + k, [m.front EXCEPT !.length = k], n)
  BY <2>1, NewChunkPlaced
<2>3. QED BY <2>2
<1>9. ASSUME NEW i \in 1..T
      PROVE  /\ t[i].mem = Ring => InRing(after, next, n + k, t[i], pos[i])
             /\ i >= 2 => t[i].mem = Ring
<2>1. t # <<>>
<3>1. T >= 1
  BY <1>2
<3>2. QED BY <3>1, <1>2
<2>2. QueueFits(cells, m, n, l, t, pos)
  BY <2>1 DEF TailFits
<2>3. i \in 1..Len(t)
  BY <1>2
<2>4. /\ t[i].mem = Ring => InRing(cells, m, n, t[i], pos[i]) /\ t[i].slab \in SlabsOf(t)
      /\ i >= 2 => t[i].mem = Ring
  BY <2>2, <2>3, RingChunk
<2>5. ASSUME t[i].mem = Ring PROVE InRing(after, next, n + k, t[i], pos[i])
<3>1. InRing(cells, m, n, t[i], pos[i]) /\ t[i].slab \in alive
  BY <2>4, <2>5, <1>1
<3>2. Age(next, t[i].slab) = Age(m, t[i].slab) + d
  BY <3>1
<3>3. pos[i] \in Nat
<4>1. i \in 1..(T + 1)
  BY <1>2
<4>2. QED BY <4>1, <1>5
<3>4. QED BY <3>1, <3>2, <3>3, RingCarried
<2>6. QED BY <2>4, <2>5
<1>10. Placed(after, next, n + k, a[1], new[1])
<2>1. CASE T = 0
<3>1. 1 = T + 1 /\ 1 \in 1..(T + 1)
  BY <2>1
<3>2. a[1] = c /\ new[1] = n
  BY <3>1, <1>3, <1>5, <1>6
<3>3. QED BY <3>2, <1>8 DEF Placed
<2>2. CASE T # 0
<3>1. 1 \in 1..T /\ 1 \in 1..(T + 1) /\ t # <<>>
  BY <2>2, <1>2
<3>2. a[1] = t[1] /\ new[1] = pos[1]
  BY <3>1, <1>3, <1>6
<3>3. CASE t[1].mem = Ring
  BY <3>1, <3>2, <3>3, <1>9 DEF Placed
<3>4. CASE t[1].mem # Ring
<4>1. QueueFits(cells, m, n, l, t, pos) /\ t # <<NullChunk>> /\ after[t[1].mem] = cells[t[1].mem]
  BY <3>1, <3>4 DEF TailFits
<4>2. Placed(cells, m, n, t[1], pos[1])
  BY <4>1 DEF QueueFits, QueuePlaced
<4>3. InPool(cells, n, t[1], pos[1])
  BY <4>2, <3>4 DEF Placed, InRing
<4>4. n + k \in Nat /\ n <= n + k /\ pos[1] \in Nat
  BY <3>1, <1>4, <1>5
<4>5. InPool(after, n + k, t[1], pos[1])
  BY <4>1, <4>3, <4>4, PoolCarried
<4>6. QED BY <4>5, <3>2 DEF Placed
<3>5. QED BY <3>3, <3>4
<2>3. QED BY <2>1, <2>2
<1>11. ASSUME NEW i \in 2..(T + 1) PROVE InRing(after, next, n + k, a[i], new[i])
<2>1. i \in 1..(T + 1)
  BY <1>2
<2>2. CASE i = T + 1
  BY <2>1, <2>2, <1>3, <1>5, <1>6, <1>8
<2>3. CASE i # T + 1
<3>1. i \in 1..T /\ i >= 2
  BY <2>3, <1>2
<3>2. QED BY <2>1, <3>1, <1>3, <1>6, <1>9
<2>4. QED BY <2>2, <2>3
<1>12. QED BY <1>2, <1>3, <1>6, <1>7, <1>10, <1>11 DEF Appended

\* A last chunk of the slab that is still at the front: the new chunk is of the
\* same slab and continues it.
LEMMA LastContinues ==
    ASSUME NEW m, NEW n \in Nat, NEW alive, ManagerFits(m, n, alive), m.ready # <<>>,
           NEW cells, NEW b, NEW p \in Nat, InRing(cells, m, n, b, p), p + b.length = n,
           Age(m, b.slab) = 0,
           NEW c, c.mem = Ring, c.address = m.frontAddress + m.bytesToPop
    PROVE  b.slab = Head(m.ready) /\ Continues(c, b)
<1>1. b.slab \in Slabs /\ b.mem = Ring /\ b \in ChunkRecords
  BY DEF InRing
<1>2. b.slab = Head(m.ready)
<2>1. PICK s \in 1..NumSlabs, h \in 1..NumSlabs : s = b.slab /\ h = Head(m.ready)
<3>1. 1 \in 1..Len(m.ready) /\ Head(m.ready) = m.ready[1]
<4>1. Len(m.ready) \in 0..NumSlabs /\ Len(m.ready) >= 1 /\ Head(m.ready) = m.ready[1]
  BY ReadyFacts
<4>2. QED BY <4>1, Constants
<3>2. m.ready[1] \in 1..NumSlabs
  BY <3>1, ReadyFacts
<3>3. QED BY <1>1, <3>1, <3>2, Constants
<2>2. 0 = IF s <= h THEN h - s ELSE h - s + NumSlabs
  BY <2>1 DEF Age
<2>3. NumSlabs \in Nat
  BY Constants
<2>4. s = h
  BY <2>2, <2>3
<2>5. QED BY <2>1, <2>4
<1>3. PICK x \in Nat, y \in Nat, v \in Nat, e \in Nat, g \in Nat :
         /\ x = b.address /\ y = b.base /\ v = b.length
         /\ e = m.bytesToPop /\ g = m.frontAddress /\ e <= n
<2>1. b.address \in Nat /\ b.base \in Nat /\ b.length \in Nat
  BY <1>1 DEF ChunkRecords
<2>2. m.bytesToPop \in 0..(SlabSize - 1) /\ m.frontAddress \in 0..(RingLength - 1)
  BY FrontFacts
<2>3. m.bytesToPop <= n
  BY DEF ManagerFits
<2>4. m.bytesToPop \in Nat /\ m.frontAddress \in Nat
  BY <2>2, Constants
<2>5. QED BY ONLY <2>1, <2>3, <2>4, Zenon
<1>4. PICK s \in Nat : s = p - (x - y) /\ s = n - e
<2>1. Start(b, p) \in 0..FrontStart(m, n)
  BY DEF InRing
<2>2. FrontStart(m, n) - Start(b, p) <= 0 * SlabSize
  BY DEF InRing
<2>3. 0 * SlabSize = 0
  BY Constants
<2>4. FrontStart(m, n) = n - e /\ Start(b, p) = p - (x - y)
  BY <1>3 DEF FrontStart, Start
<2>5. n - e \in Nat
  BY <1>3
<2>6. PICK s \in Nat, f \in Nat : s = Start(b, p) /\ f = FrontStart(m, n) /\ s <= f /\ f - s <= 0
  BY <2>1, <2>2, <2>3, <2>4, <2>5
<2>7. s = f
  BY <2>6
<2>8. QED BY <2>4, <2>6, <2>7
<1>5. y = g
<2>1. b.base = Start(b, p) % RingLength /\ m.frontAddress = FrontStart(m, n) % RingLength
  BY DEF InRing, ManagerFits
<2>2. Start(b, p) = FrontStart(m, n)
  BY <1>3, <1>4 DEF Start, FrontStart
<2>3. QED BY <2>1, <2>2, <1>3
<1>6. p + v = n
  BY <1>3
<1>7. g + e = x + v
  BY ONLY <1>4, <1>5, <1>6
<1>8. c.address = GetEnd(b)
  BY <1>3, <1>7 DEF GetEnd
<1>9. QED BY <1>1, <1>2, <1>8 DEF Continues

\* What a chunk of the slab s at the end makes of the queue t: its front chunk
\* only grows.
Pushed(cells, m, n, k, t, z, s) ==
    /\ \E new : QueueFits(cells, m, n, k, z, new)
    /\ SlabsOf(z) \subseteq SlabsOf(t) \cup {s}
    /\ s \in SlabsOf(z)
    /\ t # <<>> /\ t[1].length > 0 =>
          /\ z[1].mem = t[1].mem /\ z[1].slab = t[1].slab /\ z[1].address = t[1].address
          /\ z[1].base = t[1].base /\ z[1].size = t[1].size
          /\ z[1].length >= t[1].length

\* push(): the queue goes on to fit. It keeps the slabs it kept alive, and keeps
\* the one at the front alive; its front chunk only grows.
LEMMA PushedFits ==
    ASSUME NEW m, NEW n \in Nat, NEW alive \in SUBSET Slabs, ManagerFits(m, n, alive),
           m.ready # <<>>, NEW k \in 1..m.front.length, NEW cells, NEW after, NEW next, NEW d,
           Produced(cells, after, m, next, n, k, d), FrontWritten(cells, m, n),
           \A s \in alive \cup {Head(m.ready)} : Age(next, s) = Age(m, s) + d,
           NEW l, NEW t, NEW pos, TailFits(cells, after, m, n, l, t, pos, alive),
           NEW z, z = DropBack(Amalgamate(Append(t, [m.front EXCEPT !.length = k])))
    PROVE  Pushed(after, next, n + k, l, t, z, Head(m.ready))
<1>1. PICK c \in ChunkRecords :
              /\ c = [m.front EXCEPT !.length = k]
              /\ c.mem = Ring /\ c.address = m.frontAddress + m.bytesToPop /\ c.length = k
              /\ c.base = m.frontAddress /\ c.size = SlabSize /\ c.slab = Head(m.ready)
              /\ Start(c, n) = FrontStart(m, n)
<2>1. PICK c \in ChunkRecords : FrontChunk(c, m, n, k)
  BY NewChunk
<2>2. QED BY ONLY <2>1 DEF FrontChunk
<1>2. PICK T \in Nat : T = Len(t)
<2>1. t \in Seq(ChunkRecords)
  BY DEF TailFits
<2>2. QED BY <2>1, ChunkFacts
<1>3. PICK a, pa : a = Append(t, c) /\ pa = [i \in 1..(Len(t) + 2) |-> IF i <= Len(t) + 1 THEN pos[i] ELSE n + k]
  OBVIOUS
<1>4. PICK e \in Nat : e = n + k /\ e > n /\ k \in Nat /\ k > 0
<2>1. k \in Nat
  BY ProducedFront
<2>2. QED BY <2>1
<1>5. /\ a \in Seq(ChunkRecords) /\ Len(a) = T + 1 /\ a # <<>>
      /\ a[T + 1] = c /\ \A i \in 1..T : a[i] = t[i]
      /\ Positions(a, pa, l, e)
      /\ \A i \in 1..(T + 1) : pa[i] = pos[i]
      /\ Placed(after, next, e, a[1], pa[1])
      /\ \A i \in 2..(T + 1) : InRing(after, next, e, a[i], pa[i])
<2>1. Appended(after, next, n + k, l, t, pos, c, a, pa)
  BY <1>1, <1>3, AppendedPlaced
<2>2. Appended(after, next, e, l, t, pos, c, a, pa)
  BY <2>1, <1>4
<2>3. QED BY <2>2, <1>2 DEF Appended
<1>6. PICK r : r = Amalgamate(a)
  OBVIOUS
<1>7. PICK f \in 1..(T + 1) : Merged(a, pa, e, f, r) /\ r = Amalgamate(a)
  BY <1>6, <1>5, AmalgamateIs
<1>8. PICK pr : pr = Where(pa, e, f, T + 1)
  OBVIOUS
<1>9. /\ Positions(r, pr, l, e)
      /\ Placed(after, next, e, r[1], pr[1])
      /\ \A i \in 2..(T + 1) : InRing(after, next, e, r[i], pr[i])
      /\ \A i \in 1..(T + 1) : Start(r[i], pr[i]) = Start(a[i], pa[i])
      /\ a[1].mem # Ring => f >= 2 /\ T + 1 >= 2
<2>1. pr = Where(pa, e, f, Len(a)) /\ a[Len(a)].mem = Ring
      /\ \A i \in 2..Len(a) : InRing(after, next, e, a[i], pa[i])
  BY <1>1, <1>5, <1>8
<2>2. InPlace(after, next, e, l, a, pa, f, r, pr)
  BY <2>1, <1>5, <1>7, MergedPlaced
<2>3. QED BY <2>2, <1>5 DEF InPlace
<1>10. /\ r \in Seq(ChunkRecords) /\ Len(r) = T + 1
       /\ \A i \in 1..(T + 1) : /\ r[i].mem = a[i].mem /\ r[i].slab = a[i].slab
                                /\ r[i].base = a[i].base /\ r[i].size = a[i].size
       /\ \A i \in 1..(f - 1) : r[i] = a[i]
       /\ r[f].address = a[f].address /\ r[f].length = e - pa[f]
       /\ \A i \in (f + 1)..(T + 1) : r[i].address = a[i].address + (e - pa[i]) /\ r[i].length = 0
       /\ \A i \in (f + 1)..(T + 1) : Continues(a[i], a[i - 1])
       /\ f > 1 => ~Continues(a[f], a[f - 1])
  BY <1>5, <1>7 DEF Merged
<1>11. /\ d \in 0..1
       /\ Age(m, Head(m.ready)) = 0 /\ Age(next, Head(m.ready)) = d
       /\ next.bytesToPop = IF d = 0 THEN m.bytesToPop + k ELSE 0
<2>1. d \in 0..1 /\ Age(m, Head(m.ready)) = 0
  BY FrontFacts DEF Produced
<2>2. QED BY <2>1 DEF Produced
<1>12. ASSUME T >= 1
       PROVE  /\ t # <<>> /\ QueueFits(cells, m, n, l, t, pos) /\ t # <<NullChunk>>
              /\ t[1].mem = Ring /\ t[1].length = 0 => Age(m, t[1].slab) + 1 < NumSlabs
              /\ Chained(m, t, pos) /\ LastFits(m, t)
              /\ \A i \in 1..T : /\ t[i] \in ChunkRecords
                                 /\ t[i].mem = Ring => /\ InRing(cells, m, n, t[i], pos[i])
                                                       /\ t[i].slab \in alive
                                 /\ i >= 2 => t[i].mem = Ring
<2>1. t # <<>>
  BY <1>2, <1>12
<2>2. /\ QueueFits(cells, m, n, l, t, pos) /\ t # <<NullChunk>>
      /\ t[1].mem = Ring /\ t[1].length = 0 => Age(m, t[1].slab) + 1 < NumSlabs
      /\ SlabsOf(t) \subseteq alive
  BY <2>1 DEF TailFits
<2>3. Chained(m, t, pos) /\ LastFits(m, t)
  BY <2>2 DEF QueueFits
<2>4. \A i \in 1..T : /\ t[i] \in ChunkRecords
                      /\ t[i].mem = Ring => /\ InRing(cells, m, n, t[i], pos[i])
                                            /\ t[i].slab \in SlabsOf(t)
                      /\ i >= 2 => t[i].mem = Ring
  BY <2>2, <1>2, RingChunk
<2>5. QED BY <2>1, <2>2, <2>3, <2>4
<1>13. /\ \A i \in 1..(T + 1) : pos[i] \in 0..n
       /\ \A i \in 1..T : pos[i + 1] = pos[i] + t[i].length
       /\ pos[T + 1] = n /\ pos[1] = l
  BY <1>2 DEF TailFits, Positions
\* The last chunk goes if it is of the same slab as the one before.
<1>14. DropBack(r) = IF T >= 1 /\ r[T + 1].length = 0 /\ r[T + 1].slab = r[T].slab
                     THEN Front(r) ELSE r
<2>1. Len(r) - 1 = T /\ (Len(r) > 1 <=> T >= 1)
  BY <1>10
<2>2. Last(r) = r[T + 1]
  BY <1>10 DEF Last
<2>3. QED BY <2>1, <2>2 DEF DropBack
<1>15. z = DropBack(r)
  BY <1>1, <1>3, <1>7
<1>16. \E Z \in 1..(T + 1) :
          /\ z \in Seq(ChunkRecords) /\ Len(z) = Z /\ \A i \in 1..Z : z[i] = r[i]
          /\ pr[Z + 1] = e
          /\ \/ Z = T + 1 /\ (T >= 1 /\ t[T].mem = Ring => ~(m.bytesToPop > 0))
             \/ Z = T /\ t[T].mem = Ring /\ t[T].slab = Head(m.ready)
                /\ Age(m, t[T].slab) = 0 /\ m.bytesToPop > 0
<2>1. CASE T >= 1 /\ t[T].mem = Ring /\ m.bytesToPop > 0
<3>1. T \in 1..T /\ T \in 1..(T + 1) /\ (T + 1) - 1 = T /\ T + 1 \in 1..(T + 1)
  BY <2>1
<3>2. Age(m, t[T].slab) = 0
  BY <2>1, <1>2, <1>12 DEF LastFits
<3>3. InRing(cells, m, n, t[T], pos[T]) /\ pos[T] \in Nat /\ pos[T] + t[T].length = n
  BY <2>1, <3>1, <1>12, <1>13
<3>4. t[T].slab = Head(m.ready) /\ Continues(c, t[T])
  BY <3>2, <3>3, <1>1, LastContinues
<3>5. f <= T
<4>1. ASSUME f = T + 1 PROVE FALSE
<5>1. f > 1 /\ f - 1 = T
  BY <2>1, <4>1
<5>2. ~Continues(a[T + 1], a[T])
  BY <4>1, <5>1, <1>10
<5>3. a[T + 1] = c /\ a[T] = t[T]
  BY <3>1, <1>5
<5>4. QED BY <3>4, <5>2, <5>3
<4>2. QED BY <4>1
<3>6. r[T + 1].length = 0 /\ r[T + 1].slab = r[T].slab
<4>1. T + 1 \in (f + 1)..(T + 1)
  BY <3>5
<4>2. r[T + 1].length = 0
  BY <4>1, <1>10
<4>3. r[T + 1].slab = c.slab /\ r[T].slab = t[T].slab
  BY <3>1, <1>5, <1>10
<4>4. QED BY <4>2, <4>3, <3>4, <1>1
<3>7. z = Front(r)
  BY <2>1, <3>6, <1>14, <1>15
<3>8. z \in Seq(ChunkRecords) /\ Len(z) = T /\ \A i \in 1..T : z[i] = r[i]
<4>1. Front(r) = SubSeq(r, 1, T)
  BY <1>10 DEF Front
<4>2. \A i \in 1..T : r[i] \in ChunkRecords
<5>1. \A i \in 1..T : i \in 1..(T + 1)
  OBVIOUS
<5>2. QED BY <5>1, <1>10, ChunkFacts
<4>3. /\ SubSeq(r, 1, T) \in Seq(ChunkRecords)
      /\ Len(SubSeq(r, 1, T)) = IF 1 <= T THEN T - 1 + 1 ELSE 0
      /\ \A i \in 1..(T - 1 + 1) : SubSeq(r, 1, T)[i] = r[1 + i - 1]
  BY <4>2, SubSeqProperties
<4>4. T - 1 + 1 = T /\ \A i \in 1..T : 1 + i - 1 = i
  OBVIOUS
<4>5. QED BY <4>1, <4>3, <4>4, <3>7, <2>1
<3>9. pr[T + 1] = e
<4>1. T + 1 \in 1..((T + 1) + 1) /\ ~(T + 1 <= f)
  BY <3>5
<4>2. QED BY <4>1, <1>8 DEF Where
<3>10. QED BY <2>1, <3>1, <3>2, <3>4, <3>8, <3>9
<2>2. CASE ~(T >= 1 /\ t[T].mem = Ring /\ m.bytesToPop > 0)
<3>1. z = r
<4>1. ASSUME T >= 1, r[T + 1].length = 0, r[T + 1].slab = r[T].slab PROVE FALSE
<5>1. T \in 1..T /\ T \in 1..(T + 1) /\ T + 1 \in 1..(T + 1) /\ (T + 1) - 1 = T
  BY <4>1
<5>2. t[T].slab = Head(m.ready)
  BY <5>1, <4>1, <1>1, <1>5, <1>10, ZenonT(40)
<5>3. ~(f = T + 1)
<6>1. ASSUME f = T + 1 PROVE FALSE
<7>1. r[T + 1].length = e - pa[T + 1] /\ pa[T + 1] = n
  BY <6>1, <5>1, <1>5, <1>10, <1>13
<7>2. e - n > 0
  BY <1>4
<7>3. QED BY <7>1, <7>2, <4>1
<6>2. QED BY <6>1
<5>4. T + 1 \in (f + 1)..(T + 1)
  BY <5>3
<5>5. Continues(c, t[T])
  BY <5>1, <5>4, <1>5, <1>10
<5>6. t[T].mem = Ring
  BY <5>5, <1>1 DEF Continues
<5>7. Age(m, t[T].slab) = 1
  BY <5>6, <4>1, <2>2, <1>2, <1>12 DEF LastFits
<5>8. QED BY <5>2, <5>7, <1>11
<4>2. QED BY <4>1, <1>14, <1>15
<3>2. pr[(T + 1) + 1] = e
<4>1. (T + 1) + 1 \in 1..((T + 1) + 1) /\ ~((T + 1) + 1 <= f)
  OBVIOUS
<4>2. QED BY <4>1, <1>8 DEF Where
<3>3. T + 1 \in 1..(T + 1)
  OBVIOUS
<3>4. QED BY <3>1, <3>2, <3>3, <2>2, <1>10
<2>3. QED BY <2>1, <2>2

<1>17. PICK Z \in 1..(T + 1) :
          /\ z \in Seq(ChunkRecords) /\ Len(z) = Z /\ \A i \in 1..Z : z[i] = r[i]
          /\ pr[Z + 1] = e
          /\ \/ Z = T + 1 /\ (T >= 1 /\ t[T].mem = Ring => ~(m.bytesToPop > 0))
             \/ Z = T /\ t[T].mem = Ring /\ t[T].slab = Head(m.ready)
                /\ Age(m, t[T].slab) = 0 /\ m.bytesToPop > 0
  BY <1>16
<1>18. /\ 1 \in 1..Z /\ Z \in 1..Z /\ 1 \in 1..(T + 1)
       /\ \A i \in 1..Z : i \in 1..(T + 1) /\ i \in 1..(Z + 1) /\ i + 1 \in 1..(Z + 1)
       /\ \A i \in 1..(Z + 1) : i \in 1..((T + 1) + 1)
       /\ \A i \in 1..(Z - 1) : i \in 1..Z /\ i + 1 \in 1..Z /\ i \in 1..T /\ i + 1 >= 2
       /\ \A i \in 2..Z : i \in 2..(T + 1)
  BY <1>17
<1>19. PICK new : new = [i \in 1..(Z + 1) |-> pr[i]]
  OBVIOUS
<1>20. \A i \in 1..(Z + 1) : new[i] = pr[i]
  BY <1>19
<1>21. Positions(z, new, l, e)
<2>1. /\ \A i \in 1..((T + 1) + 1) : pr[i] \in 0..e
      /\ \A i \in 1..(T + 1) : pr[i + 1] = pr[i] + r[i].length
      /\ pr[1] = l
  BY <1>9, <1>10 DEF Positions
<2>2. new \in [1..(Z + 1) -> 0..e]
  BY <2>1, <1>18, <1>19
<2>3. new[1] = l /\ new[Z + 1] = e
<3>1. 1 \in 1..(Z + 1) /\ Z + 1 \in 1..(Z + 1)
  BY <1>17
<3>2. QED BY <3>1, <2>1, <1>17, <1>20
<2>4. \A i \in 1..Z : new[i + 1] = new[i] + z[i].length
  BY <2>1, <1>17, <1>18, <1>20
<2>5. QED BY <2>2, <2>3, <2>4, <1>17 DEF Positions
<1>22. QueuePlaced(after, next, e, z, new)
<2>1. Placed(after, next, e, z[1], new[1])
<3>1. z[1] = r[1] /\ new[1] = pr[1]
  BY <1>17, <1>18, <1>20
<3>2. QED BY <3>1, <1>9
<2>2. \A i \in 2..Z : InRing(after, next, e, z[i], new[i])
<3>1. \A i \in 2..Z : i \in 1..Z /\ i \in 1..(Z + 1) /\ i \in 2..(T + 1)
  BY <1>17
<3>2. QED BY <3>1, <1>9, <1>17, <1>20
<2>3. QED BY <2>1, <2>2, <1>17 DEF QueuePlaced
<1>23. \A s \in alive \cup {Head(m.ready)} : Age(m, s) \in Int
<2>1. Head(m.ready) \in Slabs
<3>1. m.ready \in Seq(Slabs)
  BY ReadyFacts
<3>2. QED BY <3>1, HeadTailProperties
<2>2. \A s \in Slabs : Age(m, s) \in Int
  BY AgeIsInt
<2>3. QED BY <2>1, <2>2
<1>24. ASSUME NEW i \in 1..(Z - 1), z[i].mem = Ring
       PROVE  /\ Age(next, z[i].slab) = Age(next, z[i + 1].slab) + 1
              /\ Start(z[i + 1], new[i + 1]) <= Start(z[i], new[i]) + SlabSize
              /\ GetEnd(z[i]) = z[i + 1].address => z[i + 1].length = 0
<2>1. /\ i \in 1..Z /\ i + 1 \in 1..Z /\ i \in 1..T /\ i \in 1..(T + 1) /\ i + 1 \in 1..(T + 1)
      /\ i \in 1..(Z + 1) /\ i + 1 \in 1..(Z + 1) /\ T >= 1 /\ i + 1 >= 2
  BY <1>17
<2>2. z[i] = r[i] /\ z[i + 1] = r[i + 1] /\ new[i] = pr[i] /\ new[i + 1] = pr[i + 1]
  BY <2>1, <1>17, <1>20
<2>3. t[i].mem = Ring /\ a[i] = t[i] /\ pa[i] = pos[i] /\ pa[i + 1] = pos[i + 1]
  BY <2>1, <2>2, <1>5, <1>10, <1>24
<2>4. /\ z[i].slab = t[i].slab /\ z[i + 1].slab = a[i + 1].slab
      /\ Start(z[i], new[i]) = Start(t[i], pos[i])
      /\ Start(z[i + 1], new[i + 1]) = Start(a[i + 1], pos[i + 1])
<3>1. Start(r[i], pr[i]) = Start(a[i], pa[i]) /\ Start(r[i + 1], pr[i + 1]) = Start(a[i + 1], pa[i + 1])
  BY <2>1, <1>9
<3>2. r[i].slab = a[i].slab /\ r[i + 1].slab = a[i + 1].slab
  BY <2>1, <1>10
<3>3. QED BY <3>1, <3>2, <2>2, <2>3
<2>5. InRing(cells, m, n, t[i], pos[i]) /\ t[i].slab \in alive
  BY <2>1, <2>3, <1>12
<2>6. a[i + 1].mem = Ring
<3>1. i + 1 \in 2..(T + 1)
  BY <2>1
<3>2. QED BY <3>1, <1>5 DEF InRing
<2>7. GetEnd(z[i]) = z[i + 1].address => z[i + 1].length = 0
<3>1. ASSUME GetEnd(z[i]) = z[i + 1].address PROVE z[i + 1].length = 0
<4>1. CASE i + 1 > f
<5>1. i + 1 \in (f + 1)..(T + 1)
  BY <4>1, <2>1
<5>2. QED BY <5>1, <2>2, <1>10
<4>2. CASE i + 1 = f
<5>1. f > 1 /\ f - 1 = i /\ i \in 1..(f - 1)
  BY <4>2, <2>1
<5>2. ~Continues(a[i + 1], a[i])
  BY <4>2, <5>1, <1>10
<5>3. r[i] = a[i] /\ r[i + 1].address = a[i + 1].address
  BY <4>2, <5>1, <1>10
<5>4. Continues(a[i + 1], a[i])
  BY <5>3, <3>1, <2>2, <2>3, <2>6 DEF Continues
<5>5. QED BY <5>2, <5>4
<4>3. CASE i + 1 < f
<5>1. i \in 1..(f - 1) /\ i + 1 \in 1..(f - 1) /\ i + 1 \in 1..T /\ i \in 1..(T - 1)
  BY <4>3, <2>1
<5>2. z[i] = t[i] /\ z[i + 1] = t[i + 1]
  BY <5>1, <2>2, <1>5, <1>10
<5>3. GetEnd(t[i]) = t[i + 1].address => t[i + 1].length = 0
  BY <5>1, <2>1, <2>3, <1>2, <1>12 DEF Chained
<5>4. QED BY <5>2, <5>3, <3>1
<4>4. QED BY <4>1, <4>2, <4>3, <2>1
<3>2. QED BY <3>1
<2>8. CASE i < T
<3>1. i \in 1..(T - 1) /\ i + 1 \in 1..T
  BY <2>8, <2>1
<3>2. a[i + 1] = t[i + 1] /\ t[i + 1].slab \in alive
  BY <3>1, <2>1, <2>6, <1>5, <1>12
<3>3. /\ Age(m, t[i].slab) = Age(m, t[i + 1].slab) + 1
      /\ Start(t[i + 1], pos[i + 1]) <= Start(t[i], pos[i]) + SlabSize
  BY <3>1, <2>1, <2>3, <1>2, <1>12 DEF Chained
<3>4. Age(next, z[i].slab) = Age(next, z[i + 1].slab) + 1
<4>1. PICK x \in Int, y \in Int : x = Age(m, t[i].slab) /\ y = Age(m, t[i + 1].slab)
  BY <2>5, <3>2, <1>23
<4>2. Age(next, t[i].slab) = x + d /\ Age(next, t[i + 1].slab) = y + d
  BY <4>1, <2>5, <3>2
<4>3. x = y + 1 /\ d \in Int
  BY <4>1, <3>3, <1>11
<4>4. x + d = (y + d) + 1
  BY <4>3
<4>5. QED BY <4>2, <4>4, <2>4, <3>2
<3>5. QED BY <3>2, <3>3, <3>4, <2>4, <2>7
<2>9. CASE i = T
<3>1. Z = T + 1 /\ ~(m.bytesToPop > 0) /\ a[i + 1] = c /\ pos[i + 1] = n
  BY <2>1, <2>3, <2>9, <1>5, <1>13, <1>17
<3>2. Age(m, t[i].slab) = 1
  BY <3>1, <2>1, <2>3, <2>9, <1>2, <1>12 DEF LastFits
<3>3. Age(next, z[i].slab) = Age(next, z[i + 1].slab) + 1
<4>1. Age(next, t[i].slab) = 1 + d
  BY <3>2, <2>5
<4>2. QED BY <4>1, <3>1, <2>4, <1>1, <1>11
<3>4. Start(z[i + 1], new[i + 1]) <= Start(z[i], new[i]) + SlabSize
<4>1. Start(z[i + 1], new[i + 1]) = FrontStart(m, n)
  BY <3>1, <2>4, <1>1
<4>2. Start(t[i], pos[i]) \in 0..FrontStart(m, n) /\ FrontStart(m, n) - Start(t[i], pos[i]) <= 1 * SlabSize
  BY <2>5, <3>2 DEF InRing
<4>3. FrontStart(m, n) \in Nat
  BY ProducedFront
<4>4. SlabSize \in Nat
  BY Constants
<4>5. PICK x \in Nat, y \in Nat : x = Start(t[i], pos[i]) /\ y = FrontStart(m, n)
  BY <4>2, <4>3
<4>6. y <= x + SlabSize
  BY <4>2, <4>4, <4>5
<4>7. QED BY <4>1, <4>5, <4>6, <2>4
<3>5. QED BY <3>3, <3>4, <2>7
<2>10. QED BY <2>1, <2>8, <2>9
<1>25. ASSUME Z > 1, z[1].mem # Ring PROVE z[2].length > 0
<2>1. 1 \in 1..T /\ 2 \in 1..Z /\ 2 \in 1..(T + 1) /\ T >= 1 /\ 1 \in 1..(T + 1)
  BY <1>25, <1>17
<2>2. z[2] = r[2] /\ a[1].mem # Ring /\ t[1].mem # Ring
<3>1. z[1] = r[1] /\ z[2] = r[2]
  BY <2>1, <1>17, <1>18
<3>2. r[1].mem = a[1].mem /\ a[1] = t[1]
  BY <2>1, <1>5, <1>10
<3>3. QED BY <3>1, <3>2, <1>25
<2>3. f >= 2
  BY <2>2, <1>9
<2>4. CASE f = 2
<3>1. r[2].length = e - pos[2] /\ pos[2] \in 0..n
  BY <2>1, <2>4, <1>5, <1>10, <1>13
<3>2. e - pos[2] > 0
  BY <3>1, <1>4
<3>3. QED BY <3>1, <3>2, <2>2
<2>5. CASE f # 2
<3>1. 2 \in 1..(f - 1) /\ 2 \in 1..T /\ T > 1
  BY <2>3, <2>5
<3>2. r[2] = t[2]
  BY <3>1, <1>5, <1>10
<3>3. t[2].length > 0
  BY <3>1, <2>1, <2>2, <1>2, <1>12 DEF Chained
<3>4. QED BY <3>2, <3>3, <2>2
<2>6. QED BY <2>4, <2>5
\* The front chunk grows, or it was there before.
<1>26. \/ z[1].length = e - pos[1] /\ f = 1
       \/ f > 1 /\ T >= 1 /\ z[1] = t[1]
<2>1. z[1] = r[1] /\ pa[1] = pos[1]
  BY <1>5, <1>17, <1>18
<2>2. CASE f = 1
  BY <2>1, <2>2, <1>10
<2>3. CASE f # 1
<3>1. f > 1 /\ T >= 1 /\ 1 \in 1..(f - 1) /\ 1 \in 1..T
  BY <2>3
<3>2. QED BY <3>1, <2>1, <1>5, <1>10
<2>4. QED BY <2>2, <2>3
<1>27. ASSUME z[1].mem = Ring, z[1].length = 0 PROVE Age(next, z[1].slab) < NumSlabs
<2>1. pos[1] \in 0..n
  BY <1>13, <1>18
<2>2. f > 1 /\ T >= 1 /\ z[1] = t[1]
<3>1. e - pos[1] > 0
  BY <2>1, <1>4
<3>2. QED BY <3>1, <1>26, <1>27
<2>3. Age(m, t[1].slab) + 1 < NumSlabs /\ t[1].slab \in alive
<3>1. 1 \in 1..T
  BY <2>2
<3>2. QED BY <2>2, <3>1, <1>12, <1>27
<2>4. PICK x \in Int : x = Age(m, t[1].slab)
  BY <2>3, <1>23
<2>5. x + d < NumSlabs
<3>1. NumSlabs \in Nat
  BY Constants
<3>2. QED BY <3>1, <2>3, <2>4, <1>11
<2>6. Age(next, t[1].slab) = x + d
  BY <2>3, <2>4
<2>7. QED BY <2>2, <2>5, <2>6
<1>28. Chained(next, z, new)
<2>1. \A i \in 1..(Z - 1) : z[i].mem = Ring =>
          /\ Age(next, z[i].slab) = Age(next, z[i + 1].slab) + 1
          /\ Start(z[i + 1], new[i + 1]) <= Start(z[i], new[i]) + SlabSize
          /\ GetEnd(z[i]) = z[i + 1].address => z[i + 1].length = 0
  BY <1>24
<2>2. QED BY <2>1, <1>17, <1>25, <1>27 DEF Chained
<1>29. z[Z].slab = Head(m.ready)
<2>1. z[Z] = r[Z] /\ Z \in 1..(T + 1) /\ r[Z].slab = a[Z].slab
  BY <1>10, <1>17, <1>18
<2>2. CASE Z = T + 1
  BY <2>1, <2>2, <1>1, <1>5
<2>3. CASE Z # T + 1
<3>1. Z = T /\ T \in 1..T /\ t[T].slab = Head(m.ready)
  BY <2>3, <1>17
<3>2. QED BY <3>1, <2>1, <1>5
<2>4. QED BY <2>2, <2>3
<1>30. LastFits(next, z)
<2>1. d = IF next.bytesToPop > 0 THEN 0 ELSE 1
<3>1. PICK b \in Nat : b = m.bytesToPop
<4>1. m.bytesToPop \in 0..(SlabSize - 1)
  BY FrontFacts
<4>2. QED BY <4>1
<3>2. b + k > 0
  BY <3>1, <1>4
<3>3. QED BY <3>1, <3>2, <1>11
<2>2. QED BY <2>1, <1>11, <1>17, <1>29 DEF LastFits
<1>31. z # <<>>
  BY <1>17, EmptySeq
<1>32. QueueFits(after, next, n + k, l, z, new)
  BY <1>4, <1>17, <1>21, <1>22, <1>28, <1>30, <1>31 DEF QueueFits
<1>33. Head(m.ready) \in SlabsOf(z) /\ SlabsOf(z) \subseteq SlabsOf(t) \cup {Head(m.ready)}
<2>1. Range(z) = {z[i] : i \in 1..Z}
  BY <1>17, RangeEquality
<2>2. Head(m.ready) # 0
<3>1. m.ready \in Seq(Slabs)
  BY ReadyFacts
<3>2. Head(m.ready) \in Slabs
  BY <3>1, HeadTailProperties
<3>3. QED BY <3>2, Constants
<2>3. Head(m.ready) \in SlabsOf(z)
  BY <2>1, <2>2, <1>18, <1>29 DEF SlabsOf
<2>4. ASSUME NEW i \in 1..Z, z[i].slab # 0, z[i].slab # Head(m.ready)
      PROVE  z[i].slab \in SlabsOf(t)
<3>1. i \in 1..(T + 1) /\ z[i] = r[i]
  BY <1>17, <1>18
<3>2. z[i].slab = a[i].slab
  BY <3>1, <1>10
<3>3. i # T + 1
  BY <3>1, <3>2, <2>4, <1>1, <1>5
<3>4. i \in 1..T
  BY <3>1, <3>3
<3>5. t[i] \in Range(t)
<4>1. t \in Seq(ChunkRecords)
  BY DEF TailFits
<4>2. QED BY <4>1, <3>4, <1>2, RangeEquality
<3>6. z[i].slab = t[i].slab
  BY <3>2, <3>4, <1>5
<3>7. QED BY <3>5, <3>6, <2>4 DEF SlabsOf
<2>5. QED BY <2>1, <2>3, <2>4 DEF SlabsOf
<1>34. ASSUME t # <<>>, t[1].length > 0
       PROVE  /\ z[1].mem = t[1].mem /\ z[1].slab = t[1].slab /\ z[1].address = t[1].address
              /\ z[1].base = t[1].base /\ z[1].size = t[1].size
              /\ z[1].length >= t[1].length
<2>1. T >= 1 /\ 1 \in 1..T /\ 1 \in 1..(T + 1)
<3>1. t \in Seq(ChunkRecords)
  BY DEF TailFits
<3>2. T >= 1
  BY <3>1, <1>2, <1>34, EmptySeq, LenProperties
<3>3. QED BY <3>2
<2>2. CASE f > 1 /\ z[1] = t[1]
<3>1. t[1].length \in Nat
  BY <2>1, <1>12 DEF ChunkRecords
<3>2. QED BY <2>2, <3>1
<2>3. CASE z[1].length = e - pos[1] /\ f = 1
<3>1. /\ z[1].mem = t[1].mem /\ z[1].slab = t[1].slab /\ z[1].address = t[1].address
      /\ z[1].base = t[1].base /\ z[1].size = t[1].size
<4>1. z[1] = r[1] /\ a[1] = t[1]
  BY <2>1, <1>5, <1>17, <1>18
<4>2. QED BY <4>1, <2>1, <2>3, <1>10
<3>2. pos[1] + t[1].length <= n
<4>1. t \in Seq(ChunkRecords) /\ Positions(t, pos, l, n)
  BY DEF TailFits
<4>2. QED BY <4>1, <2>1, <1>2, PositionsBytes
<3>3. PICK x \in Nat, y \in Nat : x = pos[1] /\ y = t[1].length
<4>1. t[1] \in ChunkRecords
  BY <2>1, <1>12
<4>2. QED BY <4>1, <2>1, <1>13 DEF ChunkRecords
<3>4. e - x >= y
  BY <3>2, <3>3, <1>4
<3>5. QED BY <3>1, <3>3, <3>4, <2>3
<2>4. QED BY <2>2, <2>3, <1>26
<1>35. QED BY <1>32, <1>33, <1>34 DEF Pushed

\* push() first drops a used up front chunk.
LEMMA TailIs ==
    ASSUME NEW m, NEW n \in Nat, NEW alive, ManagerFits(m, n, alive), m.ready # <<>>,
           NEW cells, NEW after, \A b \in PoolBuffers : after[b] = cells[b],
           NEW l, NEW q, NEW pos, QueueFits(cells, m, n, l, q, pos), SlabsOf(q) \subseteq alive,
           NEW t, t = IF Head(q).length = 0 THEN Tail(q) ELSE q
    PROVE  \E new : TailFits(cells, after, m, n, l, t, new, alive)
<1>1. /\ Len(q) \in Nat /\ Len(q) >= 1
      /\ \A i \in 1..Len(q) : /\ q[i] \in ChunkRecords
                              /\ q[i].mem = Ring => /\ InRing(cells, m, n, q[i], pos[i])
                                                    /\ q[i].slab \in SlabsOf(q)
                              /\ i >= 2 => q[i].mem = Ring
  BY RingChunk
<1>2. PICK N \in Nat : N = Len(q) /\ N >= 1
  BY <1>1
<1>3. q \in Seq(ChunkRecords) /\ q # <<>> /\ Positions(q, pos, l, n) /\ Head(q) = q[1]
  BY DEF QueueFits
<1>4. /\ \A i \in 1..(N + 1) : pos[i] \in 0..n
      /\ \A i \in 1..N : pos[i + 1] = pos[i] + q[i].length
      /\ pos[N + 1] = n /\ pos[1] = l
  BY <1>2, <1>3 DEF Positions
<1>5. CASE q[1].length # 0
<2>1. t = q
  BY <1>3, <1>5
<2>2. q # <<NullChunk>>
  BY <1>5 DEF NullChunk
<2>3. ASSUME q[1].mem # Ring PROVE after[q[1].mem] = cells[q[1].mem]
<3>1. InPool(cells, n, q[1], pos[1])
  BY <2>2, <2>3 DEF QueueFits, QueuePlaced, Placed, InRing
<3>2. QED BY <3>1 DEF InPool
<2>4. TailFits(cells, after, m, n, l, t, pos, alive)
  BY <2>1, <2>2, <2>3, <1>3, <1>5 DEF TailFits
<2>5. QED BY <2>4
<1>6. CASE q[1].length = 0 /\ N = 1
<2>1. t = <<>>
<3>1. t = Tail(q)
  BY <1>3, <1>6
<3>2. Tail(q) \in Seq(ChunkRecords) /\ Len(Tail(q)) = Len(q) - 1
  BY <1>3, HeadTailProperties
<3>3. Len(t) = 0
  BY <3>1, <3>2, <1>2, <1>6
<3>4. QED BY <3>1, <3>2, <3>3, EmptySeq
<2>2. l = n
<3>1. 1 \in 1..N /\ 1 \in 1..(N + 1) /\ 1 + 1 = N + 1
  BY <1>6
<3>2. n = pos[1] + 0 /\ pos[1] \in 0..n
  BY <3>1, <1>4, <1>6
<3>3. QED BY <3>2, <1>4
<2>3. PICK new : new = [i \in 1..1 |-> n]
  OBVIOUS
<2>4. Positions(<<>>, new, l, n)
<3>1. Len(<<>>) + 1 = 1 /\ 1 \in 1..1 /\ \A i \in 1..Len(<<>>) : FALSE
  OBVIOUS
<3>2. new \in [1..1 -> 0..n] /\ new[1] = n
  BY <2>3
<3>3. QED BY <3>1, <3>2, <2>2 DEF Positions
<2>5. <<>> \in Seq(ChunkRecords) /\ SlabsOf(<<>>) \subseteq alive
<3>1. Range(<<>>) = {}
  BY DEF Range
<3>2. QED BY <3>1 DEF SlabsOf
<2>6. QED BY <2>1, <2>4, <2>5 DEF TailFits
<1>7. CASE q[1].length = 0 /\ N # 1
<2>1. /\ t \in Seq(ChunkRecords) /\ Len(t) = N - 1
      /\ \A i \in 1..(N - 1) : t[i] = q[i + 1]
  BY <1>2, <1>3, <1>7, HeadTailProperties
<2>2. /\ 1 \in 1..(N - 1) /\ 2 \in 1..N /\ N > 1 /\ 1 + 1 = 2 /\ 1 \in 1..N /\ 1 \in 1..(N + 1)
  BY <1>2, <1>7
<2>3. q # <<NullChunk>>
<3>1. Len(<<NullChunk>>) = 1
  OBVIOUS
<3>2. QED BY <3>1, <1>2, <1>7
<2>4. t[1] = q[2] /\ pos[2] = l /\ l \in 0..n
<3>1. pos[2] = pos[1] + 0 /\ pos[1] \in 0..n
  BY <2>2, <1>4, <1>7
<3>2. QED BY <3>1, <2>1, <2>2, <1>4
<2>5. q[2].mem = Ring /\ InRing(cells, m, n, q[2], pos[2])
  BY <2>2, <1>1, <1>2
<2>6. \E new : QueueFits(cells, m, n, l, t, new)
<3>1. Len(t) = Len(q) - 2 + 1 /\ 2 \in 1..Len(q)
  BY <2>1, <2>2, <1>2
<3>2. \A i \in 2..Len(t) : t[i] = q[i + 2 - 1]
<4>1. \A i \in 2..(N - 1) : i \in 1..(N - 1) /\ i + 2 - 1 = i + 1
  BY <1>2
<4>2. QED BY <4>1, <2>1
<3>3. l + t[1].length = pos[2 + 1]
  BY <2>2, <2>4, <1>4
<3>4. t[1].base <= t[1].address
  BY <2>4, <2>5 DEF InRing
<3>5. t[1].mem # Ring => q[2].address <= t[1].address
  BY <2>4, <2>5
<3>6. t[1].length = 0 => 2 >= 2 /\ q[2].length = 0
  BY <2>4
<3>7. /\ t[1].mem = q[2].mem /\ t[1].slab = q[2].slab
      /\ t[1].base = q[2].base /\ t[1].size = q[2].size /\ GetEnd(t[1]) = GetEnd(q[2])
  BY <2>4
<3>8. HeadWindow(q, pos, n, 2, t, l)
  BY <2>1, <2>4, <3>1, <3>2, <3>3, <3>4, <3>5, <3>6, <3>7 DEF HeadWindow
<3>9. QED BY <2>3, <3>8, HeadWindowFits
<2>7. PICK new : QueueFits(cells, m, n, l, t, new)
  BY <2>6
<2>8. SlabsOf(t) \subseteq alive
<3>1. Range(t) \subseteq Range(q)
<4>1. Range(t) = {t[i] : i \in 1..(N - 1)} /\ Range(q) = {q[i] : i \in 1..N}
<5>1. t \in Seq(ChunkRecords)
  BY <2>1
<5>2. Range(t) = {t[i] : i \in 1..Len(t)}
<6>1. DOMAIN t = 1..Len(t)
  BY <5>1
<6>2. QED BY <6>1 DEF Range
<5>3. Range(q) = {q[i] : i \in 1..Len(q)}
  BY <1>3, RangeEquality
<5>4. QED BY <5>2, <5>3, <2>1, <1>2
<4>2. \A i \in 1..(N - 1) : i + 1 \in 1..N
  BY <1>2
<4>3. QED BY <4>1, <4>2, <2>1
<3>2. QED BY <3>1 DEF SlabsOf
<2>9. t # <<NullChunk>> /\ t # <<>>
<3>1. t[1].mem = Ring
  BY <2>4, <2>5
<3>2. NullChunk.mem # Ring
  BY DEF NullChunk, Nowhere, Ring
<3>3. t # <<>>
<4>1. Len(t) # 0
  BY <2>1, <2>2, <1>2
<4>2. QED BY <2>1, <4>1, EmptySeq
<3>4. t # <<NullChunk>>
<4>1. <<NullChunk>>[1] = NullChunk
  OBVIOUS
<4>2. QED BY <3>1, <3>2, <4>1
<3>5. QED BY <3>3, <3>4
<2>10. ASSUME t[1].mem = Ring, t[1].length = 0 PROVE Age(m, t[1].slab) + 1 < NumSlabs
<3>1. q[1].mem = Ring
  BY <2>2, <2>4, <2>10, <1>2 DEF QueueFits, Chained
<3>2. Age(m, q[1].slab) = Age(m, q[2].slab) + 1
<4>1. 1 \in 1..(N - 1)
  BY <2>2
<4>2. QED BY <3>1, <4>1, <2>2, <1>2 DEF QueueFits, Chained
<3>3. q[1].slab \in Slabs
  BY <3>1, <2>2, <1>1, <1>2 DEF InRing
<3>4. Age(m, q[1].slab) \in 0..NumSlabs /\ Age(m, q[1].slab) <= NumSlabs - 1
  BY <3>3, AgeIsInt
<3>5. NumSlabs \in Nat
  BY Constants
<3>6. PICK x \in Int : x = Age(m, q[1].slab) /\ x <= NumSlabs - 1
  BY <3>4
<3>7. x < NumSlabs
  BY <3>5, <3>6
<3>8. QED BY <3>2, <3>6, <3>7, <2>4
<2>11. t[1].mem = Ring
  BY <2>4, <2>5
<2>12. QED BY <2>1, <2>7, <2>8, <2>9, <2>10, <2>11 DEF TailFits, QueueFits
<1>8. QED BY <1>5, <1>6, <1>7

(***************************************************************************)
(* Pop                                                                     *)
(***************************************************************************)

LEMMA ConsFacts ==
    ASSUME NEW S, NEW c \in S, NEW s \in Seq(S)
    PROVE  /\ <<c>> \o s \in Seq(S) /\ Len(<<c>> \o s) = Len(s) + 1
           /\ (<<c>> \o s)[1] = c
           /\ \A i \in 2..(Len(s) + 1) : (<<c>> \o s)[i] = s[i - 1]
<1> DEFINE r == <<c>> \o s
<1>1. <<c>> \in Seq(S) /\ Len(<<c>>) = 1 /\ <<c>>[1] = c
  OBVIOUS
<1>2. PICK a \in Seq(S) : a = <<c>> /\ Len(a) = 1 /\ a[1] = c
  BY <1>1
<1>3. PICK N \in Nat : N = Len(s)
  OBVIOUS
<1>4. /\ a \o s \in Seq(S) /\ Len(a \o s) = Len(a) + Len(s)
      /\ \A i \in 1..(Len(a) + Len(s)) : (a \o s)[i] = IF i <= Len(a) THEN a[i] ELSE s[i - Len(a)]
  BY ConcatProperties
<1>5. a \o s = r
  BY <1>2
<1>6. /\ r \in Seq(S) /\ Len(r) = 1 + N
      /\ \A i \in 1..(1 + N) : r[i] = IF i <= 1 THEN a[i] ELSE s[i - 1]
  BY <1>2, <1>3, <1>4, <1>5
<1> HIDE DEF r
<1>7. /\ 1 \in 1..(1 + N) /\ 1 + N = N + 1
      /\ \A i \in 2..(N + 1) : i \in 1..(1 + N) /\ ~(i <= 1)
  BY <1>3
<1>8. r[1] = c
  BY <1>2, <1>6, <1>7
<1>9. \A i \in 2..(N + 1) : r[i] = s[i - 1]
  BY <1>6, <1>7
<1>10. QED BY <1>3, <1>6, <1>7, <1>8, <1>9 DEF r

LEMMA TailFacts ==
    ASSUME NEW S, NEW s \in Seq(S), NEW N \in Nat, N = Len(s), N >= 1
    PROVE  /\ Tail(s) \in Seq(S) /\ Len(Tail(s)) = N - 1
           /\ \A i \in 1..(N - 1) : Tail(s)[i] = s[i + 1]
<1>1. s # <<>>
  BY EmptySeq
<1>2. QED BY <1>1, HeadTailProperties

\* Another window keeps no other slab alive.
LEMMA WindowSlabs ==
    ASSUME NEW q \in Seq(ChunkRecords), NEW n, NEW pos,
           NEW j, NEW r, NEW l, HeadWindow(q, pos, n, j, r, l)
    PROVE  SlabsOf(r) \subseteq SlabsOf(q)
<1>1. PICK i \in 1..Len(q), s \in Seq(ChunkRecords) :
         /\ i = j /\ s = r /\ Len(s) = Len(q) - i + 1 /\ s[1].slab = q[i].slab
         /\ \A x \in 2..Len(s) : s[x] = q[x + i - 1]
  BY DEF HeadWindow
<1>2. PICK N \in Nat, R \in Nat : N = Len(q) /\ R = Len(s) /\ R = N - i + 1 /\ i \in 1..N
  BY <1>1
<1>3. DOMAIN q = 1..N /\ DOMAIN s = 1..R
<2>1. DOMAIN q = 1..Len(q) /\ DOMAIN s = 1..Len(s)
  OBVIOUS
<2>2. QED BY <2>1, <1>2
<1>4. ASSUME NEW x \in 1..R PROVE \E y \in 1..N : s[x].slab = q[y].slab
<2>1. CASE x = 1
  BY <2>1, <1>1, <1>2
<2>2. CASE x # 1
<3>1. x \in 2..R /\ x + i - 1 \in 1..N
<4>1. x \in 1..R /\ R = N - i + 1 /\ i \in 1..N /\ x # 1 /\ N \in Nat
  BY <1>2, <2>2
<4>2. QED BY ONLY <4>1
<3>2. s[x] = q[x + i - 1]
  BY <3>1, <1>1, <1>2
<3>3. QED BY <3>1, <3>2
<2>3. QED BY <2>1, <2>2
<1>5. {c.slab : c \in Range(s)} \subseteq {c.slab : c \in Range(q)}
  BY <1>3, <1>4, SMTT(30) DEF Range
<1>6. QED BY <1>1, <1>5 DEF SlabsOf

\* The rest of the front chunk takes its place, or it is gone.
LEMMA TrimmedWindow ==
    ASSUME NEW cells, NEW m, NEW n \in Nat, NEW k, NEW q, NEW pos,
           QueueFits(cells, m, n, k, q, pos), q # <<NullChunk>>,
           NEW x \in 1..q[1].length, NEW f \in ChunkRecords, x < q[1].length,
           f.mem = q[1].mem, f.slab = q[1].slab, f.base = q[1].base, f.size = q[1].size,
           f.address = q[1].address + x, f.length = q[1].length - x
    PROVE  HeadWindow(q, pos, n, 1, <<f>> \o Tail(q), k + x)
<1>1. /\ Len(q) \in Nat /\ Len(q) >= 1
      /\ \A i \in 1..Len(q) : q[i] \in ChunkRecords
  BY RingChunk
<1>2. PICK N \in Nat : N = Len(q) /\ N >= 1
  BY <1>1
<1>3. q \in Seq(ChunkRecords) /\ q # <<>> /\ Positions(q, pos, k, n) /\ q[1] \in ChunkRecords
<2>1. q \in Seq(ChunkRecords) /\ q # <<>> /\ Positions(q, pos, k, n)
  BY DEF QueueFits
<2>2. 1 \in 1..Len(q)
  BY <1>2
<2>3. QED BY <2>1, <2>2, <1>1
<1>4. PICK K \in Nat, e \in Nat, A \in Nat, B \in Nat, y \in Nat :
         /\ K = k /\ A = q[1].address /\ B = q[1].base /\ y = q[1].length
         /\ e = pos[2] /\ e = K + y /\ e <= n
<2>1. 1 \in 1..N /\ 1 \in 1..(N + 1) /\ 2 \in 1..(N + 1) /\ 1 + 1 = 2
  BY <1>2
<2>2. pos[1] = k /\ pos[1] \in 0..n /\ pos[2] \in 0..n /\ pos[2] = pos[1] + q[1].length
  BY <2>1, <1>2, <1>3 DEF Positions
<2>3. q[1].address \in Nat /\ q[1].base \in Nat /\ q[1].length \in Nat
  BY <1>3 DEF ChunkRecords
<2>4. PICK K \in Nat, e \in Nat : K = k /\ e = pos[2] /\ e <= n /\ e = K + q[1].length
  BY <2>2
<2>5. QED BY <2>3, <2>4
<1>5. x \in Nat /\ x < y
  BY <1>4
<1>6. B <= A
<2>1. Placed(cells, m, n, q[1], pos[1])
  BY DEF QueueFits, QueuePlaced
<2>2. CASE InRing(cells, m, n, q[1], pos[1])
  BY <2>2, <1>4 DEF InRing
<2>3. CASE InPool(cells, n, q[1], pos[1])
  BY <2>3, <1>4 DEF InPool
<2>4. QED BY <2>1, <2>2, <2>3 DEF Placed
<1>7. f.length = y - x /\ f.address = A + x
  BY <1>4
<1>8. Tail(q) \in Seq(ChunkRecords) /\ Len(Tail(q)) = N - 1
      /\ \A i \in 1..(N - 1) : Tail(q)[i] = q[i + 1]
  BY <1>2, <1>3, HeadTailProperties
<1>9. PICK t \in Seq(ChunkRecords) : t = Tail(q) /\ Len(t) = N - 1
                                     /\ \A i \in 1..(N - 1) : t[i] = q[i + 1]
  BY <1>8
<1>10. PICK r : r = <<f>> \o t
  OBVIOUS
<1>11. /\ r \in Seq(ChunkRecords) /\ Len(r) = (N - 1) + 1 /\ r[1] = f
       /\ \A i \in 2..((N - 1) + 1) : r[i] = t[i - 1]
  BY <1>9, <1>10, ConsFacts
<1>12. Len(r) = N /\ \A i \in 2..N : r[i] = q[i + 1 - 1]
<2>1. \A i \in 2..N : i - 1 \in 1..(N - 1) /\ (i - 1) + 1 = i /\ i + 1 - 1 = i
  BY <1>2
<2>2. (N - 1) + 1 = N
  BY <1>2
<2>3. QED BY <2>1, <2>2, <1>9, <1>11
<1>13. GetEnd(f) = GetEnd(q[1])
<2>1. (A + x) + (y - x) = A + y
<3>1. x \in Nat
  BY <1>5
<3>2. QED BY ONLY <3>1
<2>2. QED BY <2>1, <1>4, <1>7 DEF GetEnd
<1>14. f.base <= f.address /\ q[1].address <= f.address
  BY <1>4, <1>5, <1>6, <1>7, SMTT(30)
<1>15. k + x \in 0..n /\ (k + x) + f.length = pos[1 + 1]
<2>1. K + x \in 0..n /\ (K + x) + (y - x) = e /\ 1 + 1 = 2
<3>1. e = K + y /\ e <= n
  BY <1>4
<3>2. QED BY ONLY <3>1, <1>5
<2>2. QED BY <2>1, <1>4, <1>7
<1>16. f.length # 0
  BY <1>4, <1>5, <1>7
<1>17. 1 \in 1..N /\ N = N - 1 + 1
  BY <1>2
<1>18. HeadWindow(q, pos, n, 1, r, k + x)
  BY <1>2, <1>11, <1>12, <1>13, <1>14, <1>15, <1>16, <1>17 DEF HeadWindow
<1>19. QED BY <1>9, <1>10, <1>18

\* Another window of the second chunk's buffer takes the place of both.
LEMMA SecondWindow ==
    ASSUME NEW cells, NEW m, NEW n \in Nat, NEW k, NEW q, NEW pos,
           QueueFits(cells, m, n, k, q, pos), Len(q) >= 2,
           NEW g \in ChunkRecords, NEW l \in 0..n,
           g.mem = q[2].mem, g.slab = q[2].slab, g.base = q[2].base, g.size = q[2].size,
           GetEnd(g) = GetEnd(q[2]), g.base <= g.address, l + g.length = pos[3],
           g.length = 0 => q[2].length = 0
    PROVE  HeadWindow(q, pos, n, 2, <<g>> \o Tail(Tail(q)), l)
<1>1. /\ Len(q) \in Nat /\ q \in Seq(ChunkRecords) /\ q # <<>>
      /\ \A i \in 1..Len(q) : i >= 2 => q[i].mem = Ring
  BY RingChunk DEF QueueFits
<1>2. PICK N \in Nat : N = Len(q) /\ N >= 2
  BY <1>1
<1>3. PICK t \in Seq(ChunkRecords) : /\ t = Tail(q) /\ Len(t) = N - 1
                                     /\ \A i \in 1..(N - 1) : t[i] = q[i + 1]
<2>1. q \in Seq(ChunkRecords)
  BY <1>1
<2>2. N = Len(q) /\ N >= 1
  BY <1>2
<2>3. /\ Tail(q) \in Seq(ChunkRecords) /\ Len(Tail(q)) = N - 1
      /\ \A i \in 1..(N - 1) : Tail(q)[i] = q[i + 1]
  BY ONLY <2>1, <2>2, TailFacts
<2>4. QED BY <2>3
<1>4. t # <<>>
<2>1. Len(t) # 0
  BY <1>2, <1>3
<2>2. QED BY <2>1
<1>5. /\ Tail(t) \in Seq(ChunkRecords) /\ Len(Tail(t)) = Len(t) - 1
      /\ \A i \in 1..(Len(t) - 1) : Tail(t)[i] = t[i + 1]
  BY <1>4, HeadTailProperties
<1>6. PICK u \in Seq(ChunkRecords) : /\ u = Tail(t) /\ Len(u) = N - 2
                                     /\ \A i \in 1..(N - 2) : u[i] = t[i + 1]
<2>1. (N - 1) - 1 = N - 2
  BY <1>2
<2>2. QED BY <2>1, <1>3, <1>5, ZenonT(40)
<1>7. PICK r : r = <<g>> \o u
  OBVIOUS
<1>8. /\ r \in Seq(ChunkRecords) /\ Len(r) = (N - 2) + 1 /\ r[1] = g
      /\ \A i \in 2..((N - 2) + 1) : r[i] = u[i - 1]
  BY <1>6, <1>7, ConsFacts
<1>9. Len(r) = N - 2 + 1 /\ \A i \in 2..Len(r) : r[i] = q[i + 2 - 1]
<2>1. \A i \in 2..((N - 2) + 1) : /\ i - 1 \in 1..(N - 2) /\ (i - 1) + 1 = i
                                  /\ i \in 1..(N - 1) /\ i + 2 - 1 = i + 1
  BY <1>2
<2>2. QED BY <2>1, <1>3, <1>6, <1>8
<1>10. q[2].mem = Ring /\ 2 \in 1..N
<2>1. 2 \in 1..N /\ 2 >= 2
  BY <1>2
<2>2. QED BY <2>1, <1>1, <1>2
<1>11. 2 + 1 = 3
  OBVIOUS
<1>12. HeadWindow(q, pos, n, 2, r, l)
  BY <1>2, <1>8, <1>9, <1>10, <1>11 DEF HeadWindow
<1>13. QED BY <1>3, <1>6, <1>7, <1>12

\* The first chunk goes.
LEMMA GoneWindow ==
    ASSUME NEW cells, NEW m, NEW n \in Nat, NEW k, NEW q, NEW pos,
           QueueFits(cells, m, n, k, q, pos), Len(q) >= 2
    PROVE  HeadWindow(q, pos, n, 2, Tail(q), pos[2])
<1>1. /\ Len(q) \in Nat /\ q \in Seq(ChunkRecords) /\ q # <<>>
      /\ \A i \in 1..Len(q) : /\ q[i].mem = Ring => InRing(cells, m, n, q[i], pos[i])
                              /\ i >= 2 => q[i].mem = Ring
  BY RingChunk DEF QueueFits
<1>2. PICK N \in Nat : N = Len(q) /\ N >= 2
  BY <1>1
<1>3. PICK t \in Seq(ChunkRecords) : /\ t = Tail(q) /\ Len(t) = N - 1
                                     /\ \A i \in 1..(N - 1) : t[i] = q[i + 1]
<2>1. q \in Seq(ChunkRecords)
  BY <1>1
<2>2. N = Len(q) /\ N >= 1
  BY <1>2
<2>3. /\ Tail(q) \in Seq(ChunkRecords) /\ Len(Tail(q)) = N - 1
      /\ \A i \in 1..(N - 1) : Tail(q)[i] = q[i + 1]
  BY ONLY <2>1, <2>2, TailFacts
<2>4. QED BY <2>3
<1>4. 1 \in 1..(N - 1) /\ 1 + 1 = 2 /\ 2 \in 1..N /\ 2 \in 1..(N + 1) /\ 2 + 1 = 3 /\ 2 >= 2
      /\ N - 1 = N - 2 + 1
  BY <1>2
<1>5. t[1] = q[2] /\ q[2].mem = Ring /\ q[2].base <= q[2].address
<2>1. t[1] = q[2]
  BY <1>3, <1>4
<2>2. q[2].mem = Ring
  BY <1>1, <1>2, <1>4
<2>3. InRing(cells, m, n, q[2], pos[2])
  BY <2>2, <1>1, <1>2, <1>4
<2>4. QED BY <2>1, <2>2, <2>3 DEF InRing
<1>6. pos[2] \in 0..n /\ pos[2] + q[2].length = pos[2 + 1]
  BY <1>2, <1>4 DEF QueueFits, Positions
<1>7. \A i \in 2..(N - 1) : t[i] = q[i + 2 - 1]
<2>1. \A i \in 2..(N - 1) : i \in 1..(N - 1) /\ i + 2 - 1 = i + 1
  BY <1>2
<2>2. QED BY <2>1, <1>3
<1>8. HeadWindow(q, pos, n, 2, t, pos[2])
  BY <1>2, <1>3, <1>4, <1>5, <1>6, <1>7 DEF HeadWindow
<1>9. QED BY <1>3, <1>8

\* A chunk with another window of its buffer
LEMMA Rewindowed ==
    ASSUME NEW c \in ChunkRecords, NEW a \in Nat, NEW y \in Nat
    PROVE  \E f \in ChunkRecords :
              /\ f = [c EXCEPT !.address = a, !.length = y]
              /\ f.address = a /\ f.length = y
              /\ f.mem = c.mem /\ f.slab = c.slab /\ f.base = c.base /\ f.size = c.size
<1>1. PICK f : f = [c EXCEPT !.address = a, !.length = y]
  OBVIOUS
<1>2. f \in ChunkRecords
  BY <1>1 DEF ChunkRecords
<1>3. /\ f.address = a /\ f.length = y
      /\ f.mem = c.mem /\ f.slab = c.slab /\ f.base = c.base /\ f.size = c.size
  BY <1>1 DEF ChunkRecords
<1>4. QED BY <1>1, <1>2, <1>3

\* Of a queue q that becomes z, which has the bytes behind the first l
StillFits(cells, m, n, l, q, z) ==
    /\ \E new : QueueFits(cells, m, n, l, z, new)
    /\ SlabsOf(z) \subseteq SlabsOf(q)

LEMMA WindowFits ==
    ASSUME NEW cells, NEW m, NEW n \in Nat, NEW alive, ManagerFits(m, n, alive),
           NEW k, NEW q, NEW pos, QueueFits(cells, m, n, k, q, pos), q # <<NullChunk>>,
           NEW j, NEW r, NEW l, HeadWindow(q, pos, n, j, r, l)
    PROVE  StillFits(cells, m, n, l, q, r)
<1>1. \E new : QueueFits(cells, m, n, l, r, new)
  BY HeadWindowFits
<1>2. q \in Seq(ChunkRecords)
  BY DEF QueueFits
<1>3. SlabsOf(r) \subseteq SlabsOf(q)
  BY <1>2, WindowSlabs
<1>4. QED BY <1>1, <1>3 DEF StillFits

NullChunkFacts ==
    /\ NullChunk \in ChunkRecords /\ NullChunk.length = 0 /\ NullChunk.slab = 0
    /\ NullChunk.mem # Ring

LEMMA NullChunkIs == NullChunkFacts
BY DEF NullChunkFacts, NullChunk, ChunkRecords, Ring, Nowhere

LEMMA NothingFits ==
    ASSUME NEW cells, NEW m, NEW n \in Nat, NEW q
    PROVE  StillFits(cells, m, n, n, q, <<NullChunk>>)
<1>1. NullChunk \in ChunkRecords /\ NullChunk.length = 0 /\ NullChunk.slab = 0
  BY NullChunkIs DEF NullChunkFacts
<1>2. n + NullChunk.length = n
  BY <1>1
<1>3. \E new : QueueFits(cells, m, n, n, <<NullChunk>>, new)
  BY <1>1, <1>2, OneFits
<1>4. Range(<<NullChunk>>) = {NullChunk}
  BY DEF Range
<1>5. SlabsOf(<<NullChunk>>) = {}
  BY <1>1, <1>4 DEF SlabsOf
<1>6. QED BY <1>3, <1>5 DEF StillFits

\* Where the first two chunks are in the stream
LEMMA FirstTwo ==
    ASSUME NEW cells, NEW m, NEW n \in Nat, NEW k \in Nat, NEW q, NEW pos,
           QueueFits(cells, m, n, k, q, pos)
    PROVE  /\ q \in Seq(ChunkRecords) /\ q # <<>> /\ Head(q) = q[1]
           /\ Len(q) \in Nat /\ Len(q) >= 1
           /\ q[1] \in ChunkRecords /\ pos[1] = k /\ k <= n
           /\ pos[2] = k + q[1].length /\ pos[2] \in 0..n
           /\ Len(q) = 1 => pos[2] = n
           /\ Len(q) >= 2 => /\ q[2] \in ChunkRecords /\ InRing(cells, m, n, q[2], pos[2])
                             /\ pos[3] = pos[2] + q[2].length /\ pos[3] \in 0..n
<1>1. /\ Len(q) \in Nat /\ Len(q) >= 1
      /\ \A i \in 1..Len(q) : /\ q[i] \in ChunkRecords
                              /\ q[i].mem = Ring => InRing(cells, m, n, q[i], pos[i])
                              /\ i >= 2 => q[i].mem = Ring
  BY RingChunk
<1>2. PICK N \in Nat : N = Len(q) /\ N >= 1
  BY <1>1
<1>3. /\ q \in Seq(ChunkRecords) /\ q # <<>> /\ Head(q) = q[1]
      /\ \A i \in 1..(N + 1) : pos[i] \in 0..n
      /\ \A i \in 1..N : pos[i + 1] = pos[i] + q[i].length
      /\ pos[N + 1] = n /\ pos[1] = k
  BY <1>2 DEF QueueFits, Positions
<1>4. /\ 1 \in 1..N /\ 1 \in 1..(N + 1) /\ 2 \in 1..(N + 1) /\ 1 + 1 = 2 /\ 2 + 1 = 3
      /\ N = 1 => N + 1 = 2
      /\ N >= 2 => 2 \in 1..N /\ 3 \in 1..(N + 1)
  BY <1>2
<1>5. q[1] \in ChunkRecords /\ pos[2] = k + q[1].length /\ pos[2] \in 0..n /\ k \in 0..n
  BY <1>1, <1>2, <1>3, <1>4
<1>6. N = 1 => pos[2] = n
  BY <1>3, <1>4
<1>7. ASSUME N >= 2
      PROVE  /\ q[2] \in ChunkRecords /\ InRing(cells, m, n, q[2], pos[2])
             /\ pos[3] = pos[2] + q[2].length /\ pos[3] \in 0..n
<2>1. 2 \in 1..N /\ 3 \in 1..(N + 1) /\ 2 >= 2
  BY <1>4, <1>7
<2>2. QED BY <2>1, <1>1, <1>2, <1>3, <1>4
<1>8. k <= n
  BY <1>5
<1>9. QED BY <1>2, <1>3, <1>5, <1>6, <1>7, <1>8

\* What pop() makes of a queue whose first chunk would become f and whose other
\* chunks are t
Popped(f, t, z) ==
    \/ /\ t # <<>> /\ f.length <= Head(t).address - Head(t).base
       /\ z = <<[Head(t) EXCEPT !.address = @ - f.length, !.length = Head(t).length + f.length]>>
              \o Tail(t)
    \/ /\ t # <<>> /\ f.length > 0 /\ f.address >= f.base + f.size
       /\ GetEnd(f) = Head(t).address
       /\ z = <<[Head(t) EXCEPT !.address = @ - f.length, !.length = f.length]>> \o Tail(t)
    \/ f.length # 0 /\ z = <<f>> \o t
    \/ f.length = 0 /\ t # <<>> /\ z = t
    \/ f.length = 0 /\ t = <<>> /\ z = <<NullChunk>>

LEMMA PopIs ==
    ASSUME NEW a, NEW x, Tail(a.queue) \in Seq(ChunkRecords)
    PROVE  /\ Popped([Head(a.queue) EXCEPT !.address = @ + x, !.length = @ - x], Tail(a.queue),
                     Pop(a, x).queue)
           /\ Pop(a, x).inPoolBuffer \in BOOLEAN
<1> DEFINE f == [Head(a.queue) EXCEPT !.address = @ + x, !.length = @ - x]
           t == Tail(a.queue)
           backInto(length) == <<[Head(t) EXCEPT !.address = @ - f.length, !.length = length]>>
                               \o Tail(t)
           z == IF a.inPoolBuffer /\ t # <<>> /\ f.length <= Head(t).address - Head(t).base
                THEN backInto(Head(t).length + f.length)
                ELSE IF t # <<>> /\ (f.length > 0 /\ f.address >= f.base + f.size)
                        /\ GetEnd(f) = Head(t).address
                     THEN backInto(f.length)
                     ELSE UnlessEmpty(f, t)
<1>1. /\ Pop(a, x).queue = IF z = <<>> THEN <<NullChunk>> ELSE z
      /\ Pop(a, x).inPoolBuffer = (a.inPoolBuffer /\ Len(z) = Len(a.queue))
  BY DEF Pop
<1> HIDE DEF f, t
<1>2. ASSUME NEW c, NEW s \in Seq(ChunkRecords) PROVE <<c>> \o s # <<>>
<2>1. Len(<<c>>) = 1 /\ Len(s) \in Nat
  OBVIOUS
<2>2. PICK N \in Nat : N = Len(s)
  BY <2>1
<2>3. 1 \in 1..(1 + N)
  BY <2>2
<2>4. DOMAIN (<<c>> \o s) = 1..(Len(<<c>>) + Len(s))
  OBVIOUS
<2>5. DOMAIN (<<c>> \o s) # {}
  BY <2>1, <2>2, <2>3, <2>4
<2>6. DOMAIN <<>> = {}
  OBVIOUS
<2>7. QED BY <2>5, <2>6
<1>3. t # <<>> => Tail(t) \in Seq(ChunkRecords)
<2>1. t \in Seq(ChunkRecords)
  BY DEF t
<2>2. QED BY <2>1, HeadTailProperties
<1>4. Popped(f, t, Pop(a, x).queue)
<2>1. CASE a.inPoolBuffer /\ t # <<>> /\ f.length <= Head(t).address - Head(t).base
<3>1. z = backInto(Head(t).length + f.length)
  BY <2>1
<3>2. backInto(Head(t).length + f.length) # <<>>
  BY <2>1, <1>2, <1>3
<3>3. Pop(a, x).queue = backInto(Head(t).length + f.length)
<4> HIDE DEF z, backInto
<4>1. QED BY <1>1, <3>1, <3>2
<3>4. QED BY <2>1, <3>3 DEF Popped
<2>2. CASE /\ ~(a.inPoolBuffer /\ t # <<>> /\ f.length <= Head(t).address - Head(t).base)
           /\ t # <<>> /\ (f.length > 0 /\ f.address >= f.base + f.size)
           /\ GetEnd(f) = Head(t).address
<3>1. z = backInto(f.length)
  BY <2>2
<3>2. backInto(f.length) # <<>>
  BY <2>2, <1>2, <1>3
<3>3. Pop(a, x).queue = backInto(f.length)
<4> HIDE DEF z, backInto
<4>1. QED BY <1>1, <3>1, <3>2
<3>4. QED BY <2>2, <3>3 DEF Popped
<2>3. CASE /\ ~(a.inPoolBuffer /\ t # <<>> /\ f.length <= Head(t).address - Head(t).base)
           /\ ~(t # <<>> /\ (f.length > 0 /\ f.address >= f.base + f.size)
                /\ GetEnd(f) = Head(t).address)
<3>1. z = UnlessEmpty(f, t)
  BY <2>3
<3>2. CASE f.length # 0
<4>1. z = <<f>> \o t
  BY <3>1, <3>2 DEF UnlessEmpty
<4>2. <<f>> \o t # <<>>
  BY <1>2
<4>3. Pop(a, x).queue = <<f>> \o t
<5> HIDE DEF z
<5>1. QED BY <1>1, <4>1, <4>2
<4>4. QED BY <3>2, <4>3 DEF Popped
<3>3. CASE f.length = 0
<4>1. z = t
  BY <3>1, <3>3 DEF UnlessEmpty
<4>2. Pop(a, x).queue = IF t = <<>> THEN <<NullChunk>> ELSE t
<5> HIDE DEF z
<5>1. QED BY <1>1, <4>1
<4>3. QED BY <3>3, <4>2 DEF Popped
<3>4. QED BY <3>2, <3>3
<2>4. QED BY <2>1, <2>2, <2>3
<1>5. Pop(a, x).inPoolBuffer \in BOOLEAN
<2> HIDE DEF z
<2>1. (a.inPoolBuffer /\ Len(z) = Len(a.queue)) \in BOOLEAN
  OBVIOUS
<2>2. QED BY <1>1, <2>1
<1>6. QED BY <1>4, <1>5 DEF f, t

LEMMA PopFits ==
    ASSUME NEW cells, NEW m, NEW n \in Nat, NEW alive, ManagerFits(m, n, alive),
           NEW k \in Nat, NEW a, NEW q, q = a.queue, NEW pos,
           QueueFits(cells, m, n, k, q, pos), NEW x \in 1..q[1].length
    PROVE  /\ StillFits(cells, m, n, k + x, q, Pop(a, x).queue)
           /\ Pop(a, x).inPoolBuffer \in BOOLEAN
<1>1. /\ q \in Seq(ChunkRecords) /\ q # <<>> /\ Head(q) = q[1]
      /\ Len(q) \in Nat /\ Len(q) >= 1
      /\ q[1] \in ChunkRecords /\ pos[1] = k /\ k <= n
      /\ pos[2] = k + q[1].length /\ pos[2] \in 0..n
      /\ Len(q) = 1 => pos[2] = n
      /\ Len(q) >= 2 => /\ q[2] \in ChunkRecords /\ InRing(cells, m, n, q[2], pos[2])
                        /\ pos[3] = pos[2] + q[2].length /\ pos[3] \in 0..n
  BY FirstTwo
<1>2. PICK N \in Nat : N = Len(q) /\ N >= 1
  BY <1>1
<1>3. PICK t \in Seq(ChunkRecords) : /\ t = Tail(q) /\ Len(t) = N - 1
                                     /\ \A i \in 1..(N - 1) : t[i] = q[i + 1]
<2>1. q \in Seq(ChunkRecords)
  BY <1>1
<2>2. N = Len(q) /\ N >= 1
  BY <1>2
<2>3. /\ Tail(q) \in Seq(ChunkRecords) /\ Len(Tail(q)) = N - 1
      /\ \A i \in 1..(N - 1) : Tail(q)[i] = q[i + 1]
  BY ONLY <2>1, <2>2, TailFacts
<2>4. QED BY <2>3
<1>4. PICK A \in Nat, B \in Nat, y \in Nat :
         A = q[1].address /\ B = q[1].base /\ y = q[1].length /\ x <= y /\ x >= 1 /\ x \in Nat
<2>1. q[1].address \in Nat /\ q[1].base \in Nat /\ q[1].length \in Nat
  BY <1>1 DEF ChunkRecords
<2>2. QED BY <2>1, SMTT(30)
<1>5. q # <<NullChunk>>
<2>1. ASSUME q = <<NullChunk>> PROVE q[1].length = 0
  BY <2>1, NullChunkIs DEF NullChunkFacts
<2>2. QED BY <2>1, <1>4
<1>6. PICK f \in ChunkRecords :
         /\ f = [q[1] EXCEPT !.address = A + x, !.length = y - x]
         /\ f.address = A + x /\ f.length = y - x
         /\ f.mem = q[1].mem /\ f.slab = q[1].slab /\ f.base = q[1].base /\ f.size = q[1].size
<2>1. PICK c \in ChunkRecords, s \in Nat, v \in Nat : c = q[1] /\ s = A + x /\ v = y - x
<3>1. x <= y /\ x \in Nat
  BY <1>4
<3>2. A + x \in Nat /\ y - x \in Nat
  BY ONLY <3>1
<3>3. QED BY <3>2, <1>1
<2>2. \E d \in ChunkRecords :
         /\ d = [c EXCEPT !.address = s, !.length = v]
         /\ d.address = s /\ d.length = v
         /\ d.mem = c.mem /\ d.slab = c.slab /\ d.base = c.base /\ d.size = c.size
  BY Rewindowed, SMTT(30)
<2>3. QED BY <2>1, <2>2
<1>7. /\ Popped(f, t, Pop(a, x).queue) /\ Pop(a, x).inPoolBuffer \in BOOLEAN
<2>1. Tail(a.queue) \in Seq(ChunkRecords)
  BY <1>3
<2>2. /\ Popped([Head(a.queue) EXCEPT !.address = @ + x, !.length = @ - x], Tail(a.queue),
                Pop(a, x).queue)
      /\ Pop(a, x).inPoolBuffer \in BOOLEAN
  BY <2>1, PopIs
<2>3. [Head(a.queue) EXCEPT !.address = @ + x, !.length = @ - x] = f
<3>1. Head(a.queue) = q[1]
  BY <1>1
<3>2. q[1].address = A /\ q[1].length = y
  BY <1>4
<3>3. q[1].address + x = A + x /\ q[1].length - x = y - x
  BY <3>2, Zenon
<3>4. [q[1] EXCEPT !.address = @ + x, !.length = @ - x] = [q[1] EXCEPT !.address = A + x, !.length = y - x]
  BY <3>3, Zenon
<3>5. QED BY <3>1, <3>4, <1>6, Zenon
<2>4. QED BY <2>2, <2>3, <1>3
<1>8. PICK z : z = Pop(a, x).queue
  OBVIOUS
<1>9. PICK w \in Nat : w = y - x
  BY <1>4
<1>10. PICK l \in Nat : l = k + x /\ l <= n /\ l + w = pos[2]
<2>1. k + y = pos[2] /\ pos[2] \in 0..n
  BY <1>1, <1>4
<2>2. PICK e \in Nat : e = pos[2] /\ e <= n /\ k + y = e
  BY <2>1
<2>3. k + x \in Nat /\ k + x <= n /\ (k + x) + (y - x) = e
<3>1. e <= n /\ k + y = e /\ x <= y /\ x \in Nat
  BY <2>2, <1>4
<3>2. QED BY ONLY <3>1
<2>4. QED BY <2>2, <2>3, <1>9
<1>11. f.length = w /\ l \in 0..n
  BY <1>6, <1>9, <1>10
<1>12. t # <<>> => N >= 2 /\ Head(t) = q[2]
<2>1. ASSUME t # <<>> PROVE N >= 2 /\ Head(t) = q[2]
<3>1. N - 1 # 0
  BY <2>1, <1>3, EmptySeq
<3>2. N >= 2 /\ 1 \in 1..(N - 1) /\ 1 + 1 = 2
<4>1. N >= 1
  BY <1>2
<4>2. QED BY ONLY <3>1, <4>1
<3>3. Head(t) = t[1]
  BY <2>1
<3>4. QED BY <3>2, <3>3, <1>3
<2>2. QED BY <2>1
<1>13. t = <<>> => N = 1
<2>1. t = <<>> => Len(t) = 0
  OBVIOUS
<2>2. N - 1 = 0 => N = 1
  BY <1>2
<2>3. QED BY <2>1, <2>2, <1>3
<1>14. ASSUME t # <<>>
       PROVE  \E p \in Nat, c \in Nat, b \in Nat, u \in Nat :
                 /\ p = pos[2] /\ c = q[2].address /\ b = q[2].base /\ u = q[2].length
                 /\ b <= c /\ pos[3] = p + u /\ l + w = p /\ p + u <= n
<2>1. q[2] \in ChunkRecords /\ InRing(cells, m, n, q[2], pos[2])
      /\ pos[3] = pos[2] + q[2].length /\ pos[3] \in 0..n
  BY <1>1, <1>2, <1>12, <1>14
<2>2. q[2].address \in Nat /\ q[2].base \in Nat /\ q[2].length \in Nat
  BY <2>1 DEF ChunkRecords
<2>3. q[2].base <= q[2].address
  BY <2>1 DEF InRing
<2>4. PICK p \in Nat : p = pos[2] /\ l + w = p
  BY <1>10
<2>5. PICK u \in Nat : u = q[2].length
  BY <2>2
<2>6. p + u <= n
  BY <2>1, <2>4, <2>5
<2>7. QED BY <2>1, <2>2, <2>3, <2>4, <2>5, <2>6
<1>15. CASE t # <<>> /\ f.length <= Head(t).address - Head(t).base
            /\ z = <<[Head(t) EXCEPT !.address = @ - f.length, !.length = Head(t).length + f.length]>>
                   \o Tail(t)
<2>1. PICK p \in Nat, c \in Nat, b \in Nat, u \in Nat :
         /\ p = pos[2] /\ c = q[2].address /\ b = q[2].base /\ u = q[2].length
         /\ b <= c /\ pos[3] = p + u /\ l + w = p /\ p + u <= n
  BY <1>14, <1>15
<2>2. w <= c - b
  BY <2>1, <1>11, <1>12, <1>15
<2>3. c - w \in Nat /\ u + w \in Nat /\ b <= c - w /\ (c - w) + (u + w) = c + u
<3>1. b <= c
  BY <2>1
<3>2. QED BY ONLY <2>2, <3>1
<2>4. q[2] \in ChunkRecords
  BY <1>1, <1>2, <1>12, <1>15
<2>5. PICK g \in ChunkRecords :
         /\ g = [q[2] EXCEPT !.address = c - w, !.length = u + w]
         /\ g.address = c - w /\ g.length = u + w
         /\ g.mem = q[2].mem /\ g.slab = q[2].slab /\ g.base = q[2].base /\ g.size = q[2].size
<3>1. PICK h \in ChunkRecords, s \in Nat, v \in Nat : h = q[2] /\ s = c - w /\ v = u + w
  BY <2>3, <2>4
<3>2. \E d \in ChunkRecords :
         /\ d = [h EXCEPT !.address = s, !.length = v]
         /\ d.address = s /\ d.length = v
         /\ d.mem = h.mem /\ d.slab = h.slab /\ d.base = h.base /\ d.size = h.size
  BY Rewindowed, SMTT(30)
<3>3. QED BY <3>1, <3>2
<2>6. z = <<g>> \o Tail(Tail(q))
<3>1. [q[2] EXCEPT !.address = @ - w, !.length = q[2].length + w] = g
  BY <2>1, <2>5
<3>2. QED BY <3>1, <1>3, <1>11, <1>12, <1>15
<2>7. HeadWindow(q, pos, n, 2, <<g>> \o Tail(Tail(q)), l)
<3>1. GetEnd(g) = GetEnd(q[2])
  BY <2>1, <2>3, <2>5 DEF GetEnd
<3>2. g.base <= g.address
  BY <2>1, <2>3, <2>5
<3>3. l + g.length = pos[3]
<4>1. l + (u + w) = p + u
  BY <2>1
<4>2. QED BY <4>1, <2>1, <2>5
<3>4. g.length = 0 => q[2].length = 0
<4>1. u + w = 0 => u = 0
  OBVIOUS
<4>2. QED BY <4>1, <2>1, <2>5
<3>5. Len(q) >= 2
  BY <1>2, <1>12, <1>15
<3>6. QED BY <3>1, <3>2, <3>3, <3>4, <3>5, <2>5, <1>11, SecondWindow
<2>8. StillFits(cells, m, n, l, q, z)
  BY <2>6, <2>7, <1>5, WindowFits
<2>9. QED BY <2>8, <1>7, <1>10, <1>8
<1>16. CASE /\ t # <<>> /\ f.length > 0 /\ f.address >= f.base + f.size
            /\ GetEnd(f) = Head(t).address
            /\ z = <<[Head(t) EXCEPT !.address = @ - f.length, !.length = f.length]>> \o Tail(t)
<2>1. PICK p \in Nat, c \in Nat, b \in Nat, u \in Nat :
         /\ p = pos[2] /\ c = q[2].address /\ b = q[2].base /\ u = q[2].length
         /\ b <= c /\ pos[3] = p + u /\ l + w = p /\ p + u <= n
  BY <1>14, <1>16
<2>2. w > 0 /\ (A + x) + w = c /\ (A + x) >= B + q[1].size
  BY <2>1, <1>4, <1>6, <1>11, <1>12, <1>16 DEF GetEnd
<2>3. InRing(cells, m, n, q[1], k)
<3>1. Placed(cells, m, n, q[1], k)
  BY <1>1, <1>5 DEF QueueFits, QueuePlaced
<3>2. ASSUME InPool(cells, n, q[1], k) PROVE FALSE
<4>1. q[1].size = PoolSize /\ B = 0 /\ A + y <= PoolSize
  BY <3>2, <1>4 DEF InPool
<4>2. PICK S \in Nat : S = PoolSize
  BY Constants
<4>3. A + x >= 0 + S /\ A + y <= S /\ w > 0 /\ w = y - x
  BY <4>1, <4>2, <2>2, <1>9
<4>4. QED BY ONLY <4>3, <1>4
<3>3. QED BY <3>1, <3>2 DEF Placed
<2>4. PICK S \in Nat : S = SlabSize /\ q[1].size = S
  BY <2>3, Constants DEF InRing
<2>5. A + y = c
<3>1. x \in Nat
  BY <1>4
<3>2. (A + x) + (y - x) = A + y
  BY ONLY <3>1
<3>3. QED BY <3>2, <2>2, <1>9
<2>6. u = 0 /\ Start(q[2], pos[2]) <= Start(q[1], pos[1]) + SlabSize
<3>1. q[1].mem = Ring
  BY <2>3 DEF InRing
<3>2. 1 \in 1..(N - 1) /\ 1 + 1 = 2
  BY <1>2, <1>12, <1>16
<3>3. GetEnd(q[1]) = q[2].address
  BY <2>1, <2>5, <1>4 DEF GetEnd
<3>4. QED BY <3>1, <3>2, <3>3, <2>1, <1>2 DEF QueueFits, Chained
<2>7. p - (c - b) <= (k - (A - B)) + S
  BY <2>1, <2>4, <2>6, <1>1, <1>4 DEF Start
<2>8. p = k + y
  BY <2>1, <1>1, <1>4
<2>9. b <= c - w /\ c - w \in Nat /\ (c - w) + w = c
<3>1. c - w = A + x
  BY <2>2, <2>1, SMTT(30)
<3>2. b <= B + S
  BY <2>5, <2>7, <2>8, <2>1, SMTT(30)
<3>3. B + S <= A + x
  BY <2>2, <2>4
<3>4. x \in Nat
  BY <1>4
<3>5. QED BY ONLY <3>1, <3>2, <3>3, <3>4
<2>10. q[2] \in ChunkRecords
  BY <1>1, <1>2, <1>12, <1>16
<2>11. PICK g \in ChunkRecords :
         /\ g = [q[2] EXCEPT !.address = c - w, !.length = w]
         /\ g.address = c - w /\ g.length = w
         /\ g.mem = q[2].mem /\ g.slab = q[2].slab /\ g.base = q[2].base /\ g.size = q[2].size
<3>1. PICK h \in ChunkRecords, s \in Nat, v \in Nat : h = q[2] /\ s = c - w /\ v = w
  BY <2>9, <2>10
<3>2. \E d \in ChunkRecords :
         /\ d = [h EXCEPT !.address = s, !.length = v]
         /\ d.address = s /\ d.length = v
         /\ d.mem = h.mem /\ d.slab = h.slab /\ d.base = h.base /\ d.size = h.size
  BY Rewindowed, SMTT(30)
<3>3. QED BY <3>1, <3>2
<2>12. z = <<g>> \o Tail(Tail(q))
<3>1. [q[2] EXCEPT !.address = @ - w, !.length = w] = g
  BY <2>1, <2>11
<3>2. QED BY <3>1, <1>3, <1>11, <1>12, <1>16
<2>13. HeadWindow(q, pos, n, 2, <<g>> \o Tail(Tail(q)), l)
<3>1. GetEnd(g) = GetEnd(q[2])
<4>1. c + 0 = c
  BY <2>1
<4>2. QED BY <4>1, <2>1, <2>6, <2>9, <2>11 DEF GetEnd
<3>2. g.base <= g.address
  BY <2>1, <2>9, <2>11
<3>3. l + g.length = pos[3]
  BY <2>1, <2>6, <2>11
<3>4. g.length = 0 => q[2].length = 0
  BY <2>2, <2>11
<3>5. Len(q) >= 2
  BY <1>2, <1>12, <1>16
<3>6. QED BY <3>1, <3>2, <3>3, <3>4, <3>5, <2>11, <1>11, SecondWindow
<2>14. StillFits(cells, m, n, l, q, z)
  BY <2>12, <2>13, <1>5, WindowFits
<2>15. QED BY <2>14, <1>7, <1>10, <1>8
<1>17. CASE f.length # 0 /\ z = <<f>> \o t
<2>1. x < q[1].length
<3>1. w # 0 /\ w = y - x
  BY <1>9, <1>11, <1>17
<3>2. y = q[1].length /\ x <= y /\ x \in Nat /\ y \in Nat
  BY <1>4
<3>3. x < y
  BY ONLY <3>1, <3>2
<3>4. QED BY <3>2, <3>3
<2>2. f.address = q[1].address + x /\ f.length = q[1].length - x
  BY <1>4, <1>6
<2>3. HeadWindow(q, pos, n, 1, <<f>> \o Tail(q), k + x)
  BY <2>1, <2>2, <1>5, <1>6, TrimmedWindow
<2>4. StillFits(cells, m, n, l, q, z)
  BY <2>3, <1>3, <1>5, <1>10, <1>17, WindowFits
<2>5. QED BY <2>4, <1>7, <1>10, <1>8
<1>18. CASE f.length = 0 /\ t # <<>> /\ z = t
<2>1. l = pos[2]
  BY <1>10, <1>11, <1>18, <1>1
<2>2. Len(q) >= 2
  BY <1>2, <1>12, <1>18
<2>3. HeadWindow(q, pos, n, 2, Tail(q), pos[2])
  BY <2>2, GoneWindow
<2>4. StillFits(cells, m, n, l, q, z)
  BY <2>1, <2>3, <1>3, <1>5, <1>18, WindowFits
<2>5. QED BY <2>4, <1>7, <1>10, <1>8
<1>19. CASE f.length = 0 /\ t = <<>> /\ z = <<NullChunk>>
<2>1. l = n
  BY <1>1, <1>2, <1>10, <1>11, <1>13, <1>19
<2>2. StillFits(cells, m, n, l, q, z)
  BY <2>1, <1>19, NothingFits
<2>3. QED BY <2>2, <1>7, <1>10, <1>8
<1>20. QED BY <1>7, <1>8, <1>15, <1>16, <1>17, <1>18, <1>19 DEF Popped

(***************************************************************************)
(* The bytes of a queue                                                    *)
(***************************************************************************)

\* Chunks that follow each other begin further and further on.
LEMMA PositionsRise ==
    ASSUME NEW q \in Seq(ChunkRecords), NEW n \in Nat, NEW k \in Nat, NEW pos,
           Positions(q, pos, k, n)
    PROVE  \A i \in 1..(Len(q) + 1) : pos[i] \in k..n
<1>1. PICK N \in Nat : N = Len(q)
  BY ChunkFacts
<1>2. /\ \A i \in 1..(N + 1) : pos[i] \in 0..n
      /\ \A i \in 1..N : pos[i + 1] = pos[i] + q[i].length
      /\ pos[1] = k
  BY <1>1 DEF Positions
<1>3. \A i \in 1..N : q[i].length \in Nat
  BY <1>1, ChunkFacts
<1> DEFINE Below == {i \in 1..(N + 1) : pos[i] < k}
<1>4. ASSUME Below # {} PROVE FALSE
<2>1. Below \in SUBSET Nat
  OBVIOUS
<2> HIDE DEF Below
<2>2. PICK i \in Below : \A j \in Below : i <= j
  BY <1>4, <2>1, LeastElement
<2> USE DEF Below
<2>3. i \in 1..(N + 1) /\ pos[i] < k
  OBVIOUS
<2>4. i # 1
  BY <2>3, <1>2
<2>5. i - 1 \in 1..N /\ i - 1 \in 1..(N + 1) /\ (i - 1) + 1 = i /\ ~(i <= i - 1)
  BY <2>3, <2>4
<2>6. i - 1 \notin Below
<3> HIDE DEF Below
<3>1. QED BY <2>2, <2>5
<2>7. PICK y \in Nat, p \in Nat : y = q[i - 1].length /\ p = pos[i - 1]
  BY <2>5, <1>2, <1>3
<2>8. pos[i] = p + y
  BY <2>5, <2>7, <1>2
<2>9. ~(p < k)
  BY <2>5, <2>6, <2>7
<2>10. QED BY <2>3, <2>8, <2>9
<1>5. ASSUME NEW i \in 1..(N + 1) PROVE pos[i] \in k..n
<2>1. i \notin Below
<3> HIDE DEF Below
<3>1. QED BY <1>4
<2>2. ~(pos[i] < k) /\ pos[i] \in 0..n
  BY <2>1, <1>2
<2>3. QED BY <2>2
<1>6. QED BY <1>1, <1>5

LEMMA StreamConcat ==
    ASSUME NEW a \in Nat, NEW x \in Nat, NEW y \in Nat
    PROVE  /\ Stream(a, x) \o Stream(a + x, y) = Stream(a, x + y)
           /\ Stream(a, x) \in Seq(Nat) /\ Len(Stream(a, x)) = x
           /\ Stream(a, 0) = <<>>
<1>1. ASSUME NEW f \in Nat, NEW l \in Nat
      PROVE  /\ Stream(f, l) \in Seq(Nat) /\ Len(Stream(f, l)) = l
             /\ \A i \in 1..l : Stream(f, l)[i] = f + i - 1
<2>1. \A i \in 1..l : f + i - 1 \in Nat
  OBVIOUS
<2>2. Stream(f, l) = [i \in 1..l |-> f + i - 1]
  BY DEF Stream
<2>3. Stream(f, l) \in Seq(Nat)
  BY <2>1, <2>2
<2>4. DOMAIN Stream(f, l) = 1..l
  BY <2>2
<2>5. Len(Stream(f, l)) = l
  BY <2>3, <2>4, LenProperties
<2>6. QED BY <2>2, <2>3, <2>5
<1>2. PICK s \in Seq(Nat) : /\ s = Stream(a, x) /\ Len(s) = x
                            /\ \A i \in 1..x : s[i] = a + i - 1
  BY <1>1
<1>3. PICK b \in Nat, z \in Nat : b = a + x /\ z = x + y
  OBVIOUS
<1>4. PICK t \in Seq(Nat) : /\ t = Stream(b, y) /\ Len(t) = y
                            /\ \A i \in 1..y : t[i] = b + i - 1
  BY <1>1
<1>5. PICK u \in Seq(Nat) : /\ u = Stream(a, z) /\ Len(u) = z
                            /\ \A i \in 1..z : u[i] = a + i - 1
  BY <1>1
<1>6. /\ s \o t \in Seq(Nat) /\ Len(s \o t) = Len(s) + Len(t)
      /\ \A i \in 1..(Len(s) + Len(t)) : (s \o t)[i] = IF i <= Len(s) THEN s[i] ELSE t[i - Len(s)]
  BY ConcatProperties
<1>7. PICK v \in Seq(Nat) : /\ v = s \o t /\ Len(v) = z
                            /\ \A i \in 1..z : v[i] = IF i <= x THEN s[i] ELSE t[i - x]
<2>1. Len(s) = x /\ Len(t) = y /\ x + y = z
  BY <1>2, <1>3, <1>4
<2>2. PICK w : w = s \o t
  OBVIOUS
<2>3. /\ w \in Seq(Nat) /\ Len(w) = x + y
      /\ \A i \in 1..(x + y) : w[i] = IF i <= x THEN s[i] ELSE t[i - x]
  BY <1>6, <2>1, <2>2
<2>4. QED BY <2>1, <2>2, <2>3
<1>8. ASSUME NEW i \in 1..z PROVE v[i] = u[i]
<2>1. CASE i <= x
<3>1. i \in 1..x
  BY <2>1
<3>2. QED BY <3>1, <2>1, <1>2, <1>5, <1>7
<2>2. CASE ~(i <= x)
<3>1. i - x \in 1..y /\ b + (i - x) - 1 = a + i - 1
  BY <2>2, <1>3
<3>2. v[i] = t[i - x] /\ t[i - x] = b + (i - x) - 1 /\ u[i] = a + i - 1
  BY <3>1, <2>2, <1>4, <1>5, <1>7
<3>3. QED BY <3>1, <3>2
<2>3. QED BY <2>1, <2>2
<1>9. v = u
<2>1. DOMAIN v = 1..z /\ DOMAIN u = 1..z
  BY <1>5, <1>7
<2>2. v = [i \in 1..z |-> v[i]] /\ u = [i \in 1..z |-> u[i]]
  BY <2>1
<2>3. QED BY <2>2, <1>8
<1>10. Stream(a, 0) = <<>>
<2>1. Stream(a, 0) \in Seq(Nat) /\ Len(Stream(a, 0)) = 0
  BY <1>1
<2>2. QED BY <2>1, EmptySeq
<1>11. QED BY <1>2, <1>3, <1>4, <1>5, <1>7, <1>9, <1>10

\* A queue has the bytes of the stream behind those consumed.
LEMMA ContentIs ==
    ASSUME NEW m, NEW n \in Nat, NEW k \in Nat, NEW q, NEW pos,
           QueueFits(memory, m, n, k, q, pos)
    PROVE  Content(q) = Stream(k + 1, n - k) /\ n - k \in Nat
<1> DEFINE L == Len(q)
           Rec(g) == [i \in 0..L |-> IF i = 0 THEN <<>> ELSE g[i - 1] \o Bytes(q[i])]
           f == [i \in 0..L |-> Stream(k + 1, pos[i + 1] - k)]
           upto == CHOOSE g : g = Rec(g)
<1>1. L \in Nat /\ q \in Seq(ChunkRecords)
  BY ChunkFacts DEF QueueFits
<1>2. /\ \A i \in 1..(L + 1) : pos[i] \in k..n
      /\ \A i \in 1..L : pos[i + 1] = pos[i] + q[i].length
      /\ pos[1] = k /\ pos[L + 1] = n
  BY <1>1, PositionsRise DEF QueueFits, Positions
<1>3. ASSUME NEW i \in 1..L PROVE Bytes(q[i]) = Stream(pos[i] + 1, q[i].length) /\ q[i].length \in Nat
<2>1. i \in 1..(L + 1)
  BY <1>1
<2>2. PICK p \in Nat : p = pos[i]
  BY <2>1, <1>2
<2>3. CASE q = <<NullChunk>>
<3>1. i = 1 /\ q[1] = NullChunk
<4>1. Len(q) = 1 /\ q[1] = NullChunk
  BY <2>3
<4>2. QED BY <4>1
<3>2. q[i].length = 0
  BY <3>1, NullChunkIs DEF NullChunkFacts
<3>3. 1..0 = {}
  OBVIOUS
<3>4. Bytes(q[i]) = Stream(pos[i] + 1, q[i].length)
  BY <3>2, <3>3 DEF Bytes, Stream
<3>5. QED BY <3>2, <3>4
<2>4. CASE q # <<NullChunk>>
<3>1. Placed(memory, m, n, q[i], p)
<4>1. i = 1 \/ i \in 2..L
  BY <1>1
<4>2. QED BY <4>1, <2>2, <2>4 DEF QueueFits, QueuePlaced, Placed
<3>2. Bytes(q[i]) = Stream(p + 1, q[i].length) /\ q[i].length \in Nat
  BY <3>1, PlacedBytes
<3>3. QED BY <3>2, <2>2
<2>5. QED BY <2>3, <2>4
<1>4. f = Rec(f)
<2>1. ASSUME NEW i \in 0..L
      PROVE  f[i] = IF i = 0 THEN <<>> ELSE f[i - 1] \o Bytes(q[i])
<3>1. CASE i = 0
<4>1. 0 \in 0..L /\ 0 + 1 = 1 /\ pos[0 + 1] - k = 0
  BY <1>1, <1>2
<4>2. f[0] = Stream(k + 1, 0)
  BY <4>1
<4>3. k + 1 \in Nat /\ 0 \in Nat
  OBVIOUS
<4>4. Stream(k + 1, 0) = <<>>
  BY <4>3, StreamConcat
<4>5. QED BY <3>1, <4>2, <4>4
<3>2. CASE i # 0
<4>1. i \in 1..L /\ i - 1 \in 0..L /\ (i - 1) + 1 = i /\ i \in 1..(L + 1) /\ i + 1 \in 1..(L + 1)
  BY <1>1, <3>2
<4>2. PICK p \in Nat, y \in Nat, e \in Nat : p = pos[i] /\ y = q[i].length /\ e = pos[i + 1] /\ k <= p
<5>1. pos[i] \in k..n /\ pos[i + 1] \in k..n /\ q[i].length \in Nat
  BY <4>1, <1>2, <1>3
<5>2. QED BY <5>1
<4>3. e = p + y
  BY <4>1, <4>2, <1>2
<4>4. k <= p
  BY <4>2
<4>5. k + 1 \in Nat /\ p - k \in Nat
  BY ONLY <4>4
<4>6. PICK a \in Nat, x \in Nat : a = k + 1 /\ x = p - k
  BY <4>5
<4>7. a + x = p + 1 /\ x + y = e - k
  BY ONLY <4>4, <4>3, <4>6
<4>8. Stream(a, x) \o Stream(a + x, y) = Stream(a, x + y)
  BY StreamConcat
<4>9. Bytes(q[i]) = Stream(p + 1, y)
  BY <4>1, <4>2, <1>3
<4>10. f[i] = Stream(a, e - k)
  BY <4>2, <4>6
<4>11. f[i - 1] = Stream(a, x)
  BY <4>1, <4>2, <4>6
<4>12. f[i] = f[i - 1] \o Bytes(q[i])
<5> HIDE DEF f
<5>1. QED BY <4>7, <4>8, <4>9, <4>10, <4>11
<4>13. QED BY <3>2, <4>12
<3>3. QED BY <3>1, <3>2
<2>2. f = [i \in 0..L |-> f[i]]
  OBVIOUS
<2>3. Rec(f) = [i \in 0..L |-> IF i = 0 THEN <<>> ELSE f[i - 1] \o Bytes(q[i])]
  OBVIOUS
<2> HIDE DEF f, Rec
<2>4. QED BY <2>1, <2>2, <2>3
<1>5. upto = Rec(upto)
<2> HIDE DEF f
<2>1. QED BY <1>4
<1>6. /\ upto[0] = <<>>
      /\ \A i \in 1..L : upto[i] = upto[i - 1] \o Bytes(q[i])
      /\ f[0] = <<>>
      /\ \A i \in 1..L : f[i] = f[i - 1] \o Bytes(q[i])
<2> HIDE DEF f, upto
<2>1. 0 \in 0..L /\ \A i \in 1..L : i \in 0..L /\ i # 0
  BY <1>1
<2>2. QED BY <1>4, <1>5, <2>1
<1>7. upto[L] = f[L]
<2> HIDE DEF f, upto
<2> DEFINE Differ == {j \in 0..L : upto[j] # f[j]}
<2>1. ASSUME Differ # {} PROVE FALSE
<3>1. PICK i \in Differ : \A x \in Differ : i <= x
<4>1. Differ \in SUBSET Nat
  BY <1>1
<4> HIDE DEF Differ
<4>2. QED BY <4>1, <2>1, LeastElement
<3>2. i # 0
  BY <3>1, <1>6
<3>3. i \in 1..L /\ i - 1 \in 0..L /\ ~(i <= i - 1)
  BY <3>1, <3>2, <1>1
<3>4. i - 1 \notin Differ
<4> HIDE DEF Differ
<4>1. QED BY <3>1, <3>3
<3>5. upto[i - 1] = f[i - 1]
  BY <3>3, <3>4
<3>6. QED BY <3>1, <3>3, <3>5, <1>6
<2>2. L \in 0..L
  BY <1>1
<2>3. L \notin Differ
<3> HIDE DEF Differ
<3>1. QED BY <2>1
<2>4. QED BY <2>2, <2>3
<1>8. Content(q) = upto[L]
  BY DEF Content
<1>9. f[L] = Stream(k + 1, n - k)
<2>1. L \in 0..L
  BY <1>1
<2>2. QED BY <2>1, <1>2
<1>10. n - k \in Nat
<2>1. 1 \in 1..(L + 1)
  BY <1>1
<2>2. k \in k..n
  BY <2>1, <1>2
<2>3. QED BY <2>2
<1>11. QED BY <1>7, <1>8, <1>9, <1>10

(***************************************************************************)
(* Require                                                                 *)
(***************************************************************************)

\* r is queue q from chunk `first` on, without the first y bytes of this chunk.
Cut(q, first, y, r) ==
    /\ r \in Seq(ChunkRecords) /\ Len(r) = Len(q) - first + 1
    /\ \A i \in 2..Len(r) : r[i] = q[i + first - 1]
    /\ r[1].mem = q[first].mem /\ r[1].slab = q[first].slab
    /\ r[1].base = q[first].base /\ r[1].size = q[first].size
    /\ r[1].address = q[first].address + y /\ r[1].length = q[first].length - y

LEMMA CutIs ==
    ASSUME NEW q \in Seq(ChunkRecords), NEW first \in 1..Len(q),
           NEW y \in Nat, y <= q[first].length
    PROVE  /\ SubSeq(q, first, Len(q)) # <<>>
           /\ Cut(q, first, y, [SubSeq(q, first, Len(q)) EXCEPT ![1].address = @ + y,
                                                             ![1].length = @ - y])
<1>1. PICK left, r : /\ left = SubSeq(q, first, Len(q))
                    /\ r = [left EXCEPT ![1].address = @ + y, ![1].length = @ - y]
  OBVIOUS
<1>2. PICK N \in Nat : N = Len(q) /\ first \in 1..N
  BY ChunkFacts
<1>3. PICK R \in Nat : R = N - first + 1 /\ R >= 1
  BY <1>2
<1>4. \A i \in first..N : q[i] \in ChunkRecords
<2>1. \A i \in first..N : i \in 1..N
  BY <1>2
<2>2. QED BY <2>1, <1>2, ChunkFacts
<1>5. /\ SubSeq(q, first, N) \in Seq(ChunkRecords)
      /\ Len(SubSeq(q, first, N)) = IF first <= N THEN N - first + 1 ELSE 0
      /\ \A i \in 1..(N - first + 1) : SubSeq(q, first, N)[i] = q[first + i - 1]
<2>1. first \in Int /\ N \in Int
  BY <1>2
<2>2. PICK S : S = ChunkRecords
  OBVIOUS
<2>3. \A i \in first..N : q[i] \in S
  BY <1>4, <2>2
<2>4. /\ SubSeq(q, first, N) \in Seq(S)
      /\ Len(SubSeq(q, first, N)) = IF first <= N THEN N - first + 1 ELSE 0
      /\ \A i \in 1..(N - first + 1) : SubSeq(q, first, N)[i] = q[first + i - 1]
  BY ONLY <2>1, <2>3, SubSeqProperties
<2>5. QED BY <2>2, <2>4
<1>6. PICK s \in Seq(ChunkRecords) : /\ s = left /\ Len(s) = R
                                     /\ \A i \in 1..R : s[i] = q[first + i - 1]
<2>1. first <= N
  BY <1>2
<2>2. QED BY <2>1, <1>2, <1>3, <1>5, <1>1
<1>7. 1 \in 1..R /\ first + 1 - 1 = first
  BY <1>3, <1>2
<1>8. PICK c \in ChunkRecords : c = q[first] /\ s[1] = c
  BY <1>2, <1>6, <1>7, ChunkFacts
<1>9. PICK a \in Nat, l \in Nat : a = c.address + y /\ l = c.length - y
<2>1. c.address \in Nat /\ c.length \in Nat /\ y <= c.length
  BY <1>8 DEF ChunkRecords
<2>2. PICK u \in Nat, v \in Nat : u = c.address /\ v = c.length /\ y <= v
  BY <2>1
<2>3. y <= v
  BY <2>2
<2>4. u + y \in Nat /\ v - y \in Nat
  BY ONLY <2>3
<2>5. QED BY <2>2, <2>4
<1>10. PICK d \in ChunkRecords :
          /\ d = [c EXCEPT !.address = a, !.length = l]
          /\ d.address = a /\ d.length = l
          /\ d.mem = c.mem /\ d.slab = c.slab /\ d.base = c.base /\ d.size = c.size
<2>1. PICK h \in ChunkRecords, x \in Nat, v \in Nat : h = c /\ x = a /\ v = l
  OBVIOUS
<2>2. \E d \in ChunkRecords :
         /\ d = [h EXCEPT !.address = x, !.length = v]
         /\ d.address = x /\ d.length = v
         /\ d.mem = h.mem /\ d.slab = h.slab /\ d.base = h.base /\ d.size = h.size
  BY Rewindowed, SMTT(30)
<2>3. QED BY <2>1, <2>2
<1>11. r = [s EXCEPT ![1].address = a, ![1].length = l]
<2>1. s[1].address + y = a /\ s[1].length - y = l
  BY <1>8, <1>9
<2>2. r = [s EXCEPT ![1].address = @ + y, ![1].length = @ - y]
  BY <1>6, <1>1
<2>3. [s EXCEPT ![1].address = @ + y, ![1].length = @ - y] = [s EXCEPT ![1].address = a, ![1].length = l]
  BY <2>1
<2>4. QED BY <2>2, <2>3
<1>12. r = [s EXCEPT ![1] = d]
<2>1. DOMAIN s = 1..R
  BY <1>6
<2>2. [s EXCEPT ![1].address = a, ![1].length = l] = [s EXCEPT ![1] = [s[1] EXCEPT !.address = a, !.length = l]]
  BY <1>7, <2>1
<2>3. QED BY <2>2, <1>8, <1>10, <1>11
<1>13. /\ r \in Seq(ChunkRecords) /\ Len(r) = R
       /\ \A j \in 1..R : r[j] = IF j = 1 THEN d ELSE s[j]
<2>1. 1 \in 1..Len(s)
  BY <1>6, <1>7
<2>2. /\ [s EXCEPT ![1] = d] \in Seq(ChunkRecords)
      /\ Len([s EXCEPT ![1] = d]) = Len(s)
      /\ \A j \in 1..Len(s) : [s EXCEPT ![1] = d][j] = IF j = 1 THEN d ELSE s[j]
  BY <2>1, ExceptSeq
<2>3. QED BY <2>2, <1>6, <1>12
<1>14. r[1] = d
  BY <1>7, <1>13
<1>15. \A i \in 2..R : r[i] = q[i + first - 1]
<2>1. \A i \in 2..R : i \in 1..R /\ i # 1 /\ first + i - 1 = i + first - 1
  BY <1>2, <1>3
<2>2. QED BY <2>1, <1>6, <1>13
<1>16. left # <<>>
<2>1. Len(s) # 0
  BY <1>3, <1>6
<2>2. QED BY <2>1, <1>6
<1>17. Len(r) = Len(q) - first + 1
  BY <1>2, <1>3, <1>13
<1>18. \A i \in 2..Len(r) : r[i] = q[i + first - 1]
  BY <1>13, <1>15
<1>19. /\ r[1].mem = q[first].mem /\ r[1].slab = q[first].slab
       /\ r[1].base = q[first].base /\ r[1].size = q[first].size
       /\ r[1].address = q[first].address + y /\ r[1].length = q[first].length - y
  BY <1>8, <1>9, <1>10, <1>14
<1>20. QED BY <1>13, <1>16, <1>17, <1>18, <1>19, <1>1 DEF Cut

\* What is left behind a copy of x bytes that has all of the first chunk: nothing,
\* or the queue from a later chunk on, without the bytes of it that were copied.
LEMMA AfterCopyIs ==
    ASSUME NEW cells, NEW m, NEW n \in Nat, NEW k \in Nat, NEW q, NEW pos,
           QueueFits(cells, m, n, k, q, pos),
           NEW x \in Nat, q[1].length <= x, k + x <= n
    PROVE  \/ k + x = n /\ AfterCopy(q, x) = <<>>
           \/ \E j \in 2..Len(q) : \E r : /\ r = AfterCopy(q, x) /\ r[1].length > 0
                                          /\ HeadWindow(q, pos, n, j, r, k + x)
<1> DEFINE gone == {i \in DOMAIN q : (BytesFrom(q, 1) - BytesFrom(q, i)) + q[i].length <= x}
           first == IF gone = DOMAIN q THEN Len(q) + 1
                    ELSE CHOOSE i \in DOMAIN q \ gone : \A j \in DOMAIN q \ gone : i <= j
           left == SubSeq(q, first, Len(q))
           cut == x - (BytesFrom(q, 1) - BytesFrom(q, first))
<1>1. AfterCopy(q, x) = IF left = <<>> THEN <<>>
                        ELSE [left EXCEPT ![1].address = @ + cut, ![1].length = @ - cut]
  BY DEF AfterCopy
<1> HIDE DEF left, cut, first, gone
<1>2. /\ Len(q) \in Nat /\ Len(q) >= 1
      /\ \A i \in 1..Len(q) : /\ q[i] \in ChunkRecords
                              /\ q[i].mem = Ring => InRing(cells, m, n, q[i], pos[i])
                              /\ i >= 2 => q[i].mem = Ring
  BY RingChunk
<1>3. PICK N \in Nat : N = Len(q) /\ N >= 1
  BY <1>2
<1>4. q \in Seq(ChunkRecords) /\ Positions(q, pos, k, n)
  BY DEF QueueFits
<1>5. /\ \A i \in 1..(N + 1) : pos[i] \in k..n /\ BytesFrom(q, i) = n - pos[i]
      /\ \A i \in 1..N : pos[i + 1] = pos[i] + q[i].length
      /\ pos[1] = k /\ pos[N + 1] = n
<2>1. \A i \in 1..(N + 1) : pos[i] \in k..n
  BY <1>3, <1>4, PositionsRise
<2>2. \A i \in 1..(N + 1) : BytesFrom(q, i) = n - pos[i]
  BY <1>3, <1>4, PositionsBytes
<2>3. QED BY <2>1, <2>2, <1>3, <1>4 DEF Positions
<1>6. /\ \A i \in 1..N : i \in 1..(N + 1) /\ i + 1 \in 1..(N + 1)
      /\ 1 \in 1..N /\ N \in 1..N /\ 1 \in 1..(N + 1) /\ N + 1 \in 1..(N + 1) /\ 1 + 1 = 2
  BY <1>3
<1>7. DOMAIN q = 1..N
<2>1. DOMAIN q = 1..Len(q)
  BY <1>4
<2>2. QED BY <2>1, <1>3
<1>8. ASSUME NEW i \in 1..N PROVE i \in gone <=> pos[i + 1] <= k + x
<2>1. PICK p \in Int, y \in Int, e \in Int :
         p = pos[i] /\ y = q[i].length /\ e = pos[i + 1] /\ e = p + y
<3>1. pos[i] \in k..n /\ pos[i + 1] \in k..n
  BY <1>5, <1>6
<3>2. q[i].length \in Nat
  BY <1>2, <1>3 DEF ChunkRecords
<3>3. QED BY <3>1, <3>2, <1>5
<2>2. BytesFrom(q, 1) = n - k /\ BytesFrom(q, i) = n - p
  BY <2>1, <1>5, <1>6
<2>3. (n - k) - (n - p) + y <= x <=> e <= k + x
<3>1. e = p + y
  BY <2>1
<3>2. QED BY ONLY <3>1
<2>4. i \in gone <=> (BytesFrom(q, 1) - BytesFrom(q, i)) + q[i].length <= x
  BY <1>7 DEF gone
<2>5. QED BY <2>1, <2>2, <2>3, <2>4
<1>9. gone \subseteq 1..N
  BY <1>7 DEF gone
<1>10. CASE gone = DOMAIN q
<2>1. first = N + 1
  BY <1>3, <1>10 DEF first
<2>2. left = <<>>
<3>1. N + 1 \in Int /\ N \in Int /\ ~(N + 1 <= N)
  BY <1>3
<3>2. \A i \in (N + 1)..N : FALSE
  BY <1>3
<3>3. PICK o \in Int : o = N + 1
  BY <3>1
<3>4. PICK S : S = ChunkRecords
  OBVIOUS
<3>5. \A i \in o..N : q[i] \in S
  BY <3>2, <3>3
<3>6. /\ SubSeq(q, o, N) \in Seq(S)
      /\ Len(SubSeq(q, o, N)) = IF o <= N THEN N - o + 1 ELSE 0
      /\ \A i \in 1..(N - o + 1) : SubSeq(q, o, N)[i] = q[o + i - 1]
  BY ONLY <3>5, SubSeqProperties
<3>7. SubSeq(q, o, N) = <<>>
  BY <3>1, <3>3, <3>6, EmptySeq
<3>8. QED BY <3>3, <3>7, <2>1, <1>3 DEF left
<2>3. k + x = n
<3>1. N \in gone
  BY <1>6, <1>7, <1>10
<3>2. n <= k + x
  BY <3>1, <1>5, <1>6, <1>8
<3>3. QED BY <3>2
<2>4. QED BY <2>2, <2>3, <1>1
<1>11. CASE gone # DOMAIN q
<2> DEFINE D == (1..N) \ gone
<2>1. D # {} /\ D \in SUBSET Nat
<3>1. gone # 1..N
  BY <1>7, <1>11
<3>2. \E i \in 1..N : i \notin gone
  BY <3>1, <1>9
<3>3. QED BY <3>2
<2>2. first = CHOOSE i \in D : \A j \in D : i <= j
  BY <1>7, <1>11 DEF first
<2> HIDE DEF D
<2>3. first \in D /\ \A j \in D : first <= j
  BY <2>1, <2>2, LeastElement
<2>4. PICK f \in 1..N : f = first /\ f \notin gone
  BY <2>3 DEF D
<2>5. 1 \in gone
<3>1. pos[2] = k + q[1].length
  BY <1>5, <1>6
<3>2. PICK y \in Nat : y = q[1].length
  BY <1>2, <1>3, <1>6 DEF ChunkRecords
<3>3. k + y <= k + x
  BY <3>2
<3>4. QED BY <3>1, <3>2, <3>3, <1>6, <1>8
<2>6. f # 1 /\ f \in 2..N
<3>1. f # 1
  BY <2>4, <2>5
<3>2. QED BY <3>1, <1>3
<2>7. f - 1 \in 1..N /\ (f - 1) + 1 = f /\ ~(f <= f - 1)
  BY <2>6, <1>3
<2>8. f - 1 \in gone
  BY <2>3, <2>4, <2>7 DEF D
<2>9. PICK p \in Nat, w \in Nat, e \in Nat :
         p = pos[f] /\ w = q[f].length /\ e = pos[f + 1] /\ e = p + w /\ k <= p /\ e <= n
<3>1. pos[f] \in k..n /\ pos[f + 1] \in k..n
  BY <1>5, <1>6
<3>2. q[f].length \in Nat
  BY <1>2, <1>3 DEF ChunkRecords
<3>3. QED BY <3>1, <3>2, <1>5
<2>10. p <= k + x /\ ~(e <= k + x)
<3>1. p <= k + x
  BY <2>7, <2>8, <2>9, <1>8
<3>2. ~(e <= k + x)
  BY <2>4, <2>9, <1>8
<3>3. QED BY <3>1, <3>2
<2>11. PICK c \in Nat : c = cut /\ c = k + x - p
<3>1. BytesFrom(q, 1) = n - k /\ BytesFrom(q, f) = n - p
  BY <2>4, <2>9, <1>5, <1>6
<3>2. cut = x - ((n - k) - (n - p))
  BY <3>1, <2>4 DEF cut
<3>3. x - ((n - k) - (n - p)) = k + x - p /\ k + x - p \in Nat
  BY ONLY <2>10
<3>4. QED BY <3>2, <3>3
<2>12. c <= w /\ w - c > 0 /\ (k + x) + (w - c) = e
<3>1. e = p + w /\ c = k + x - p /\ ~(e <= k + x)
  BY <2>9, <2>10, <2>11
<3>2. QED BY ONLY <3>1
<2>13. PICK s, z : /\ s = SubSeq(q, f, Len(q)) /\ s = left
                   /\ z = [s EXCEPT ![1].address = @ + c, ![1].length = @ - c]
  BY <1>3, <2>4 DEF left
<2>14. s # <<>> /\ Cut(q, f, c, z)
<3>1. f \in 1..Len(q) /\ c <= q[f].length
  BY <1>3, <2>9, <2>12
<3>2. /\ SubSeq(q, f, Len(q)) # <<>>
      /\ Cut(q, f, c, [SubSeq(q, f, Len(q)) EXCEPT ![1].address = @ + c, ![1].length = @ - c])
  BY <3>1, <1>4, CutIs
<3>3. QED BY <3>2, <2>13
<2>15. z = AfterCopy(q, x)
  BY <1>1, <2>11, <2>13, <2>14
<2>16. PICK A \in Nat, B \in Nat : A = q[f].address /\ B = q[f].base /\ B <= A /\ q[f].mem = Ring
<3>1. f >= 2
  BY <2>6
<3>2. q[f].mem = Ring /\ InRing(cells, m, n, q[f], pos[f])
  BY <3>1, <1>2, <1>3
<3>3. q[f].base \in Nat /\ q[f].address \in Nat /\ q[f].base <= q[f].address
  BY <3>2 DEF InRing, ChunkRecords
<3>4. QED BY <3>2, <3>3
<2>17. GetEnd(z[1]) = GetEnd(q[f]) /\ z[1].base <= z[1].address
<3>1. (A + c) + (w - c) = A + w /\ B <= A + c
  BY <2>16
<3>2. QED BY <3>1, <2>9, <2>14, <2>16 DEF GetEnd, Cut
<2>18. z[1].length > 0 /\ z[1].length # 0 /\ (k + x) + z[1].length = pos[f + 1]
<3>1. z[1].length = w - c
  BY <2>9, <2>14 DEF Cut
<3>2. w - c # 0
  BY <2>12
<3>3. QED BY <3>1, <3>2, <2>9, <2>12
<2>19. k + x \in 0..n /\ z[1].mem = Ring
  BY <2>14, <2>16 DEF Cut
<2>20. HeadWindow(q, pos, n, f, z, k + x)
  BY <1>3, <2>14, <2>17, <2>18, <2>19 DEF HeadWindow, Cut
<2>21. QED BY <1>3, <2>6, <2>15, <2>18, <2>20
<1>12. QED BY <1>10, <1>11

\* How many bytes are copied: all of the first chunk, and no more than there are
LEMMA CopiedIs ==
    ASSUME NEW cells, NEW m, NEW n \in Nat, NEW k \in Nat, NEW a, NEW q, q = a.queue, NEW pos,
           QueueFits(cells, m, n, k, q, pos), NEW d \in 1..PoolSize, MustCopy(a, d)
    PROVE  /\ CopiedBytes(a, PoolSize) \in Nat /\ q[1].length <= CopiedBytes(a, PoolSize)
           /\ k + CopiedBytes(a, PoolSize) <= n /\ CopiedBytes(a, PoolSize) <= PoolSize
<1>1. /\ q \in Seq(ChunkRecords) /\ q # <<>> /\ Head(q) = q[1]
      /\ Len(q) \in Nat /\ Len(q) >= 1
      /\ q[1] \in ChunkRecords /\ pos[1] = k /\ k <= n
      /\ pos[2] = k + q[1].length /\ pos[2] \in 0..n
  BY FirstTwo
<1>2. Positions(q, pos, k, n)
  BY DEF QueueFits
<1>3. BytesFrom(q, 1) = n - k
<2>1. 1 \in 1..(Len(q) + 1)
  BY <1>1
<2>2. BytesFrom(q, 1) = n - pos[1]
  BY <2>1, <1>1, <1>2, PositionsBytes
<2>3. QED BY <2>2, <1>1
<1>4. PICK y \in Nat, e \in Nat : y = q[1].length /\ e = n - k /\ y <= e
<2>1. q[1].length \in Nat
  BY <1>1 DEF ChunkRecords
<2>2. PICK y \in Nat : y = q[1].length /\ k + y <= n
  BY <2>1, <1>1
<2>3. n - k \in Nat /\ y <= n - k
  BY <2>2
<2>4. QED BY <2>2, <2>3
<1>5. PICK S \in Nat : S = PoolSize
  BY Constants
<1>6. y < d /\ d <= S
<2>1. Head(a.queue).length < d
  BY DEF MustCopy
<2>2. QED BY <2>1, <1>1, <1>4, <1>5
<1>7. CopiedBytes(a, PoolSize) = IF e < S THEN e ELSE S
  BY <1>3, <1>4, <1>5 DEF CopiedBytes, Available
<1>8. PICK x \in Nat : x = CopiedBytes(a, PoolSize) /\ y <= x /\ x <= e /\ x <= S
  BY <1>4, <1>5, <1>6, <1>7
<1>9. k + x <= n
<2>1. x <= e /\ e = n - k
  BY <1>4, <1>8
<2>2. QED BY ONLY <2>1
<1>10. QED BY <1>4, <1>5, <1>8, <1>9

\* A copy in the pool takes the place of the chunks that were copied.
FrontKept(cells, after, q) ==
    /\ after[Ring] = cells[Ring]
    /\ q[1].mem \in PoolBuffers => after[q[1].mem] = cells[q[1].mem]

\* The pool buffer b has the x bytes of the stream behind k.
Filled(after, b, k, x) == \A i \in 0..(x - 1) : after[b][i] = k + i + 1

CopyLength(a, d, b) == Head(Require(a, d, b).queue).length = CopiedBytes(a, PoolSize)

LEMMA RequireFits ==
    ASSUME NEW cells, NEW after, NEW m, NEW n \in Nat, NEW alive, ManagerFits(m, n, alive),
           NEW k \in Nat, NEW a, NEW q, q = a.queue, NEW pos, QueueFits(cells, m, n, k, q, pos),
           NEW d \in 1..PoolSize, MustCopy(a, d), NEW buffer \in PoolBuffers,
           FrontKept(cells, after, q), Filled(after, buffer, k, CopiedBytes(a, PoolSize))
    PROVE  /\ StillFits(after, m, n, k, q, Require(a, d, buffer).queue)
           /\ CopyLength(a, d, buffer)
           /\ Require(a, d, buffer).inPoolBuffer \in BOOLEAN
<1> /\ after[Ring] = cells[Ring]
    /\ q[1].mem \in PoolBuffers => after[q[1].mem] = cells[q[1].mem]
    /\ \A i \in 0..(CopiedBytes(a, PoolSize) - 1) : after[buffer][i] = k + i + 1
  BY DEF FrontKept, Filled
<1>1. PICK x \in Nat : /\ x = CopiedBytes(a, PoolSize) /\ q[1].length <= x
                       /\ k + x <= n /\ x <= PoolSize
  BY CopiedIs
<1>2. PICK S \in Nat : S = PoolSize /\ d <= S
  BY Constants
<1>3. PICK c : c = [mem |-> buffer, address |-> 0, length |-> x, base |-> 0, size |-> PoolSize, slab |-> 0]
  OBVIOUS
<1>4. /\ c \in ChunkRecords /\ c.mem = buffer /\ c.address = 0 /\ c.length = x
      /\ c.base = 0 /\ c.size = PoolSize /\ c.slab = 0
  BY <1>2, <1>3 DEF ChunkRecords
<1>5. /\ Require(a, d, buffer).queue = <<c>> \o AfterCopy(q, x)
      /\ Require(a, d, buffer).inPoolBuffer = TRUE
<2>1. ~(d > PoolSize)
  BY <1>2
<2>2. QED BY <2>1, <1>1, <1>3 DEF Require
<1>6. InPool(after, n, c, k)
<2>1. \A i \in 0..(x - 1) : after[buffer][0 + i] = k + i + 1
<3>1. \A i \in 0..(x - 1) : 0 + i = i
  BY <1>1
<3>2. QED BY <3>1, <1>1
<2>2. 0 + x <= PoolSize
  BY <1>1
<2>3. QED BY <2>1, <2>2, <1>1, <1>4 DEF InPool
<1>7. QueueFits(after, m, n, k, q, pos)
  BY QueueKept
<1>8. q \in Seq(ChunkRecords) /\ q # <<>>
  BY DEF QueueFits
<1>9. CASE k + x = n /\ AfterCopy(q, x) = <<>>
<2>1. <<c>> \o <<>> = <<c>>
  BY <1>4
<2>2. k + c.length = n
  BY <1>4, <1>9
<2>3. \E new : QueueFits(after, m, n, k, <<c>>, new)
  BY <2>2, <1>4, <1>6, OneFits
<2>4. SlabsOf(<<c>>) \subseteq SlabsOf(q)
<3>1. Range(<<c>>) = {c}
  BY DEF Range
<3>2. QED BY <3>1, <1>4 DEF SlabsOf
<2>5. Require(a, d, buffer).queue = <<c>> /\ Head(<<c>>) = c
  BY <2>1, <1>5, <1>9
<2>6. QED BY <2>3, <2>4, <2>5, <1>1, <1>4, <1>5 DEF StillFits, CopyLength
<1>10. ASSUME NEW j \in 2..Len(q), NEW r, r = AfterCopy(q, x), r[1].length > 0,
              HeadWindow(q, pos, n, j, r, k + x)
       PROVE  /\ StillFits(after, m, n, k, q, <<c>> \o r)
              /\ Head(<<c>> \o r) = c
<2>1. PICK l \in Nat : l = k + x
  OBVIOUS
<2>2. ASSUME q = <<NullChunk>> PROVE FALSE
<3>1. Len(q) = 1
  BY <2>2
<3>2. j \in 2..1
  BY <3>1
<3>3. QED BY <3>2
<2>3. HeadWindow(q, pos, n, j, r, l)
  BY <1>10, <2>1
<2>4. StillFits(after, m, n, l, q, r)
  BY <2>2, <2>3, <1>7, WindowFits
<2>5. PICK new : QueueFits(after, m, n, l, r, new)
  BY <2>4 DEF StillFits
<2>6. r[1].mem = Ring /\ r \in Seq(ChunkRecords)
<3>1. r[1].mem = q[j].mem /\ j \in 1..Len(q) /\ j >= 2 /\ r \in Seq(ChunkRecords)
  BY <1>10 DEF HeadWindow
<3>2. q[j].mem = Ring
  BY <3>1, RingChunk
<3>3. QED BY <3>1, <3>2
<2>7. k + c.length = l
  BY <2>1, <1>4
<2>8. \E z : QueueFits(after, m, n, k, <<c>> \o r, z)
  BY <2>5, <2>6, <2>7, <1>4, <1>6, <1>10, CopyFirst
<2>9. /\ <<c>> \o r \in Seq(ChunkRecords) /\ Len(<<c>> \o r) = Len(r) + 1
      /\ (<<c>> \o r)[1] = c
      /\ \A i \in 2..(Len(r) + 1) : (<<c>> \o r)[i] = r[i - 1]
  BY <2>6, <1>4, ConsFacts
<2>10. PICK u \in Seq(ChunkRecords), R \in Nat :
          /\ u = <<c>> \o r /\ R = Len(r) /\ Len(u) = R + 1 /\ u[1] = c
          /\ \A i \in 2..(R + 1) : u[i] = r[i - 1]
<3>1. Len(r) \in Nat
  BY <2>6
<3>2. PICK R \in Nat : R = Len(r)
  BY <3>1
<3>3. PICK u : u = <<c>> \o r
  OBVIOUS
<3>4. /\ u \in Seq(ChunkRecords) /\ Len(u) = R + 1 /\ u[1] = c
      /\ \A i \in 2..(R + 1) : u[i] = r[i - 1]
  BY <2>9, <3>2, <3>3
<3>5. QED BY <3>2, <3>3, <3>4
<2>11. SlabsOf(u) \subseteq SlabsOf(q)
<3>1. \A i \in 1..(R + 1) : i = 1 \/ (i \in 2..(R + 1) /\ i - 1 \in 1..R)
  BY <2>10
<3>2. DOMAIN u = 1..(R + 1) /\ DOMAIN r = 1..R
  BY <2>6, <2>10
<3>3. \A i \in 1..(R + 1) : u[i] = c \/ \E o \in 1..R : u[i] = r[o]
  BY <3>1, <2>10
<3>4. \A y \in Range(u) : y = c \/ y \in Range(r)
  BY <3>2, <3>3 DEF Range
<3>5. SlabsOf(u) \subseteq SlabsOf(r)
  BY <3>4, <1>4 DEF SlabsOf
<3>6. QED BY <3>5, <2>4 DEF StillFits
<2>12. Head(u) = c
<3>1. u # <<>>
  BY <2>10, EmptySeq
<3>2. QED BY <3>1, <2>10
<2>13. QED BY <2>8, <2>10, <2>11, <2>12 DEF StillFits
<1>11. \/ k + x = n /\ AfterCopy(q, x) = <<>>
       \/ \E j \in 2..Len(q) : \E r : /\ r = AfterCopy(q, x) /\ r[1].length > 0
                                      /\ HeadWindow(q, pos, n, j, r, k + x)
  BY <1>1, AfterCopyIs
<1>12. CASE \E j \in 2..Len(q) : \E r : /\ r = AfterCopy(q, x) /\ r[1].length > 0
                                       /\ HeadWindow(q, pos, n, j, r, k + x)
<2>1. PICK j \in 2..Len(q) : \E r : /\ r = AfterCopy(q, x) /\ r[1].length > 0
                                   /\ HeadWindow(q, pos, n, j, r, k + x)
  BY <1>12
<2>2. PICK r : r = AfterCopy(q, x) /\ r[1].length > 0 /\ HeadWindow(q, pos, n, j, r, k + x)
  BY <2>1
<2>3. StillFits(after, m, n, k, q, <<c>> \o r) /\ Head(<<c>> \o r) = c
  BY <2>2, <1>10
<2>4. QED BY <2>2, <2>3, <1>1, <1>4, <1>5 DEF CopyLength
<1>13. QED BY <1>9, <1>11, <1>12

(***************************************************************************)
(* The inductive invariant                                                 *)
(***************************************************************************)

Alive == KeptAlive(acc.queue, window, held)

Accumulators == [queue : Seq(ChunkRecords), inPoolBuffer : BOOLEAN]

Keepers == [chunk : ChunkRecords, first : 1..MaxBytes]

\* Every byte in memory is a number of the stream, or has never been written.
MemoryTyped(cells) ==
    /\ DOMAIN cells = {Ring} \cup PoolBuffers
    /\ cells[Ring] \in [0..(RingLength - 1) -> 0..MaxBytes]
    /\ \A b \in PoolBuffers : cells[b] \in [0..(PoolSize - 1) -> 0..MaxBytes]

\* The chunk that the downstream block works on is in its place, and the queue has
\* not lost any of it.
ReaderFits(cells, m, n, k, q, w) ==
    /\ w \in ChunkRecords
    /\ w = NullChunk \/ Placed(cells, m, n, w, k)
    /\ w.length <= Head(q).length

\* So are the chunks that others keep.
HeldFits(cells, m, n, others) ==
    /\ IsFiniteSet(others) /\ Cardinality(others) <= MaxHeld
    /\ others \subseteq Keepers
    /\ \A h \in others : Placed(cells, m, n, h.chunk, h.first - 1)

IInv ==
    /\ acc \in Accumulators
    /\ produced \in 0..MaxBytes /\ consumed \in 0..produced
    /\ MemoryTyped(memory)
    /\ ManagerFits(mgr, produced, Alive)
    /\ FrontWritten(memory, mgr, produced)
    /\ \E pos : QueueFits(memory, mgr, produced, consumed, acc.queue, pos)
    /\ ReaderFits(memory, mgr, produced, consumed, acc.queue, window)
    /\ HeldFits(memory, mgr, produced, held)

\* The slabs that a queue, a window and others keep alive
LEMMA KeptAliveIs ==
    ASSUME NEW q, NEW w, NEW others
    PROVE  /\ SlabsOf(q) \subseteq KeptAlive(q, w, others)
           /\ w.slab \in KeptAlive(q, w, others) \cup {0}
           /\ \A h \in others : h.chunk.slab \in KeptAlive(q, w, others) \cup {0}
           /\ \A s \in KeptAlive(q, w, others) :
                 \/ s \in SlabsOf(q) \/ s = w.slab
                 \/ \E h \in others : s = h.chunk.slab
           /\ 0 \notin KeptAlive(q, w, others)
<1>1. SlabsOf(q) = {c.slab : c \in Range(q)} \ {0}
  BY DEF SlabsOf
<1>2. KeptAlive(q, w, others) = {c.slab : c \in Range(q) \cup {w} \cup {h.chunk : h \in others}} \ {0}
  BY DEF KeptAlive
<1>3. SlabsOf(q) \subseteq KeptAlive(q, w, others)
  BY <1>1, <1>2
<1>4. w.slab \in KeptAlive(q, w, others) \cup {0}
  BY <1>2
<1>5. \A h \in others : h.chunk.slab \in KeptAlive(q, w, others) \cup {0}
  BY <1>2
<1>6. ASSUME NEW s \in KeptAlive(q, w, others)
      PROVE  s \in SlabsOf(q) \/ s = w.slab \/ \E h \in others : s = h.chunk.slab
  BY <1>1, <1>2
<1>7. QED BY <1>2, <1>3, <1>4, <1>5, <1>6

\* Nothing else keeps slabs alive when the queue keeps fewer and the others too.
LEMMA FewerAlive ==
    ASSUME NEW q, NEW w, NEW others, NEW q2, NEW w2, NEW others2,
           SlabsOf(q2) \subseteq SlabsOf(q),
           w2.slab \in SlabsOf(q) \cup {0, w.slab},
           \A h \in others2 : h \in others \/ h.chunk.slab = w.slab
    PROVE  KeptAlive(q2, w2, others2) \subseteq KeptAlive(q, w, others)
<1>1. ASSUME NEW s \in KeptAlive(q2, w2, others2) PROVE s \in KeptAlive(q, w, others)
<2>1. s # 0 /\ (s \in SlabsOf(q2) \/ s = w2.slab \/ \E h \in others2 : s = h.chunk.slab)
  BY KeptAliveIs
<2>2. /\ SlabsOf(q) \subseteq KeptAlive(q, w, others)
      /\ w.slab \in KeptAlive(q, w, others) \cup {0}
      /\ \A h \in others : h.chunk.slab \in KeptAlive(q, w, others) \cup {0}
  BY KeptAliveIs
<2>3. QED BY <2>1, <2>2
<1>2. QED BY <1>1

\* A chunk stays in its place when its memory and the age of its slab stay.
LEMMA PlacedKept ==
    ASSUME NEW cells, NEW m, NEW n, NEW c, NEW p, Placed(cells, m, n, c, p),
           NEW after, after[c.mem] = cells[c.mem],
           NEW next, next.bytesToPop = m.bytesToPop,
           c.slab # 0 => Age(next, c.slab) = Age(m, c.slab)
    PROVE  Placed(after, next, n, c, p)
<1>1. CASE InRing(cells, m, n, c, p)
<2>1. c.mem = Ring /\ c.slab \in Slabs
  BY <1>1 DEF InRing
<2>2. c.slab # 0
  BY <2>1, Constants
<2>3. Age(next, c.slab) = Age(m, c.slab) /\ after[Ring] = cells[Ring]
  BY <2>1, <2>2
<2>4. FrontStart(next, n) = FrontStart(m, n)
  BY DEF FrontStart
<2>5. InRing(after, next, n, c, p)
  BY <1>1, <2>3, <2>4 DEF InRing
<2>6. QED BY <2>5 DEF Placed
<1>2. CASE InPool(cells, n, c, p)
  BY <1>2 DEF InPool, Placed
<1>3. QED BY <1>1, <1>2 DEF Placed

\* Or when production goes on, for as long as its slab is kept alive.
LEMMA PlacedCarried ==
    ASSUME NEW m, NEW n \in Nat, NEW alive \in SUBSET Slabs, ManagerFits(m, n, alive),
           m.ready # <<>>, NEW k \in 1..m.front.length, NEW cells, NEW after, NEW next, NEW d,
           Produced(cells, after, m, next, n, k, d), FrontWritten(cells, m, n),
           \A b \in PoolBuffers : after[b] = cells[b],
           \A s \in alive : Age(next, s) = Age(m, s) + d,
           NEW c, NEW p \in Nat, Placed(cells, m, n, c, p), c.slab \in alive \cup {0}
    PROVE  Placed(after, next, n + k, c, p)
<1>1. k \in Nat
  BY ProducedFront
<1>2. CASE InRing(cells, m, n, c, p)
<2>1. c.slab \in alive
  BY <1>2, Constants DEF InRing
<2>2. Age(next, c.slab) = Age(m, c.slab) + d
  BY <2>1
<2>3. InRing(after, next, n + k, c, p)
  BY <1>2, <2>2, RingCarried
<2>4. QED BY <2>3 DEF Placed
<1>3. CASE InPool(cells, n, c, p)
<2>1. PICK e \in Nat : e = n + k /\ n <= e
  BY <1>1
<2>2. after[c.mem] = cells[c.mem]
  BY <1>3 DEF InPool
<2>3. InPool(after, e, c, p)
  BY <1>3, <2>1, <2>2, PoolCarried
<2>4. QED BY <2>1, <2>3 DEF Placed
<1>4. QED BY <1>2, <1>3 DEF Placed

\* The slabs that nobody keeps alive any more are given back.
LEMMA GivenBack ==
    ASSUME NEW m, NEW n \in Nat, NEW before, ManagerFits(m, n, before),
           NEW q, NEW w, NEW others, KeptAlive(q, w, others) \subseteq before,
           Alive \ KeptAlive(q, w, others) = before \ KeptAlive(q, w, others)
    PROVE  /\ ManagerFits(GiveBack(q, w, others, m), n, KeptAlive(q, w, others))
           /\ GiveBack(q, w, others, m).bytesToPop = m.bytesToPop
           /\ \A s \in KeptAlive(q, w, others) : Age(GiveBack(q, w, others, m), s) = Age(m, s)
<1>1. before \in SUBSET Slabs
  BY DEF ManagerFits, Conserved
<1>2. PICK alive \in SUBSET before : alive = KeptAlive(q, w, others)
  OBVIOUS
<1>3. PICK gone \in SUBSET Slabs : gone = (before \ alive) \ Range(m.ready)
  BY <1>1
<1>4. GiveBack(q, w, others, m) = PushSlabs(m, gone)
<2>1. Alive \ (alive \cup Range(m.ready)) = gone
  BY <1>2, <1>3
<2>2. QED BY <2>1, <1>2 DEF GiveBack, Alive
<1>5. /\ ManagerFits(PushSlabs(m, gone), n, alive)
      /\ PushSlabs(m, gone).bytesToPop = m.bytesToPop
      /\ \A s \in alive : Age(PushSlabs(m, gone), s) = Age(m, s)
<2>1. /\ n \in Nat /\ before \in SUBSET Slabs /\ ManagerFits(m, n, before)
      /\ alive \in SUBSET before /\ gone \in SUBSET Slabs
      /\ gone = (before \ alive) \ Range(m.ready)
  BY <1>1, <1>2, <1>3
<2>2. QED BY ONLY <2>1, PushFits, ZenonT(40)
<1>6. QED BY <1>2, <1>4, <1>5

LEMMA InitManagerFits == ManagerFits(InitManager, 0, {})
<1>1. PICK N \in Nat, S \in Nat, L \in Nat :
         N = NumSlabs /\ S = SlabSize /\ L = RingLength /\ N >= 1 /\ S >= 1 /\ L >= 1
  BY Constants
<1>2. PICK ready \in Seq(Slabs) : /\ ready = [i \in Slabs |-> i] /\ Len(ready) = N
                                  /\ \A i \in 1..N : ready[i] = i
<2>1. Slabs = 1..N
  BY <1>1 DEF Slabs
<2>2. PICK s : s = [i \in 1..N |-> i]
  OBVIOUS
<2>3. s \in Seq(1..N) /\ DOMAIN s = 1..N
  BY <2>2
<2>4. Len(s) = N
  BY <2>3, LenProperties
<2>5. QED BY <2>1, <2>2, <2>3, <2>4
<1>3. PICK m : m = InitManager
  OBVIOUS
<1>4. /\ ready # <<>> /\ Head(ready) = 1 /\ 1 \in Slabs
<2>1. Len(ready) # 0
  BY <1>1, <1>2
<2>2. ready # <<>>
  BY <2>1, EmptySeq
<2>3. 1 \in 1..N
  BY <1>1
<2>4. Head(ready) = ready[1]
  BY <2>2
<2>5. QED BY <2>2, <2>3, <2>4, <1>1, <1>2 DEF Slabs
<1>5. PICK f : f = [mem |-> Ring, address |-> 0, length |-> SlabSize,
                    base |-> 0, size |-> SlabSize, slab |-> 1]
  OBVIOUS
<1>6. f \in ChunkRecords
<2>1. SlabSize \in Nat /\ 1 \in Slabs
  BY <1>1, <1>4
<2>2. QED BY <2>1, <1>5 DEF ChunkRecords
<1>7. CircFront(ready, 0) = f
  BY <1>4, <1>5 DEF CircFront
<1>8. m = [ready |-> ready, pushed |-> {}, indexToAck |-> 1, frontAddress |-> 0,
           bytesToPop |-> 0, front |-> f]
  BY <1>2, <1>3, <1>7 DEF InitManager
<1>9. /\ m.ready = ready /\ m.pushed = {} /\ m.indexToAck = 1 /\ m.frontAddress = 0
      /\ m.bytesToPop = 0 /\ m.front = f
  BY <1>8
<1>10. m \in ManagerRecords
<2>1. 0 \in 0..(RingLength - 1) /\ 0 \in 0..(SlabSize - 1)
  BY <1>1
<2>2. QED BY <2>1, <1>4, <1>6, <1>8 DEF ManagerRecords
<1>11. \A i \in 1..Len(m.ready) : m.ready[i] = Turn(m.indexToAck - Len(m.ready) + i - 1)
<2>1. ASSUME NEW i \in 1..N PROVE i = Turn(1 - N + i - 1)
<3>1. ~(1 - N + i - 1 >= 1) /\ (1 - N + i - 1) + N = i
  BY <1>1
<3>2. QED BY <3>1, <1>1 DEF Turn
<2>2. QED BY <2>1, <1>2, <1>9
<1>12. m.frontAddress = FrontStart(m, 0) % RingLength
<2>1. 0 - 0 = 0 /\ 0 % L = 0
  BY <1>1
<2>2. QED BY <2>1, <1>1, <1>9 DEF FrontStart
<1>13. m.front = FrontOf(m)
<2>1. SlabSize - 0 = SlabSize /\ 0 + 0 = 0
  BY <1>1
<2>2. QED BY <2>1, <1>4, <1>5, <1>9 DEF FrontOf
<1>14. Conserved(m, {})
<2>1. Range(ready) = Slabs
<3>1. DOMAIN ready = Slabs /\ \A i \in Slabs : ready[i] = i
  BY <1>2
<3>2. QED BY <3>1 DEF Range
<2>2. QED BY <2>1, <1>9 DEF Conserved
<1>15. Len(m.ready) <= NumSlabs /\ m.indexToAck \notin m.pushed /\ m.bytesToPop <= 0
  BY <1>1, <1>2, <1>9
<1>16. ManagerFits(m, 0, {})
  BY <1>4, <1>9, <1>10, <1>11, <1>12, <1>13, <1>14, <1>15 DEF ManagerFits
<1>17. QED BY <1>3, <1>16

LEMMA InitIInv == Init => IInv
<1> SUFFICES ASSUME Init PROVE IInv
  OBVIOUS
<1>1. /\ NullChunk \in ChunkRecords /\ NullChunk.length = 0 /\ NullChunk.slab = 0
  BY NullChunkIs DEF NullChunkFacts
<1>2. acc = [queue |-> <<NullChunk>>, inPoolBuffer |-> FALSE]
  BY DEF Init, EmptyAccumulator
<1>3. acc.queue = <<NullChunk>> /\ acc \in Accumulators
<2>1. <<NullChunk>> \in Seq(ChunkRecords)
  BY <1>1
<2>2. QED BY <2>1, <1>2 DEF Accumulators
<1>4. MaxBytes \in Nat /\ MaxHeld \in Nat
  BY FlowAssumption
<1>5. produced \in 0..MaxBytes /\ consumed \in 0..produced /\ produced = 0 /\ consumed = 0
  BY <1>4 DEF Init
<1>6. /\ DOMAIN memory = {Ring} \cup PoolBuffers
      /\ \A b \in {Ring} \cup PoolBuffers :
            memory[b] = [i \in 0..((IF b = Ring THEN RingLength ELSE PoolSize) - 1) |-> 0]
  BY DEF Init, Scribble
<1>7. MemoryTyped(memory)
<2>1. 0 \in 0..MaxBytes
  BY <1>4
<2>2. memory[Ring] \in [0..(RingLength - 1) -> 0..MaxBytes]
  BY <2>1, <1>6
<2>3. \A b \in PoolBuffers : b # Ring
  BY FlowAssumption
<2>4. ASSUME NEW b \in PoolBuffers PROVE memory[b] \in [0..(PoolSize - 1) -> 0..MaxBytes]
  BY <2>1, <2>3, <1>6
<2>5. QED BY <2>2, <2>4, <1>6 DEF MemoryTyped
<1>8. Alive = {}
<2>1. Range(<<NullChunk>>) = {NullChunk}
  BY DEF Range
<2>2. window = NullChunk /\ held = {}
  BY DEF Init
<2>3. QED BY <2>1, <2>2, <1>1, <1>3 DEF Alive, KeptAlive
<1>9. ManagerFits(mgr, produced, Alive)
  BY <1>5, <1>8, InitManagerFits DEF Init
<1>10. FrontWritten(memory, mgr, produced)
<2>1. mgr.bytesToPop = 0
  BY DEF Init, InitManager
<2>2. FrontStart(mgr, produced) = 0
  BY <2>1, <1>5 DEF FrontStart
<2>3. \A o \in 0..(0 - 1) : FALSE
  OBVIOUS
<2>4. memory[Ring] \in [0..(RingLength - 1) -> Nat]
<3>1. 0..MaxBytes \subseteq Nat
  BY <1>4
<3>2. QED BY <3>1, <1>7 DEF MemoryTyped
<2>5. QED BY <2>2, <2>3, <2>4, <1>5 DEF FrontWritten
<1>11. \E pos : QueueFits(memory, mgr, produced, consumed, acc.queue, pos)
<2>1. PICK z \in Nat : z = 0
  OBVIOUS
<2>2. z + NullChunk.length = z
  BY <2>1, <1>1
<2>3. \E new : QueueFits(memory, mgr, z, z, <<NullChunk>>, new)
  BY <2>2, <1>1, OneFits
<2>4. QED BY <2>1, <2>3, <1>3, <1>5
<1>12. ReaderFits(memory, mgr, produced, consumed, acc.queue, window)
<2>1. window = NullChunk /\ Head(acc.queue) = NullChunk
  BY <1>3 DEF Init
<2>2. QED BY <2>1, <1>1 DEF ReaderFits
<1>13. HeldFits(memory, mgr, produced, held)
<2>1. held = {}
  BY DEF Init
<2>2. IsFiniteSet({}) /\ Cardinality({}) = 0
  BY FS_EmptySet
<2>3. QED BY <2>1, <2>2, <1>4 DEF HeldFits
<1>14. QED BY <1>3, <1>5, <1>7, <1>9, <1>10, <1>11, <1>12, <1>13 DEF IInv

\* What others keep stays in its place.
LEMMA HeldKept ==
    ASSUME NEW cells, NEW m, NEW n, NEW others, HeldFits(cells, m, n, others),
           NEW fewer \in SUBSET others,
           NEW after, \A h \in fewer : after[h.chunk.mem] = cells[h.chunk.mem],
           NEW next, next.bytesToPop = m.bytesToPop,
           \A h \in fewer : h.chunk.slab # 0 => Age(next, h.chunk.slab) = Age(m, h.chunk.slab)
    PROVE  HeldFits(after, next, n, fewer)
<1>1. /\ IsFiniteSet(others) /\ Cardinality(others) <= MaxHeld /\ others \subseteq Keepers
      /\ \A h \in others : Placed(cells, m, n, h.chunk, h.first - 1)
  BY DEF HeldFits
<1>2. IsFiniteSet(fewer) /\ Cardinality(fewer) <= Cardinality(others)
  BY <1>1, FS_Subset
<1>3. Cardinality(fewer) <= MaxHeld
<2>1. Cardinality(fewer) \in Nat /\ Cardinality(others) \in Nat /\ MaxHeld \in Nat
  BY <1>1, <1>2, FS_CardinalityType, FlowAssumption
<2>2. QED BY <2>1, <1>1, <1>2
<1>4. ASSUME NEW h \in fewer PROVE Placed(after, next, n, h.chunk, h.first - 1)
<2>1. PICK c, p : c = h.chunk /\ p = h.first - 1
  OBVIOUS
<2>2. /\ Placed(cells, m, n, c, p) /\ after[c.mem] = cells[c.mem]
      /\ c.slab # 0 => Age(next, c.slab) = Age(m, c.slab)
  BY <2>1, <1>1
<2>3. Placed(after, next, n, c, p)
  BY <2>2, PlacedKept
<2>4. QED BY <2>1, <2>3
<1>5. QED BY <1>1, <1>2, <1>3, <1>4 DEF HeldFits

\* Facts of the state that the proofs of the steps begin with
Facts(pos) ==
    /\ acc \in Accumulators
    /\ produced \in Nat /\ produced <= MaxBytes /\ consumed \in Nat /\ consumed <= produced
    /\ MemoryTyped(memory)
    /\ ManagerFits(mgr, produced, Alive) /\ Alive \in SUBSET Slabs
    /\ FrontWritten(memory, mgr, produced)
    /\ QueueFits(memory, mgr, produced, consumed, acc.queue, pos)
    /\ ReaderFits(memory, mgr, produced, consumed, acc.queue, window)
    /\ HeldFits(memory, mgr, produced, held)
    /\ acc.queue \in Seq(ChunkRecords) /\ acc.queue # <<>> /\ Head(acc.queue) = acc.queue[1]
    /\ Head(acc.queue) \in ChunkRecords

LEMMA FactsOf == IInv => \E pos : Facts(pos)
<1> SUFFICES ASSUME IInv PROVE \E pos : Facts(pos)
  OBVIOUS
<1>1. PICK pos : QueueFits(memory, mgr, produced, consumed, acc.queue, pos)
  BY DEF IInv
<1>2. MaxBytes \in Nat
  BY FlowAssumption
<1>3. produced \in Nat /\ produced <= MaxBytes /\ consumed \in Nat /\ consumed <= produced
  BY <1>2 DEF IInv
<1>4. Alive \in SUBSET Slabs
  BY DEF IInv, ManagerFits, Conserved
<1>5. /\ acc.queue \in Seq(ChunkRecords) /\ acc.queue # <<>> /\ Head(acc.queue) = acc.queue[1]
      /\ acc.queue[1] \in ChunkRecords
  BY <1>1, <1>3, FirstTwo
<1>6. QED BY <1>1, <1>3, <1>4, <1>5 DEF IInv, Facts

\* Others let go of a chunk.
LEMMA ReleaseStep == ASSUME IInv, NEW h \in held, Release(h) PROVE IInv'
<1>1. PICK pos : Facts(pos)
  BY FactsOf
<1>2. /\ held' = held \ {h} /\ mgr' = GiveBack(acc.queue, window, held', mgr)
      /\ acc' = acc /\ memory' = memory /\ window' = window
      /\ produced' = produced /\ consumed' = consumed
  BY DEF Release
<1>3. PICK rest : rest = held \ {h} /\ rest \in SUBSET held
  OBVIOUS
<1>4. PICK alive : alive = KeptAlive(acc.queue, window, rest)
  OBVIOUS
<1>5. alive \subseteq Alive
  BY <1>3, <1>4, FewerAlive DEF Alive
<1>6. PICK next : next = GiveBack(acc.queue, window, rest, mgr)
  OBVIOUS
<1>7. ManagerFits(mgr, produced, Alive) /\ produced \in Nat
  BY <1>1 DEF Facts
<1>8. /\ ManagerFits(next, produced, alive)
      /\ next.bytesToPop = mgr.bytesToPop
      /\ \A s \in alive : Age(next, s) = Age(mgr, s)
  BY <1>4, <1>5, <1>6, <1>7, GivenBack
<1>9. Alive' = alive /\ mgr' = next
  BY <1>2, <1>3, <1>4, <1>6 DEF Alive
<1>10. /\ SlabsOf(acc.queue) \subseteq alive /\ window.slab \in alive \cup {0}
       /\ \A o \in rest : o.chunk.slab \in alive \cup {0}
  BY <1>4, KeptAliveIs
<1>11. QueueFits(memory, next, produced, consumed, acc.queue, pos)
<2>1. QueueFits(memory, mgr, produced, consumed, acc.queue, pos)
  BY <1>1 DEF Facts
<2>2. \A s \in SlabsOf(acc.queue) : Age(next, s) = Age(mgr, s)
  BY <1>8, <1>10
<2>3. QED BY <2>1, <2>2, <1>8, QueueKept
<1>12. ReaderFits(memory, next, produced, consumed, acc.queue, window)
<2>1. ReaderFits(memory, mgr, produced, consumed, acc.queue, window)
  BY <1>1 DEF Facts
<2>2. window.slab # 0 => Age(next, window.slab) = Age(mgr, window.slab)
  BY <1>8, <1>10
<2>3. Placed(memory, mgr, produced, window, consumed) => Placed(memory, next, produced, window, consumed)
  BY <2>2, <1>8, PlacedKept
<2>4. QED BY <2>1, <2>3 DEF ReaderFits
<1>13. HeldFits(memory, next, produced, rest)
<2>1. HeldFits(memory, mgr, produced, held)
  BY <1>1 DEF Facts
<2>2. \A o \in rest : o.chunk.slab # 0 => Age(next, o.chunk.slab) = Age(mgr, o.chunk.slab)
  BY <1>8, <1>10
<2>3. QED BY <2>1, <2>2, <1>3, <1>8, HeldKept
<1>14. FrontWritten(memory, next, produced)
<2>1. FrontStart(next, produced) = FrontStart(mgr, produced)
  BY <1>8 DEF FrontStart
<2>2. QED BY <2>1, <1>1 DEF Facts, FrontWritten
<1>15. QED BY <1>1, <1>2, <1>3, <1>8, <1>9, <1>11, <1>12, <1>13, <1>14 DEF IInv, Facts

LEMMA PopRecord ==
    ASSUME NEW a, NEW x
    PROVE  Pop(a, x) = [queue |-> Pop(a, x).queue, inPoolBuffer |-> Pop(a, x).inPoolBuffer]
<1> DEFINE f == [Head(a.queue) EXCEPT !.address = @ + x, !.length = @ - x]
           t == Tail(a.queue)
           backInto(length) == <<[Head(t) EXCEPT !.address = @ - f.length, !.length = length]>>
                               \o Tail(t)
           z == IF a.inPoolBuffer /\ t # <<>> /\ f.length <= Head(t).address - Head(t).base
                THEN backInto(Head(t).length + f.length)
                ELSE IF t # <<>> /\ (f.length > 0 /\ f.address >= f.base + f.size)
                        /\ GetEnd(f) = Head(t).address
                     THEN backInto(f.length)
                     ELSE UnlessEmpty(f, t)
           queue == IF z = <<>> THEN <<NullChunk>> ELSE z
           inPool == a.inPoolBuffer /\ Len(z) = Len(a.queue)
<1>1. Pop(a, x) = [queue |-> queue, inPoolBuffer |-> inPool]
  BY DEF Pop
<1> HIDE DEF z, queue, inPool
<1>2. Pop(a, x).queue = queue /\ Pop(a, x).inPoolBuffer = inPool
  BY <1>1
<1>3. QED BY <1>1, <1>2

LEMMA PlacedFacts ==
    ASSUME NEW cells, NEW m, NEW n \in Nat, NEW c, NEW p \in Nat, Placed(cells, m, n, c, p)
    PROVE  c \in ChunkRecords /\ c.length \in Nat /\ p + c.length <= n
<1>1. c \in ChunkRecords /\ p + c.length <= n
  BY DEF Placed, InRing, InPool
<1>2. c.length \in Nat
  BY <1>1 DEF ChunkRecords
<1>3. QED BY <1>1, <1>2

\* One more is kept.
LEMMA HeldMore ==
    ASSUME NEW cells, NEW m, NEW n \in Nat, n <= MaxBytes, NEW others, HeldFits(cells, m, n, others),
           Cardinality(others) < MaxHeld,
           NEW w, NEW k \in Nat, Placed(cells, m, n, w, k), w.length > 0
    PROVE  HeldFits(cells, m, n, others \cup {[chunk |-> w, first |-> k + 1]})
<1>1. /\ IsFiniteSet(others) /\ others \subseteq Keepers
      /\ \A h \in others : Placed(cells, m, n, h.chunk, h.first - 1)
  BY DEF HeldFits
<1>2. PICK x : x = [chunk |-> w, first |-> k + 1]
  OBVIOUS
<1>3. /\ IsFiniteSet(others \cup {x})
      /\ Cardinality(others \cup {x}) = IF x \in others THEN Cardinality(others) ELSE Cardinality(others) + 1
  BY <1>1, FS_AddElement
<1>4. PICK y \in Nat, C \in Nat, M \in Nat :
         y = w.length /\ C = Cardinality(others) /\ M = MaxHeld /\ C < M
<2>1. w.length \in Nat
  BY PlacedFacts
<2>2. Cardinality(others) \in Nat /\ MaxHeld \in Nat
  BY <1>1, FS_CardinalityType, FlowAssumption
<2>3. QED BY <2>1, <2>2
<1>5. Cardinality(others \cup {x}) <= MaxHeld
<2>1. C + 1 <= M /\ C <= M
  BY <1>4
<2>2. QED BY <2>1, <1>3, <1>4
<1>6. x \in Keepers
<2>1. w \in ChunkRecords /\ k + y <= n /\ y > 0
  BY <1>4, PlacedFacts
<2>2. MaxBytes \in Nat
  BY FlowAssumption
<2>3. PICK B \in Nat : B = MaxBytes /\ n <= B
  BY <2>2
<2>4. k + 1 \in 1..B
<3>1. k + y <= n /\ y > 0 /\ n <= B
  BY <2>1, <2>3
<3>2. QED BY ONLY <3>1
<2>5. QED BY <2>1, <2>3, <2>4, <1>2 DEF Keepers
<1>7. Placed(cells, m, n, x.chunk, x.first - 1)
<2>1. x.chunk = w /\ x.first = k + 1
  BY <1>2
<2>2. (k + 1) - 1 = k
  OBVIOUS
<2>3. QED BY <2>1, <2>2
<1>8. QED BY <1>1, <1>2, <1>3, <1>5, <1>6, <1>7 DEF HeldFits

\* postWorkTasks()
LEMMA PostWorkStep ==
    ASSUME IInv, NEW n, NEW keep \in BOOLEAN, PostWork(n, keep)
    PROVE  IInv'
<1>1. PICK pos : Facts(pos)
  BY FactsOf
<1>2. PICK next, others :
         /\ next = IF n = 0 THEN acc ELSE Pop(acc, n)
         /\ others = held \cup IF keep THEN {[chunk |-> window, first |-> consumed + 1]} ELSE {}
  OBVIOUS
<1>3. /\ window # NullChunk /\ n \in 0..window.length
      /\ keep => window.length > 0 /\ Cardinality(held) < MaxHeld
      /\ acc' = next /\ held' = others
      /\ mgr' = GiveBack(next.queue, NullChunk, others, mgr)
      /\ window' = NullChunk /\ consumed' = consumed + n
      /\ memory' = memory /\ produced' = produced
  BY <1>2 DEF PostWork
<1>4. /\ ManagerFits(mgr, produced, Alive) /\ produced \in Nat /\ produced <= MaxBytes
      /\ consumed \in Nat
      /\ QueueFits(memory, mgr, produced, consumed, acc.queue, pos)
      /\ Head(acc.queue) = acc.queue[1]
      /\ Head(acc.queue) \in ChunkRecords
  BY <1>1 DEF Facts
<1>5. /\ Placed(memory, mgr, produced, window, consumed) /\ window.length <= acc.queue[1].length
      /\ window \in ChunkRecords
  BY <1>1, <1>3, <1>4 DEF Facts, ReaderFits
<1>6. n \in Nat /\ n <= acc.queue[1].length /\ acc.queue[1].length \in Nat
<2>1. window.length \in Nat /\ acc.queue[1].length \in Nat
  BY <1>4, <1>5 DEF ChunkRecords
<2>2. QED BY <2>1, <1>3, <1>5
<1>7. PICK l \in Nat : l = consumed + n
  BY <1>4, <1>6
<1>8. StillFits(memory, mgr, produced, l, acc.queue, next.queue) /\ next \in Accumulators
<2>1. CASE n = 0
<3>1. next = acc /\ l = consumed
  BY <2>1, <1>2, <1>4, <1>7
<3>2. QED BY <3>1, <1>1, <1>4 DEF StillFits, Facts
<2>2. CASE n # 0
<3>1. n \in 1..acc.queue[1].length
  BY <2>2, <1>6
<3>2. /\ StillFits(memory, mgr, produced, consumed + n, acc.queue, Pop(acc, n).queue)
      /\ Pop(acc, n).inPoolBuffer \in BOOLEAN
  BY <3>1, <1>4, PopFits
<3>3. next = Pop(acc, n)
  BY <2>2, <1>2
<3>4. Pop(acc, n).queue \in Seq(ChunkRecords)
  BY <3>2 DEF StillFits, QueueFits
<3>5. Pop(acc, n) \in Accumulators
<4>1. Pop(acc, n) = [queue |-> Pop(acc, n).queue, inPoolBuffer |-> Pop(acc, n).inPoolBuffer]
  BY PopRecord
<4>2. QED BY <4>1, <3>2, <3>4 DEF Accumulators
<3>6. QED BY <3>2, <3>3, <3>5, <1>7
<2>3. QED BY <2>1, <2>2
<1>9. PICK new : QueueFits(memory, mgr, produced, l, next.queue, new)
  BY <1>8 DEF StillFits
<1>10. SlabsOf(next.queue) \subseteq SlabsOf(acc.queue)
  BY <1>8 DEF StillFits
<1>11. PICK alive : alive = KeptAlive(next.queue, NullChunk, others)
  OBVIOUS
<1>12. alive \subseteq Alive
<2>1. NullChunk.slab = 0
  BY NullChunkIs DEF NullChunkFacts
<2>2. \A h \in others : h \in held \/ h.chunk.slab = window.slab
  BY <1>2
<2>3. QED BY <2>1, <2>2, <1>10, <1>11, FewerAlive DEF Alive
<1>13. PICK m : m = GiveBack(next.queue, NullChunk, others, mgr)
  OBVIOUS
<1>14. /\ ManagerFits(m, produced, alive)
       /\ m.bytesToPop = mgr.bytesToPop
       /\ \A s \in alive : Age(m, s) = Age(mgr, s)
  BY <1>4, <1>11, <1>12, <1>13, GivenBack
<1>15. Alive' = alive /\ mgr' = m
  BY <1>3, <1>11, <1>13 DEF Alive
<1>16. SlabsOf(next.queue) \subseteq alive /\ \A h \in others : h.chunk.slab \in alive \cup {0}
  BY <1>11, KeptAliveIs
<1>17. QueueFits(memory, m, produced, l, next.queue, new)
<2>1. \A s \in SlabsOf(next.queue) : Age(m, s) = Age(mgr, s)
  BY <1>14, <1>16
<2>2. QED BY <2>1, <1>9, <1>14, QueueKept
<1>18. ReaderFits(memory, m, produced, l, next.queue, NullChunk)
<2>1. NullChunk \in ChunkRecords /\ NullChunk.length = 0
  BY NullChunkIs DEF NullChunkFacts
<2>2. Head(next.queue) \in ChunkRecords
  BY <1>9, <1>4, <1>7, FirstTwo
<2>3. Head(next.queue).length \in Nat
  BY <2>2 DEF ChunkRecords
<2>4. QED BY <2>1, <2>3 DEF ReaderFits
<1>19. HeldFits(memory, m, produced, others)
<2>1. HeldFits(memory, mgr, produced, held)
  BY <1>1 DEF Facts
<2>2. HeldFits(memory, mgr, produced, others)
<3>1. CASE keep
<4>1. others = held \cup {[chunk |-> window, first |-> consumed + 1]}
  BY <3>1, <1>2
<4>2. window.length > 0 /\ Cardinality(held) < MaxHeld
  BY <3>1, <1>3
<4>3. QED BY <4>1, <4>2, <2>1, <1>4, <1>5, HeldMore
<3>2. CASE ~keep
<4>1. others = held
  BY <3>2, <1>2
<4>2. QED BY <4>1, <2>1
<3>3. QED BY <3>1, <3>2
<2>3. \A h \in others : h.chunk.slab # 0 => Age(m, h.chunk.slab) = Age(mgr, h.chunk.slab)
  BY <1>14, <1>16
<2>4. QED BY <2>2, <2>3, <1>14, HeldKept
<1>20. FrontWritten(memory, m, produced)
<2>1. FrontStart(m, produced) = FrontStart(mgr, produced)
  BY <1>14 DEF FrontStart
<2>2. QED BY <2>1, <1>1 DEF Facts, FrontWritten
<1>21. l \in 0..produced
<2>1. l <= produced
  BY <1>4, <1>9, FirstTwo
<2>2. QED BY <2>1, <1>4
<1>22. produced \in 0..MaxBytes /\ MemoryTyped(memory)
  BY <1>1 DEF Facts, IInv
<1>23. /\ acc' \in Accumulators
       /\ produced' \in 0..MaxBytes /\ consumed' \in 0..produced'
       /\ MemoryTyped(memory')
       /\ ManagerFits(mgr', produced', Alive')
       /\ FrontWritten(memory', mgr', produced')
       /\ QueueFits(memory', mgr', produced', consumed', acc'.queue, new)
       /\ ReaderFits(memory', mgr', produced', consumed', acc'.queue, window')
       /\ HeldFits(memory', mgr', produced', held')
  BY <1>3, <1>7, <1>8, <1>14, <1>15, <1>17, <1>18, <1>19, <1>20, <1>21, <1>22
<1>24. QED BY <1>23 DEF IInv

UsedBy(q, others) == {c.mem : c \in Range(q) \cup {h.chunk : h \in others}}

\* The pool buffer that require() takes
Free(q, others) ==
    CHOOSE b \in PoolBuffers \ UsedBy(q, others) :
        \A k \in PoolBuffers \ UsedBy(q, others) : b <= k

\* There is one that nobody has in use: a queue has at most one, and others
\* keep at most MaxHeld.
LEMMA FreeIs ==
    ASSUME NEW q, NEW others, IsFiniteSet(others), Cardinality(others) <= MaxHeld,
           \A c \in Range(q) : c.mem \in PoolBuffers => c.mem = q[1].mem
    PROVE  /\ Free(q, others) \in PoolBuffers
           /\ \A c \in Range(q) : c.mem # Free(q, others)
           /\ \A h \in others : h.chunk.mem # Free(q, others)
<1>1. PICK mems : mems = {h.chunk.mem : h \in others}
  OBVIOUS
<1>2. PICK f : f = [h \in others |-> h.chunk.mem]
  OBVIOUS
<1>3. f \in Surjection(others, mems)
  BY <1>1, <1>2 DEF Surjection
<1>4. IsFiniteSet(mems) /\ Cardinality(mems) <= Cardinality(others)
  BY <1>3, FS_Surjection
<1>5. PICK all : all = mems \cup {q[1].mem}
  OBVIOUS
<1>6. /\ IsFiniteSet(all)
      /\ Cardinality(all) = IF q[1].mem \in mems THEN Cardinality(mems) ELSE Cardinality(mems) + 1
  BY <1>4, <1>5, FS_AddElement
<1>7. IsFiniteSet(PoolBuffers) /\ Cardinality(PoolBuffers) > MaxHeld + 1
  BY FlowAssumption
<1>8. PICK A \in Nat, B \in Nat, C \in Nat, D \in Nat, M \in Nat :
         /\ A = Cardinality(all) /\ B = Cardinality(mems) /\ C = Cardinality(others)
         /\ D = Cardinality(PoolBuffers) /\ M = MaxHeld
         /\ B <= C /\ C <= M /\ A <= B + 1 /\ D > M + 1
<2>1. /\ Cardinality(all) \in Nat /\ Cardinality(mems) \in Nat /\ Cardinality(others) \in Nat
      /\ Cardinality(PoolBuffers) \in Nat /\ MaxHeld \in Nat
  BY <1>4, <1>6, <1>7, FS_CardinalityType, FlowAssumption
<2>2. Cardinality(all) <= Cardinality(mems) + 1
  BY <2>1, <1>6
<2>3. QED BY <2>1, <2>2, <1>4, <1>7
<1>9. ASSUME PoolBuffers \subseteq all PROVE FALSE
<2>1. Cardinality(PoolBuffers) <= Cardinality(all)
  BY <1>6, <1>9, FS_Subset
<2>2. D <= A /\ B <= C /\ C <= M /\ A <= B + 1 /\ D > M + 1
  BY <2>1, <1>8
<2>3. QED BY ONLY <2>2
<1>10. PICK free : free = PoolBuffers \ UsedBy(q, others)
  OBVIOUS
<1>11. UsedBy(q, others) \cap PoolBuffers \subseteq all
<2>1. ASSUME NEW b \in UsedBy(q, others), b \in PoolBuffers PROVE b \in all
<3>1. (\E c \in Range(q) : b = c.mem) \/ (\E h \in others : b = h.chunk.mem)
  BY DEF UsedBy
<3>2. QED BY <3>1, <2>1, <1>1, <1>5
<2>2. QED BY <2>1
<1>12. free # {} /\ free \in SUBSET Nat
<2>1. PoolBuffers \subseteq Nat
  BY FlowAssumption
<2>2. QED BY <2>1, <1>9, <1>10, <1>11
<1>13. \E b \in free : \A k \in free : b <= k
  BY <1>12, LeastElement
<1>14. Free(q, others) \in free
  BY <1>10, <1>13 DEF Free
<1>15. Free(q, others) \in PoolBuffers /\ Free(q, others) \notin UsedBy(q, others)
  BY <1>10, <1>14
<1>16. QED BY <1>15 DEF UsedBy

\* The front chunk is what the block gets to work on.
LEMMA HeadFits ==
    ASSUME NEW cells, NEW m, NEW n \in Nat, NEW k \in Nat, NEW q, NEW pos,
           QueueFits(cells, m, n, k, q, pos)
    PROVE  /\ ReaderFits(cells, m, n, k, q, Head(q))
           /\ Head(q).slab \in SlabsOf(q) \cup {0}
<1>1. /\ q \in Seq(ChunkRecords) /\ q # <<>> /\ Head(q) = q[1] /\ Len(q) \in Nat /\ Len(q) >= 1
      /\ q[1] \in ChunkRecords /\ pos[1] = k
  BY FirstTwo
<1>2. q[1].length \in Nat
  BY <1>1 DEF ChunkRecords
<1>3. q[1] = NullChunk \/ Placed(cells, m, n, q[1], k)
<2>1. QueuePlaced(cells, m, n, q, pos)
  BY DEF QueueFits
<2>2. QED BY <2>1, <1>1 DEF QueuePlaced
<1>4. q[1] \in Range(q)
  BY <1>1 DEF Range
<1>5. QED BY <1>1, <1>2, <1>3, <1>4 DEF ReaderFits, SlabsOf

\* preWorkTasks() without a copy
LEMMA PeekStep ==
    ASSUME IInv, window = NullChunk, window' = Head(acc.queue),
           UNCHANGED <<acc, memory, mgr, held, produced, consumed>>
    PROVE  IInv'
<1>1. PICK pos : Facts(pos)
  BY FactsOf
<1>2. /\ produced \in Nat /\ consumed \in Nat
      /\ QueueFits(memory, mgr, produced, consumed, acc.queue, pos)
  BY <1>1 DEF Facts
<1>3. /\ ReaderFits(memory, mgr, produced, consumed, acc.queue, Head(acc.queue))
      /\ Head(acc.queue).slab \in SlabsOf(acc.queue) \cup {0}
  BY <1>2, HeadFits
<1>4. window.slab = 0
  BY NullChunkIs DEF NullChunkFacts
<1>5. KeptAlive(acc.queue, Head(acc.queue), held) \subseteq Alive
  BY <1>3, FewerAlive DEF Alive
<1>6. Alive \subseteq KeptAlive(acc.queue, Head(acc.queue), held)
  BY <1>4, FewerAlive DEF Alive
<1>7. Alive' = Alive
  BY <1>5, <1>6 DEF Alive
<1>8. QED BY <1>1, <1>3, <1>7 DEF IInv, Facts

\* What require() leaves in the memory: the next x bytes of the stream in the
\* pool buffer b, all else as it was
Copied(cells, after, b, k, x) ==
    /\ MemoryTyped(after)
    /\ after[Ring] = cells[Ring]
    /\ \A c \in PoolBuffers : c # b => after[c] = cells[c]
    /\ Filled(after, b, k, x)

LEMMA CopiedMemory ==
    ASSUME NEW cells, MemoryTyped(cells), NEW b \in PoolBuffers, NEW k \in Nat, NEW n \in Nat,
           k <= n, n <= MaxBytes, NEW x \in Nat, k + x <= n, x <= PoolSize,
           NEW s, s = Stream(k + 1, n - k),
           NEW after,
           after = [cells EXCEPT ![b] = [i \in DOMAIN @ |-> IF i < x THEN s[i + 1] ELSE @[i]]]
    PROVE  Copied(cells, after, b, k, x)
<1>1. /\ b # Ring /\ b \in DOMAIN cells /\ Ring \in DOMAIN cells /\ PoolBuffers \subseteq DOMAIN cells
      /\ DOMAIN after = DOMAIN cells
  BY FlowAssumption DEF MemoryTyped
<1>2. PICK S \in Nat, M \in Nat : S = PoolSize /\ M = MaxBytes /\ n <= M
  BY Constants, FlowAssumption
<1>3. PICK old \in [0..(S - 1) -> 0..M] : old = cells[b]
  BY <1>2 DEF MemoryTyped
<1>4. PICK new : new = [i \in 0..(S - 1) |-> IF i < x THEN s[i + 1] ELSE old[i]]
  OBVIOUS
<1>5. after[b] = new
<2>1. DOMAIN cells[b] = 0..(S - 1)
  BY <1>3
<2>2. after[b] = [i \in DOMAIN cells[b] |-> IF i < x THEN s[i + 1] ELSE cells[b][i]]
  BY <1>1
<2>3. QED BY <2>1, <2>2, <1>3, <1>4
<1>6. ASSUME NEW i \in 0..(S - 1), i < x PROVE s[i + 1] = k + i + 1 /\ s[i + 1] \in 0..M
<2>1. k + x <= n /\ i < x /\ i \in Nat
  BY <1>2, <1>6
<2>2. i + 1 \in 1..(n - k) /\ (k + 1) + (i + 1) - 1 = k + i + 1
  BY ONLY <2>1
<2>3. s[i + 1] = k + i + 1
  BY <2>2 DEF Stream
<2>4. k + x <= n /\ i < x /\ i \in Nat /\ n <= M
  BY <2>1, <1>2
<2>5. k + i + 1 \in 0..M
  BY ONLY <2>4
<2>6. QED BY <2>3, <2>5
<1>7. new \in [0..(S - 1) -> 0..M]
<2>1. ASSUME NEW i \in 0..(S - 1) PROVE (IF i < x THEN s[i + 1] ELSE old[i]) \in 0..M
  BY <1>3, <1>6
<2>2. QED BY <2>1, <1>4
<1>8. \A c \in DOMAIN cells : c # b => after[c] = cells[c]
  OBVIOUS
<1>9. MemoryTyped(after)
<2>1. ASSUME NEW c \in PoolBuffers PROVE after[c] \in [0..(PoolSize - 1) -> 0..MaxBytes]
  BY <1>1, <1>2, <1>5, <1>7, <1>8 DEF MemoryTyped
<2>2. after[Ring] \in [0..(RingLength - 1) -> 0..MaxBytes]
  BY <1>1, <1>8 DEF MemoryTyped
<2>3. QED BY <2>1, <2>2, <1>1 DEF MemoryTyped
<1>10. \A i \in 0..(x - 1) : after[b][i] = k + i + 1
<2>1. \A i \in 0..(x - 1) : i \in 0..(S - 1) /\ i < x
<3>1. x <= S
  BY <1>2
<3>2. QED BY ONLY <3>1
<2>2. QED BY <2>1, <1>4, <1>5, <1>6
<1>11. QED BY <1>1, <1>8, <1>9, <1>10 DEF Copied, Filled

LEMMA FreeOfQueue ==
    ASSUME NEW cells, NEW m, NEW n, NEW k, NEW q, NEW pos, QueueFits(cells, m, n, k, q, pos),
           NEW others, HeldFits(cells, m, n, others)
    PROVE  /\ Free(q, others) \in PoolBuffers
           /\ \A c \in Range(q) : c.mem # Free(q, others)
           /\ \A h \in others : h.chunk.mem # Free(q, others)
<1>1. \A c \in Range(q) : c.mem \in PoolBuffers => c.mem = q[1].mem
<2>1. q \in Seq(ChunkRecords)
  BY DEF QueueFits
<2>2. \A i \in 1..Len(q) : i >= 2 => q[i].mem = Ring
  BY RingChunk
<2>3. Len(q) \in Nat /\ DOMAIN q = 1..Len(q)
  BY <2>1
<2>4. \A i \in 1..Len(q) : i = 1 \/ i >= 2
  BY <2>3
<2>5. Ring \notin PoolBuffers
  BY FlowAssumption
<2>6. QED BY <2>2, <2>3, <2>4, <2>5 DEF Range
<1>2. IsFiniteSet(others) /\ Cardinality(others) <= MaxHeld
  BY DEF HeldFits
<1>3. QED BY <1>1, <1>2, FreeIs

\* The copy has the bytes that were copied.
LEMMA RequireLength ==
    ASSUME NEW cells, MemoryTyped(cells), NEW m, NEW n \in Nat, NEW alive, ManagerFits(m, n, alive),
           NEW k \in Nat, NEW a, NEW q, q = a.queue, NEW pos, QueueFits(cells, m, n, k, q, pos),
           NEW d \in 1..PoolSize, MustCopy(a, d), NEW b \in PoolBuffers,
           q[1].mem # b
    PROVE  CopyLength(a, d, b)
<1>1. PICK after :
         after = [cells EXCEPT ![b] = [i \in 0..(CopiedBytes(a, PoolSize) - 1) |-> k + i + 1]]
  OBVIOUS
<1>2. DOMAIN cells = {Ring} \cup PoolBuffers /\ b # Ring
  BY FlowAssumption DEF MemoryTyped
<1>3. /\ after[Ring] = cells[Ring]
      /\ q[1].mem \in PoolBuffers => after[q[1].mem] = cells[q[1].mem]
      /\ \A i \in 0..(CopiedBytes(a, PoolSize) - 1) : after[b][i] = k + i + 1
  BY <1>1, <1>2
<1>4. FrontKept(cells, after, q) /\ Filled(after, b, k, CopiedBytes(a, PoolSize))
  BY <1>3 DEF FrontKept, Filled
<1>5. QED BY <1>4, RequireFits

\* preWorkTasks() with a copy, from what the copy leaves
LEMMA CopyFits ==
    ASSUME IInv, window = NullChunk, NEW r \in Requirements, MustCopy(acc, r),
           NEW b, b = Free(acc.queue, held),
           NEW next, next = Require(acc, r, b), NEW after,
           Copied(memory, after, b, consumed, CopiedBytes(acc, PoolSize)),
           NEW w, w = Head(next.queue), NEW m, m = GiveBack(next.queue, w, held, mgr),
           acc' = next, memory' = after, window' = w, mgr' = m,
           UNCHANGED <<held, produced, consumed>>
    PROVE  IInv'
<1>1. PICK pos : Facts(pos)
  BY FactsOf
<1>2. PICK q : q = acc.queue
  OBVIOUS
<1>3. /\ ManagerFits(mgr, produced, Alive) /\ produced \in Nat /\ consumed \in Nat
      /\ QueueFits(memory, mgr, produced, consumed, q, pos)
      /\ HeldFits(memory, mgr, produced, held)
  BY <1>1, <1>2 DEF Facts
<1>4. /\ b \in PoolBuffers
      /\ \A c \in Range(q) : c.mem # b
      /\ \A h \in held : h.chunk.mem # b
  BY <1>2, <1>3, FreeOfQueue
<1>5. r \in 1..PoolSize
  BY FlowAssumption
<1>6. q[1] \in Range(q)
<2>1. q \in Seq(ChunkRecords) /\ Len(q) \in Nat /\ Len(q) >= 1
  BY <1>3, FirstTwo
<2>2. QED BY <2>1 DEF Range
<1>7. /\ after[Ring] = memory[Ring] /\ FrontKept(memory, after, q)
      /\ Filled(after, b, consumed, CopiedBytes(acc, PoolSize))
      /\ MemoryTyped(after)
  BY <1>4, <1>6 DEF Copied, FrontKept
<1>8. /\ StillFits(after, mgr, produced, consumed, q, next.queue)
      /\ next.inPoolBuffer \in BOOLEAN
<2>1. PICK k \in Nat, n \in Nat : k = consumed /\ n = produced
  BY <1>3
<2>2. Filled(after, b, k, CopiedBytes(acc, PoolSize))
  BY <2>1, <1>7
<2>3. ManagerFits(mgr, n, Alive) /\ QueueFits(memory, mgr, n, k, q, pos)
  BY <2>1, <1>3
<2>4. /\ StillFits(after, mgr, n, k, q, Require(acc, r, b).queue)
      /\ Require(acc, r, b).inPoolBuffer \in BOOLEAN
  BY <2>2, <2>3, <1>2, <1>4, <1>5, <1>7, RequireFits
<2>5. QED BY <2>1, <2>4
<1>9. PICK new : QueueFits(after, mgr, produced, consumed, next.queue, new)
  BY <1>8 DEF StillFits
<1>10. SlabsOf(next.queue) \subseteq SlabsOf(q)
  BY <1>8 DEF StillFits
<1>11. next \in Accumulators
<2>1. next = [queue |-> next.queue, inPoolBuffer |-> next.inPoolBuffer]
  BY DEF Require
<2>2. next.queue \in Seq(ChunkRecords)
  BY <1>9 DEF QueueFits
<2>3. QED BY <2>1, <2>2, <1>8 DEF Accumulators
<1>12. w.slab \in SlabsOf(next.queue) \cup {0}
  BY <1>3, <1>9, HeadFits
<1>13. PICK alive : alive = KeptAlive(next.queue, w, held)
  OBVIOUS
<1>14. alive \subseteq Alive
<2>1. w.slab \in SlabsOf(q) \cup {0, window.slab}
  BY <1>10, <1>12
<2>2. QED BY <2>1, <1>2, <1>10, <1>13, FewerAlive DEF Alive
<1>15. /\ ManagerFits(m, produced, alive)
       /\ m.bytesToPop = mgr.bytesToPop
       /\ \A s \in alive : Age(m, s) = Age(mgr, s)
  BY <1>3, <1>13, <1>14, GivenBack
<1>16. SlabsOf(next.queue) \subseteq alive /\ \A h \in held : h.chunk.slab \in alive \cup {0}
  BY <1>13, KeptAliveIs
<1>17. QueueFits(after, m, produced, consumed, next.queue, new)
<2>1. \A s \in SlabsOf(next.queue) : Age(m, s) = Age(mgr, s)
  BY <1>15, <1>16
<2>2. QED BY <2>1, <1>9, <1>15, QueueKept
<1>18. ReaderFits(after, m, produced, consumed, next.queue, w)
  BY <1>3, <1>17, HeadFits
<1>19. HeldFits(after, m, produced, held)
<2>1. ASSUME NEW h \in held PROVE after[h.chunk.mem] = memory[h.chunk.mem]
<3>1. h.chunk.mem \in {Ring} \cup PoolBuffers
  BY <1>3 DEF HeldFits, Placed, InRing, InPool
<3>2. QED BY <3>1, <1>4 DEF Copied
<2>2. \A h \in held : h.chunk.slab # 0 => Age(m, h.chunk.slab) = Age(mgr, h.chunk.slab)
  BY <1>15, <1>16
<2>3. QED BY <2>1, <2>2, <1>3, <1>15, HeldKept
<1>20. FrontWritten(after, m, produced)
<2>1. FrontStart(m, produced) = FrontStart(mgr, produced)
  BY <1>15 DEF FrontStart
<2>2. QED BY <2>1, <1>1, <1>7 DEF Facts, FrontWritten
<1>21. Alive' = alive
  BY <1>13 DEF Alive
<1>22. QED BY <1>1, <1>7, <1>11, <1>15, <1>17, <1>18, <1>19, <1>20, <1>21 DEF IInv, Facts

\* preWorkTasks()
LEMMA PreWorkStep == ASSUME IInv, NEW r \in Requirements, PreWork(r) PROVE IInv'
<1>1. window = NullChunk /\ UNCHANGED <<held, produced, consumed>>
  BY DEF PreWork
<1>2. CASE ~MustCopy(acc, r)
<2>1. window' = Head(acc.queue) /\ UNCHANGED <<acc, memory, mgr>>
  BY <1>2 DEF PreWork
<2>2. QED BY <2>1, <1>1, PeekStep
<1>3. CASE MustCopy(acc, r)
<2>1. PICK b : b = Free(acc.queue, held)
  OBVIOUS
<2>2. PICK next : next = Require(acc, r, b)
  OBVIOUS
<2>3. PICK w : w = Head(next.queue)
  OBVIOUS
<2>4. PICK m : m = GiveBack(next.queue, w, held, mgr)
  OBVIOUS
<2>5. /\ acc' = next /\ window' = w /\ mgr' = m
      /\ memory' = [memory EXCEPT ![b] =
            [i \in DOMAIN @ |-> IF i < w.length THEN Content(acc.queue)[i + 1] ELSE @[i]]]
<3> DEFINE used == {c.mem : c \in Range(acc.queue) \cup {h.chunk : h \in held}}
           buffer == CHOOSE x \in PoolBuffers \ used : \A k \in PoolBuffers \ used : x <= k
<3>1. buffer = b
  BY <2>1 DEF Free, UsedBy
<3>2. /\ acc' = Require(acc, r, buffer)
      /\ window' = Head(Require(acc, r, buffer).queue)
      /\ mgr' = GiveBack(Require(acc, r, buffer).queue, Head(Require(acc, r, buffer).queue), held, mgr)
      /\ memory' = [memory EXCEPT ![buffer] =
            [i \in DOMAIN @ |-> IF i < Head(Require(acc, r, buffer).queue).length
                                THEN Content(acc.queue)[i + 1] ELSE @[i]]]
  BY <1>3 DEF PreWork
<3> HIDE DEF buffer
<3>3. /\ acc' = Require(acc, r, b)
      /\ window' = Head(Require(acc, r, b).queue)
      /\ mgr' = GiveBack(Require(acc, r, b).queue, Head(Require(acc, r, b).queue), held, mgr)
      /\ memory' = [memory EXCEPT ![b] =
            [i \in DOMAIN @ |-> IF i < Head(Require(acc, r, b).queue).length
                                THEN Content(acc.queue)[i + 1] ELSE @[i]]]
  BY <3>1, <3>2
<3>4. QED BY <3>3, <2>2, <2>3, <2>4
<2>6. PICK pos : Facts(pos)
  BY FactsOf
<2>7. PICK q : q = acc.queue
  OBVIOUS
<2>8. PICK k \in Nat, n \in Nat : /\ k = consumed /\ n = produced /\ k <= n /\ n <= MaxBytes
                                  /\ ManagerFits(mgr, n, Alive)
                                  /\ QueueFits(memory, mgr, n, k, q, pos)
  BY <2>6, <2>7 DEF Facts
<2>9. MemoryTyped(memory)
  BY <2>6 DEF Facts
<2>10. r \in 1..PoolSize
  BY FlowAssumption
<2>11. PICK x \in Nat : x = CopiedBytes(acc, PoolSize) /\ k + x <= n /\ x <= PoolSize
  BY <2>7, <2>8, <2>10, <1>3, CopiedIs
<2>12. b \in PoolBuffers /\ \A c \in Range(q) : c.mem # b
  BY <2>1, <2>6, <2>7, <2>8, FreeOfQueue DEF Facts
<2>13. w.length = x
<3>1. q \in Seq(ChunkRecords) /\ Len(q) \in Nat /\ Len(q) >= 1
  BY <2>8, FirstTwo
<3>2. q[1] \in Range(q)
  BY <3>1 DEF Range
<3>3. q[1].mem # b
  BY <3>2, <2>12
<3>4. CopyLength(acc, r, b)
<4>1. /\ ManagerFits(mgr, n, Alive) /\ QueueFits(memory, mgr, n, k, q, pos) /\ q = acc.queue
      /\ MemoryTyped(memory) /\ r \in 1..PoolSize /\ b \in PoolBuffers /\ q[1].mem # b
      /\ MustCopy(acc, r)
  BY <2>7, <2>8, <2>9, <2>10, <2>12, <3>3, <1>3
<4>2. QED BY ONLY <4>1, RequireLength
<3>5. QED BY <3>4, <2>2, <2>3, <2>11 DEF CopyLength
<2>14. Content(q) = Stream(k + 1, n - k)
  BY <2>8, ContentIs
<2>15. PICK s : s = Content(q)
  OBVIOUS
<2>16. memory' = [memory EXCEPT ![b] = [i \in DOMAIN @ |-> IF i < x THEN s[i + 1] ELSE @[i]]]
  BY <2>5, <2>7, <2>13, <2>15
<2>17. s = Stream(k + 1, n - k)
  BY <2>14, <2>15
<2>18. Copied(memory, memory', b, k, x)
  BY <2>8, <2>9, <2>11, <2>12, <2>16, <2>17, CopiedMemory
<2>19. Copied(memory, memory', b, consumed, CopiedBytes(acc, PoolSize))
  BY <2>8, <2>11, <2>18
<2>20. QED BY <1>1, <1>3, <2>1, <2>2, <2>3, <2>4, <2>5, <2>19, CopyFits
<1>4. QED BY <1>2, <1>3

\* The chunks that others keep stay in their places when production goes on.
LEMMA HeldCarried ==
    ASSUME NEW m, NEW n \in Nat, NEW alive \in SUBSET Slabs, ManagerFits(m, n, alive),
           m.ready # <<>>, NEW k \in 1..m.front.length, NEW cells, NEW after, NEW next, NEW d,
           Produced(cells, after, m, next, n, k, d), FrontWritten(cells, m, n),
           \A b \in PoolBuffers : after[b] = cells[b],
           \A s \in alive : Age(next, s) = Age(m, s) + d,
           NEW others, HeldFits(cells, m, n, others),
           \A h \in others : h.chunk.slab \in alive \cup {0}
    PROVE  HeldFits(after, next, n + k, others)
<1>1. /\ IsFiniteSet(others) /\ Cardinality(others) <= MaxHeld /\ others \subseteq Keepers
      /\ \A h \in others : Placed(cells, m, n, h.chunk, h.first - 1)
  BY DEF HeldFits
<1>2. ASSUME NEW h \in others PROVE Placed(after, next, n + k, h.chunk, h.first - 1)
<2>1. h.first \in 1..MaxBytes /\ MaxBytes \in Nat
  BY <1>1, FlowAssumption DEF Keepers
<2>2. PICK p \in Nat : p = h.first - 1
  BY <2>1
<2>3. PICK c : c = h.chunk
  OBVIOUS
<2>4. Placed(cells, m, n, c, p) /\ c.slab \in alive \cup {0}
  BY <2>2, <2>3, <1>1
<2>5. Placed(after, next, n + k, c, p)
  BY <2>4, PlacedCarried
<2>6. QED BY <2>2, <2>3, <2>5
<1>3. QED BY <1>1, <1>2 DEF HeldFits

\* What the upstream block writes leaves the pool buffers alone.
Wrote(cells, after, m, n, k) ==
    /\ MemoryTyped(after)
    /\ after[Ring] = Written(cells[Ring], m, n, k)
    /\ \A b \in PoolBuffers : after[b] = cells[b]

\* OutputPort: what the production of k bytes leaves
LEMMA ProduceFits ==
    ASSUME IInv, NEW k \in 1..mgr.front.length, produced + k <= MaxBytes,
           NEW pop, pop = PopSlab(mgr, k),
           NEW after, Wrote(memory, after, mgr, produced, k),
           NEW t, t = IF Head(acc.queue).length = 0 THEN Tail(acc.queue) ELSE acc.queue,
           NEW z, z = DropBack(Amalgamate(Append(t, [mgr.front EXCEPT !.length = k]))),
           NEW m, m = GiveBack(z, window, held, pop),
           acc' = [acc EXCEPT !.queue = z], memory' = after, mgr' = m,
           produced' = produced + k, UNCHANGED <<window, held, consumed>>
    PROVE  IInv'
<1>1. PICK pos : Facts(pos)
  BY FactsOf
<1>2. PICK q : q = acc.queue
  OBVIOUS
<1>3. PICK n \in Nat, l \in Nat :
         /\ n = produced /\ l = consumed /\ q = acc.queue /\ l <= n
         /\ ManagerFits(mgr, n, Alive) /\ Alive \in SUBSET Slabs
         /\ QueueFits(memory, mgr, n, l, q, pos)
         /\ FrontWritten(memory, mgr, n)
         /\ HeldFits(memory, mgr, n, held)
         /\ ReaderFits(memory, mgr, n, l, q, window)
  BY <1>1, <1>2 DEF Facts
<1>4. PICK alive \in SUBSET Slabs : alive = Alive /\ ManagerFits(mgr, n, alive)
  BY <1>3
<1>5. mgr.ready # <<>>
<2>1. ASSUME mgr.ready = <<>> PROVE FALSE
<3>1. mgr.front = NullChunk
  BY <2>1, <1>3 DEF ManagerFits, FrontOf
<3>2. mgr.front.length = 0
  BY <3>1, NullChunkIs DEF NullChunkFacts
<3>3. k \in 1..0
  BY <3>2
<3>4. QED BY <3>3
<2>2. QED BY <2>1
<1>6. PICK s0 : s0 = Head(mgr.ready)
  OBVIOUS
<1>7. PICK d \in 0..1 : /\ ManagerFits(pop, n + k, alive \cup {s0})
                        /\ \A s \in alive \cup {s0} : Age(pop, s) = Age(mgr, s) + d
                        /\ pop.bytesToPop = IF d = 0 THEN mgr.bytesToPop + k ELSE 0
  BY <1>4, <1>5, <1>6, PopAges
<1>8. Produced(memory, after, mgr, pop, n, k, d) /\ \A b \in PoolBuffers : after[b] = memory[b]
  BY <1>3, <1>7 DEF Produced, Wrote
<1>9. /\ SlabsOf(q) \subseteq alive /\ window.slab \in alive \cup {0}
      /\ \A h \in held : h.chunk.slab \in alive \cup {0}
  BY <1>3, <1>4, KeptAliveIs DEF Alive
<1>10. PICK pos2 : TailFits(memory, after, mgr, n, l, t, pos2, alive)
  BY <1>3, <1>4, <1>5, <1>8, <1>9, TailIs
<1>11. /\ \E new : QueueFits(after, pop, n + k, l, z, new)
       /\ SlabsOf(z) \subseteq SlabsOf(t) \cup {s0}
       /\ s0 \in SlabsOf(z)
       /\ t # <<>> /\ t[1].length > 0 => z[1].length >= t[1].length
<2>1. \A s \in alive \cup {Head(mgr.ready)} : Age(pop, s) = Age(mgr, s) + d
  BY <1>6, <1>7
<2>2. Pushed(after, pop, n + k, l, t, z, Head(mgr.ready))
<3>1. /\ ManagerFits(mgr, n, alive) /\ mgr.ready # <<>>
      /\ Produced(memory, after, mgr, pop, n, k, d) /\ FrontWritten(memory, mgr, n)
      /\ TailFits(memory, after, mgr, n, l, t, pos2, alive)
      /\ z = DropBack(Amalgamate(Append(t, [mgr.front EXCEPT !.length = k])))
  BY <1>3, <1>4, <1>5, <1>8, <1>10
<3>2. QED BY ONLY <2>1, <3>1, PushedFits
<2>3. QED BY <2>2, <1>6 DEF Pushed
<1>12. PICK new : QueueFits(after, pop, n + k, l, z, new)
  BY <1>11
<1>13. SlabsOf(t) \subseteq alive
  BY <1>10 DEF TailFits
<1>14. PICK alive2 : alive2 = KeptAlive(z, window, held)
  OBVIOUS
<1>15. /\ SlabsOf(z) \subseteq alive2 /\ window.slab \in alive2 \cup {0}
       /\ \A h \in held : h.chunk.slab \in alive2 \cup {0}
       /\ \A s \in alive2 : s \in SlabsOf(z) \/ s = window.slab \/ \E h \in held : s = h.chunk.slab
       /\ 0 \notin alive2
  BY <1>14, KeptAliveIs
<1>16. alive2 \subseteq alive \cup {s0} /\ s0 \in alive2
  BY <1>9, <1>11, <1>13, <1>15
<1>17. Alive \ alive2 = (alive \cup {s0}) \ alive2
  BY <1>4, <1>16
<1>18. PICK e \in Nat : e = n + k /\ n <= e
  BY <1>3
<1>19. /\ ManagerFits(m, e, alive2)
       /\ m.bytesToPop = pop.bytesToPop
       /\ \A s \in alive2 : Age(m, s) = Age(pop, s)
<2>1. ManagerFits(pop, e, alive \cup {s0})
  BY <1>7, <1>18
<2>2. PICK before : before = alive \cup {s0}
  OBVIOUS
<2>3. /\ ManagerFits(pop, e, before) /\ KeptAlive(z, window, held) \subseteq before
      /\ Alive \ KeptAlive(z, window, held) = before \ KeptAlive(z, window, held)
  BY <2>1, <2>2, <1>14, <1>16, <1>17
<2>4. QED BY <2>3, <1>14, GivenBack
<1>20. QueueFits(after, m, e, l, z, new)
<2>1. \A s \in SlabsOf(z) : Age(m, s) = Age(pop, s)
  BY <1>15, <1>19
<2>2. QueueFits(after, pop, e, l, z, new)
  BY <1>12, <1>18
<2>3. m.bytesToPop = pop.bytesToPop
  BY <1>19
<2>4. QED BY ONLY <2>1, <2>2, <2>3, QueueKept, ZenonT(40)
<1>21. FrontWritten(after, m, e)
<2>1. FrontWritten(after, pop, n + k)
  BY <1>3, <1>4, <1>5, <1>8, FrontCarried
<2>2. FrontStart(m, e) = FrontStart(pop, e)
  BY <1>19 DEF FrontStart
<2>3. QED BY <2>1, <2>2, <1>18 DEF FrontWritten
<1>22. ReaderFits(after, m, e, l, z, window)
<2>1. ASSUME Placed(memory, mgr, n, window, l) PROVE Placed(after, m, e, window, l)
<3>1. Placed(after, pop, n + k, window, l)
  BY <2>1, <1>3, <1>4, <1>5, <1>7, <1>8, <1>9, PlacedCarried
<3>2. window.slab # 0 => Age(m, window.slab) = Age(pop, window.slab)
  BY <1>15, <1>19
<3>3. Placed(after, pop, e, window, l)
  BY <3>1, <1>18
<3>4. QED BY <3>2, <3>3, <1>19, PlacedKept
<2>2. window \in ChunkRecords /\ (window = NullChunk \/ Placed(memory, mgr, n, window, l))
      /\ window.length <= Head(q).length
  BY <1>3 DEF ReaderFits
<2>3. window.length <= Head(z).length
<3>1. /\ z \in Seq(ChunkRecords) /\ z # <<>> /\ Head(z) = z[1] /\ z[1] \in ChunkRecords
  BY <1>18, <1>20, FirstTwo
<3>2. q # <<>> /\ Head(q) = q[1] /\ q[1] \in ChunkRecords
  BY <1>3, FirstTwo
<3>3. PICK x \in Nat, y \in Nat, u \in Nat : x = window.length /\ y = Head(z).length /\ u = Head(q).length
  BY <2>2, <3>1, <3>2 DEF ChunkRecords
<3>4. CASE u = 0
<4>1. x <= u
  BY <2>2, <3>3
<4>2. x <= y
  BY <4>1, <3>3, <3>4
<4>3. QED BY <4>2, <3>3
<3>5. CASE u # 0
<4>1. t = q
  BY <3>3, <3>5, <1>3
<4>2. z[1].length >= t[1].length
<5>1. u > 0
  BY <3>3, <3>5
<5>2. t # <<>> /\ t[1].length > 0
  BY <5>1, <4>1, <3>2, <3>3
<5>3. QED BY <5>2, <1>11
<4>3. y >= u /\ x <= u
  BY <4>1, <4>2, <3>1, <3>2, <3>3, <2>2
<4>4. x <= y
  BY <4>3, <3>3
<4>5. QED BY <4>4, <3>3
<3>6. QED BY <3>4, <3>5
<2>4. QED BY <2>1, <2>2, <2>3 DEF ReaderFits
<1>23. HeldFits(after, m, e, held)
<2>1. HeldFits(after, pop, n + k, held)
  BY <1>3, <1>4, <1>5, <1>7, <1>8, <1>9, HeldCarried
<2>2. HeldFits(after, pop, e, held)
  BY <2>1, <1>18
<2>3. \A h \in held : h.chunk.slab # 0 => Age(m, h.chunk.slab) = Age(pop, h.chunk.slab)
  BY <1>15, <1>19
<2>4. QED BY <2>2, <2>3, <1>19, HeldKept
<1>24. [acc EXCEPT !.queue = z] \in Accumulators /\ [acc EXCEPT !.queue = z].queue = z
<2>1. acc \in Accumulators
  BY <1>1 DEF Facts
<2>2. z \in Seq(ChunkRecords)
  BY <1>20 DEF QueueFits
<2>3. QED BY <2>1, <2>2 DEF Accumulators
<1>25. e \in 0..MaxBytes /\ l \in 0..e
<2>1. PICK M \in Nat : M = MaxBytes
  BY FlowAssumption
<2>2. e <= M /\ l <= n /\ n <= e
  BY <2>1, <1>3, <1>18
<2>3. e \in 0..M /\ l \in 0..e
  BY ONLY <2>2
<2>4. QED BY <2>1, <2>3
<1>26. Alive' = alive2
  BY <1>14, <1>24 DEF Alive
<1>27. MemoryTyped(after)
  BY DEF Wrote
<1>28. QED BY <1>3, <1>18, <1>19, <1>20, <1>21, <1>22, <1>23, <1>24, <1>25, <1>26, <1>27 DEF IInv

LEMMA WroteMemory ==
    ASSUME NEW cells, MemoryTyped(cells), NEW m, m.front.address \in Nat, m.front.length \in Nat,
           NEW n \in Nat, NEW k \in Nat, n + k <= MaxBytes,
           NEW after, after = [cells EXCEPT ![Ring] = Written(@, m, n, k)]
    PROVE  Wrote(cells, after, m, n, k)
<1>1. PICK L \in Nat \ {0}, M \in Nat, F \in Nat, a \in Nat :
         L = RingLength /\ M = MaxBytes /\ F = m.front.length /\ a = m.front.address
  BY Constants, FlowAssumption
<1>2. DOMAIN cells = {Ring} \cup PoolBuffers /\ DOMAIN after = DOMAIN cells
  BY DEF MemoryTyped
<1>3. PICK ring \in [0..(L - 1) -> 0..M] : ring = cells[Ring]
  BY <1>1 DEF MemoryTyped
<1>4. after[Ring] = Written(cells[Ring], m, n, k)
  BY <1>2
<1>5. \A b \in PoolBuffers : after[b] = cells[b]
<2>1. Ring \notin PoolBuffers
  BY FlowAssumption
<2>2. QED BY <2>1, <1>2
<1>6. Written(ring, m, n, k) \in [0..(L - 1) -> 0..M]
<2>1. ASSUME NEW i \in 0..(L - 1), NEW o, o = (i - m.front.address) % RingLength
      PROVE  (IF o < k THEN n + o + 1 ELSE IF o < m.front.length THEN Scribble ELSE ring[i]) \in 0..M
<3>1. i - a \in Int
  BY <1>1
<3>2. (i - a) % L \in 0..(L - 1)
  BY <3>1, ModRange
<3>3. o \in Nat
  BY <3>2, <2>1, <1>1
<3>4. ASSUME o < k PROVE n + o + 1 \in 0..M
<4>1. n + k <= M /\ o < k /\ o \in Nat
  BY <3>3, <3>4, <1>1
<4>2. QED BY ONLY <4>1
<3>5. 0 \in 0..M /\ ring[i] \in 0..M
  BY <1>1, <1>3
<3>6. QED BY <3>4, <3>5 DEF Scribble
<2>2. DOMAIN ring = 0..(L - 1)
  BY <1>3
<2>3. QED BY <2>1, <2>2 DEF Written
<1>7. MemoryTyped(after)
<2>1. after[Ring] \in [0..(RingLength - 1) -> 0..MaxBytes]
  BY <1>1, <1>3, <1>4, <1>6
<2>2. QED BY <2>1, <1>2, <1>5 DEF MemoryTyped
<1>8. QED BY <1>4, <1>5, <1>7 DEF Wrote

LEMMA ProduceStep == ASSUME IInv, NEW k, Produce(k) PROVE IInv'
<1>1. PICK pos : Facts(pos)
  BY FactsOf
<1>2. /\ k \in 1..mgr.front.length /\ produced + k <= MaxBytes
      /\ memory' = [memory EXCEPT ![Ring] = Written(@, mgr, produced, k)]
      /\ produced' = produced + k /\ UNCHANGED <<window, held, consumed>>
  BY DEF Produce, Written
<1>3. PICK t : t = IF Head(acc.queue).length = 0 THEN Tail(acc.queue) ELSE acc.queue
  OBVIOUS
<1>4. PICK z : z = DropBack(Amalgamate(Append(t, [mgr.front EXCEPT !.length = k])))
  OBVIOUS
<1>5. PICK next : next = [acc EXCEPT !.queue = z]
  OBVIOUS
<1>6. next.queue = z
<2>1. acc \in Accumulators
  BY <1>1 DEF Facts
<2>2. QED BY <2>1, <1>5 DEF Accumulators
<1>7. Push(acc, [mgr.front EXCEPT !.length = k]) = next
  BY <1>3, <1>4, <1>5 DEF Push
<1>8. PICK pop : pop = PopSlab(mgr, k)
  OBVIOUS
<1>9. PICK m : m = GiveBack(z, window, held, pop)
  OBVIOUS
<1>10. acc' = next /\ mgr' = m
  BY <1>6, <1>7, <1>8, <1>9 DEF Produce
<1>11. mgr.front \in ChunkRecords
  BY <1>1 DEF Facts, ManagerFits, ManagerRecords
<1>12. mgr.front.address \in Nat /\ mgr.front.length \in Nat
  BY <1>11 DEF ChunkRecords
<1>13. k \in Nat
  BY <1>2, <1>12
<1>14. PICK n \in Nat : n = produced /\ n + k <= MaxBytes /\ MemoryTyped(memory)
  BY <1>1, <1>2 DEF Facts
<1>15. PICK after : after = memory'
  OBVIOUS
<1>16. Wrote(memory, after, mgr, n, k)
  BY <1>2, <1>12, <1>13, <1>14, <1>15, WroteMemory
<1>17. Wrote(memory, after, mgr, produced, k)
  BY <1>14, <1>16
<1>18. QED BY <1>2, <1>3, <1>4, <1>5, <1>8, <1>9, <1>10, <1>15, <1>17, ProduceFits

\* The invariant is inductive.
LEMMA NextIInv == IInv /\ [Next]_vars => IInv'
<1> SUFFICES ASSUME IInv, [Next]_vars PROVE IInv'
  OBVIOUS
<1>1. ASSUME NEW n \in 1..SlabSize, Produce(n) PROVE IInv'
  BY <1>1, ProduceStep
<1>2. ASSUME NEW r \in Requirements, PreWork(r) PROVE IInv'
  BY <1>2, PreWorkStep
<1>3. ASSUME NEW n \in 0..MaxBytes, NEW keep \in BOOLEAN, PostWork(n, keep) PROVE IInv'
  BY <1>3, PostWorkStep
<1>4. ASSUME NEW h \in held, Release(h) PROVE IInv'
  BY <1>4, ReleaseStep
<1>5. CASE UNCHANGED vars
  BY <1>5 DEF vars, IInv, Alive, Accumulators, Keepers, MemoryTyped, ManagerFits, Conserved,
              FrontWritten, QueueFits, ReaderFits, HeldFits
<1>6. QED BY <1>1, <1>2, <1>3, <1>4, <1>5 DEF Next

\* The inductive invariant: every chunk of the queue, of the window and of others is
\* at its place in the stream, in a ring that the slabs it keeps alive protect or
\* in a pool buffer of its own, and ages fall by one from chunk to chunk.
THEOREM AlwaysFits == Spec => []IInv
<1>1. QED BY InitIInv, NextIInv, PTL DEF Spec

(***************************************************************************)
(* What follows from the invariant                                         *)
(***************************************************************************)

\* No slab is ever lost or in two places: each one is ready, waits for its turn
\* or is kept alive by a chunk, and only the front slab may be ready and alive.
THEOREM SlabsAreConserved == Spec => []SlabsConserved
<1>1. ASSUME IInv PROVE SlabsConserved
<2>1. Conserved(mgr, Alive)
  BY <1>1 DEF IInv, ManagerFits
<2>2. QED BY <2>1 DEF Conserved, SlabsConserved, Alive
<1>2. QED BY <1>1, AlwaysFits, PTL

\* The accumulator has exactly the bytes produced and not consumed, in order,
\* through the wrap of the ring, merging, copying and moving back.
THEOREM StreamStaysIntact == Spec => []StreamIntact
<1>1. ASSUME IInv PROVE StreamIntact
<2>1. PICK pos : Facts(pos)
  BY <1>1, FactsOf
<2>2. /\ QueueFits(memory, mgr, produced, consumed, acc.queue, pos)
      /\ produced \in Nat /\ consumed \in Nat
  BY <2>1 DEF Facts
<2>3. Content(acc.queue) = Stream(consumed + 1, produced - consumed)
  BY <2>2, ContentIs
<2>4. QED BY <2>3 DEF StreamIntact
<1>2. QED BY <1>1, AlwaysFits, PTL

\* Nobody writes into what a reader has in its hands: not the upstream block
\* into its front slab, not the accumulator into its pool buffers.
THEOREM NobodyDisturbsReaders == Spec => []ReadersUndisturbed
<1>1. ASSUME IInv PROVE ReadersUndisturbed
<2>1. PICK pos : Facts(pos)
  BY <1>1, FactsOf
<2>2. /\ produced \in Nat /\ consumed \in Nat
      /\ ReaderFits(memory, mgr, produced, consumed, acc.queue, window)
      /\ HeldFits(memory, mgr, produced, held)
  BY <2>1 DEF Facts
<2>3. Bytes(window) = Stream(consumed + 1, window.length)
<3>1. CASE window = NullChunk
<4>1. window.length = 0
  BY <3>1, NullChunkIs DEF NullChunkFacts
<4>2. \A i \in 1..0 : FALSE
  OBVIOUS
<4>3. Bytes(window) = <<>> /\ Stream(consumed + 1, window.length) = <<>>
  BY <4>1, <4>2 DEF Bytes, Stream
<4>4. QED BY <4>3
<3>2. CASE Placed(memory, mgr, produced, window, consumed)
  BY <3>2, <2>2, PlacedBytes
<3>3. QED BY <2>2, <3>1, <3>2 DEF ReaderFits
<2>4. ASSUME NEW h \in held PROVE Bytes(h.chunk) = Stream(h.first, h.chunk.length)
<3>1. h.first \in 1..MaxBytes /\ MaxBytes \in Nat
  BY <2>2, FlowAssumption DEF HeldFits, Keepers
<3>2. PICK p \in Nat : p = h.first - 1 /\ h.first = p + 1
  BY <3>1
<3>3. Placed(memory, mgr, produced, h.chunk, p)
  BY <3>2, <2>2 DEF HeldFits
<3>4. Bytes(h.chunk) = Stream(p + 1, h.chunk.length)
  BY <3>3, <2>2, PlacedBytes
<3>5. QED BY <3>2, <3>4
<2>5. QED BY <2>3, <2>4 DEF ReadersUndisturbed
<1>2. QED BY <1>1, AlwaysFits, PTL

\* Once all is consumed and nobody keeps a chunk, the upstream block can go on:
\* the slab whose turn it is cannot be kept by an empty chunk of the queue.
THEOREM NobodyStarves == Spec => []NeverStarved
<1>1. ASSUME IInv, Available(acc) = 0, window = NullChunk, held = {}
      PROVE  mgr.front.length > 0
<2>1. PICK pos : Facts(pos)
  BY <1>1, FactsOf
<2>2. PICK q : q = acc.queue
  OBVIOUS
<2>3. PICK n \in Nat, l \in Nat :
         /\ n = produced /\ l = consumed /\ q = acc.queue
         /\ ManagerFits(mgr, n, Alive) /\ QueueFits(memory, mgr, n, l, q, pos)
  BY <2>1, <2>2 DEF Facts
<2>4. ASSUME mgr.ready # <<>> PROVE mgr.front.length > 0
<3>1. mgr.front.length = SlabSize - mgr.bytesToPop /\ mgr.bytesToPop \in 0..(SlabSize - 1)
  BY <2>3, <2>4, FrontFacts
<3>2. SlabSize \in Nat
  BY Constants
<3>3. QED BY <3>1, <3>2
<2>5. /\ q \in Seq(ChunkRecords) /\ Len(q) \in Nat /\ Len(q) >= 1
      /\ q[1] \in ChunkRecords /\ pos[1] = l /\ l <= n
      /\ pos[2] = l + q[1].length /\ pos[2] \in 0..n
      /\ Len(q) >= 2 => /\ q[2] \in ChunkRecords
                        /\ pos[3] = pos[2] + q[2].length /\ pos[3] \in 0..n
  BY <2>3, FirstTwo
<2>6. n - l = 0
<3>1. Positions(q, pos, l, n)
  BY <2>3 DEF QueueFits
<3>2. \A i \in 1..(Len(q) + 1) : BytesFrom(q, i) = n - pos[i]
<4>1. q \in Seq(ChunkRecords) /\ Positions(q, pos, l, n)
  BY <3>1, <2>5
<4>2. QED BY ONLY <4>1, PositionsBytes
<3>3. 1 \in 1..(Len(q) + 1)
  BY <2>5
<3>4. BytesFrom(q, 1) = n - l
  BY <3>2, <3>3, <2>5
<3>5. QED BY <3>4, <1>1, <2>3 DEF Available
<2>7. q[1].length = 0 /\ (Len(q) >= 2 => q[2].length = 0)
<3>1. q[1].length \in Nat /\ (Len(q) >= 2 => q[2].length \in Nat)
  BY <2>5 DEF ChunkRecords
<3>2. n = l
  BY <2>6
<3>3. q[1].length = 0 /\ pos[2] = n
  BY <2>5, <3>1, <3>2
<3>4. ASSUME Len(q) >= 2 PROVE q[2].length = 0
  BY <2>5, <3>1, <3>3, <3>4
<3>5. QED BY <3>3, <3>4
<2>8. ASSUME mgr.ready = <<>> PROVE FALSE
<3>1. PICK s \in Slabs : s = mgr.indexToAck /\ s \in Alive
<4>1. /\ mgr.indexToAck \in Slabs /\ mgr.indexToAck \notin mgr.pushed
      /\ Range(mgr.ready) \cup mgr.pushed \cup Alive = Slabs
  BY <2>3 DEF ManagerFits, Conserved, ManagerRecords
<4>2. Range(mgr.ready) = {}
  BY <2>8 DEF Range
<4>3. QED BY <4>1, <4>2
<3>2. s \in SlabsOf(q) /\ s # 0
<4>1. window.slab = 0
  BY <1>1, NullChunkIs DEF NullChunkFacts
<4>2. s # 0 /\ (s \in SlabsOf(q) \/ s = window.slab)
  BY <3>1, <1>1, <2>3, KeptAliveIs DEF Alive
<4>3. QED BY <4>1, <4>2
<3>3. PICK i \in 1..Len(q) : q[i].slab = s
<4>1. \E c \in Range(q) : c.slab = s
  BY <3>2 DEF SlabsOf
<4>2. DOMAIN q = 1..Len(q)
  BY <2>5
<4>3. QED BY <4>1, <4>2 DEF Range
<3>4. \A j \in 1..Len(q) : /\ q[j].mem = Ring => InRing(memory, mgr, n, q[j], pos[j])
                           /\ j >= 2 => q[j].mem = Ring
  BY <2>3, RingChunk
<3>5. q[i].mem = Ring
<4>1. CASE i = 1
<5>1. q = <<NullChunk>> \/ Placed(memory, mgr, n, q[1], pos[1])
  BY <2>3 DEF QueueFits, QueuePlaced
<5>2. q # <<NullChunk>>
<6>1. q = <<NullChunk>> => q[1].slab = 0
  BY NullChunkIs DEF NullChunkFacts
<6>2. QED BY <6>1, <4>1, <3>2, <3>3
<5>3. QED BY <5>1, <5>2, <4>1, <3>2, <3>3 DEF Placed, InRing, InPool
<4>2. CASE i >= 2
  BY <4>2, <3>4
<4>3. QED BY <4>1, <4>2
<3>6. Age(mgr, s) = NumSlabs
<4>1. s \in 1..NumSlabs /\ NumSlabs \in Nat
  BY Constants
<4>2. ~(s < s) /\ s - s + NumSlabs = NumSlabs
  BY <4>1
<4>3. QED BY <4>2, <3>1, <2>8 DEF Age
<3>7. Chained(mgr, q, pos)
  BY <2>3 DEF QueueFits
<3>8. NumSlabs \in Nat
  BY Constants
<3>9. CASE i = 1
<4>1. Age(mgr, q[1].slab) < NumSlabs
  BY <3>5, <3>7, <3>9, <2>7 DEF Chained
<4>2. QED BY <4>1, <3>3, <3>6, <3>8, <3>9
<3>10. CASE i >= 2
<4>1. q[1].mem = Ring
  BY <3>7, <3>10, <2>5, <2>7 DEF Chained
<4>2. PICK j \in 1..(Len(q) - 1) : i = j + 1
  BY <3>10, <2>5
<4>3. j \in 1..Len(q) /\ (j = 1 \/ j >= 2)
  BY <2>5
<4>4. q[j].mem = Ring
  BY <4>1, <4>3, <3>4
<4>5. Age(mgr, q[j].slab) = Age(mgr, q[j + 1].slab) + 1
  BY <4>4, <3>7 DEF Chained
<4>6. Age(mgr, q[j].slab) = NumSlabs + 1
  BY <4>2, <4>5, <3>3, <3>6
<4>7. q[j].slab \in Slabs
  BY <4>3, <4>4, <3>4 DEF InRing
<4>8. Age(mgr, q[j].slab) \in 0..NumSlabs
  BY <4>7, <2>3, AgeIsInt
<4>9. QED BY <4>6, <4>8, <3>8
<3>11. QED BY <3>9, <3>10
<2>9. QED BY <2>4, <2>8
<1>2. IInv => NeverStarved
  BY <1>1 DEF NeverStarved
<1>3. QED BY <1>2, AlwaysFits, PTL

\* Where a chunk in its place can be
LEMMA PlacedChunk ==
    ASSUME NEW cells, NEW m, NEW n \in Nat, n <= MaxBytes, NEW alive, ManagerFits(m, n, alive),
           NEW c, NEW p \in Nat, Placed(cells, m, n, c, p)
    PROVE  c \in Chunks
<1>1. /\ c \in ChunkRecords /\ c.address \in Nat /\ c.length \in Nat /\ c.base \in Nat
      /\ c.size \in Nat /\ c.slab \in Slabs \cup {0} /\ p + c.length <= n
  BY DEF Placed, InRing, InPool, ChunkRecords
<1>2. PICK x \in Nat, y \in Nat, b \in Nat, M \in Nat :
         x = c.address /\ y = c.length /\ b = c.base /\ M = MaxBytes /\ p + y <= n /\ n <= M
  BY <1>1, FlowAssumption
<1>3. y \in 0..M
<2>1. p + y <= n /\ n <= M
  BY <1>2
<2>2. QED BY ONLY <2>1
<1>4. PICK L \in Nat, S \in Nat, P \in Nat, N \in Nat :
         /\ L = RingLength /\ S = SlabSize /\ P = PoolSize /\ N = NumSlabs
         /\ L >= 1 /\ S >= 1 /\ L = N * S
  BY Constants, SlabAssumption
<1>5. CASE InRing(cells, m, n, c, p)
<2>1. /\ c.mem = Ring /\ c.slab \in Slabs /\ c.size = SlabSize /\ b <= x
      /\ Start(c, p) = p - (x - b)
      /\ Start(c, p) \in 0..FrontStart(m, n)
      /\ b = Start(c, p) % RingLength
      /\ FrontStart(m, n) - Start(c, p) <= Age(m, c.slab) * SlabSize
  BY <1>2, <1>5 DEF InRing, Start
<2>2. PICK t \in Int, f \in Int, e \in Nat :
         /\ t = Start(c, p) /\ t = p - (x - b) /\ f = n - e /\ f = FrontStart(m, n)
         /\ e = m.bytesToPop /\ e <= S - 1 /\ (m.ready = <<>> => e = 0)
<3>1. m.bytesToPop \in 0..(SlabSize - 1) /\ (m.ready = <<>> => m.bytesToPop = 0)
  BY DEF ManagerFits, ManagerRecords
<3>2. m.bytesToPop \in Nat /\ m.bytesToPop <= S - 1
  BY <3>1, <1>4
<3>3. PICK e \in Nat : e = m.bytesToPop /\ e <= S - 1
  BY <3>2
<3>4. PICK t \in Int : t = p - (x - b)
  OBVIOUS
<3>5. PICK f \in Int : f = n - e
  OBVIOUS
<3>6. QED BY <3>1, <3>3, <3>4, <3>5, <2>1 DEF FrontStart
<2>3. b <= L
<3>1. t % L \in 0..(L - 1)
  BY <1>4, ModRange
<3>2. b \in 0..(L - 1)
  BY <3>1, <2>1, <2>2, <1>4
<3>3. QED BY <3>2, <1>4
<2>4. n - t <= L
<3>1. CASE m.ready # <<>>
<4>1. Age(m, c.slab) \in 0..NumSlabs /\ Age(m, c.slab) <= NumSlabs - 1
  BY <3>1, <2>1, AgeIsInt
<4>2. PICK a \in Int : a = Age(m, c.slab) /\ a <= NumSlabs - 1
  BY <4>1, <1>4
<4>3. a * SlabSize \in Int /\ a * SlabSize <= RingLength - SlabSize
  BY <4>2, AgeBound
<4>4. PICK g \in Int : g = a * SlabSize
  BY <4>3
<4>5. f - t <= g /\ g <= L - S /\ f = n - e /\ e <= S - 1
  BY <4>2, <4>3, <4>4, <2>1, <2>2, <1>4
<4>6. QED BY ONLY <4>5, L \in Nat, S \in Nat, e \in Nat, n \in Nat, g \in Int, t \in Int
<3>2. CASE m.ready = <<>>
<4>1. Age(m, c.slab) \in 0..NumSlabs
  BY <2>1, AgeIsInt
<4>2. PICK a \in Nat : a = Age(m, c.slab) /\ a <= N
  BY <4>1, <1>4
<4>3. a * S <= L /\ a * S \in Int
<5>1. CASE a <= N - 1
<6>1. a * SlabSize \in Int /\ a * SlabSize <= RingLength - SlabSize
  BY <5>1, <1>4, AgeBound
<6>2. QED BY <6>1, <1>4
<5>2. CASE a = N
  BY <5>2, <1>4
<5>3. QED BY <5>1, <5>2, <4>2
<4>4. PICK g \in Int : g = a * S
  BY <4>3
<4>5. f - t <= g /\ g <= L /\ f = n - e /\ e = 0
  BY <3>2, <4>2, <4>3, <4>4, <2>1, <2>2, <1>4
<4>6. QED BY ONLY <4>5, L \in Nat, e \in Nat, n \in Nat, g \in Int, t \in Int
<3>3. QED BY <3>1, <3>2
<2>5. x \in 0..(2 * L)
<3>1. t = p - (x - b) /\ n - t <= L /\ b <= L /\ p + y <= n
  BY <2>2, <2>3, <2>4, <1>2
<3>2. x <= L + L
  BY ONLY <3>1, t \in Int, p \in Nat, x \in Nat, b \in Nat, y \in Nat, n \in Nat, L \in Nat
<3>3. QED BY <3>2
<2>6. b \in 0..L
  BY <2>3
<2>7. c = [mem |-> c.mem, address |-> c.address, length |-> c.length, base |-> c.base,
           size |-> c.size, slab |-> c.slab]
  BY <1>1 DEF ChunkRecords
<2>8. QED BY <2>1, <2>5, <2>6, <2>7, <1>2, <1>3, <1>4 DEF Chunks
<1>6. CASE InPool(cells, n, c, p)
<2>1. c.mem \in PoolBuffers /\ c.slab = 0 /\ c.size = PoolSize /\ b = 0 /\ x + y <= P
  BY <1>2, <1>4, <1>6 DEF InPool
<2>2. x \in 0..P /\ b \in 0..L
  BY <2>1
<2>3. c = [mem |-> c.mem, address |-> c.address, length |-> c.length, base |-> c.base,
           size |-> c.size, slab |-> c.slab]
  BY <1>1 DEF ChunkRecords
<2>4. QED BY <2>1, <2>2, <2>3, <1>2, <1>3, <1>4 DEF Chunks
<1>7. QED BY <1>5, <1>6 DEF Placed

LEMMA NullIsChunk == NullChunk \in Chunks
<1>1. PICK L \in Nat, P \in Nat, M \in Nat : L = RingLength /\ P = PoolSize /\ M = MaxBytes
  BY Constants, FlowAssumption
<1>2. 0 \in 0..(2 * L) /\ 0 \in 0..M /\ 0 \in 0..L
  BY <1>1
<1>3. QED BY <1>1, <1>2 DEF NullChunk, Chunks

LEMMA FrontIsChunk ==
    ASSUME NEW m, NEW n \in Nat, NEW alive, ManagerFits(m, n, alive)
    PROVE  m.front \in Chunks
<1>1. CASE m.ready = <<>>
  BY <1>1, NullIsChunk DEF ManagerFits, FrontOf
<1>2. CASE m.ready # <<>>
<2>1. /\ m.bytesToPop \in 0..(SlabSize - 1) /\ m.frontAddress \in 0..(RingLength - 1)
      /\ m.front = [mem |-> Ring, address |-> m.frontAddress + m.bytesToPop,
                    length |-> SlabSize - m.bytesToPop,
                    base |-> m.frontAddress, size |-> SlabSize, slab |-> Head(m.ready)]
  BY <1>2, FrontFacts
<2>2. PICK L \in Nat, S \in Nat : L = RingLength /\ S = SlabSize /\ S <= L
  BY Constants
<2>3. PICK a \in Nat, e \in Nat : a = m.frontAddress /\ e = m.bytesToPop /\ a <= L /\ e <= S
  BY <2>1, <2>2
<2>4. a + e \in 0..(2 * L) /\ S - e \in 0..S /\ a \in 0..L
<3>1. a <= L /\ e <= S /\ S <= L
  BY <2>2, <2>3
<3>2. a + e <= L + L /\ S - e >= 0 /\ S - e <= S
  BY ONLY <3>1, a \in Nat, e \in Nat, S \in Nat, L \in Nat
<3>3. QED BY <3>2, <2>3
<2>5. Head(m.ready) \in Slabs
<3>1. m.ready \in Seq(Slabs)
  BY DEF ManagerFits, ManagerRecords
<3>2. QED BY <3>1, <1>2
<2>6. QED BY <2>1, <2>2, <2>3, <2>4, <2>5 DEF Chunks
<1>3. QED BY <1>1, <1>2

\* Types, and what pop() asserts: the front slab begins inside the ring and
\* never gives more than it has.
THEOREM TypesAreCorrect == Spec => []TypeOK
<1>1. ASSUME IInv PROVE TypeOK
<2>1. PICK pos : Facts(pos)
  BY <1>1, FactsOf
<2>2. PICK q : q = acc.queue
  OBVIOUS
<2>3. PICK n \in Nat, l \in Nat :
         /\ n = produced /\ l = consumed /\ q = acc.queue /\ n <= MaxBytes
         /\ ManagerFits(mgr, n, Alive) /\ QueueFits(memory, mgr, n, l, q, pos)
         /\ ReaderFits(memory, mgr, n, l, q, window)
         /\ HeldFits(memory, mgr, n, held)
  BY <2>1, <2>2 DEF Facts
<2>4. mgr \in [ready : Seq(Slabs), pushed : SUBSET Slabs, indexToAck : Slabs,
               frontAddress : 0..(RingLength - 1), bytesToPop : 0..(SlabSize - 1),
               front : Chunks]
<3>1. mgr.front \in Chunks
  BY <2>3, FrontIsChunk
<3>2. mgr \in ManagerRecords
  BY <2>3 DEF ManagerFits
<3>3. QED BY <3>1, <3>2 DEF ManagerRecords
<2>5. q \in Seq(Chunks) /\ q # <<>>
<3>1. q \in Seq(ChunkRecords) /\ q # <<>> /\ Len(q) \in Nat
  BY <2>3, FirstTwo
<3>2. ASSUME NEW i \in 1..Len(q) PROVE q[i] \in Chunks
<4>1. pos[i] \in Nat
<5>1. Positions(q, pos, l, n)
  BY <2>3 DEF QueueFits
<5>2. i \in 1..(Len(q) + 1)
  BY <3>1
<5>3. QED BY <5>1, <5>2 DEF Positions
<4>2. CASE q = <<NullChunk>>
<5>1. i = 1
  BY <4>2
<5>2. QED BY <4>2, <5>1, NullIsChunk
<4>3. CASE q # <<NullChunk>>
<5>1. Placed(memory, mgr, n, q[i], pos[i])
<6>1. i = 1 \/ i \in 2..Len(q)
  BY <3>1
<6>2. QED BY <6>1, <4>3, <2>3 DEF QueueFits, QueuePlaced, Placed
<5>2. QED BY <5>1, <4>1, <2>3, PlacedChunk
<4>4. QED BY <4>2, <4>3
<3>3. q = [i \in 1..Len(q) |-> q[i]]
  BY <3>1
<3>4. QED BY <3>1, <3>2, <3>3
<2>6. window \in Chunks
  BY <2>3, PlacedChunk, NullIsChunk DEF ReaderFits
<2>7. held \subseteq [chunk : Chunks, first : 1..MaxBytes]
<3>1. ASSUME NEW h \in held PROVE h \in [chunk : Chunks, first : 1..MaxBytes]
<4>1. h \in Keepers /\ Placed(memory, mgr, n, h.chunk, h.first - 1)
  BY <2>3 DEF HeldFits
<4>2. h.first \in 1..MaxBytes /\ MaxBytes \in Nat
  BY <4>1, FlowAssumption DEF Keepers
<4>3. PICK p \in Nat : p = h.first - 1
  BY <4>2
<4>4. h.chunk \in Chunks
  BY <4>1, <4>3, <2>3, PlacedChunk
<4>5. QED BY <4>1, <4>4 DEF Keepers
<3>2. QED BY <3>1
<2>8. acc.inPoolBuffer \in BOOLEAN
  BY <2>1 DEF Facts, Accumulators
<2>9. QED BY <1>1, <2>3, <2>4, <2>5, <2>6, <2>7, <2>8 DEF TypeOK, IInv, MemoryTyped
<1>2. QED BY <1>1, AlwaysFits, PTL

(***************************************************************************)
(* Returns of slabs, one after the other or all at once                    *)
(***************************************************************************)

\* Only one sequence of slabs may have been acknowledged.
LEMMA AckedUnique ==
    ASSUME NEW m, m.indexToAck \in Slabs, NEW pushed \in SUBSET Slabs, NEW c \in 0..NumSlabs,
           \A i \in 0..(c - 1) : InTurn(m, i) \in pushed,
           c < NumSlabs => InTurn(m, c) \notin pushed
    PROVE  Acked(m, pushed) = [i \in 1..c |-> InTurn(m, i - 1)]
<1>1. PICK d \in 0..NumSlabs :
        /\ \A i \in 0..(d - 1) : InTurn(m, i) \in pushed
        /\ d < NumSlabs => InTurn(m, d) \notin pushed
        /\ Acked(m, pushed) = [i \in 1..d |-> InTurn(m, i - 1)]
  BY AckedIs
<1>2. CASE d < c
<2>1. d \in 0..(c - 1) /\ d < NumSlabs
  BY <1>2, Constants
<2>2. QED BY <2>1, <1>1
<1>3. CASE c < d
<2>1. c \in 0..(d - 1) /\ c < NumSlabs
  BY <1>3, Constants
<2>2. QED BY <2>1, <1>1
<1>4. CASE c = d
  BY <1>1, <1>4
<1>5. c \in Int /\ d \in Int
  OBVIOUS
<1>6. QED BY <1>2, <1>3, <1>4, <1>5

\* Slabs at different places behind the one whose turn it is are different.
LEMMA InTurnInjective ==
    ASSUME NEW m, m.indexToAck \in Slabs, NEW i \in 0..(NumSlabs - 1), NEW j \in 0..(NumSlabs - 1),
           InTurn(m, i) = InTurn(m, j)
    PROVE  i = j
<1>1. PICK t \in 1..NumSlabs : t = m.indexToAck
  BY Constants
<1>2. NumSlabs \in Nat /\ i \in 0..NumSlabs /\ j \in 0..NumSlabs
  BY Constants
<1>3. /\ InTurn(m, i) = IF t + i <= NumSlabs THEN t + i ELSE t + i - NumSlabs
      /\ InTurn(m, j) = IF t + j <= NumSlabs THEN t + j ELSE t + j - NumSlabs
  BY <1>1, <1>2, InTurnIs
<1>4. (IF t + i <= NumSlabs THEN t + i ELSE t + i - NumSlabs)
          = (IF t + j <= NumSlabs THEN t + j ELSE t + j - NumSlabs)
  BY <1>3
<1>5. QED BY ONLY <1>2, <1>4

\* A manager after slabs were pushed, with the slabs that became ready
LEMMA PushedIs ==
    ASSUME NEW m \in ManagerRecords, NEW A \in SUBSET Slabs
    PROVE  LET pushed == m.pushed \cup A
               run == Acked(m, pushed)
               r == PushSlabs(m, A)
           IN  /\ run \in Seq(Slabs) /\ Len(run) \in 0..NumSlabs
               /\ \A i \in 1..Len(run) : run[i] = InTurn(m, i - 1) /\ run[i] \in pushed
               /\ Len(run) < NumSlabs => InTurn(m, Len(run)) \notin pushed
               /\ r \in ManagerRecords
               /\ r = [m EXCEPT !.ready = m.ready \o run, !.pushed = pushed \ Range(run),
                                !.indexToAck = InTurn(m, Len(run)),
                                !.front = IF m.ready = <<>>
                                          THEN CircFront(m.ready \o run, m.frontAddress) ELSE m.front]
               /\ r.ready = m.ready \o run /\ r.pushed = pushed \ Range(run)
               /\ r.indexToAck = InTurn(m, Len(run)) /\ r.frontAddress = m.frontAddress
               /\ r.front = IF m.ready = <<>>
                            THEN CircFront(m.ready \o run, m.frontAddress) ELSE m.front
<1> DEFINE pushed == m.pushed \cup A
           run == Acked(m, pushed)
           r == PushSlabs(m, A)
<1>1. /\ m.ready \in Seq(Slabs) /\ m.pushed \in SUBSET Slabs /\ m.indexToAck \in Slabs
      /\ pushed \in SUBSET Slabs /\ m.frontAddress \in 0..(RingLength - 1)
      /\ m.front \in ChunkRecords
  BY DEF ManagerRecords
<1>2. PICK c \in 0..NumSlabs :
        /\ \A i \in 0..(c - 1) : InTurn(m, i) \in pushed
        /\ c < NumSlabs => InTurn(m, c) \notin pushed
        /\ run = [i \in 1..c |-> InTurn(m, i - 1)]
  BY <1>1, AckedIs
<1>3. c \in Nat /\ c <= NumSlabs /\ NumSlabs \in Nat
  BY Constants
<1>4. ASSUME NEW k \in 0..NumSlabs PROVE InTurn(m, k) \in Slabs
<2>1. PICK t \in 1..NumSlabs : t = m.indexToAck
  BY <1>1, Constants
<2>2. InTurn(m, k) = IF t + k <= NumSlabs THEN t + k ELSE t + k - NumSlabs
  BY <1>1, <2>1, InTurnIs
<2>3. QED BY <2>2, <1>3, Constants
<1>5. \A i \in 1..c : i - 1 \in 0..NumSlabs /\ i - 1 \in 0..(c - 1)
  BY <1>3
<1>6. run \in [1..c -> Slabs]
  BY <1>2, <1>4, <1>5
<1>7. \A i \in 1..c : run[i] = InTurn(m, i - 1) /\ run[i] \in pushed
  BY <1>2, <1>5
<1> HIDE DEF run, pushed
<1>8. run \in Seq(Slabs) /\ DOMAIN run = 1..c
  BY <1>6, <1>3
<1>9. Len(run) = c
  BY <1>8, <1>3, LenProperties
<1>10. m.ready \o run \in Seq(Slabs)
  BY <1>1, <1>8, ConcatProperties
<1>11. PICK f \in ChunkRecords :
         f = IF m.ready = <<>> THEN CircFront(m.ready \o run, m.frontAddress) ELSE m.front
  BY <1>1, <1>10, CircFrontIs
<1>12. PICK t \in Slabs : t = InTurn(m, c)
  BY <1>4
<1>13. r = [m EXCEPT !.ready = m.ready \o run, !.pushed = pushed \ Range(run),
                     !.indexToAck = t, !.front = f]
  BY <1>1, <1>9, <1>11, <1>12 DEF PushSlabs, StillPushed, ManagerRecords, run, pushed
<1>14. pushed \ Range(run) \in SUBSET Slabs
  BY <1>1
<1> HIDE DEF r
<1>15. /\ r \in ManagerRecords /\ r.ready = m.ready \o run /\ r.pushed = pushed \ Range(run)
       /\ r.indexToAck = t /\ r.frontAddress = m.frontAddress /\ r.front = f
  BY <1>1, <1>10, <1>13, <1>14 DEF ManagerRecords
<1>16. QED
<2>1. Len(run) \in 0..NumSlabs /\ (Len(run) < NumSlabs => InTurn(m, Len(run)) \notin pushed)
  BY <1>2, <1>9
<2>2. QED BY <2>1, <1>8, <1>9, <1>7, <1>11, <1>12, <1>13, <1>15 DEF r, run, pushed

\* Nothing but the order in which slabs come back is lost by giving them back at
\* once: pushing some and then others is pushing all of them (OrderedQueue), so
\* that any order of the pushes leads to the same manager.
THEOREM OrderOfReturns ==
    ASSUME NEW m \in ManagerRecords, NEW A \in SUBSET Slabs, NEW B \in SUBSET Slabs,
           B \cap (A \cup m.pushed) = {}
    PROVE  PushSlabs(PushSlabs(m, A), B) = PushSlabs(m, A \cup B)
<1> DEFINE P == m.pushed \cup A
           s == PushSlabs(m, A)
           Q == s.pushed \cup B
           R == m.pushed \cup (A \cup B)
           x == Acked(m, P)
           y == Acked(s, Q)
           z == Acked(m, R)
<1>1. /\ m.ready \in Seq(Slabs) /\ m.pushed \in SUBSET Slabs /\ m.indexToAck \in Slabs
      /\ R \in SUBSET Slabs /\ m.front \in ChunkRecords
  BY DEF ManagerRecords
<1>2. /\ x \in Seq(Slabs) /\ Len(x) \in 0..NumSlabs
      /\ \A i \in 1..Len(x) : x[i] = InTurn(m, i - 1) /\ x[i] \in P
      /\ Len(x) < NumSlabs => InTurn(m, Len(x)) \notin P
      /\ s \in ManagerRecords
      /\ s = [m EXCEPT !.ready = m.ready \o x, !.pushed = P \ Range(x),
                       !.indexToAck = InTurn(m, Len(x)),
                       !.front = IF m.ready = <<>>
                                 THEN CircFront(m.ready \o x, m.frontAddress) ELSE m.front]
      /\ s.ready = m.ready \o x /\ s.pushed = P \ Range(x)
      /\ s.indexToAck = InTurn(m, Len(x)) /\ s.frontAddress = m.frontAddress
      /\ s.front = IF m.ready = <<>> THEN CircFront(m.ready \o x, m.frontAddress) ELSE m.front
  BY PushedIs
<1> HIDE DEF s
<1>3. /\ y \in Seq(Slabs) /\ Len(y) \in 0..NumSlabs
      /\ \A i \in 1..Len(y) : y[i] = InTurn(s, i - 1) /\ y[i] \in Q
      /\ Len(y) < NumSlabs => InTurn(s, Len(y)) \notin Q
      /\ PushSlabs(s, B) \in ManagerRecords
      /\ PushSlabs(s, B) = [s EXCEPT !.ready = s.ready \o y, !.pushed = Q \ Range(y),
                       !.indexToAck = InTurn(s, Len(y)),
                       !.front = IF s.ready = <<>>
                                 THEN CircFront(s.ready \o y, s.frontAddress) ELSE s.front]
<2>1. s \in ManagerRecords
  BY <1>2
<2>2. QED BY ONLY <2>1, PushedIs
<1>4. /\ z \in Seq(Slabs) /\ Len(z) \in 0..NumSlabs
      /\ PushSlabs(m, A \cup B) = [m EXCEPT !.ready = m.ready \o z, !.pushed = R \ Range(z),
                       !.indexToAck = InTurn(m, Len(z)),
                       !.front = IF m.ready = <<>>
                                 THEN CircFront(m.ready \o z, m.frontAddress) ELSE m.front]
<2>1. A \cup B \in SUBSET Slabs
  OBVIOUS
<2>2. QED BY <2>1, PushedIs
<1> HIDE DEF x, y, z
<1>5. PICK c \in 0..NumSlabs, d \in 0..NumSlabs : c = Len(x) /\ d = Len(y)
  BY <1>2, <1>3
<1>6. NumSlabs \in Nat /\ c \in Nat /\ d \in Nat /\ c <= NumSlabs /\ d <= NumSlabs
  BY Constants
\* The place k behind the new turn is the place c + k behind the old one.
<1>7. ASSUME NEW k \in 0..NumSlabs, c + k <= NumSlabs PROVE InTurn(s, k) = InTurn(m, c + k)
<2>1. PICK t \in 1..NumSlabs : t = m.indexToAck
  BY <1>1, Constants
<2>2. s.indexToAck = IF t + c <= NumSlabs THEN t + c ELSE t + c - NumSlabs
  BY <1>1, <1>2, <1>5, <2>1, InTurnIs
<2>3. PICK u \in 1..NumSlabs : u = s.indexToAck
  BY <1>2, Constants DEF ManagerRecords
<2>4. InTurn(s, k) = IF u + k <= NumSlabs THEN u + k ELSE u + k - NumSlabs
  BY <2>3, Constants, InTurnIs
<2>5. c + k \in 0..NumSlabs
  BY <1>6, <1>7
<2>6. InTurn(m, c + k) = IF t + (c + k) <= NumSlabs THEN t + (c + k) ELSE t + (c + k) - NumSlabs
  BY <1>1, <2>1, <2>5, InTurnIs
<2>7. u = IF t + c <= NumSlabs THEN t + c ELSE t + c - NumSlabs
  BY <2>2, <2>3
<2>8. (IF u + k <= NumSlabs THEN u + k ELSE u + k - NumSlabs)
          = IF t + (c + k) <= NumSlabs THEN t + (c + k) ELSE t + (c + k) - NumSlabs
  BY ONLY <1>6, <1>7, <2>7
<2>9. QED BY <2>4, <2>6, <2>8
<1>8. Range(x) = {InTurn(m, i) : i \in 0..(c - 1)} /\ Range(x) \subseteq P
<2>1. Range(x) = {x[i] : i \in 1..c}
  BY <1>2, <1>5, <1>6, LenProperties DEF Range
<2>2. \A i \in 1..c : i - 1 \in 0..(c - 1)
  BY <1>6
<2>3. \A i \in 0..(c - 1) : i + 1 \in 1..c /\ (i + 1) - 1 = i
  BY <1>6
<2>4. \A i \in 0..(c - 1) : InTurn(m, i) = x[i + 1]
  BY <2>3, <1>2, <1>5
<2>5. \A i \in 1..c : x[i] = InTurn(m, i - 1) /\ x[i] \in P
  BY <1>2, <1>5
<2>6. QED BY <2>1, <2>2, <2>3, <2>4, <2>5
<1>9. Q = R \ Range(x)
  BY <1>2, <1>8
\* All that was acknowledged at first cannot be acknowledged again.
<1>10. c + d <= NumSlabs
<2>1. ASSUME c + d > NumSlabs PROVE FALSE
<3>1. c >= 1 /\ NumSlabs - c \in 0..NumSlabs /\ c + (NumSlabs - c) <= NumSlabs
      /\ NumSlabs - c + 1 \in 1..d /\ (NumSlabs - c + 1) - 1 = NumSlabs - c
      /\ c + (NumSlabs - c) = NumSlabs
  BY <1>6, <2>1
<3>2. InTurn(s, NumSlabs - c) = InTurn(m, NumSlabs)
  BY <3>1, <1>7
<3>3. InTurn(m, NumSlabs) = InTurn(m, 0)
<4>1. PICK t \in 1..NumSlabs : t = m.indexToAck
  BY <1>1, Constants
<4>2. /\ InTurn(m, NumSlabs) = IF t + NumSlabs <= NumSlabs THEN t + NumSlabs ELSE t + NumSlabs - NumSlabs
      /\ InTurn(m, 0) = IF t + 0 <= NumSlabs THEN t + 0 ELSE t + 0 - NumSlabs
  BY <1>1, <1>6, <4>1, InTurnIs
<4>3. QED BY <4>2, <1>6
<3>4. y[NumSlabs - c + 1] = InTurn(s, NumSlabs - c) /\ y[NumSlabs - c + 1] \in Q
  BY <3>1, <1>3, <1>5
<3>5. 0 \in 0..(c - 1)
  BY <3>1, <1>6
<3>6. InTurn(m, 0) \in Range(x)
  BY <3>5, <1>8
<3>7. QED BY <3>2, <3>3, <3>4, <3>6, <1>9
<2>2. QED BY <2>1, <1>6
<1>11. \A i \in 0..(c + d - 1) : InTurn(m, i) \in R
<2>1. ASSUME NEW i \in 0..(c + d - 1) PROVE InTurn(m, i) \in R
<3>1. CASE i < c
<4>1. i \in 0..(c - 1)
  BY <3>1, <1>6
<4>2. QED BY <4>1, <1>8
<3>2. CASE i >= c
<4>1. /\ i - c \in 0..NumSlabs /\ c + (i - c) <= NumSlabs /\ c + (i - c) = i
      /\ i - c + 1 \in 1..d /\ (i - c + 1) - 1 = i - c
  BY <3>2, <1>6, <1>10
<4>2. InTurn(s, i - c) = InTurn(m, i)
  BY <4>1, <1>7
<4>3. y[i - c + 1] = InTurn(s, i - c) /\ y[i - c + 1] \in Q
  BY <4>1, <1>3, <1>5
<4>4. QED BY <4>2, <4>3, <1>9
<3>3. QED BY <3>1, <3>2, <1>6
<2>2. QED BY <2>1
<1>12. c + d < NumSlabs => InTurn(m, c + d) \notin R
<2>1. ASSUME c + d < NumSlabs PROVE InTurn(m, c + d) \notin R
<3>1. d < NumSlabs /\ d \in 0..NumSlabs /\ c + d \in 0..(NumSlabs - 1)
  BY <2>1, <1>6
<3>2. InTurn(m, c + d) \notin Q
<4>1. InTurn(s, d) \notin Q
  BY <3>1, <1>3, <1>5
<4>2. InTurn(s, d) = InTurn(m, c + d)
  BY <1>7, <1>10
<4>3. QED BY <4>1, <4>2
<3>3. ASSUME NEW i \in 0..(c - 1), InTurn(m, i) = InTurn(m, c + d) PROVE FALSE
<4>1. i \in 0..(NumSlabs - 1) /\ i # c + d
  BY <1>6
<4>2. QED BY <4>1, <3>1, <3>3, <1>1, InTurnInjective
<3>4. QED BY <3>2, <3>3, <1>8, <1>9
<2>2. QED BY <2>1
<1>13. z = [i \in 1..(c + d) |-> InTurn(m, i - 1)]
<2>1. c + d \in 0..NumSlabs
  BY <1>6, <1>10
<2>2. Acked(m, R) = [i \in 1..(c + d) |-> InTurn(m, i - 1)]
  BY <2>1, <1>1, <1>11, <1>12, AckedUnique
<2>3. QED BY <2>2 DEF z

<1>14. z = x \o y
<2>1. /\ x \o y \in Seq(Slabs) /\ Len(x \o y) = c + d
      /\ \A i \in 1..(c + d) : (x \o y)[i] = IF i <= c THEN x[i] ELSE y[i - c]
  BY <1>2, <1>3, <1>5, ConcatProperties
<2>2. ASSUME NEW i \in 1..(c + d) PROVE (x \o y)[i] = InTurn(m, i - 1)
<3>1. CASE i <= c
<4>1. i \in 1..c
  BY <3>1, <1>6
<4>2. QED BY <4>1, <3>1, <2>1, <1>2, <1>5
<3>2. CASE i > c
<4>1. /\ i - c \in 1..d /\ i - c - 1 \in 0..NumSlabs /\ c + (i - c - 1) <= NumSlabs
      /\ c + (i - c - 1) = i - 1 /\ ~(i <= c)
  BY <3>2, <1>6, <1>10
<4>2. InTurn(s, i - c - 1) = InTurn(m, i - 1)
  BY <4>1, <1>7
<4>3. y[i - c] = InTurn(s, i - c - 1)
  BY <4>1, <1>3, <1>5
<4>4. QED BY <4>1, <4>2, <4>3, <2>1
<3>3. i <= c \/ i > c
  BY <1>6
<3>4. QED BY <3>1, <3>2, <3>3
<2>3. DOMAIN (x \o y) = 1..(c + d)
  BY <2>1, LenProperties
<2>4. x \o y = [i \in 1..(c + d) |-> InTurn(m, i - 1)]
<3> DEFINE w == x \o y
<3>1. w \in Seq(Slabs) /\ DOMAIN w = 1..(c + d) /\ \A i \in 1..(c + d) : w[i] = InTurn(m, i - 1)
  BY <2>1, <2>2, <2>3
<3> HIDE DEF w
<3>2. w = [i \in 1..(c + d) |-> InTurn(m, i - 1)]
  BY <3>1
<3>3. QED BY <3>2 DEF w
<2>5. QED BY <2>4, <1>13
<1>15. Len(z) = c + d /\ Range(z) = Range(x) \cup Range(y)
<2>1. Len(x \o y) = c + d
  BY <1>2, <1>3, <1>5, ConcatProperties
<2>2. Range(x \o y) = Range(x) \cup Range(y)
  BY <1>2, <1>3, RangeConcatenation
<2>3. QED BY <2>1, <2>2, <1>14
<1>16. Q \ Range(y) = R \ Range(z)
  BY <1>9, <1>15
<1>17. InTurn(s, d) = InTurn(m, Len(z))
  BY <1>6, <1>7, <1>10, <1>15
<1>18. s.ready \o y = m.ready \o z
<2>1. (m.ready \o x) \o y = m.ready \o (x \o y)
<3>1. m.ready \in Seq(Slabs) /\ x \in Seq(Slabs) /\ y \in Seq(Slabs)
  BY <1>1, <1>2, <1>3
<3>2. PICK u \in Seq(Slabs), v \in Seq(Slabs), w \in Seq(Slabs) : u = m.ready /\ v = x /\ w = y
  BY <3>1
<3>3. (u \o v) \o w = u \o (v \o w)
  BY ONLY ConcatAssociative
<3>4. QED BY <3>2, <3>3
<2>2. QED BY <2>1, <1>2, <1>14
\* The front is made of the first slab that is ready, which stays the first.
<1>19. (IF s.ready = <<>> THEN CircFront(s.ready \o y, s.frontAddress) ELSE s.front)
           = IF m.ready = <<>> THEN CircFront(m.ready \o z, m.frontAddress) ELSE m.front
<2>1. CASE s.ready = <<>>
<3>1. m.ready = <<>>
<4>1. Len(m.ready) \in Nat /\ Len(m.ready) + c = 0
  BY <2>1, <1>1, <1>2, <1>5, ConcatProperties, EmptySeq
<4>2. Len(m.ready) = 0
  BY <4>1, <1>6
<4>3. QED BY <4>2, <1>1, EmptySeq
<3>2. QED BY <2>1, <3>1, <1>2, <1>18
<2>2. CASE s.ready # <<>> /\ m.ready # <<>>
  BY <2>2, <1>2
<2>3. CASE s.ready # <<>> /\ m.ready = <<>>
<3>1. s.ready \in Seq(Slabs) /\ s.ready # <<>>
  BY <2>3, <1>2 DEF ManagerRecords
<3>2. Len(s.ready) \in Nat /\ Len(s.ready) >= 1
  BY <3>1, EmptySeq, LenProperties
<3>3. /\ s.ready \o y \in Seq(Slabs) /\ Len(s.ready \o y) = Len(s.ready) + d
      /\ (s.ready \o y)[1] = s.ready[1]
  BY <3>1, <3>2, <1>3, <1>5, <1>6, ConcatProperties
<3>4. s.ready \o y # <<>>
  BY <3>2, <3>3, <1>6, EmptySeq
<3>5. Head(s.ready \o y) = Head(s.ready)
  BY <3>1, <3>3, <3>4
<3>6. CircFront(s.ready \o y, m.frontAddress) = CircFront(s.ready, m.frontAddress)
  BY <3>1, <3>4, <3>5 DEF CircFront
<3>7. s.front = CircFront(s.ready, m.frontAddress)
  BY <2>3, <1>2
<3>8. QED BY <2>3, <3>6, <3>7, <1>18
<2>4. QED BY <2>1, <2>2, <2>3
<1>20. PICK ready, rest, turn, front :
         /\ ready = m.ready \o z /\ rest = R \ Range(z) /\ turn = InTurn(m, Len(z))
         /\ front = IF m.ready = <<>> THEN CircFront(m.ready \o z, m.frontAddress) ELSE m.front
  OBVIOUS
<1>21. PushSlabs(m, A \cup B) = [m EXCEPT !.ready = ready, !.pushed = rest, !.indexToAck = turn, !.front = front]
  BY <1>4, <1>20, Zenon
<1>22. PushSlabs(s, B) = [s EXCEPT !.ready = ready, !.pushed = rest, !.indexToAck = turn, !.front = front]
  BY <1>3, <1>5, <1>16, <1>17, <1>18, <1>19, <1>20, Zenon
<1>23. PICK r, p, t, f :
         s = [m EXCEPT !.ready = r, !.pushed = p, !.indexToAck = t, !.front = f]
  BY <1>2, Zenon
<1>24. PushSlabs(s, B) = PushSlabs(m, A \cup B)
<2>1. [[m EXCEPT !.ready = r, !.pushed = p, !.indexToAck = t, !.front = f]
          EXCEPT !.ready = ready, !.pushed = rest, !.indexToAck = turn, !.front = front]
      = [m EXCEPT !.ready = ready, !.pushed = rest, !.indexToAck = turn, !.front = front]
<3>1. m \in ManagerRecords
  OBVIOUS
<3>2. QED BY ONLY <3>1 DEF ManagerRecords
<2>2. QED BY <2>1, <1>21, <1>22, <1>23, Zenon
<1>25. QED BY <1>24 DEF s
=============================================================================
