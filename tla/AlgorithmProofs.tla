-------------------------- MODULE AlgorithmProofs ---------------------------
(***************************************************************************)
(* The proofs about the algorithms of a single module or data structure:   *)
(* Storage and Lookup, the flat arrays of the segments and of the lookup   *)
(* tables, GapFilling, the parallel loop of the aerosol retrieval,         *)
(* TiePoints and MapCoordinates, the geolocation, and Minimum and Powell,  *)
(* the minimisations of the aerosol retrieval.                             *)
(*                                                                         *)
(* Storage, for segments of any shape.  Everything rests on one fact about *)
(* numbers: the index k * (M * L) + r * M + m of the camera k, the row r   *)
(* and the column m is one of the array, no other triple has it, and the   *)
(* triple is found again by dividing (Flatten, Unflatten).  Hence getIndex *)
(* and the way in which the netCDF library runs through a hyperslab are    *)
(* inverse to each other (TransferredIs), and sliding moves the samples of *)
(* each camera to the indexes of the same positions (SlidSample).  From    *)
(* these follows what each operation does to the sample of a position, and *)
(* from that the invariant and the refinement of RowStore.                 *)
(*                                                                         *)
(* Lookup, for tables of any number and length of dimensions, and for all  *)
(* coordinates.  The invariant relates a stride to the product of the      *)
(* lengths of the dimensions after it, as far as the constructor has come. *)
(*                                                                         *)
(* GapFilling, for every number of lines and columns and every distance:   *)
(* what a single thread computes.                                          *)
(*                                                                         *)
(* TiePoints, for any number of tie points, wherever they lie, and any     *)
(* number of them to keep, and MapCoordinates, for every axis and every    *)
(* size of the map.                                                        *)
(*                                                                         *)
(* Minimum, for every function, every set of numbers and every accuracy    *)
(* goal, and Powell, for every residual.  The invariant of Minimum adds to *)
(* the properties what brack keeps while it looks for the third point, and *)
(* that the ends of the bracket of ErrorMetric::findMinimum stay in the    *)
(* range of thicknesses.                                                   *)
(***************************************************************************)
EXTENDS Storage, GapFilling, TLAPS

-----------------------------------------------------------------------------
(* Numbers. *)

\* Rounding down leaves a rest.
LEMMA Division ==
  ASSUME NEW x \in Nat, NEW a \in Nat \ {0}
  PROVE  /\ x \div a \in Nat /\ x % a \in 0..(a - 1)
         /\ x = (x \div a) * a + (x % a)
<1>1. x \div a \in Nat
  OBVIOUS
<1>2. x % a \in 0..(a - 1)
  OBVIOUS
<1>3. x = (x \div a) * a + (x % a)
  OBVIOUS
<1>. QED
  BY <1>1, <1>2, <1>3

\* Products of numbers keep their order.
LEMMA Monotone ==
  ASSUME NEW a \in Nat, NEW b \in Nat, a <= b, NEW c \in Nat
  PROVE  a * c <= b * c /\ a * c \in Nat
<1> DEFINE d == b - a
<1>1. d \in Nat /\ b = a + d
  OBVIOUS
<1> HIDE DEF d
<1>2. d * c \in Nat /\ a * c \in Nat
  BY <1>1
<1>3. (a + d) * c = a * c + d * c
  BY <1>1
<1>. QED
  BY <1>1, <1>2, <1>3

\* There is one way to divide with a rest.
LEMMA Quotient ==
  ASSUME NEW a \in Nat \ {0}, NEW q \in Nat, NEW r \in 0..(a - 1)
  PROVE  (q * a + r) \div a = q /\ (q * a + r) % a = r /\ q * a + r \in Nat
<1> DEFINE x == q * a + r
           p == x \div a
           s == x % a
<1>1. q * a \in Nat /\ x \in Nat
  OBVIOUS
<1>2. p \in Nat /\ s \in 0..(a - 1) /\ x = p * a + s
  BY <1>1, Division
<1>3. q * a + r = p * a + s
  BY <1>2
<1> HIDE DEF p, s, x
<1>4. ~(q < p)
  <2>1. ASSUME q + 1 <= p PROVE FALSE
    <3>1. (q + 1) * a <= p * a /\ p * a \in Nat
      BY <1>2, <2>1, Monotone
    <3>2. (q + 1) * a = q * a + a
      OBVIOUS
    <3>. QED
      BY <1>1, <1>2, <1>3, <3>1, <3>2
  <2>. QED
    BY <1>2, <2>1
<1>5. ~(p < q)
  <2>1. ASSUME p + 1 <= q PROVE FALSE
    <3>1. (p + 1) * a <= q * a
      BY <1>2, <2>1, Monotone
    <3>2. (p + 1) * a = p * a + a /\ p * a \in Nat
      BY <1>2
    <3>. QED
      BY <1>1, <1>2, <1>3, <3>1, <3>2
  <2>. QED
    BY <1>2, <2>1
<1>6. p = q
  BY <1>2, <1>4, <1>5
<1>7. s = r
  BY <1>1, <1>2, <1>3, <1>6
<1>. QED
  BY <1>1, <1>6, <1>7 DEF p, s, x

-----------------------------------------------------------------------------
(* A flat array of cameras, rows and columns. *)

IndexesOf(K, L, M)    == 0..(K * (M * L) - 1)
IndexIn(L, M, k, r, m) == k * (M * L) + r * M + m

\* The index i is that of the camera k, the row r and the column m, and of no
\* others.
IsIndexOf(L, M, k, r, m, i) ==
  /\ i = IndexIn(L, M, k, r, m)
  /\ i % M = m
  /\ (i \div M) % L = r
  /\ i \div (M * L) = k
  /\ i % (M * L) = r * M + m

\* A position has an index, from which the position is found again.
LEMMA Flatten ==
  ASSUME NEW K \in Nat, NEW L \in Nat \ {0}, NEW M \in Nat \ {0},
         NEW k \in 0..(K - 1), NEW r \in 0..(L - 1), NEW m \in 0..(M - 1)
  PROVE  /\ IndexIn(L, M, k, r, m) \in IndexesOf(K, L, M)
         /\ IsIndexOf(L, M, k, r, m, IndexIn(L, M, k, r, m))
<1> DEFINE S == M * L
           t == r * M + m
           u == k * L + r
           i == k * S + r * M + m
<1>1. S \in Nat \ {0} /\ S = L * M
  <2>1. 1 * L <= M * L
    BY Monotone
  <2>. QED
    BY <2>1
<1>2. r * M + M <= S
  <2>1. (r + 1) * M <= L * M
    BY Monotone
  <2>2. (r + 1) * M = r * M + M
    OBVIOUS
  <2>. QED
    BY <1>1, <2>1, <2>2
<1>3. r * M \in Nat /\ t \in 0..(S - 1)
  <2>1. r * M \in Nat
    OBVIOUS
  <2> HIDE DEF S
  <2>. QED
    BY <1>1, <1>2, <2>1
<1>4. i = k * S + t /\ k * S \in Nat
  <2>1. k * S \in Nat
    <3> HIDE DEF S
    <3>. QED
      BY <1>1
  <2> HIDE DEF S
  <2>. QED
    BY <1>3, <2>1
<1>5. i \div S = k /\ i % S = t
  <2>1. k \in Nat
    OBVIOUS
  <2> HIDE DEF S, t, i
  <2>. QED
    BY <2>1, <1>1, <1>3, <1>4, Quotient
<1>6. u \in Nat /\ i = u * M + m
  <2>1. k * L \in Nat
    OBVIOUS
  <2>2. (k * L + r) * M = (k * L) * M + r * M
    <3> DEFINE v == k * L
    <3>1. v \in Nat
      BY <2>1
    <3> HIDE DEF v
    <3>2. (v + r) * M = v * M + r * M
      BY <3>1
    <3>. QED
      BY <3>2 DEF v
  <2>3. (k * L) * M = k * S
    <3>1. (k * L) * M = k * (L * M)
      OBVIOUS
    <3>. QED
      BY <1>1, <3>1
  <2>. QED
    BY <1>3, <1>4, <2>1, <2>2, <2>3
<1>7. i \div M = u /\ i % M = m
  <2> HIDE DEF u, i, S
  <2>. QED
    BY <1>6, Quotient
<1>8. u % L = r
  BY Quotient
<1>9. i <= K * S - 1
  <2>1. (k + 1) * S <= K * S /\ (k + 1) * S = k * S + S
    <3> HIDE DEF S
    <3>1. (k + 1) * S <= K * S
      BY <1>1, Monotone
    <3>. QED
      BY <1>1, <3>1
  <2>2. K * S \in Nat
    <3> HIDE DEF S
    <3>. QED
      BY <1>1
  <2> HIDE DEF S
  <2>. QED
    BY <1>1, <1>3, <1>4, <2>1, <2>2
<1>10. i \in 0..(K * S - 1)
  <2>1. K * S \in Nat
    <3> HIDE DEF S
    <3>. QED
      BY <1>1
  <2> HIDE DEF S, t
  <2>. QED
    BY <1>3, <1>4, <1>9, <2>1
<1>. QED
  BY <1>5, <1>7, <1>8, <1>10 DEF IndexIn, IndexesOf, IsIndexOf

\* Every index is that of a camera, a row and a column.
LEMMA Unflatten ==
  ASSUME NEW K \in Nat, NEW L \in Nat \ {0}, NEW M \in Nat \ {0},
         NEW i \in IndexesOf(K, L, M)
  PROVE  \E k \in 0..(K - 1), r \in 0..(L - 1), m \in 0..(M - 1) :
            i = IndexIn(L, M, k, r, m)
<1> DEFINE S == M * L
           k == i \div S
           t == i % S
           r == t \div M
           m == t % M
<1>1. S \in Nat \ {0} /\ S = L * M
  <2>1. 1 * L <= M * L
    BY Monotone
  <2>. QED
    BY <2>1
<1>2. i \in Nat /\ K * S \in Nat /\ i < K * S
  <2>1. K * S \in Nat
    <3> HIDE DEF S
    <3>. QED
      BY <1>1
  <2>2. i \in 0..(K * S - 1)
    BY DEF IndexesOf
  <2> HIDE DEF S
  <2>. QED
    BY <2>1, <2>2
<1>3. k \in Nat /\ t \in 0..(S - 1) /\ i = k * S + t
  <2> HIDE DEF S
  <2>. QED
    BY <1>1, <1>2, Division
<1>4. k <= K - 1
  <2>1. ASSUME K <= k PROVE FALSE
    <3> HIDE DEF S, k, t
    <3>1. K * S <= k * S /\ k * S \in Nat
      BY <1>1, <1>3, <2>1, Monotone
    <3>. QED
      BY <1>1, <1>2, <1>3, <3>1
  <2> HIDE DEF k
  <2>. QED
    BY <1>3, <2>1
<1>5. r \in Nat /\ m \in 0..(M - 1) /\ t = r * M + m
  <2>1. t \in Nat
    <3> HIDE DEF S, t
    <3>. QED
      BY <1>1, <1>3
  <2> HIDE DEF t
  <2>. QED
    BY <2>1, Division
<1>6. r <= L - 1
  <2>1. ASSUME L <= r PROVE FALSE
    <3> HIDE DEF t, r, m
    <3>1. L * M <= r * M /\ r * M \in Nat
      BY <1>5, <2>1, Monotone
    <3>2. t <= S - 1 /\ S = L * M
      BY <1>1, <1>3
    <3> HIDE DEF S
    <3>. QED
      BY <1>1, <1>3, <1>5, <3>1, <3>2
  <2> HIDE DEF r
  <2>. QED
    BY <1>5, <2>1
<1>7. i = k * S + r * M + m
  <2>1. k * S \in Nat /\ r * M \in Nat
    <3> HIDE DEF S, k, r
    <3>. QED
      BY <1>1, <1>3, <1>5
  <2> HIDE DEF S, k, t, r, m
  <2>. QED
    BY <1>3, <1>5, <2>1
<1>8. k \in 0..(K - 1) /\ r \in 0..(L - 1)
  <2> HIDE DEF k, r
  <2>. QED
    BY <1>3, <1>4, <1>5, <1>6
<1>9. i = IndexIn(L, M, k, r, m)
  BY <1>7 DEF IndexIn
<1> HIDE DEF k, r, m
<1>. QED
  BY <1>5, <1>8, <1>9

-----------------------------------------------------------------------------
(* Storage: the positions in memory and the indexes of the flat arrays.    *)

Window == minInMemoryL..MaxInMemoryL

\* The shape of the segment and where its window is.
Placed ==
  /\ shape \in Shape
  /\ minInMemoryL \in 0..(shape.maxL - shape.sizeL + 1)

\* The position an index stands for.
At(i) == <<i \div StrideK, minInMemoryL + ((i \div StrideL) % shape.sizeL), i % StrideL>>

\* The numbers of cameras, rows and columns.
LEMMA ShapeFacts ==
  ASSUME Placed
  PROVE  /\ shape.sizeK \in Nat \ {0} /\ shape.sizeL \in Nat \ {0} /\ shape.sizeM \in Nat \ {0}
         /\ shape.maxL \in Nat /\ minInMemoryL \in Nat
         /\ MaxInMemoryL \in Nat /\ MaxInMemoryL <= shape.maxL
         /\ minInMemoryL <= MaxInMemoryL
         /\ StrideL \in Nat \ {0} /\ StrideK \in Nat \ {0} /\ Size \in Nat \ {0}
<1>1. /\ shape.sizeK \in Nat \ {0} /\ shape.sizeL \in Nat \ {0} /\ shape.sizeM \in Nat \ {0}
      /\ shape.maxL \in Nat
  BY ShapeAssumption DEF Placed
<1> DEFINE K == shape.sizeK
           L == shape.sizeL
           M == shape.sizeM
<1>2. StrideL \in Nat \ {0} /\ StrideK \in Nat \ {0}
  <2>1. M * L \in Nat /\ 1 * L <= M * L
    <3> HIDE DEF M, L
    <3>1. M \in Nat \ {0} /\ L \in Nat \ {0}
      BY <1>1 DEF M, L
    <3>. QED
      BY <3>1, Monotone
  <2>. QED
    BY <1>1, <2>1 DEF StrideL, StrideK
<1>3. Size \in Nat \ {0}
  <2>1. K * StrideK \in Nat /\ 1 * StrideK <= K * StrideK
    <3> HIDE DEF K
    <3>1. K \in Nat \ {0}
      BY <1>1 DEF K
    <3>. QED
      BY <1>2, <3>1, Monotone
  <2>. QED
    BY <1>2, <2>1 DEF Size
<1>. QED
  BY <1>1, <1>2, <1>3 DEF Placed, MaxInMemoryL

\* The row of a position counted from the start of the window, and its index.
LEMMA IndexOfPosition ==
  ASSUME Placed, NEW p \in InMemory
  PROVE  /\ p \in Positions /\ p = <<p[1], p[2], p[3]>>
         /\ p[1] \in 0..(shape.sizeK - 1)
         /\ p[2] \in Window /\ p[2] - minInMemoryL \in 0..(shape.sizeL - 1)
         /\ p[3] \in 0..(shape.sizeM - 1)
         /\ GetIndex(p) = p[1] * (shape.sizeM * shape.sizeL)
                          + (p[2] - minInMemoryL) * shape.sizeM + p[3]
<1>1. p \in Positions /\ p[2] \in Window
  BY DEF InMemory, Window
<1>2. p = <<p[1], p[2], p[3]>> /\ p[1] \in 0..(shape.sizeK - 1) /\ p[3] \in 0..(shape.sizeM - 1)
  BY <1>1 DEF Positions
<1>3. p[2] - minInMemoryL \in 0..(shape.sizeL - 1)
  BY <1>1, ShapeFacts DEF Window, MaxInMemoryL
<1>. QED
  BY <1>1, <1>2, <1>3 DEF GetIndex, StrideK, StrideL

\* A position in memory is in the array, and is found again from its index.
LEMMA PositionAndIndex ==
  ASSUME Placed, NEW p \in InMemory
  PROVE  GetIndex(p) \in Indexes /\ At(GetIndex(p)) = p
<1> DEFINE K == shape.sizeK
           L == shape.sizeL
           M == shape.sizeM
           r == p[2] - minInMemoryL
<1>1. K \in Nat /\ L \in Nat \ {0} /\ M \in Nat \ {0}
  BY ShapeFacts
<1>2. p[1] \in 0..(K - 1) /\ r \in 0..(L - 1) /\ p[3] \in 0..(M - 1)
  BY IndexOfPosition
<1> DEFINE i == IndexIn(L, M, p[1], r, p[3])
<1>3. GetIndex(p) = i
  BY IndexOfPosition DEF IndexIn
<1>4. i \in IndexesOf(K, L, M) /\ IsIndexOf(L, M, p[1], r, p[3], i)
  <2> HIDE DEF K, L, M, r
  <2>. QED
    BY <1>1, <1>2, Flatten
<1>5. minInMemoryL + r = p[2]
  BY ShapeFacts, IndexOfPosition DEF Window
<1>6. At(i) = p
  <2>1. p = <<p[1], p[2], p[3]>>
    BY IndexOfPosition
  <2>2. i % M = p[3] /\ (i \div M) % L = r /\ i \div (M * L) = p[1]
    <3> HIDE DEF i, r
    <3>. QED
      BY <1>4 DEF IsIndexOf
  <2> HIDE DEF i
  <2>. QED
    BY <1>5, <2>1, <2>2 DEF At, StrideK, StrideL
<1>7. i \in Indexes
  BY <1>4 DEF Indexes, Size, StrideK, IndexesOf
<1>. QED
  BY <1>3, <1>6, <1>7

\* Every index stands for a position in memory.
LEMMA IndexAndPosition ==
  ASSUME Placed, NEW i \in Indexes
  PROVE  At(i) \in InMemory /\ GetIndex(At(i)) = i
<1> DEFINE K == shape.sizeK
           L == shape.sizeL
           M == shape.sizeM
<1>1. K \in Nat /\ L \in Nat \ {0} /\ M \in Nat \ {0}
  BY ShapeFacts
<1>2. i \in IndexesOf(K, L, M)
  BY DEF Indexes, Size, StrideK, IndexesOf
<1>3. PICK k \in 0..(K - 1), r \in 0..(L - 1), m \in 0..(M - 1) : i = IndexIn(L, M, k, r, m)
  <2> HIDE DEF K, L, M
  <2>. QED
    BY <1>1, <1>2, Unflatten
<1>4. IsIndexOf(L, M, k, r, m, i)
  <2> HIDE DEF K, L, M
  <2>. QED
    BY <1>1, <1>3, Flatten
<1>5. At(i) = <<k, minInMemoryL + r, m>>
  BY <1>4 DEF At, StrideK, StrideL, IsIndexOf
<1>6. /\ minInMemoryL + r \in Window /\ minInMemoryL + r \in 0..shape.maxL
      /\ (minInMemoryL + r) - minInMemoryL = r
  BY <1>1, ShapeFacts DEF Window, MaxInMemoryL
<1>7. At(i) \in InMemory
  BY <1>5, <1>6 DEF InMemory, Positions, Window
<1>8. GetIndex(At(i)) = i
  BY <1>3, <1>5, <1>6 DEF GetIndex, StrideK, StrideL, IndexIn
<1>. QED
  BY <1>7, <1>8

-----------------------------------------------------------------------------
(* Storage: what the netCDF library transfers to which index.              *)

\* How far the coordinates of a hyperslab of one dimension lie apart.
LEMMA WeightOfOne ==
  ASSUME NEW c \in Nat
  PROVE  Weight(<<c>>, 1) = 1
  BY DEF Weight

\* The same for two dimensions.
LEMMA WeightsOfTwo ==
  ASSUME NEW b \in Nat, NEW c \in Nat
  PROVE  Weight(<<b, c>>, 1) = c /\ Weight(<<b, c>>, 2) = 1
  BY DEF Weight

\* The same for three dimensions.
LEMMA WeightsOfThree ==
  ASSUME NEW a \in Nat, NEW b \in Nat, NEW c \in Nat
  PROVE  /\ Weight(<<a, b, c>>, 1) = b * c
         /\ Weight(<<a, b, c>>, 2) = c
         /\ Weight(<<a, b, c>>, 3) = 1
<1>1. Weight(<<a, b, c>>, 1) = b * c
  BY DEF Weight
<1>2. Weight(<<a, b, c>>, 2) = c
  BY DEF Weight
<1>3. Weight(<<a, b, c>>, 3) = 1
  BY DEF Weight
<1>. QED
  BY <1>1, <1>2, <1>3

\* The camera, the row and the column of an index.
LEMMA Coordinates ==
  ASSUME Placed, NEW i \in Indexes
  PROVE  /\ i \in Nat
         /\ i \div StrideK \in 0..(shape.sizeK - 1)
         /\ (i \div StrideL) % shape.sizeL \in 0..(shape.sizeL - 1)
         /\ i % StrideL \in 0..(shape.sizeM - 1)
<1>1. At(i) \in InMemory
  BY IndexAndPosition
<1>2. At(i)[1] \in 0..(shape.sizeK - 1) /\ At(i)[3] \in 0..(shape.sizeM - 1)
  BY <1>1, IndexOfPosition
<1>3. i \in Nat
  BY ShapeFacts DEF Indexes
<1>4. i \div StrideL \in Nat
  <2>1. StrideL \in Nat \ {0}
    BY ShapeFacts
  <2>. QED
    BY <1>3, <2>1, Division
<1>5. (i \div StrideL) % shape.sizeL \in 0..(shape.sizeL - 1)
  <2> DEFINE x == i \div StrideL
  <2>1. x \in Nat /\ shape.sizeL \in Nat \ {0}
    BY <1>4, ShapeFacts
  <2> HIDE DEF x
  <2>2. x % shape.sizeL \in 0..(shape.sizeL - 1)
    BY <2>1, Division
  <2>. QED
    BY <2>2 DEF x
<1>. QED
  BY <1>2, <1>3, <1>5 DEF At

\* The remainder of a number that is small.
LEMMA Small ==
  ASSUME NEW a \in Nat \ {0}, NEW x \in 0..(a - 1)
  PROVE  x % a = x
<1>1. x = 0 * a + x /\ 0 \in Nat
  OBVIOUS
<1>2. (0 * a + x) % a = x
  BY Quotient
<1>. QED
  BY <1>1, <1>2

\* Dividing by one.
LEMMA ByOne ==
  ASSUME NEW x \in Nat
  PROVE  x \div 1 = x
  OBVIOUS

\* Reader and writer transfer every sample of the array from or to the
\* position that its index stands for, whatever the number of dimensions.
LEMMA TransferredIs ==
  ASSUME Placed, NEW i \in Indexes
  PROVE  Transferred[i] = At(i)
<1> DEFINE K == shape.sizeK
           L == shape.sizeL
           M == shape.sizeM
           k == i \div StrideK
           y == i \div StrideL
           m == i % StrideL
           start == StartVector(minInMemoryL)
           count == CountVector(MaxInMemoryL - minInMemoryL + 1)
           coords == [d \in DOMAIN count |-> start[d] + ((i \div Weight(count, d)) % count[d])]
<1>1. Transferred[i] = PositionOf(coords)
  BY DEF Transferred, HyperslabPosition
<1>2. MaxInMemoryL - minInMemoryL + 1 = L
  BY ShapeFacts DEF MaxInMemoryL
<1>3. /\ K \in Nat \ {0} /\ L \in Nat \ {0} /\ M \in Nat \ {0} /\ minInMemoryL \in Nat
      /\ i \in Nat /\ k \in 0..(K - 1) /\ m \in 0..(M - 1) /\ y % L \in 0..(L - 1)
  BY ShapeFacts, Coordinates
<1>4. k % K = k /\ i \div (L * M) = k /\ i \div M = y /\ (i \div 1) % M = m
  <2>1. k % K = k
    <3> HIDE DEF k, K
    <3>. QED
      BY <1>3, Small
  <2>2. i \div (L * M) = k
    <3>1. L * M = M * L
      BY <1>3
    <3>. QED
      BY <3>1 DEF StrideK, StrideL
  <2>3. i \div M = y
    BY DEF StrideL
  <2>4. (i \div 1) % M = m
    BY <1>3, ByOne DEF StrideL
  <2>. QED
    BY <2>1, <2>2, <2>3, <2>4
<1>5. At(i) = <<k, minInMemoryL + (y % L), m>>
  BY DEF At
<1> DEFINE Rest(d) == (i \div Weight(count, d)) % count[d]
<1>6. \A d \in DOMAIN count : coords[d] = start[d] + Rest(d)
  OBVIOUS
<1>7. CASE shape.dims = 3
  <2>1. count = <<K, L, M>> /\ start = <<0, minInMemoryL, 0>>
    BY <1>2, <1>7 DEF CountVector, StartVector
  <2>2. Weight(count, 1) = L * M /\ Weight(count, 2) = M /\ Weight(count, 3) = 1
    BY <2>1, <1>3, WeightsOfThree
  <2>3. PositionOf(coords) = coords
    BY <1>7 DEF PositionOf
  <2> HIDE DEF count, start, K, L, M, k, y, m
  <2>4. count[1] = K /\ count[2] = L /\ count[3] = M /\ DOMAIN count = 1..3
    BY <2>1
  <2>5. Rest(1) = k /\ Rest(2) = y % L /\ Rest(3) = m
    <3>1. Rest(1) = k
      BY <2>2, <2>4, <1>4, Zenon
    <3>2. Rest(2) = y % L
      BY <2>2, <2>4, <1>4, Zenon
    <3>3. Rest(3) = m
      BY <2>2, <2>4, <1>4, Zenon
    <3>. QED
      BY <3>1, <3>2, <3>3
  <2> HIDE DEF Rest
  <2>6. coords = <<coords[1], coords[2], coords[3]>>
    BY <2>4
  <2> HIDE DEF coords
  <2>7. coords[1] = 0 + k /\ coords[2] = minInMemoryL + (y % L) /\ coords[3] = 0 + m
    BY <2>1, <2>4, <2>5, <1>6
  <2>. QED
    BY <1>1, <1>3, <1>5, <2>3, <2>6, <2>7
<1>8. CASE shape.dims = 2
  <2>1. count = <<L, M>> /\ start = <<minInMemoryL, 0>>
    BY <1>2, <1>8 DEF CountVector, StartVector
  <2>2. Weight(count, 1) = M /\ Weight(count, 2) = 1
    BY <2>1, <1>3, WeightsOfTwo
  <2>3. PositionOf(coords) = <<0, coords[1], coords[2]>>
    BY <1>8 DEF PositionOf
  <2>4. k = 0
    BY <1>3, <1>8, ShapeAssumption DEF Placed
  <2> HIDE DEF count, start, K, L, M, k, y, m
  <2>5. count[1] = L /\ count[2] = M /\ DOMAIN count = 1..2
    BY <2>1
  <2>6. Rest(1) = y % L /\ Rest(2) = m
    <3>1. Rest(1) = y % L
      BY <2>2, <2>5, <1>4, Zenon
    <3>2. Rest(2) = m
      BY <2>2, <2>5, <1>4, Zenon
    <3>. QED
      BY <3>1, <3>2
  <2> HIDE DEF Rest, coords
  <2>7. coords[1] = minInMemoryL + (y % L) /\ coords[2] = 0 + m
    BY <2>1, <2>5, <2>6, <1>6
  <2>. QED
    BY <1>1, <1>3, <1>5, <2>3, <2>4, <2>7
<1>9. CASE shape.dims = 1
  <2>1. count = <<M>> /\ start = <<0>>
    BY <1>2, <1>9 DEF CountVector, StartVector
  <2>2. Weight(count, 1) = 1
    BY <2>1, <1>3, WeightOfOne
  <2>3. PositionOf(coords) = <<0, 0, coords[1]>>
    BY <1>9 DEF PositionOf
  <2>4. k = 0 /\ minInMemoryL = 0 /\ L = 1
    BY <1>3, <1>9, ShapeAssumption DEF Placed
  <2>5. y % L = 0
    <3> HIDE DEF y
    <3>. QED
      BY <1>3, <2>4
  <2> HIDE DEF count, start, K, L, M, k, y, m
  <2>6. count[1] = M /\ DOMAIN count = 1..1
    BY <2>1
  <2>7. Rest(1) = m
    BY <2>2, <2>6, <1>4, Zenon
  <2> HIDE DEF Rest, coords
  <2>8. coords[1] = 0 + m
    BY <2>1, <2>6, <2>7, <1>6
  <2>. QED
    BY <1>1, <1>3, <1>5, <2>3, <2>4, <2>5, <2>8
<1>. QED
  BY <1>7, <1>8, <1>9, ShapeAssumption DEF Placed

\* The sample of a position that is in memory is transferred, once, and no
\* other.
LEMMA TransferredFrom ==
  ASSUME Placed, NEW p \in Positions
  PROVE  {i \in Indexes : Transferred[i] = p} = IF p \in InMemory THEN {GetIndex(p)} ELSE {}
<1> DEFINE from == {i \in Indexes : Transferred[i] = p}
<1>1. from = {i \in Indexes : At(i) = p}
  BY TransferredIs
<1>2. CASE p \in InMemory
  <2>1. GetIndex(p) \in Indexes /\ At(GetIndex(p)) = p
    BY <1>2, PositionAndIndex
  <2>2. ASSUME NEW i \in Indexes, At(i) = p PROVE i = GetIndex(p)
    BY <2>2, IndexAndPosition
  <2>. QED
    BY <1>1, <1>2, <2>1, <2>2
<1>3. CASE p \notin InMemory
  BY <1>1, <1>3, IndexAndPosition
<1>. QED
  BY <1>2, <1>3

-----------------------------------------------------------------------------
(* Storage: sliding, and new arrays.                                       *)

\* The sample d rows further on, and whether the array has it for the camera.
Later(M, d, i)         == i + d * M
HasLater(L, M, d, r, m) == r * M + m < M * L - d * M

\* Sliding by d rows: the row d rows further on lies d * M samples further
\* on, and is one of the camera's unless the sample is among the last d * M.
LEMMA Slide ==
  ASSUME NEW L \in Nat \ {0}, NEW M \in Nat \ {0}, NEW d \in 0..L,
         NEW k \in Nat, NEW r \in 0..(L - 1), NEW m \in 0..(M - 1)
  PROVE  /\ Later(M, d, IndexIn(L, M, k, r, m)) = IndexIn(L, M, k, r + d, m)
         /\ HasLater(L, M, d, r, m) <=> (r + d < L)
<1> DEFINE x == k * (M * L)
<1>1. x \in Nat
  <2> DEFINE y == M * L
  <2>1. y \in Nat
    OBVIOUS
  <2> HIDE DEF y
  <2>2. k * y \in Nat
    BY <2>1
  <2>. QED
    BY <2>2 DEF y
<1>2. (r + d) * M = r * M + d * M /\ r * M \in Nat /\ d * M \in Nat
  OBVIOUS
<1>3. L * M = M * L /\ L * M \in Nat
  OBVIOUS
<1>4. ASSUME r + d < L PROVE r * M + m < M * L - d * M
  <2>1. ((r + d) + 1) * M <= L * M
    BY <1>4, Monotone
  <2>2. ((r + d) + 1) * M = (r + d) * M + M
    OBVIOUS
  <2>. QED
    BY <1>2, <1>3, <2>1, <2>2
<1>5. ASSUME r + d >= L PROVE ~(r * M + m < M * L - d * M)
  <2>1. L * M <= (r + d) * M
    BY <1>5, Monotone
  <2>. QED
    BY <1>2, <1>3, <2>1
<1>6. IndexIn(L, M, k, r, m) + d * M = IndexIn(L, M, k, r + d, m)
  <2>1. IndexIn(L, M, k, r, m) = (x + r * M) + m
        /\ IndexIn(L, M, k, r + d, m) = (x + (r + d) * M) + m
    BY DEF IndexIn
  <2> HIDE DEF x
  <2>. QED
    BY <1>1, <1>2, <2>1
<1>7. (r + d < L) \/ (r + d >= L)
  OBVIOUS
<1>. QED
  BY <1>4, <1>5, <1>6, <1>7 DEF Later, HasLater

\* What a slid array holds for a position of the new window, which starts at
\* the row first: the sample of the same position if its row was in memory.
LEMMA SlidSample ==
  ASSUME Placed, NEW first \in minInMemoryL..(minInMemoryL + shape.sizeL),
         first <= shape.maxL - shape.sizeL + 1,
         NEW p \in Positions, p[2] \in first..(first + shape.sizeL - 1), NEW array
  PROVE  Shifted(array, first - minInMemoryL)[p[1] * StrideK + (p[2] - first) * StrideL + p[3]]
           = IF p \in InMemory THEN array[GetIndex(p)] ELSE Fill
<1> DEFINE K == shape.sizeK
           L == shape.sizeL
           M == shape.sizeM
           d == first - minInMemoryL
           r == p[2] - first
           i == IndexIn(L, M, p[1], r, p[3])
<1>1. K \in Nat \ {0} /\ L \in Nat \ {0} /\ M \in Nat \ {0} /\ minInMemoryL \in Nat
  BY ShapeFacts
<1>2. /\ p[1] \in 0..(K - 1) /\ p[3] \in 0..(M - 1) /\ p[2] \in Nat
      /\ r \in 0..(L - 1) /\ d \in 0..L /\ r + d = p[2] - minInMemoryL
  BY <1>1, ShapeFacts DEF Positions
<1>3. p \in InMemory <=> r + d < L
  BY <1>1, <1>2 DEF InMemory, MaxInMemoryL
<1>4. i \in Indexes /\ i % StrideK = r * M + p[3]
  <2>1. i \in IndexesOf(K, L, M) /\ IsIndexOf(L, M, p[1], r, p[3], i)
    <3> HIDE DEF K, L, M, r
    <3>. QED
      BY <1>1, <1>2, Flatten
  <2>. QED
    BY <2>1 DEF IndexesOf, IsIndexOf, Indexes, Size, StrideK
<1>5. /\ Later(M, d, i) = IndexIn(L, M, p[1], r + d, p[3])
      /\ HasLater(L, M, d, r, p[3]) <=> (r + d < L)
  <2> DEFINE k == p[1]
             m == p[3]
  <2>1. /\ L \in Nat \ {0} /\ M \in Nat \ {0} /\ d \in 0..L
        /\ k \in Nat /\ r \in 0..(L - 1) /\ m \in 0..(M - 1)
    BY <1>1, <1>2
  <2> HIDE DEF L, M, r, d, k, m
  <2>2. /\ Later(M, d, IndexIn(L, M, k, r, m)) = IndexIn(L, M, k, r + d, m)
        /\ HasLater(L, M, d, r, m) <=> (r + d < L)
    BY <2>1, Slide
  <2>. QED
    BY <2>2 DEF k, m
<1>6. Shifted(array, d)[i] = IF r + d < L THEN array[i + d * StrideL] ELSE Fill
  <2>1. Shifted(array, d)[i] =
          IF i % StrideK < StrideK - d * StrideL THEN array[i + d * StrideL] ELSE Fill
    <3> HIDE DEF i, d
    <3>. QED
      BY <1>4 DEF Shifted
  <2>2. (i % StrideK < StrideK - d * StrideL) <=> (r + d < L)
    <3> HIDE DEF i, d, r
    <3>. QED
      BY <1>4, <1>5 DEF StrideK, StrideL, HasLater
  <2> HIDE DEF i, d, r
  <2>. QED
    BY <2>1, <2>2
<1>7. ASSUME p \in InMemory PROVE i + d * StrideL = GetIndex(p)
  <2>1. i + d * M = IndexIn(L, M, p[1], p[2] - minInMemoryL, p[3])
    BY <1>2, <1>5 DEF Later
  <2>2. GetIndex(p) = IndexIn(L, M, p[1], p[2] - minInMemoryL, p[3])
    BY <1>7, IndexOfPosition DEF IndexIn
  <2>. QED
    BY <2>1, <2>2 DEF StrideL
<1>8. p[1] * StrideK + (p[2] - first) * StrideL + p[3] = i
  BY DEF IndexIn, StrideK, StrideL
<1> HIDE DEF i, d, r
<1>. QED
  BY <1>3, <1>6, <1>7, <1>8 DEF d

\* The chunks that the file behind a map is filled by cover its array.
LEMMA MapIsFilled ==
  ASSUME Placed
  PROVE  MapArray = [i \in Indexes |-> Fill]
<1> DEFINE Samples(s) == s..(s + Min({Chunk, Size - s}) - 1)
           Filled == UNION {Samples(s) : s \in ChunkStarts}
<1>1. Size \in Nat \ {0} /\ Chunk \in Nat \ {0}
  BY ShapeFacts, ChunkAssumption
<1>2. ASSUME NEW a \in Int, NEW b \in Int
      PROVE  Min({a, b}) = IF a <= b THEN a ELSE b
  BY DEF Min
<1>3. ASSUME NEW s \in ChunkStarts, NEW i \in Samples(s)
      PROVE  i \in Indexes
  <2>1. s \in 0..(Size - 1) /\ s \in Nat
    BY <1>1 DEF ChunkStarts, Indexes
  <2>2. Min({Chunk, Size - s}) = IF Chunk <= Size - s THEN Chunk ELSE Size - s
    BY <1>1, <1>2, <2>1
  <2>. QED
    BY <1>1, <2>1, <2>2 DEF Indexes
<1>4. ASSUME NEW i \in Indexes
      PROVE  \E s \in ChunkStarts : i \in Samples(s)
  <2> DEFINE q == i \div Chunk
             s == q * Chunk
  <2>1. i \in Nat /\ i <= Size - 1
    BY <1>1 DEF Indexes
  <2>2. q \in Nat /\ i % Chunk \in 0..(Chunk - 1) /\ i = q * Chunk + (i % Chunk)
    BY <1>1, <2>1, Division
  <2>3. (q * Chunk) % Chunk = 0 /\ q * Chunk \in Nat
    <3> HIDE DEF q
    <3>1. PICK zero \in 0..(Chunk - 1) : zero = 0
      BY <1>1
    <3>2. (q * Chunk + zero) % Chunk = zero /\ q * Chunk + zero \in Nat
      BY <1>1, <2>2, Quotient
    <3>3. q * Chunk \in Nat
      BY <1>1, <2>2
    <3>4. q * Chunk + zero = q * Chunk
      BY <3>1, <3>3
    <3>. QED
      BY <3>1, <3>2, <3>3, <3>4
  <2>4. s \in Nat /\ s % Chunk = 0 /\ i = s + (i % Chunk)
    <3> HIDE DEF q
    <3>. QED
      BY <2>2, <2>3
  <2> HIDE DEF q, s
  <2>5. s \in Indexes /\ s \in ChunkStarts
    BY <1>1, <2>1, <2>2, <2>4 DEF Indexes, ChunkStarts
  <2>6. Min({Chunk, Size - s}) = IF Chunk <= Size - s THEN Chunk ELSE Size - s
    BY <1>1, <1>2, <2>4
  <2>7. i \in Samples(s)
    BY <1>1, <2>1, <2>2, <2>4, <2>6
  <2>. QED
    BY <2>5, <2>7
<1> HIDE DEF Samples
<1>5. Filled = Indexes
  <2>1. ASSUME NEW i \in Filled PROVE i \in Indexes
    BY <1>3
  <2>2. ASSUME NEW i \in Indexes PROVE i \in Filled
    BY <1>4
  <2>. QED
    BY <2>1, <2>2
<1>. QED
  BY <1>5 DEF MapArray, Samples

\* A new array holds nothing, whatever it is kept in.
LEMMA NewArrayIs ==
  ASSUME Placed
  PROVE  NewArray = [i \in Indexes |-> Fill]
  BY MapIsFilled DEF NewArray, SwathArray

-----------------------------------------------------------------------------
(* Storage: the invariant.                                                 *)

\* What a variable may hold for a position.
Allowed(n, p) ==
  IF n = "source" THEN {Fill, SourceValue(p)} ELSE {Fill, Result(SourceValue(p))}

InPlace ==
  /\ DOMAIN accessors \subseteq {"source", "result"}
  /\ \A n \in DOMAIN accessors : \A p \in InMemory : accessors[n][GetIndex(p)] \in Allowed(n, p)
  /\ \A p \in Positions : file[p] \in {Fill, Result(SourceValue(p))}

Inv == TypeOK /\ InPlace

\* The part of the type invariant that the lemmas above need.
LEMMA TypeOKIsPlaced == TypeOK => Placed
  BY DEF TypeOK, Placed

\* Whatever else a step does, positions and indexes stay what they are while
\* the window stays.
LEMMA SamePlace ==
  ASSUME UNCHANGED <<shape, minInMemoryL>>
  PROVE  /\ Positions' = Positions /\ InMemory' = InMemory /\ Indexes' = Indexes
         /\ \A p : GetIndex(p)' = GetIndex(p)
         /\ MaxInMemoryL' = MaxInMemoryL /\ Window' = Window
<1>1. StrideK' = StrideK /\ StrideL' = StrideL /\ Size' = Size /\ MaxInMemoryL' = MaxInMemoryL
  BY DEF StrideK, StrideL, Size, MaxInMemoryL
<1>2. Positions' = Positions /\ Indexes' = Indexes
  BY <1>1 DEF Positions, Indexes
<1>3. InMemory' = InMemory
  BY <1>1, <1>2 DEF InMemory
<1>4. \A p : GetIndex(p)' = GetIndex(p)
  BY <1>1 DEF GetIndex
<1>. QED
  BY <1>1, <1>2, <1>3, <1>4 DEF Window

\* What the operations do to the sample of a position in memory: in a new
\* variable it holds nothing.
LEMMA SampleAdded ==
  ASSUME Placed, NEW n, AddVariable(n), NEW p \in InMemory
  PROVE  /\ accessors'[n][GetIndex(p)] = Fill
         /\ \A v \in DOMAIN accessors : accessors'[v] = accessors[v]
         /\ DOMAIN accessors' = DOMAIN accessors \cup {n}
<1>1. GetIndex(p) \in Indexes
  BY PositionAndIndex
<1>2. NewArray[GetIndex(p)] = Fill
  BY <1>1, NewArrayIs
<1>. QED
  BY <1>2 DEF AddVariable, IsUnique

\* Reading gives it what the product holds at that position.
LEMMA SampleRead ==
  ASSUME Placed, Read, NEW p \in InMemory
  PROVE  /\ accessors'["source"][GetIndex(p)] = SourceValue(p)
         /\ \A v \in DOMAIN accessors \ {"source"} : accessors'[v] = accessors[v]
         /\ DOMAIN accessors' = DOMAIN accessors /\ "source" \in DOMAIN accessors
<1>1. GetIndex(p) \in Indexes /\ Transferred[GetIndex(p)] = p
  BY PositionAndIndex, TransferredIs
<1> DEFINE array == [i \in Indexes |-> SourceValue(Transferred[i])]
<1>2. array[GetIndex(p)] = SourceValue(p)
  BY <1>1
<1>3. accessors' = [accessors EXCEPT !["source"] = array] /\ "source" \in DOMAIN accessors
  BY DEF Read
<1> HIDE DEF array
<1>. QED
  BY <1>2, <1>3

\* A module replaces the samples of its row, and only those.
LEMMA SamplePut ==
  ASSUME Placed, NEW l, Put(l), NEW p \in InMemory
  PROVE  /\ accessors'["result"][GetIndex(p)] =
              IF p[2] = l THEN Result(accessors["source"][GetIndex(p)])
                          ELSE accessors["result"][GetIndex(p)]
         /\ \A v \in DOMAIN accessors \ {"result"} : accessors'[v] = accessors[v]
         /\ DOMAIN accessors' = DOMAIN accessors /\ {"source", "result"} \subseteq DOMAIN accessors
<1>1. GetIndex(p) \in Indexes
  BY PositionAndIndex
<1>2. ASSUME NEW q \in InMemory, GetIndex(q) = GetIndex(p)
      PROVE  q = p
  BY <1>2, PositionAndIndex
<1> DEFINE array == [i \in Indexes |->
                       IF \E q \in InMemory : q[2] = l /\ GetIndex(q) = i
                         THEN Result(accessors["source"][i]) ELSE accessors["result"][i]]
<1>3. array[GetIndex(p)] = IF p[2] = l THEN Result(accessors["source"][GetIndex(p)])
                                       ELSE accessors["result"][GetIndex(p)]
  <2>1. (\E q \in InMemory : q[2] = l /\ GetIndex(q) = GetIndex(p)) <=> p[2] = l
    BY <1>2
  <2>. QED
    BY <1>1, <2>1
<1>4. /\ accessors' = [accessors EXCEPT !["result"] = array]
      /\ {"source", "result"} \subseteq DOMAIN accessors
  BY DEF Put
<1> HIDE DEF array
<1>. QED
  BY <1>3, <1>4

\* Writing transfers it to the same position of the file.
LEMMA SampleWritten ==
  ASSUME Placed, Write, NEW p \in Positions
  PROVE  file'[p] = IF p \in InMemory THEN accessors["result"][GetIndex(p)] ELSE file[p]
<1> DEFINE from == {i \in Indexes : Transferred[i] = p}
<1>1. file'[p] = IF from = {} THEN file[p]
                 ELSE accessors["result"][CHOOSE i \in from : TRUE]
  BY DEF Write
<1>2. from = IF p \in InMemory THEN {GetIndex(p)} ELSE {}
  BY TransferredFrom
<1> HIDE DEF from
<1>3. CASE p \in InMemory
  <2>1. (CHOOSE i \in from : TRUE) = GetIndex(p) /\ from # {}
    BY <1>2, <1>3
  <2>. QED
    BY <1>1, <1>3, <2>1
<1>. QED
  BY <1>1, <1>2, <1>3

\* Where a window slides to.
LEMMA WhereItSlides ==
  ASSUME Placed, NEW l, MoveForward(l)
  PROVE  /\ minInMemoryL' \in minInMemoryL..(minInMemoryL + shape.sizeL)
         /\ minInMemoryL' <= shape.maxL - shape.sizeL + 1
         /\ shape' = shape /\ Positions' = Positions /\ Indexes' = Indexes
         /\ MaxInMemoryL' = minInMemoryL' + shape.sizeL - 1
         /\ \A p : GetIndex(p)' = p[1] * StrideK + (p[2] - minInMemoryL') * StrideL + p[3]
<1>1. l \in minInMemoryL..(MaxInMemoryL + 1) /\ shape' = shape
      /\ minInMemoryL' = Min({l, shape.maxL - shape.sizeL + 1})
  BY DEF MoveForward
<1>2. ASSUME NEW a \in Int, NEW b \in Int
      PROVE  Min({a, b}) = IF a <= b THEN a ELSE b
  BY DEF Min
<1>3. shape.maxL - shape.sizeL + 1 \in Int /\ l \in Int
  BY <1>1, ShapeFacts
<1>4. minInMemoryL' = IF l <= shape.maxL - shape.sizeL + 1 THEN l
                      ELSE shape.maxL - shape.sizeL + 1
  BY <1>1, <1>2, <1>3
<1>5. MaxInMemoryL + 1 = minInMemoryL + shape.sizeL
  BY ShapeFacts DEF MaxInMemoryL
<1>6. StrideK' = StrideK /\ StrideL' = StrideL /\ Size' = Size
  BY <1>1 DEF StrideK, StrideL, Size
<1>. QED
  BY <1>1, <1>4, <1>5, <1>6, ShapeFacts DEF Placed, Positions, Indexes, GetIndex, MaxInMemoryL

\* Sliding keeps it if its row stays in memory, and clears the rows that enter.
LEMMA SampleSlid ==
  ASSUME Placed, NEW l, MoveForward(l), NEW n \in DOMAIN accessors, NEW p \in InMemory'
  PROVE  /\ p \in Positions
         /\ accessors'[n][GetIndex(p)'] = IF p \in InMemory THEN accessors[n][GetIndex(p)] ELSE Fill
<1>1. /\ p \in Positions /\ p[2] \in minInMemoryL'..(minInMemoryL' + shape.sizeL - 1)
  BY WhereItSlides DEF InMemory
<1>2. accessors'[n] = Shifted(accessors[n], minInMemoryL' - minInMemoryL)
  BY DEF MoveForward
<1>3. GetIndex(p)' = p[1] * StrideK + (p[2] - minInMemoryL') * StrideL + p[3]
  BY WhereItSlides
<1>. QED
  BY <1>1, <1>2, <1>3, WhereItSlides, SlidSample

\* A new segment.
LEMMA InitInv == Init => Inv
<1> SUFFICES ASSUME Init PROVE Inv
  OBVIOUS
<1>1. shape \in Shape /\ minInMemoryL = 0 /\ DOMAIN accessors = {} /\ lastReadL = -1
      /\ file = [p \in Positions |-> Fill]
  BY DEF Init
<1>2. minInMemoryL \in 0..(shape.maxL - shape.sizeL + 1) /\ -1 \in (-1)..shape.maxL
  BY <1>1, ShapeAssumption
<1>. QED
  BY <1>1, <1>2 DEF Inv, TypeOK, InPlace

\* The window stays in the segment, the arrays keep their length.
LEMMA TypeOKStep == TypeOK /\ [Next]_vars => TypeOK'
<1> SUFFICES ASSUME TypeOK, [Next]_vars PROVE TypeOK'
  OBVIOUS
<1>1. Placed
  BY TypeOKIsPlaced
<1>2. \A n \in DOMAIN accessors : DOMAIN accessors[n] = Indexes
  BY DEF TypeOK
<1>3. CASE UNCHANGED <<shape, minInMemoryL>>
  <2>1. shape' \in Shape /\ minInMemoryL' \in 0..(shape'.maxL - shape'.sizeL + 1)
    BY <1>3 DEF TypeOK
  <2>2. Indexes' = Indexes /\ Positions' = Positions /\ shape' = shape
    BY <1>3, SamePlace
  <2>3. ASSUME NEW n, AddVariable(n)
        PROVE  TypeOK'
    <3>1. DOMAIN NewArray = Indexes
      BY <1>1, NewArrayIs
    <3>2. \A v \in DOMAIN accessors' : DOMAIN accessors'[v] = Indexes
      BY <1>2, <2>3, <3>1 DEF AddVariable
    <3>3. lastReadL' = lastReadL /\ file' = file
      BY <2>3 DEF AddVariable
    <3>. QED
      BY <2>1, <2>2, <3>2, <3>3 DEF TypeOK
  <2>4. ASSUME Read
        PROVE  TypeOK'
    <3>1. \A v \in DOMAIN accessors' : DOMAIN accessors'[v] = Indexes
      BY <1>2, <2>4 DEF Read
    <3>2. lastReadL' = MaxInMemoryL /\ file' = file
      BY <2>4 DEF Read
    <3>3. MaxInMemoryL \in (-1)..shape.maxL
      BY <1>1, ShapeFacts
    <3>. QED
      BY <2>1, <2>2, <3>1, <3>2, <3>3 DEF TypeOK
  <2>5. ASSUME NEW l, Put(l)
        PROVE  TypeOK'
    <3>1. \A v \in DOMAIN accessors' : DOMAIN accessors'[v] = Indexes
      BY <1>2, <2>5 DEF Put
    <3>2. lastReadL' = lastReadL /\ file' = file
      BY <2>5 DEF Put
    <3>. QED
      BY <2>1, <2>2, <3>1, <3>2 DEF TypeOK
  <2>6. CASE Write
    BY <1>2, <2>1, <2>2, <2>6 DEF TypeOK, Write
  <2>7. CASE UNCHANGED vars
    BY <1>2, <2>1, <2>2, <2>7 DEF TypeOK, vars
  <2>8. ASSUME NEW l, MoveForward(l)
        PROVE  TypeOK'
    <3>1. \A v \in DOMAIN accessors' : DOMAIN accessors'[v] = Indexes
      BY <2>8 DEF MoveForward, Shifted
    <3>2. lastReadL' = lastReadL /\ file' = file
      BY <2>8 DEF MoveForward
    <3>. QED
      BY <2>1, <2>2, <3>1, <3>2 DEF TypeOK
  <2>. QED
    BY <2>3, <2>4, <2>5, <2>6, <2>7, <2>8 DEF Next
<1>4. ASSUME NEW l, MoveForward(l)
      PROVE  TypeOK'
  <2>1. /\ minInMemoryL' \in minInMemoryL..(minInMemoryL + shape.sizeL)
        /\ minInMemoryL' <= shape.maxL - shape.sizeL + 1
        /\ shape' = shape /\ Positions' = Positions /\ Indexes' = Indexes
    BY <1>1, <1>4, WhereItSlides
  <2>2. shape' \in Shape /\ minInMemoryL' \in 0..(shape'.maxL - shape'.sizeL + 1)
    BY <1>1, <2>1, ShapeFacts DEF TypeOK
  <2>3. \A v \in DOMAIN accessors' : DOMAIN accessors'[v] = Indexes
    BY <1>4 DEF MoveForward, Shifted
  <2>4. lastReadL' = lastReadL /\ file' = file
    BY <1>4 DEF MoveForward
  <2>. QED
    BY <2>1, <2>2, <2>3, <2>4 DEF TypeOK
<1>5. UNCHANGED <<shape, minInMemoryL>> \/ \E l \in 0..(shape.maxL + 1) : MoveForward(l)
  BY DEF Next, vars, AddVariable, Read, Put, Write
<1>. QED
  BY <1>3, <1>4, <1>5

\* Every sample that is in an array stays one of its position.
LEMMA InPlaceStep == Inv /\ [Next]_vars => InPlace'
<1> SUFFICES ASSUME Inv, [Next]_vars PROVE InPlace'
  OBVIOUS
<1>1. Placed
  BY TypeOKIsPlaced DEF Inv
<1>2. /\ DOMAIN accessors \subseteq {"source", "result"}
      /\ \A n \in DOMAIN accessors : \A p \in InMemory : accessors[n][GetIndex(p)] \in Allowed(n, p)
      /\ \A p \in Positions : file[p] \in {Fill, Result(SourceValue(p))}
  BY DEF Inv, InPlace
<1>3. \A p \in InMemory : p \in Positions
  BY DEF InMemory
<1>4. \A n, p : Fill \in Allowed(n, p)
  BY DEF Allowed
<1>5. ASSUME NEW n \in {"source", "result"}, AddVariable(n)
      PROVE  InPlace'
  <2>1. UNCHANGED <<shape, minInMemoryL, file>> /\ DOMAIN accessors' = DOMAIN accessors \cup {n}
    BY <1>5 DEF AddVariable
  <2>2. ASSUME NEW v \in DOMAIN accessors', NEW p \in InMemory
        PROVE  accessors'[v][GetIndex(p)] \in Allowed(v, p)
    BY <1>1, <1>2, <1>4, <1>5, <2>1, SampleAdded
  <2>. QED
    BY <1>2, <2>1, <2>2, SamePlace DEF InPlace
<1>6. ASSUME Read
      PROVE  InPlace'
  <2>1. UNCHANGED <<shape, minInMemoryL, file>> /\ DOMAIN accessors' = DOMAIN accessors
    BY <1>6 DEF Read
  <2>2. ASSUME NEW v \in DOMAIN accessors', NEW p \in InMemory
        PROVE  accessors'[v][GetIndex(p)] \in Allowed(v, p)
    <3>1. CASE v = "source"
      BY <1>1, <1>6, <3>1, SampleRead DEF Allowed
    <3>2. CASE v # "source"
      BY <1>1, <1>2, <1>6, <2>1, <3>2, SampleRead
    <3>. QED
      BY <3>1, <3>2
  <2>. QED
    BY <1>2, <2>1, <2>2, SamePlace DEF InPlace
<1>7. ASSUME NEW l, Put(l)
      PROVE  InPlace'
  <2>1. UNCHANGED <<shape, minInMemoryL, file>> /\ DOMAIN accessors' = DOMAIN accessors
        /\ {"source", "result"} \subseteq DOMAIN accessors
    BY <1>7 DEF Put
  <2>2. ASSUME NEW v \in DOMAIN accessors', NEW p \in InMemory
        PROVE  accessors'[v][GetIndex(p)] \in Allowed(v, p)
    <3>1. CASE v = "result"
      <4>1. /\ accessors["source"][GetIndex(p)] \in {Fill, SourceValue(p)}
            /\ accessors["result"][GetIndex(p)] \in Allowed("result", p)
        BY <1>2, <2>1 DEF Allowed
      <4>2. Result(accessors["source"][GetIndex(p)]) \in Allowed("result", p)
        BY <4>1 DEF Allowed, Result
      <4>. QED
        BY <1>1, <1>7, <3>1, <4>1, <4>2, SamplePut
    <3>2. CASE v # "result"
      BY <1>1, <1>2, <1>7, <2>1, <3>2, SamplePut
    <3>. QED
      BY <3>1, <3>2
  <2>. QED
    BY <1>2, <2>1, <2>2, SamePlace DEF InPlace
<1>8. CASE Write
  <2>1. UNCHANGED <<shape, minInMemoryL, accessors>> /\ "result" \in DOMAIN accessors
    BY <1>8 DEF Write
  <2>2. ASSUME NEW p \in Positions
        PROVE  file'[p] \in {Fill, Result(SourceValue(p))}
    <3>1. CASE p \in InMemory
      <4>1. accessors["result"][GetIndex(p)] \in {Fill, Result(SourceValue(p))}
        BY <1>2, <2>1, <3>1 DEF Allowed
      <4>. QED
        BY <1>1, <1>8, <3>1, <4>1, SampleWritten
    <3>2. CASE p \notin InMemory
      BY <1>1, <1>2, <1>8, <3>2, SampleWritten
    <3>. QED
      BY <3>1, <3>2
  <2>. QED
    BY <1>2, <2>1, <2>2, SamePlace DEF InPlace
<1>9. ASSUME NEW l, MoveForward(l)
      PROVE  InPlace'
  <2>1. file' = file /\ Positions' = Positions /\ DOMAIN accessors' = DOMAIN accessors
    BY <1>1, <1>9, WhereItSlides DEF MoveForward
  <2>2. ASSUME NEW v \in DOMAIN accessors', NEW p \in InMemory'
        PROVE  accessors'[v][GetIndex(p)'] \in Allowed(v, p)
    <3>1. accessors'[v][GetIndex(p)'] =
            IF p \in InMemory THEN accessors[v][GetIndex(p)] ELSE Fill
      BY <1>1, <1>9, <2>1, SampleSlid
    <3>. QED
      BY <1>2, <1>4, <2>1, <3>1
  <2>. QED
    BY <1>2, <2>1, <2>2 DEF InPlace
<1>10. CASE UNCHANGED vars
  <2>1. UNCHANGED <<shape, minInMemoryL, accessors, file>>
    BY <1>10 DEF vars
  <2>. QED
    BY <1>2, <2>1, SamePlace DEF InPlace
<1>. QED
  BY <1>5, <1>6, <1>7, <1>8, <1>9, <1>10 DEF Next

-----------------------------------------------------------------------------
(* Storage implements RowStore.                                            *)

\* A position is in memory if its row is.
LEMMA Held ==
  ASSUME Placed, NEW p \in Positions
  PROVE  p \in InMemory <=> Abstract!IsHeld(p)
  BY DEF InMemory, Abstract!IsHeld, Abstract!Row

\* The content of a variable while the window stays.
LEMMA ContentStays ==
  ASSUME UNCHANGED <<shape, minInMemoryL>>, NEW n, accessors'[n] = accessors[n]
  PROVE  Content(n)' = Content(n)
<1>1. Positions' = Positions /\ InMemory' = InMemory /\ \A p : GetIndex(p)' = GetIndex(p)
  BY SamePlace
<1>. QED
  BY <1>1 DEF Content

\* A new segment is an empty store.
LEMMA ImplementsInit == Init => Abstract!Init
<1> SUFFICES ASSUME Init PROVE Abstract!Init
  OBVIOUS
<1>1. DOMAIN accessors = {} /\ file = [p \in Positions |-> Fill]
  BY DEF Init
<1>2. [n \in DOMAIN accessors |-> Content(n)] = [n \in {} |-> [p \in {} |-> Fill]]
  BY <1>1
<1>3. file = [p \in DOMAIN file |-> Fill]
  BY <1>1
<1>. QED
  BY <1>2, <1>3 DEF Abstract!Init

\* A new variable holds the fill value at all positions.
LEMMA ImplementsAddTo ==
  ASSUME TypeOK, NEW n, AddVariable(n)
  PROVE  Abstract!AddTo(n, DOMAIN file)
<1> DEFINE C == [v \in DOMAIN accessors |-> Content(v)]
<1>1. Placed /\ DOMAIN file = Positions
  BY TypeOKIsPlaced DEF TypeOK
<1>2. UNCHANGED <<shape, minInMemoryL, file>> /\ n \notin DOMAIN accessors
      /\ DOMAIN accessors' = DOMAIN accessors \cup {n}
      /\ \A v \in DOMAIN accessors : accessors'[v] = accessors[v]
  BY DEF AddVariable, IsUnique
<1>3. Content(n)' = [p \in Positions |-> Fill]
  <2>1. \A p \in InMemory : accessors'[n][GetIndex(p)] = Fill
    BY <1>1, SampleAdded
  <2>. QED
    BY <1>2, <2>1, SamePlace DEF Content
<1>4. \A v \in DOMAIN accessors : Content(v)' = Content(v)
  BY <1>2, ContentStays
<1>5. C' = [v \in DOMAIN C \cup {n} |-> IF v = n THEN [p \in Positions |-> Fill] ELSE C[v]]
  BY <1>2, <1>3, <1>4
<1>6. UNCHANGED <<Window, file>>
  BY <1>2, SamePlace
<1>. QED
  BY <1>1, <1>2, <1>5, <1>6 DEF Abstract!AddTo, Window

\* The transfer of a whole window is that of the positions it holds.
LEMMA ImplementsReadAll ==
  ASSUME TypeOK, Read
  PROVE  Abstract!ReadAll("source")
<1> DEFINE C == [v \in DOMAIN accessors |-> Content(v)]
<1>1. Placed
  BY TypeOKIsPlaced
<1>2. UNCHANGED <<shape, minInMemoryL, file>> /\ "source" \in DOMAIN accessors
      /\ DOMAIN accessors' = DOMAIN accessors
      /\ \A v \in DOMAIN accessors \ {"source"} : accessors'[v] = accessors[v]
  BY DEF Read
<1>3. Content("source")' =
        [p \in Positions |-> IF Abstract!IsHeld(p) THEN SourceValue(p) ELSE Content("source")[p]]
  <2>1. \A p \in InMemory : accessors'["source"][GetIndex(p)] = SourceValue(p)
    BY <1>1, SampleRead
  <2>2. Content("source")' = [p \in Positions |-> IF p \in InMemory THEN SourceValue(p) ELSE Fill]
    BY <1>2, <2>1, SamePlace DEF Content
  <2>3. \A p \in Positions : p \notin InMemory => Content("source")[p] = Fill
    BY DEF Content
  <2>. QED
    BY <1>1, <2>2, <2>3, Held
<1>4. \A v \in DOMAIN accessors \ {"source"} : Content(v)' = Content(v)
  BY <1>2, ContentStays
<1>5. DOMAIN Content("source") = Positions
  BY DEF Content
<1> DEFINE new == [p \in DOMAIN C["source"] |->
                     IF Abstract!IsHeld(p) THEN SourceValue(p) ELSE C["source"][p]]
<1>6. Content("source")' = new
  BY <1>2, <1>3, <1>5
<1>7. C' = [C EXCEPT !["source"] = new]
  <2> HIDE DEF new
  <2>. QED
    BY <1>2, <1>4, <1>6
<1>8. UNCHANGED <<Window, file>>
  BY <1>2, SamePlace
<1>. QED
  BY <1>7, <1>8 DEF Abstract!ReadAll, Window

\* What a module computes from the flat arrays, it computes from the positions.
LEMMA ImplementsPutRow ==
  ASSUME TypeOK, NEW l, Put(l)
  PROVE  Abstract!PutRow("result", l, "source")
<1> DEFINE C == [v \in DOMAIN accessors |-> Content(v)]
<1>1. Placed
  BY TypeOKIsPlaced
<1>2. /\ UNCHANGED <<shape, minInMemoryL, file>> /\ {"source", "result"} \subseteq DOMAIN accessors
      /\ DOMAIN accessors' = DOMAIN accessors /\ l \in Window
      /\ \A v \in DOMAIN accessors \ {"result"} : accessors'[v] = accessors[v]
  BY DEF Put, Window
<1>3. Content("result")' =
        [p \in Positions |-> IF Abstract!Row(p) = l THEN Result(Content("source")[p])
                                                    ELSE Content("result")[p]]
  <2>1. \A p \in InMemory : accessors'["result"][GetIndex(p)] =
            IF p[2] = l THEN Result(accessors["source"][GetIndex(p)])
                        ELSE accessors["result"][GetIndex(p)]
    BY <1>1, SamplePut
  <2>2. Content("result")' =
          [p \in Positions |-> IF p \in InMemory
             THEN IF p[2] = l THEN Result(accessors["source"][GetIndex(p)])
                              ELSE accessors["result"][GetIndex(p)]
             ELSE Fill]
    BY <1>2, <2>1, SamePlace DEF Content
  <2>3. \A p \in Positions : p[2] = l => p \in InMemory
    BY <1>2 DEF InMemory, Window
  <2>4. \A p \in Positions : Abstract!Row(p) = p[2]
    BY DEF Abstract!Row
  <2>5. \A n : \A p \in Positions :
          Content(n)[p] = IF p \in InMemory THEN accessors[n][GetIndex(p)] ELSE Fill
    BY DEF Content
  <2>. QED
    BY <2>2, <2>3, <2>4, <2>5
<1>4. \A v \in DOMAIN accessors \ {"result"} : Content(v)' = Content(v)
  BY <1>2, ContentStays
<1>5. DOMAIN Content("result") = Positions
  BY DEF Content
<1> DEFINE new == [p \in DOMAIN C["result"] |->
                     IF Abstract!Row(p) = l THEN Result(C["source"][p]) ELSE C["result"][p]]
<1>6. Content("result")' = new
  BY <1>2, <1>3, <1>5
<1>7. C' = [C EXCEPT !["result"] = new]
  <2> HIDE DEF new
  <2>. QED
    BY <1>2, <1>4, <1>6
<1>8. UNCHANGED <<Window, file>>
  BY <1>2, SamePlace
<1>. QED
  BY <1>2, <1>7, <1>8 DEF Abstract!PutRow, Window

\* Rows outside the window stay in the file as they were.
LEMMA ImplementsWriteAll ==
  ASSUME TypeOK, Write
  PROVE  Abstract!WriteAll("result")
<1> DEFINE C == [v \in DOMAIN accessors |-> Content(v)]
<1>1. Placed /\ DOMAIN file = Positions
  BY TypeOKIsPlaced DEF TypeOK
<1>2. UNCHANGED <<shape, minInMemoryL, accessors>> /\ "result" \in DOMAIN accessors
      /\ file' = [p \in Positions |-> file'[p]]
  BY DEF Write
<1>3. \A p \in Positions :
        file'[p] = IF Abstract!IsHeld(p) THEN Content("result")[p] ELSE file[p]
  <2>1. \A p \in Positions :
          file'[p] = IF p \in InMemory THEN accessors["result"][GetIndex(p)] ELSE file[p]
    BY <1>1, SampleWritten
  <2>2. \A p \in InMemory : Content("result")[p] = accessors["result"][GetIndex(p)]
    BY DEF Content, InMemory
  <2>. QED
    BY <1>1, <2>1, <2>2, Held
<1>4. file' = [p \in DOMAIN file |-> IF Abstract!IsHeld(p) THEN C["result"][p] ELSE file[p]]
  BY <1>1, <1>2, <1>3
<1>5. C' = C
  BY <1>2, ContentStays
<1>6. UNCHANGED Window
  BY <1>2, SamePlace
<1>. QED
  BY <1>4, <1>5, <1>6 DEF Abstract!WriteAll, Window

\* Shifting the flat arrays forgets the rows that leave, and nothing else.
LEMMA ImplementsSlide ==
  ASSUME TypeOK, NEW l, MoveForward(l)
  PROVE  Abstract!Slide(Window')
<1> DEFINE C == [v \in DOMAIN accessors |-> Content(v)]
<1>1. Placed
  BY TypeOKIsPlaced
<1>2. /\ file' = file /\ DOMAIN accessors' = DOMAIN accessors /\ Positions' = Positions
      /\ minInMemoryL' \in minInMemoryL..(minInMemoryL + shape.sizeL) /\ minInMemoryL' \in Nat
      /\ Window = minInMemoryL..(minInMemoryL + shape.sizeL - 1)
      /\ Window' = minInMemoryL'..(minInMemoryL' + shape.sizeL - 1)
  <2>1. file' = file /\ DOMAIN accessors' = DOMAIN accessors
    BY DEF MoveForward
  <2>. QED
    BY <1>1, <2>1, WhereItSlides, ShapeFacts DEF Window, MaxInMemoryL
<1>3. \A old \in Window \ Window', kept \in Window' : old < kept
  BY <1>1, <1>2, ShapeFacts
<1>4. /\ \A p \in Positions : Abstract!Row(p) = p[2]
      /\ \A p \in Positions : p \in InMemory <=> p[2] \in Window
      /\ \A p \in Positions : p \in InMemory' <=> p[2] \in Window'
  <2>1. InMemory' = {p \in Positions : p[2] \in Window'}
    BY <1>2 DEF InMemory, Window
  <2>. QED
    BY <2>1 DEF Abstract!Row, InMemory, Window
<1>5. ASSUME NEW n \in DOMAIN accessors
      PROVE  Content(n)' = [p \in Positions |->
               IF Abstract!Row(p) \in Window' \cap Window THEN Content(n)[p] ELSE Fill]
  <2>1. \A p \in InMemory' : accessors'[n][GetIndex(p)'] =
                               IF p \in InMemory THEN accessors[n][GetIndex(p)] ELSE Fill
    BY <1>1, SampleSlid
  <2>2. Content(n)' = [p \in Positions |->
                         IF p \in InMemory' THEN accessors'[n][GetIndex(p)'] ELSE Fill]
    BY <1>2 DEF Content
  <2>3. \A p \in Positions :
          Content(n)[p] = IF p \in InMemory THEN accessors[n][GetIndex(p)] ELSE Fill
    BY DEF Content
  <2>. QED
    BY <1>4, <2>1, <2>2, <2>3
<1>6. \A n \in DOMAIN accessors : DOMAIN Content(n) = Positions
  BY DEF Content
<1>7. C' = [n \in DOMAIN C |-> [p \in DOMAIN C[n] |->
              IF Abstract!Row(p) \in Window' \cap Window THEN C[n][p] ELSE Fill]]
  BY <1>2, <1>5, <1>6
<1>. QED
  BY <1>2, <1>3, <1>7 DEF Abstract!Slide, Window

\* The window slides to one that starts in it or directly behind it.
LEMMA SlidesInSteps ==
  ASSUME TypeOK, NEW l, MoveForward(l)
  PROVE  \E first \in Window \cup {r + 1 : r \in Window} :
           Window' = {first + r - (CHOOSE f \in Window : \A w \in Window : f <= w) : r \in Window}
<1>1. Placed
  BY TypeOKIsPlaced
<1>2. /\ minInMemoryL' \in minInMemoryL..(minInMemoryL + shape.sizeL)
      /\ Window = minInMemoryL..(minInMemoryL + shape.sizeL - 1)
      /\ Window' = minInMemoryL'..(minInMemoryL' + shape.sizeL - 1)
  BY <1>1, WhereItSlides, ShapeFacts DEF Window, MaxInMemoryL
<1> DEFINE a == minInMemoryL
           b == minInMemoryL'
           W == Window
           least == CHOOSE f \in W : \A w \in W : f <= w
<1>3. a \in Nat /\ b \in Nat /\ shape.sizeL \in Nat \ {0}
  BY <1>1, <1>2, ShapeFacts
<1>4. least = a
  BY <1>2, <1>3
<1>5. b \in W \cup {r + 1 : r \in W}
  <2>1. CASE b < a + shape.sizeL
    BY <1>2, <1>3, <2>1
  <2>2. CASE b = a + shape.sizeL
    <3>1. a + shape.sizeL - 1 \in W /\ b = (a + shape.sizeL - 1) + 1
      BY <1>2, <1>3, <2>2
    <3>. QED
      BY <3>1
  <2>. QED
    BY <1>2, <1>3, <2>1, <2>2
<1>6. Window' = {b + r - a : r \in W}
  <2> DEFINE L == shape.sizeL
             next == Window'
  <2>1. /\ L \in Nat \ {0} /\ b \in Nat /\ a \in Nat
        /\ W = a..(a + L - 1) /\ next = b..(b + L - 1)
    BY <1>2, <1>3
  <2> HIDE DEF L, a, b, W, next
  <2>2. ASSUME NEW r \in W PROVE b + r - a \in next
    BY <2>1
  <2>3. ASSUME NEW x \in next PROVE \E r \in W : x = b + r - a
    <3>1. a + (x - b) \in W /\ x = b + (a + (x - b)) - a
      BY <2>1
    <3>. QED
      BY <3>1
  <2>4. next = {b + r - a : r \in W}
    BY <2>2, <2>3
  <2>. QED
    BY <2>4 DEF next
<1>. QED
  BY <1>4, <1>5, <1>6

\* Every step of the segment is one of the store, or none.
LEMMA ImplementsNext == TypeOK /\ [Next]_vars => [Abstract!Next]_(Abstract!storeVars)
<1> SUFFICES ASSUME TypeOK, [Next]_vars PROVE [Abstract!Next]_(Abstract!storeVars)
  OBVIOUS
<1> DEFINE C == [v \in DOMAIN accessors |-> Content(v)]
<1>1. DOMAIN C = DOMAIN accessors
  OBVIOUS
<1>2. ASSUME NEW n \in {"source", "result"}, AddVariable(n)
      PROVE  Abstract!Next
  BY <1>2, ImplementsAddTo DEF Abstract!Next
<1>3. CASE Read
  BY <1>1, <1>3, ImplementsReadAll DEF Abstract!Next, Read
<1>4. ASSUME NEW l, Put(l)
      PROVE  Abstract!Next
  BY <1>1, <1>4, ImplementsPutRow DEF Abstract!Next, Put
<1>5. CASE Write
  BY <1>1, <1>5, ImplementsWriteAll DEF Abstract!Next, Write
<1>6. ASSUME NEW l, MoveForward(l)
      PROVE  Abstract!Next
  <2>1. Abstract!Slide(Window')
    BY <1>6, ImplementsSlide
  <2>. QED
    BY <1>6, <2>1, SlidesInSteps DEF Abstract!Next, Window
<1>7. CASE UNCHANGED vars
  <2>1. UNCHANGED <<shape, minInMemoryL, accessors, file>>
    BY <1>7 DEF vars
  <2>2. C' = C /\ UNCHANGED Window
    BY <2>1, ContentStays, SamePlace
  <2>. QED
    BY <2>1, <2>2 DEF Abstract!storeVars, Window
<1>. QED
  BY <1>2, <1>3, <1>4, <1>5, <1>6, <1>7 DEF Next

-----------------------------------------------------------------------------
(* The theorems about Storage. *)

\* The invariant holds throughout.
THEOREM Inductive == Spec => []Inv
<1>1. Inv /\ [Next]_vars => Inv'
  BY TypeOKStep, InPlaceStep DEF Inv
<1>. QED
  BY <1>1, InitInv, PTL DEF Spec

\* The window of a segment never leaves it, and each array keeps one sample
\* for every pixel of the window (GridImpl, SwathSegment::moveForward).
THEOREM TypeCorrect == Spec => []TypeOK
<1>1. Inv => TypeOK
  BY DEF Inv
<1>. QED
  BY <1>1, Inductive, PTL

\* No sample that was read for one position is ever found at, or written to
\* the file at, another one.
THEOREM InTheirPlace == Spec => []SamplesStayInPlace
<1>1. Inv => SamplesStayInPlace
  <2> SUFFICES ASSUME Inv PROVE SamplesStayInPlace
    OBVIOUS
  <2>1. ASSUME NEW n \in DOMAIN accessors, NEW p \in InMemory
        PROVE  accessors[n][GetIndex(p)] \in {Fill, SourceValue(p), Result(SourceValue(p))}
    BY DEF Inv, InPlace, Allowed
  <2>. QED
    BY <2>1 DEF Inv, InPlace, SamplesStayInPlace
<1>. QED
  BY <1>1, Inductive, PTL

\* A segment is an array over all rows of the product, of which those of the
\* window are in memory: each operation on the flat arrays is the operation
\* of RowStore on that array.
THEOREM IsARowStore == Spec => ImplementsRowStore
<1>1. TypeOK /\ [Next]_vars => [Abstract!Next]_(Abstract!storeVars)
  BY ImplementsNext
<1>. QED
  BY <1>1, ImplementsInit, TypeCorrect, PTL DEF Spec, ImplementsRowStore, Abstract!Spec

-----------------------------------------------------------------------------
(* GapFilling: its invariant.  The flag of success never changes in the    *)
(* loop, and a pixel with this flag is never written: what a thread takes  *)
(* from its neighbours is as good as constant.                             *)

\* The source position of the thread lies in the box around its target.
InBox(t, l) ==
  /\ l - FillDistance <= t.sourceL /\ t.sourceL <= l + FillDistance
  /\ t.n - FillDistance <= t.sourceN /\ t.sourceN <= t.n + FillDistance

\* The thread has passed q.
IsPassed(q, t) == q[1] < t.sourceL \/ (q[1] = t.sourceL /\ q[2] < t.sourceN)

Position(t) == <<t.sourceL, t.sourceN>>

ScanIsRight(t, l) ==
  t.pc \in {"scan", "flags"} =>
    /\ InBox(t, l)
    /\ t.mean = {q \in Sources(<<l, t.n>>) : IsPassed(q, t)}

SeenIsRight(t) ==
  t.pc = "flags" =>
    /\ Position(t) \in Pixel
    /\ IsSet(Position(t), "SUCCESS") => t.seen = {Position(t)}

MeanIsRight(t, l) ==
  /\ t.pc \in {"put", "putValue", "putRest"} => t.mean = Sources(<<l, t.n>>)
  /\ t.pc \in {"putValue", "putRest"} => IsSet(<<l, t.n>>, "FILLED")

TargetIsGap(t, l) ==
  t.pc \in {"scan", "flags", "put", "putValue", "putRest"} => ~IsSet(<<l, t.n>>, "SUCCESS")

ThreadInv(l) ==
  /\ ScanIsRight(thread[l], l)
  /\ SeenIsRight(thread[l])
  /\ MeanIsRight(thread[l], l)
  /\ TargetIsGap(thread[l], l)

SourcesKeepTheirValue ==
  \A p \in Pixel : IsSet(p, "SUCCESS") => value[p] = {p}

FillingInv ==
  /\ FillingTypeOK
  /\ SourcesKeepTheirValue
  /\ \A l \in Line : ThreadInv(l)
  /\ FillingIsDeterministic

-----------------------------------------------------------------------------
(* The operators of GapFilling. *)

\* The lines that are filled are lines of the segment.
LEMMA LinesExist == Line \subseteq 0..MaxL /\ Line \subseteq Int
BY GapFillingAssumption DEF Line, LastFillableL

\* A thread passes the positions of the box one by one, in order.
LEMMA PassesOneByOne ==
  ASSUME NEW l \in Line, NEW t \in Thread, InBox(t, l), NEW u, u = NextPosition(t, l)
  PROVE  /\ u \in Thread
         /\ u.n = t.n /\ u.mean = t.mean /\ u.seen = t.seen
         /\ u.pc \in {"scan", "put"}
         /\ u.pc = "scan" =>
              /\ InBox(u, l)
              /\ \A q \in Pixel : IsNear(<<l, t.n>>, q) =>
                   (IsPassed(q, u) <=> IsPassed(q, t) \/ q = Position(t))
         /\ u.pc = "put" =>
              \A q \in Pixel : IsNear(<<l, t.n>>, q) =>
                IsPassed(q, t) \/ q = Position(t)
<1> USE GapFillingAssumption, LinesExist
<1>0. l \in Int /\ t.n \in Int /\ FillDistance \in Int
  BY DEF Thread, Column
<1>q. ASSUME NEW q \in Pixel
      PROVE  q[1] \in Int /\ q[2] \in Int /\ q = <<q[1], q[2]>>
  BY DEF Pixel, Column
<1>1. CASE IsLastPosition(t, l)
  <2>1. u = [t EXCEPT !.pc = "put"]
    <3>1. ~(t.sourceL < l + FillDistance)
      BY <1>0, <1>1 DEF IsLastPosition, Thread
    <3> QED BY <1>1, <3>1, Zenon DEF NextPosition
  <2>2. u \in Thread /\ u.n = t.n /\ u.mean = t.mean /\ u.seen = t.seen /\ u.pc = "put"
    BY <2>1 DEF Thread
  <2>3. ASSUME NEW q \in Pixel, IsNear(<<l, t.n>>, q)
        PROVE  IsPassed(q, t) \/ q = Position(t)
    BY <1>0, <1>q, <1>1, <2>3 DEF IsLastPosition, IsNear, IsPassed, Position, Thread
  <2> QED BY <2>2, <2>3
<1>2. CASE ~IsLastPosition(t, l) /\ t.sourceN = t.n + FillDistance /\ t.sourceL < l + FillDistance
  <2>1. u = [t EXCEPT !.pc = "scan", !.sourceL = t.sourceL + 1, !.sourceN = t.n - FillDistance]
    BY <1>2 DEF NextPosition
  <2>2. /\ u \in Thread /\ u.n = t.n /\ u.mean = t.mean /\ u.seen = t.seen /\ u.pc = "scan"
        /\ u.sourceL = t.sourceL + 1 /\ u.sourceN = t.n - FillDistance
    <3>1. t.sourceL + 1 \in Int /\ t.n - FillDistance \in Int
      BY <1>0 DEF Thread
    <3>2. u \in Thread
      BY <2>1, <3>1, Zenon DEF Thread
    <3> QED BY <2>1, <3>2 DEF Thread
  <2>3. InBox(u, l)
    BY <1>0, <1>2, <2>2 DEF InBox, Thread
  <2>4. ASSUME NEW q \in Pixel, IsNear(<<l, t.n>>, q)
        PROVE  IsPassed(q, u) <=> IsPassed(q, t) \/ q = Position(t)
    BY <1>0, <1>q, <1>2, <2>2, <2>4 DEF IsNear, IsPassed, Position, Thread
  <2> QED BY <2>2, <2>3, <2>4
<1>3. CASE /\ ~IsLastPosition(t, l)
           /\ ~(t.sourceN = t.n + FillDistance /\ t.sourceL < l + FillDistance)
  <2>1. u = [t EXCEPT !.pc = "scan", !.sourceN = t.sourceN + 1]
    BY <1>3 DEF NextPosition
  <2>2. /\ u \in Thread /\ u.n = t.n /\ u.mean = t.mean /\ u.seen = t.seen /\ u.pc = "scan"
        /\ u.sourceL = t.sourceL /\ u.sourceN = t.sourceN + 1
    <3>1. t.sourceN + 1 \in Int
      BY DEF Thread
    <3>2. u \in Thread
      BY <2>1, <3>1, Zenon DEF Thread
    <3> QED BY <2>1, <3>2 DEF Thread
  <2>3. t.sourceN < t.n + FillDistance
    BY <1>0, <1>3 DEF InBox, Thread, IsLastPosition
  <2>4. InBox(u, l)
    BY <1>0, <2>2, <2>3 DEF InBox, Thread
  <2>5. ASSUME NEW q \in Pixel, IsNear(<<l, t.n>>, q)
        PROVE  IsPassed(q, u) <=> IsPassed(q, t) \/ q = Position(t)
    BY <1>0, <1>q, <2>2, <2>5 DEF IsPassed, Position, Thread
  <2> QED BY <2>2, <2>4, <2>5
<1> QED BY <1>1, <1>2, <1>3

\* Dealing with a pixel ends it and leads to the next one.
LEMMA NextPixelIsNext ==
  ASSUME NEW t \in Thread, NEW u, u = NextPixel(t)
  PROVE  /\ u \in Thread
         /\ u.pc \in {"take", "done"}
         /\ \A n \in Column : (n < u.n \/ u.pc = "done") => (n < t.n \/ n = t.n \/ t.n = MaxN)
         /\ \A n \in Column : (n < u.n \/ u.pc = "done") => n <= t.n
<1> USE GapFillingAssumption
<1>0. t.n \in 0..MaxN
  BY DEF Thread, Column
<1>1. CASE t.n < MaxN
  <2>1. u = [t EXCEPT !.pc = "take", !.n = t.n + 1]
    BY <1>1 DEF NextPixel
  <2>2. u \in Thread /\ u.pc = "take" /\ u.n = t.n + 1
    <3>1. t.n + 1 \in Column
      BY <1>0, <1>1 DEF Column
    <3>2. u \in Thread
      BY <2>1, <3>1, Zenon DEF Thread
    <3> QED BY <2>1, <3>2 DEF Thread
  <2> QED BY <1>0, <2>2 DEF Column
<1>2. CASE ~(t.n < MaxN)
  <2>1. u = [t EXCEPT !.pc = "done"]
    BY <1>2 DEF NextPixel
  <2>2. u \in Thread /\ u.pc = "done" /\ u.n = t.n
    BY <2>1 DEF Thread
  <2> QED BY <1>0, <1>2, <2>2 DEF Column
<1> QED BY <1>1, <1>2

-----------------------------------------------------------------------------
(* The invariant is preserved. *)

\* A step of the thread of line l disturbs no other thread: it is enough to
\* look at its own state and at its target pixel.
LEMMA OthersAreNotDisturbed ==
  ASSUME FillingInv, NEW l \in Line, NEW u \in Thread,
         thread' = [thread EXCEPT ![l] = u],
         flags' \in [Pixel -> SUBSET Flag],
         value' \in [Pixel -> SUBSET (Int \X Int)],
         \A p \in Pixel : IsSet(p, "SUCCESS")' <=> IsSet(p, "SUCCESS"),
         \A p \in Pixel : p # <<l, thread[l].n>> =>
           flags'[p] = flags[p] /\ value'[p] = value[p],
         IsSet(<<l, thread[l].n>>, "SUCCESS") => value' = value,
         ThreadInv(l)',
         \A p \in Pixel : p[1] = l /\ (p[2] < u.n \/ u.pc = "done") =>
           \/ p[2] < thread[l].n
           \/ p = <<l, thread[l].n>> /\ IsSet(p, "SUCCESS")
           \/ p = <<l, thread[l].n>> /\ value'[p] = Sources(p) /\ IsSet(p, "FILLED")'
  PROVE  FillingInv'
<1> USE GapFillingAssumption, LinesExist
<1>1. FillingTypeOK'
  BY DEF FillingInv, FillingTypeOK
<1>2. thread'[l] = u /\ \A k \in Line : k # l => thread'[k] = thread[k]
  BY DEF FillingInv, FillingTypeOK
<1>3. \A p : Sources(p)' = Sources(p)
  BY DEF Sources
<1>4. SourcesKeepTheirValue'
  BY DEF FillingInv, SourcesKeepTheirValue
<1>5. ASSUME NEW k \in Line
      PROVE  ThreadInv(k)'
  <2>1. CASE k = l
    BY <2>1
  <2>2. CASE k # l
    <3>1. thread'[k] = thread[k] /\ thread[k] \in Thread /\ ThreadInv(k)
      BY <1>2, <2>2 DEF FillingInv, FillingTypeOK
    <3>2. <<k, thread[k].n>> \in Pixel /\ <<k, thread[k].n>> # <<l, thread[l].n>>
      BY <2>2, <3>1 DEF Pixel, Thread
    <3>3. ScanIsRight(thread[k], k)'
      BY <1>3, <3>1 DEF ThreadInv, ScanIsRight, InBox, IsPassed
    <3>4. SeenIsRight(thread[k])'
      BY <3>1 DEF ThreadInv, SeenIsRight, Position
    <3>5. MeanIsRight(thread[k], k)'
      BY <1>3, <3>1, <3>2 DEF ThreadInv, MeanIsRight, IsSet
    <3>6. TargetIsGap(thread[k], k)'
      BY <3>1, <3>2 DEF ThreadInv, TargetIsGap
    <3> QED BY <3>3, <3>4, <3>5, <3>6 DEF ThreadInv
  <2> QED BY <2>1, <2>2
<1>6. FillingIsDeterministic'
  <2> SUFFICES ASSUME NEW p \in Pixel, IsDone(p)', ~IsSet(p, "SUCCESS")
               PROVE  value'[p] = Sources(p) /\ IsSet(p, "FILLED")'
    BY <1>3 DEF FillingIsDeterministic
  <2>0. p[1] \in Line /\ (IsDone(p) => value[p] = Sources(p) /\ IsSet(p, "FILLED"))
    BY DEF FillingInv, FillingIsDeterministic, IsDone
  <2>1. CASE p[1] # l
    <3>1. IsDone(p)
      BY <1>2, <2>0, <2>1 DEF IsDone
    <3>2. p # <<l, thread[l].n>>
      BY <2>1
    <3> QED BY <2>0, <3>1, <3>2 DEF IsSet
  <2>2. CASE p[1] = l
    <3>1. p[2] < u.n \/ u.pc = "done"
      BY <1>2, <2>2 DEF IsDone
    <3>2. CASE p[2] < thread[l].n
      <4>1. IsDone(p)
        BY <2>0, <2>2, <3>2 DEF IsDone
      <4>2. p # <<l, thread[l].n>>
        BY <3>2 DEF FillingInv, FillingTypeOK, Thread, Pixel, Column
      <4> QED BY <2>0, <4>1, <4>2 DEF IsSet
    <3> QED BY <2>2, <3>1, <3>2
  <2> QED BY <2>1, <2>2
<1> QED BY <1>1, <1>4, <1>5, <1>6 DEF FillingInv

\* What holds of the thread of line l and its target pixel.
LEMMA TargetIsPixel ==
  ASSUME FillingInv, NEW l \in Line
  PROVE  /\ thread[l] \in Thread /\ thread[l].n \in 0..MaxN
         /\ <<l, thread[l].n>> \in Pixel
         /\ ThreadInv(l)
         /\ \A p \in Pixel : p[1] = l /\ p[2] = thread[l].n => p = <<l, thread[l].n>>
BY LinesExist DEF FillingInv, FillingTypeOK, Thread, Pixel, Column

LEMMA KeepPixelKeepsInv == ASSUME FillingInv, NEW l \in Line, KeepPixel(l) PROVE FillingInv'
<1> DEFINE u == NextPixel(thread[l])
<1>1. /\ thread[l] \in Thread /\ IsSet(<<l, thread[l].n>>, "SUCCESS")
      /\ thread' = [thread EXCEPT ![l] = u] /\ UNCHANGED <<flags, value>>
  BY TargetIsPixel DEF KeepPixel
<1>2. /\ u \in Thread /\ u.pc \in {"take", "done"}
      /\ \A n \in Column : (n < u.n \/ u.pc = "done") => n <= thread[l].n
  BY <1>1, NextPixelIsNext
<1>3. thread'[l] = u
  BY <1>1 DEF FillingInv, FillingTypeOK
<1>4. ThreadInv(l)'
  BY <1>2, <1>3 DEF ThreadInv, ScanIsRight, SeenIsRight, MeanIsRight, TargetIsGap
<1> HIDE DEF u
<1>5. ASSUME NEW p \in Pixel, p[1] = l, p[2] < u.n \/ u.pc = "done"
      PROVE  p[2] < thread[l].n \/ (p = <<l, thread[l].n>> /\ IsSet(p, "SUCCESS"))
  <2>1. p[2] \in Column /\ p[2] \in Int /\ thread[l].n \in Int /\ p[2] <= thread[l].n
    BY <1>1, <1>2, <1>5, GapFillingAssumption DEF Pixel, Column, Thread
  <2> QED BY <1>1, <1>5, <2>1, TargetIsPixel
<1>6. /\ flags' \in [Pixel -> SUBSET Flag] /\ value' \in [Pixel -> SUBSET (Int \X Int)]
      /\ \A p \in Pixel : IsSet(p, "SUCCESS")' <=> IsSet(p, "SUCCESS")
      /\ \A p \in Pixel : flags'[p] = flags[p] /\ value'[p] = value[p]
      /\ value' = value
  BY <1>1 DEF FillingInv, FillingTypeOK, IsSet
<1> QED BY <1>1, <1>2, <1>4, <1>5, <1>6, OthersAreNotDisturbed

\* A step that changes nothing but the scan of the thread.
LEMMA ScanKeepsInv ==
  ASSUME FillingInv, NEW l \in Line, NEW u \in Thread,
         thread' = [thread EXCEPT ![l] = u], UNCHANGED <<flags, value>>,
         u.n = thread[l].n, u.pc # "done",
         ScanIsRight(u, l), SeenIsRight(u), MeanIsRight(u, l), TargetIsGap(u, l)
  PROVE  FillingInv'
<1>1. thread'[l] = u
  BY DEF FillingInv, FillingTypeOK
<1>2. \A p : Sources(p)' = Sources(p) /\ (\A f : IsSet(p, f)' <=> IsSet(p, f))
  BY DEF Sources, IsSet
<1>3. ThreadInv(l)'
  <2>1. ScanIsRight(thread[l], l)'
    BY <1>1, <1>2 DEF ScanIsRight, InBox, IsPassed
  <2>2. SeenIsRight(thread[l])'
    BY <1>1, <1>2 DEF SeenIsRight, Position
  <2>3. MeanIsRight(thread[l], l)' /\ TargetIsGap(thread[l], l)'
    BY <1>1, <1>2 DEF MeanIsRight, TargetIsGap
  <2> QED BY <2>1, <2>2, <2>3 DEF ThreadInv
<1>4. /\ flags' \in [Pixel -> SUBSET Flag] /\ value' \in [Pixel -> SUBSET (Int \X Int)]
      /\ \A p \in Pixel : flags'[p] = flags[p] /\ value'[p] = value[p]
      /\ value' = value
  BY DEF FillingInv, FillingTypeOK
<1> QED BY <1>2, <1>3, <1>4, OthersAreNotDisturbed

LEMMA TakePixelKeepsInv == ASSUME FillingInv, NEW l \in Line, TakePixel(l) PROVE FillingInv'
<1> DEFINE t == thread[l]
           u == [t EXCEPT !.pc = "scan", !.mean = {},
                          !.sourceL = l - FillDistance, !.sourceN = t.n - FillDistance]
<1> USE GapFillingAssumption
<1>1. /\ t \in Thread /\ ~IsSet(<<l, t.n>>, "SUCCESS")
      /\ thread' = [thread EXCEPT ![l] = u] /\ UNCHANGED <<flags, value>>
  BY TargetIsPixel DEF TakePixel
<1>2. /\ l \in Int /\ t.n \in Int
      /\ l - FillDistance \in Int /\ t.n - FillDistance \in Int
  BY <1>1, LinesExist DEF Thread, Column
<1> HIDE DEF t
<1>3. u \in Thread
  BY <1>1, <1>2, Zenon DEF Thread
<1>4. /\ u.pc = "scan" /\ u.n = t.n /\ u.mean = {}
      /\ u.sourceL = l - FillDistance /\ u.sourceN = t.n - FillDistance
  BY <1>1 DEF Thread
<1> HIDE DEF u
<1>5. InBox(u, l)
  BY <1>2, <1>4 DEF InBox
<1>6. ASSUME NEW q \in Pixel, IsNear(<<l, t.n>>, q)
      PROVE  ~IsPassed(q, u)
  <2>1. q[1] \in Int /\ q[2] \in Int
    BY DEF Pixel, Column
  <2> QED BY <1>2, <1>4, <1>6, <2>1 DEF IsNear, IsPassed
<1>7. ScanIsRight(u, l)
  BY <1>4, <1>5, <1>6 DEF ScanIsRight, Sources
<1>8. SeenIsRight(u) /\ MeanIsRight(u, l) /\ TargetIsGap(u, l)
  BY <1>1, <1>4 DEF SeenIsRight, MeanIsRight, TargetIsGap
<1> QED BY <1>1, <1>3, <1>4, <1>7, <1>8, ScanKeepsInv DEF t

\* The thread has dealt with its source position: its mean holds the sources
\* it has passed, the position included.
LEMMA NextPositionKeepsInv ==
  ASSUME FillingInv, NEW l \in Line, NEW t \in Thread, NEW u,
         u = NextPosition(t, l),
         thread' = [thread EXCEPT ![l] = u], UNCHANGED <<flags, value>>,
         t.n = thread[l].n, InBox(t, l), ~IsSet(<<l, t.n>>, "SUCCESS"),
         t.mean = {q \in Sources(<<l, t.n>>) : IsPassed(q, t) \/ q = Position(t)}
  PROVE  FillingInv'
<1>1. /\ u \in Thread
      /\ u.n = t.n /\ u.mean = t.mean
      /\ u.pc \in {"scan", "put"}
      /\ u.pc = "scan" =>
           /\ InBox(u, l)
           /\ \A q \in Pixel : IsNear(<<l, t.n>>, q) =>
                (IsPassed(q, u) <=> IsPassed(q, t) \/ q = Position(t))
      /\ u.pc = "put" =>
           \A q \in Pixel : IsNear(<<l, t.n>>, q) =>
             IsPassed(q, t) \/ q = Position(t)
  BY PassesOneByOne
<1>2. ScanIsRight(u, l)
  BY <1>1 DEF ScanIsRight, Sources
<1>3. MeanIsRight(u, l)
  BY <1>1 DEF MeanIsRight, Sources
<1>4. SeenIsRight(u) /\ TargetIsGap(u, l)
  BY <1>1 DEF SeenIsRight, TargetIsGap
<1> QED BY <1>1, <1>2, <1>3, <1>4, ScanKeepsInv

LEMMA SkipPositionKeepsInv == ASSUME FillingInv, NEW l \in Line, SkipPosition(l) PROVE FillingInv'
<1> DEFINE t == thread[l]
<1>1. /\ t \in Thread /\ t.pc = "scan" /\ Position(t) \notin Pixel
      /\ thread' = [thread EXCEPT ![l] = NextPosition(t, l)] /\ UNCHANGED <<flags, value>>
  BY TargetIsPixel DEF SkipPosition, IsValidPosition, Position
<1>2. ScanIsRight(t, l) /\ TargetIsGap(t, l)
  BY TargetIsPixel DEF ThreadInv
<1>3. InBox(t, l) /\ ~IsSet(<<l, t.n>>, "SUCCESS")
  BY <1>1, <1>2 DEF ScanIsRight, TargetIsGap
<1>4. t.mean = {q \in Sources(<<l, t.n>>) : IsPassed(q, t) \/ q = Position(t)}
  BY <1>1, <1>2 DEF ScanIsRight, Sources
<1> QED BY <1>1, <1>3, <1>4, NextPositionKeepsInv

LEMMA ReadValueKeepsInv == ASSUME FillingInv, NEW l \in Line, ReadValue(l) PROVE FillingInv'
<1> DEFINE t == thread[l]
           u == [t EXCEPT !.pc = "flags", !.seen = value[Position(t)]]
<1>1. /\ t \in Thread /\ t.pc = "scan" /\ Position(t) \in Pixel
      /\ thread' = [thread EXCEPT ![l] = u] /\ UNCHANGED <<flags, value>>
  BY TargetIsPixel DEF ReadValue, IsValidPosition, Position
<1>2. ScanIsRight(t, l) /\ TargetIsGap(t, l)
  BY TargetIsPixel DEF ThreadInv
<1>3. value[Position(t)] \in SUBSET (Int \X Int)
  BY <1>1 DEF FillingInv, FillingTypeOK
<1> HIDE DEF t
<1>4. u \in Thread
  BY <1>1, <1>3, Zenon DEF Thread
<1>5. /\ u.pc = "flags" /\ u.n = t.n /\ u.mean = t.mean
      /\ u.sourceL = t.sourceL /\ u.sourceN = t.sourceN
      /\ u.seen = value[Position(t)]
  BY <1>1 DEF Thread
<1> HIDE DEF u
<1>6. ScanIsRight(u, l)
  BY <1>1, <1>2, <1>5 DEF ScanIsRight, InBox, IsPassed
<1>7. SeenIsRight(u)
  BY <1>1, <1>5 DEF SeenIsRight, Position, FillingInv, SourcesKeepTheirValue
<1>8. MeanIsRight(u, l) /\ TargetIsGap(u, l)
  BY <1>1, <1>2, <1>5 DEF MeanIsRight, TargetIsGap
<1> QED BY <1>1, <1>4, <1>5, <1>6, <1>7, <1>8, ScanKeepsInv DEF t

LEMMA ReadFlagsKeepsInv == ASSUME FillingInv, NEW l \in Line, ReadFlags(l) PROVE FillingInv'
<1> DEFINE t == thread[l]
           mean == IF IsSource(Position(t)) THEN t.mean \cup t.seen ELSE t.mean
           u == [t EXCEPT !.mean = mean]
<1>1. /\ t \in Thread /\ t.pc = "flags"
      /\ thread' = [thread EXCEPT ![l] = NextPosition(u, l)] /\ UNCHANGED <<flags, value>>
  BY TargetIsPixel DEF ReadFlags, Position
<1>2. ScanIsRight(t, l) /\ SeenIsRight(t) /\ TargetIsGap(t, l)
  BY TargetIsPixel DEF ThreadInv
<1> HIDE DEF t
<1>3. mean \in SUBSET (Int \X Int)
  BY <1>1 DEF Thread
<1>4. mean = {q \in Sources(<<l, t.n>>) : IsPassed(q, t) \/ q = Position(t)}
  <2>1. /\ t.mean = {q \in Sources(<<l, t.n>>) : IsPassed(q, t)}
        /\ Position(t) \in Pixel /\ InBox(t, l)
    BY <1>1, <1>2 DEF ScanIsRight, SeenIsRight
  <2>2. CASE IsSource(Position(t))
    <3>1. mean = t.mean \cup {Position(t)}
      BY <1>1, <1>2, <2>2 DEF SeenIsRight, IsSource
    <3>2. IsNear(<<l, t.n>>, Position(t))
      BY <1>1, <2>1 DEF InBox, IsNear, Position
    <3>3. Position(t) \in Sources(<<l, t.n>>)
      BY <2>1, <2>2, <3>2 DEF Sources, IsSource
    <3> QED BY <2>1, <3>1, <3>3
  <2>3. CASE ~IsSource(Position(t))
    BY <2>1, <2>3 DEF Sources, IsSource
  <2> QED BY <2>2, <2>3
<1> HIDE DEF mean
<1>5. u \in Thread
  BY <1>1, <1>3, Zenon DEF Thread
<1>6. /\ u.n = t.n /\ u.mean = mean /\ u.sourceL = t.sourceL /\ u.sourceN = t.sourceN
  BY <1>1 DEF Thread
<1> HIDE DEF u
<1>7. InBox(u, l) /\ ~IsSet(<<l, u.n>>, "SUCCESS")
  BY <1>1, <1>2, <1>6 DEF ScanIsRight, TargetIsGap, InBox
<1>8. u.mean = {q \in Sources(<<l, u.n>>) : IsPassed(q, u) \/ q = Position(u)}
  BY <1>4, <1>6 DEF IsPassed, Position
<1> QED BY <1>1, <1>5, <1>6, <1>7, <1>8, NextPositionKeepsInv DEF t

\* A step that writes to the target pixel and stays with it.
LEMMA PutKeepsInv ==
  ASSUME FillingInv, NEW l \in Line, NEW p, p = <<l, thread[l].n>>, NEW u \in Thread,
         thread' = [thread EXCEPT ![l] = u],
         u.n = thread[l].n, u.mean = thread[l].mean, u.pc \in {"putValue", "putRest"},
         thread[l].pc \in {"put", "putValue"},
         flags' \in [Pixel -> SUBSET Flag],
         value' \in [Pixel -> SUBSET (Int \X Int)],
         \A q \in Pixel : IsSet(q, "SUCCESS")' <=> IsSet(q, "SUCCESS"),
         \A q \in Pixel : q # p => flags'[q] = flags[q] /\ value'[q] = value[q],
         IsSet(p, "FILLED")'
  PROVE  FillingInv'
<1>1. thread'[l] = u
  BY DEF FillingInv, FillingTypeOK
<1>2. p \in Pixel /\ thread[l].mean = Sources(p) /\ ~IsSet(p, "SUCCESS")
  BY TargetIsPixel DEF ThreadInv, MeanIsRight, TargetIsGap
<1>3. \A q : Sources(q)' = Sources(q)
  BY DEF Sources
<1>4. ThreadInv(l)'
  <2>1. MeanIsRight(thread[l], l)'
    BY <1>1, <1>2, <1>3 DEF MeanIsRight
  <2>2. TargetIsGap(thread[l], l)'
    BY <1>1, <1>2 DEF TargetIsGap
  <2>3. ScanIsRight(thread[l], l)' /\ SeenIsRight(thread[l])'
    BY <1>1 DEF ScanIsRight, SeenIsRight
  <2> QED BY <2>1, <2>2, <2>3 DEF ThreadInv
<1> QED BY <1>2, <1>4, OthersAreNotDisturbed

LEMMA PutFlagsKeepsInv == ASSUME FillingInv, NEW l \in Line, PutFlags(l) PROVE FillingInv'
<1> DEFINE t == thread[l]
           u == [t EXCEPT !.pc = "putValue"]
<1>1. /\ t \in Thread /\ t.pc = "put" /\ <<l, t.n>> \in Pixel
      /\ flags' = [flags EXCEPT ![<<l, t.n>>] = flags[<<l, t.n>>] \cup {"FILLED"}]
      /\ thread' = [thread EXCEPT ![l] = u] /\ value' = value
  BY TargetIsPixel DEF PutFlags
<1>2. u \in Thread /\ u.n = t.n /\ u.mean = t.mean /\ u.pc = "putValue"
  BY <1>1 DEF Thread
<1>3. /\ flags' \in [Pixel -> SUBSET Flag] /\ value' \in [Pixel -> SUBSET (Int \X Int)]
      /\ \A q \in Pixel : q # <<l, t.n>> => flags'[q] = flags[q] /\ value'[q] = value[q]
      /\ "FILLED" \in flags'[<<l, t.n>>]
      /\ \A q \in Pixel : "SUCCESS" \in flags'[q] <=> "SUCCESS" \in flags[q]
  BY <1>1 DEF FillingInv, FillingTypeOK, Flag
<1> HIDE DEF u
\* The target pixel before the step.
<1>4. PICK p : p = <<l, t.n>>
  OBVIOUS
<1> QED BY <1>1, <1>2, <1>3, <1>4, PutKeepsInv DEF IsSet

LEMMA PutFirstValueKeepsInv == ASSUME FillingInv, NEW l \in Line, PutFirstValue(l) PROVE FillingInv'
<1> DEFINE t == thread[l]
           u == [t EXCEPT !.pc = "putRest"]
<1>1. /\ t \in Thread /\ t.pc = "putValue" /\ <<l, t.n>> \in Pixel
      /\ value' = [value EXCEPT ![<<l, t.n>>] = Torn]
      /\ thread' = [thread EXCEPT ![l] = u] /\ flags' = flags
      /\ IsSet(<<l, t.n>>, "FILLED")
  BY TargetIsPixel DEF PutFirstValue, ThreadInv, MeanIsRight
<1>2. u \in Thread /\ u.n = t.n /\ u.mean = t.mean /\ u.pc = "putRest"
  BY <1>1 DEF Thread
<1>3. /\ flags' \in [Pixel -> SUBSET Flag] /\ value' \in [Pixel -> SUBSET (Int \X Int)]
      /\ \A q \in Pixel : q # <<l, t.n>> => flags'[q] = flags[q] /\ value'[q] = value[q]
      /\ "FILLED" \in flags'[<<l, t.n>>]
      /\ \A q \in Pixel : "SUCCESS" \in flags'[q] <=> "SUCCESS" \in flags[q]
  BY <1>1 DEF FillingInv, FillingTypeOK, Torn, IsSet
<1> HIDE DEF u
\* The target pixel before the step.
<1>4. PICK p : p = <<l, t.n>>
  OBVIOUS
<1> QED BY <1>1, <1>2, <1>3, <1>4, PutKeepsInv DEF IsSet

LEMMA PutLastValueKeepsInv == ASSUME FillingInv, NEW l \in Line, PutLastValue(l) PROVE FillingInv'
<1> DEFINE u == NextPixel(thread[l])
<1>1. /\ thread[l] \in Thread /\ thread[l].pc = "putRest" /\ <<l, thread[l].n>> \in Pixel
      /\ value' = [value EXCEPT ![<<l, thread[l].n>>] = thread[l].mean]
      /\ thread' = [thread EXCEPT ![l] = u] /\ flags' = flags
  BY TargetIsPixel DEF PutLastValue
<1>2. /\ u \in Thread /\ u.pc \in {"take", "done"}
      /\ \A n \in Column : (n < u.n \/ u.pc = "done") => n <= thread[l].n
  BY <1>1, NextPixelIsNext
<1>3. /\ IsSet(<<l, thread[l].n>>, "FILLED") /\ ~IsSet(<<l, thread[l].n>>, "SUCCESS")
      /\ thread[l].mean = Sources(<<l, thread[l].n>>) /\ thread[l].mean \in SUBSET (Int \X Int)
  BY <1>1, TargetIsPixel DEF ThreadInv, MeanIsRight, TargetIsGap, Thread
<1>4. /\ flags' \in [Pixel -> SUBSET Flag] /\ value' \in [Pixel -> SUBSET (Int \X Int)]
      /\ \A q \in Pixel : q # <<l, thread[l].n>> => flags'[q] = flags[q] /\ value'[q] = value[q]
      /\ value'[<<l, thread[l].n>>] = Sources(<<l, thread[l].n>>)
      /\ \A q, f : IsSet(q, f)' <=> IsSet(q, f)
  BY <1>1, <1>3 DEF FillingInv, FillingTypeOK, IsSet
<1>5. thread'[l] = u
  BY <1>1 DEF FillingInv, FillingTypeOK
<1>6. ThreadInv(l)'
  BY <1>2, <1>5 DEF ThreadInv, ScanIsRight, SeenIsRight, MeanIsRight, TargetIsGap
<1> HIDE DEF u
<1>7. ASSUME NEW p \in Pixel, p[1] = l, p[2] < u.n \/ u.pc = "done"
      PROVE  p[2] < thread[l].n \/ p = <<l, thread[l].n>>
  <2>1. p[2] \in Column /\ p[2] \in Int /\ thread[l].n \in Int /\ p[2] <= thread[l].n
    BY <1>1, <1>2, <1>7, GapFillingAssumption DEF Pixel, Column, Thread
  <2>2. p[2] < thread[l].n \/ p[2] = thread[l].n
    BY <2>1
  <2> QED BY <1>7, <2>2, TargetIsPixel
<1>8. \A p \in Pixel : p[1] = l /\ (p[2] < u.n \/ u.pc = "done") =>
        \/ p[2] < thread[l].n
        \/ p = <<l, thread[l].n>> /\ value'[p] = Sources(p) /\ IsSet(p, "FILLED")'
  BY <1>3, <1>4, <1>7
<1> QED BY <1>1, <1>2, <1>3, <1>4, <1>6, <1>8, OthersAreNotDisturbed

LEMMA StutteringKeepsInv == ASSUME FillingInv, UNCHANGED fillingVars PROVE FillingInv'
BY DEF fillingVars, FillingInv, FillingTypeOK, SourcesKeepTheirValue, ThreadInv, ScanIsRight, SeenIsRight,
       MeanIsRight, TargetIsGap, InBox, IsPassed, Position, FillingIsDeterministic,
       IsDone, Sources, IsSet

LEMMA NextKeepsFilling == ASSUME FillingInv, [FillingNext]_fillingVars PROVE FillingInv'
<1>1. ASSUME NEW l \in Line, Step(l)
      PROVE  FillingInv'
  <2>1. CASE KeepPixel(l)
    BY <2>1, KeepPixelKeepsInv
  <2>2. CASE TakePixel(l)
    BY <2>2, TakePixelKeepsInv
  <2>3. CASE SkipPosition(l)
    BY <2>3, SkipPositionKeepsInv
  <2>4. CASE ReadValue(l)
    BY <2>4, ReadValueKeepsInv
  <2>5. CASE ReadFlags(l)
    BY <2>5, ReadFlagsKeepsInv
  <2>6. CASE PutFlags(l)
    BY <2>6, PutFlagsKeepsInv
  <2>7. CASE PutFirstValue(l)
    BY <2>7, PutFirstValueKeepsInv
  <2>8. CASE PutLastValue(l)
    BY <2>8, PutLastValueKeepsInv
  <2> QED BY <1>1, <2>1, <2>2, <2>3, <2>4, <2>5, <2>6, <2>7, <2>8 DEF Step
<1>2. CASE Joined \/ UNCHANGED fillingVars
  BY <1>2, StutteringKeepsInv DEF Joined
<1> QED BY <1>1, <1>2 DEF FillingNext

LEMMA InitFillingInv == ASSUME FillingInit PROVE FillingInv
<1> USE GapFillingAssumption, LinesExist
<1>1. /\ value = [p \in Pixel |-> {p}]
      /\ thread = [l \in Line |-> [pc |-> "take", n |-> 0, sourceL |-> l, sourceN |-> 0,
                                   mean |-> {}, seen |-> {}]]
  BY DEF FillingInit
<1>2. FillingTypeOK
  <2>1. flags \in [Pixel -> SUBSET Flag]
    BY DEF FillingInit, Flag
  <2>2. value \in [Pixel -> SUBSET (Int \X Int)]
    BY <1>1 DEF Pixel, Column
  <2>3. thread \in [Line -> Thread]
    <3>1. 0 \in Column
      BY DEF Column
    <3> QED BY <1>1, <3>1 DEF Thread
  <2> QED BY <2>1, <2>2, <2>3 DEF FillingTypeOK
<1>3. SourcesKeepTheirValue
  BY <1>1 DEF SourcesKeepTheirValue
<1>4. ASSUME NEW l \in Line PROVE thread[l].pc = "take" /\ thread[l].n = 0
  BY <1>1
<1>5. \A l \in Line : ThreadInv(l)
  BY <1>4 DEF ThreadInv, ScanIsRight, SeenIsRight, MeanIsRight, TargetIsGap
<1>6. FillingIsDeterministic
  BY <1>4 DEF FillingIsDeterministic, IsDone, Pixel, Column
<1> QED BY <1>2, <1>3, <1>5, <1>6 DEF FillingInv

LEMMA FillingInvHolds == FillingSpec => []FillingInv
BY InitFillingInv, NextKeepsFilling, PTL DEF FillingSpec

-----------------------------------------------------------------------------
(* The theorems about GapFilling. *)

\* The flags, the values and the local variables of the threads are always
\* what their types say, in every schedule of the loop.
THEOREM FillingTypeCorrect == FillingSpec => []FillingTypeOK
<1>1. FillingInv => FillingTypeOK
  BY DEF FillingInv
<1> QED BY <1>1, FillingInvHolds, PTL

\* Whatever the schedule of the threads of Aer::process, each gap is filled
\* from exactly the successful pixels around it.
THEOREM GapsAreFilledAsByOneThread == FillingSpec => []FillingIsDeterministic
<1>1. FillingInv => FillingIsDeterministic
  BY DEF FillingInv
<1> QED BY <1>1, FillingInvHolds, PTL

\* The threads of Aer::process write to no pixel that another thread may take
\* values from, and to no line but those to be filled.
THEOREM WritesAreDisjointFromReads == FillingSpec => SourcesAreNotWritten
<1> DEFINE Untouched(p) == flags'[p] = flags[p] /\ value'[p] = value[p]
           Kept == \A p \in Pixel : IsSet(p, "SUCCESS") \/ p[1] \notin Line => Untouched(p)
<1>1. ASSUME FillingInv, [FillingNext]_fillingVars
      PROVE  Kept
  <2>1. ASSUME NEW l \in Line, PutFlags(l) \/ PutFirstValue(l) \/ PutLastValue(l)
        PROVE  Kept
    <3>1. ~IsSet(<<l, thread[l].n>>, "SUCCESS")
      BY <1>1, <2>1, TargetIsPixel DEF ThreadInv, TargetIsGap, PutFlags, PutFirstValue, PutLastValue
    <3>2. \A p \in Pixel : p # <<l, thread[l].n>> => Untouched(p)
      BY <1>1, <2>1 DEF PutFlags, PutFirstValue, PutLastValue, FillingInv, FillingTypeOK
    <3> QED BY <3>1, <3>2
  <2>2. CASE UNCHANGED <<flags, value>>
    BY <2>2
  <2> QED BY <1>1, <2>1, <2>2
          DEF FillingNext, Step, Joined, fillingVars, KeepPixel, TakePixel, SkipPosition, ReadValue, ReadFlags
<1> QED BY <1>1, FillingInvHolds, PTL DEF FillingSpec, SourcesAreNotWritten

-----------------------------------------------------------------------------
(* Lookup. *)

VARIABLES
  n, sizes, x, coordinates, strides, products, reach, phase, i, lo, hi, origin

Table == INSTANCE Lookup

Dim == 0..(n - 1)

\* The dimensions whose stride, and whose offset, has been computed.
IsStrided(d) == phase # "strides" \/ i <= d
IsReached(d) == phase \in {"dimension", "search"} \/ (phase = "offsets" /\ d < i)

LayoutTypes ==
  /\ n \in Nat
  /\ sizes \in [Dim -> Nat \ {0}]
  /\ x \in [Dim -> [Nat -> Int]] /\ coordinates \in [Dim -> Int]
  /\ strides \in [Dim -> Nat] /\ products \in [0..n -> Nat \ {0}]
  /\ reach \in [0..n -> Nat]

SearchTypes ==
  /\ i \in 0..n
  /\ phase \in {"strides", "offsets", "dimension", "search"}
  /\ lo \in Nat /\ hi \in Int /\ origin \in Nat

TableTypes == LayoutTypes /\ SearchTypes

StridesAreProducts ==
  \A d \in Dim : IsStrided(d) =>
    /\ products[d] = products[d + 1] * sizes[d]
    /\ strides[d] = IF sizes[d] > 1 THEN products[d + 1] ELSE 0

ReachIsSum ==
  /\ reach[0] = 0
  /\ \A d \in Dim : IsReached(d) => reach[d + 1] = reach[d] + strides[d]

OriginIsInTable ==
  /\ phase \in {"strides", "offsets"} => origin = 0
  /\ phase \in {"dimension", "search"} => origin + reach[i] + products[i] <= products[0]
  /\ phase = "search" => i \in Dim

TableInv == TableTypes /\ StridesAreProducts /\ ReachIsSum /\ OriginIsInTable
            /\ Table!SearchEncloses

-----------------------------------------------------------------------------

\* The searches leave the layout alone.
LEMMA LayoutStays == LayoutTypes /\ UNCHANGED <<Table!table, Table!layout>> => LayoutTypes'
  BY DEF LayoutTypes, Table!table, Table!layout, Dim

\* A table before the constructor has computed anything.
LEMMA TableInitInv == Table!Init => TableInv
<1> SUFFICES ASSUME Table!Init PROVE TableInv
  OBVIOUS
<1>1. TableTypes
  <2>1. n \in Nat /\ i \in 0..n
    BY DEF Table!Init
  <2>2. phase \in {"strides", "offsets", "dimension", "search"}
    BY DEF Table!Init
  <2>3. lo \in Nat /\ hi \in Int /\ origin \in Nat
    BY DEF Table!Init
  <2>4. LayoutTypes
    <3>1. sizes \in [Dim -> Nat \ {0}]
      BY DEF Table!Init, Dim
    <3>2. x \in [Dim -> [Nat -> Int]]
      BY DEF Table!Init, Dim
    <3>3. coordinates \in [Dim -> Int]
      BY DEF Table!Init, Dim
    <3>4. strides \in [Dim -> Nat]
      <4>1. strides = [d \in Dim |-> 0]
        BY DEF Table!Init, Dim
      <4> QED BY <4>1
    <3>5. products \in [0..n -> Nat \ {0}]
      <4>1. products = [d \in 0..n |-> 1]
        BY DEF Table!Init
      <4> QED BY <4>1
    <3>6. reach \in [0..n -> Nat]
      <4>1. reach = [d \in 0..n |-> 0]
        BY DEF Table!Init
      <4> QED BY <4>1
    <3> QED BY <2>1, <3>1, <3>2, <3>3, <3>4, <3>5, <3>6 DEF LayoutTypes
  <2> QED BY <2>1, <2>2, <2>3, <2>4 DEF TableTypes, SearchTypes
<1>2. \A d \in Dim : ~IsStrided(d) /\ ~IsReached(d)
  BY DEF Table!Init, IsStrided, IsReached, Dim
<1>3. reach[0] = 0
  BY DEF Table!Init
<1> QED
  BY <1>1, <1>2, <1>3 DEF Table!Init, TableInv, StridesAreProducts, ReachIsSum, OriginIsInTable,
     Table!SearchEncloses

\* The strides are the products of the lengths of the later dimensions.
LEMMA StrideInv == TableInv /\ Table!Stride => TableInv'
<1> SUFFICES ASSUME TableInv, Table!Stride PROVE TableInv'
  OBVIOUS
<1> DEFINE j == i - 1
<1>1. /\ TableTypes /\ phase = "strides" /\ phase' = phase /\ i' = j /\ j \in Dim /\ i = j + 1
      /\ n' = n /\ sizes' = sizes /\ x' = x /\ coordinates' = coordinates
      /\ reach' = reach /\ lo' = lo /\ hi' = hi /\ origin' = origin
  <2>1. n \in Nat /\ i \in 0..n /\ i > 0 /\ TableTypes
    BY DEF TableInv, TableTypes, LayoutTypes, SearchTypes, Table!Stride
  <2>2. j \in Dim /\ i = j + 1
    BY <2>1 DEF Dim
  <2> QED BY <2>1, <2>2 DEF Table!Stride, Table!table
<1>2. /\ strides' = [strides EXCEPT ![j] = IF sizes[j] > 1 THEN products[i] ELSE 0]
      /\ products' = [products EXCEPT ![j] = products[i] * sizes[j]]
  BY DEF Table!Stride
<1>3. sizes[j] \in Nat \ {0} /\ products[i] \in Nat \ {0} /\ j \in 0..n /\ i \in 0..n
  BY <1>1 DEF TableTypes, LayoutTypes, SearchTypes, Dim
<1>4. products[i] * sizes[j] \in Nat \ {0}
  BY <1>3
<1>5. TableTypes'
  BY <1>1, <1>2, <1>3, <1>4 DEF TableTypes, LayoutTypes, SearchTypes, Dim
<1>6. StridesAreProducts'
  <2> SUFFICES ASSUME NEW d \in Dim, j <= d
               PROVE  /\ products'[d] = products'[d + 1] * sizes[d]
                      /\ strides'[d] = IF sizes[d] > 1 THEN products'[d + 1] ELSE 0
    BY <1>1 DEF StridesAreProducts, IsStrided, Dim
  <2>1. d + 1 # j /\ d + 1 \in 0..n /\ d \in 0..n
    BY <1>1 DEF TableTypes, LayoutTypes, SearchTypes, Dim
  <2>2. products'[d + 1] = products[d + 1]
    BY <1>1, <1>2, <2>1 DEF TableTypes, LayoutTypes, SearchTypes
  <2>3. CASE d = j
    <3>1. products'[j] = products[i] * sizes[j]
      BY <1>1, <1>2, <1>3 DEF TableTypes, LayoutTypes, SearchTypes
    <3>2. strides'[j] = IF sizes[j] > 1 THEN products[i] ELSE 0
      BY <1>1, <1>2, <1>3 DEF TableTypes, LayoutTypes, SearchTypes
    <3> QED BY <1>1, <2>2, <2>3, <3>1, <3>2
  <2>4. CASE d # j
    <3>1. i <= d
      BY <1>1, <2>4 DEF TableTypes, LayoutTypes, SearchTypes, Dim
    <3>2. products'[d] = products[d] /\ strides'[d] = strides[d]
      BY <1>1, <1>2, <2>1, <2>4 DEF TableTypes, LayoutTypes, SearchTypes
    <3> QED BY <2>2, <3>1, <3>2 DEF TableInv, StridesAreProducts, IsStrided
  <2> QED BY <2>3, <2>4
<1>7. ReachIsSum'
  BY <1>1 DEF TableInv, ReachIsSum, IsReached, Dim
<1> QED
  BY <1>1, <1>5, <1>6, <1>7 DEF TableInv, OriginIsInTable, Table!SearchEncloses

\* All strides are computed.
LEMMA StridedInv == TableInv /\ Table!Strided => TableInv'
<1> SUFFICES ASSUME TableInv, Table!Strided PROVE TableInv'
  OBVIOUS
<1>1. TableTypes'
  <2>1. LayoutTypes'
    BY LayoutStays DEF TableInv, TableTypes, Table!Strided, Table!table, Table!layout
  <2>2. SearchTypes'
    BY DEF TableInv, TableTypes, LayoutTypes, SearchTypes, Table!Strided, Table!table,
       Table!layout, Dim
  <2> QED BY <2>1, <2>2 DEF TableTypes
<1>2. \A d \in Dim : IsStrided(d) /\ ~IsReached(d)'
  BY DEF TableInv, TableTypes, LayoutTypes, SearchTypes, Table!Strided, IsStrided,
     IsReached, Dim
<1>3. StridesAreProducts' /\ ReachIsSum'
  BY <1>2 DEF TableInv, Table!Strided, Table!table, Table!layout, StridesAreProducts,
     ReachIsSum, Dim
<1> QED
  BY <1>1, <1>3 DEF TableInv, Table!Strided, OriginIsInTable, Table!SearchEncloses

\* The largest offset grows by the stride of a dimension.
LEMMA OffsetInv == TableInv /\ Table!Offset => TableInv'
<1> SUFFICES ASSUME TableInv, Table!Offset PROVE TableInv'
  OBVIOUS
<1>1. /\ TableTypes /\ phase = "offsets" /\ phase' = phase /\ i \in Dim /\ i' = i + 1
      /\ n' = n /\ sizes' = sizes /\ x' = x /\ coordinates' = coordinates
      /\ strides' = strides /\ products' = products
      /\ lo' = lo /\ hi' = hi /\ origin' = origin
      /\ reach' = [reach EXCEPT ![i + 1] = reach[i] + strides[i]]
  <2>1. n \in Nat /\ i \in 0..n /\ i < n /\ TableTypes
    BY DEF TableInv, TableTypes, LayoutTypes, SearchTypes, Table!Offset
  <2>2. i \in Dim
    BY <2>1 DEF Dim
  <2> QED BY <2>1, <2>2 DEF Table!Offset, Table!table
<1>2. /\ i \in 0..n /\ i + 1 \in 0..n /\ reach[i] + strides[i] \in Nat
  <2>1. i \in 0..n /\ i + 1 \in 0..n
    BY <1>1 DEF TableTypes, LayoutTypes, SearchTypes, Dim
  <2>2. reach[i] \in Nat /\ strides[i] \in Nat
    BY <1>1, <2>1 DEF TableTypes, LayoutTypes
  <2> QED BY <2>1, <2>2
<1>3. TableTypes'
  BY <1>1, <1>2 DEF TableTypes, LayoutTypes, SearchTypes, Dim
<1>4. StridesAreProducts'
  BY <1>1 DEF TableInv, StridesAreProducts, IsStrided, Dim
<1>5. reach'[0] = 0
  BY <1>1, <1>2 DEF TableInv, ReachIsSum, TableTypes, LayoutTypes, SearchTypes
<1>6. ASSUME NEW d \in Dim, d < i + 1
      PROVE  reach'[d + 1] = reach'[d] + strides[d]
  <2>1. d \in 0..n /\ d + 1 \in 0..n /\ d # i + 1
    BY <1>1, <1>6 DEF TableTypes, LayoutTypes, SearchTypes, Dim
  <2>2. reach'[d] = reach[d]
    BY <1>1, <2>1 DEF TableTypes, LayoutTypes, SearchTypes
  <2>3. CASE d = i
    BY <1>1, <1>2, <2>2, <2>3 DEF TableTypes, LayoutTypes, SearchTypes
  <2>4. CASE d # i
    <3>1. d < i /\ d + 1 # i + 1
      BY <1>1, <1>6, <2>4 DEF TableTypes, LayoutTypes, SearchTypes, Dim
    <3>2. reach'[d + 1] = reach[d + 1]
      BY <1>1, <2>1, <3>1 DEF TableTypes, LayoutTypes, SearchTypes
    <3> QED BY <1>1, <2>2, <3>1, <3>2 DEF TableInv, ReachIsSum, IsReached
  <2> QED BY <2>3, <2>4
<1>7. ReachIsSum'
  BY <1>1, <1>5, <1>6 DEF ReachIsSum, IsReached, Dim
<1> QED
  BY <1>1, <1>3, <1>4, <1>7 DEF TableInv, OriginIsInTable, Table!SearchEncloses

\* The first vertices are in the table.
LEMMA ReadyInv == TableInv /\ Table!Ready => TableInv'
<1> SUFFICES ASSUME TableInv, Table!Ready PROVE TableInv'
  OBVIOUS
<1>1. /\ phase' = "dimension" /\ i' = 0 /\ n' = n /\ sizes' = sizes /\ x' = x
      /\ coordinates' = coordinates /\ strides' = strides /\ products' = products
      /\ reach' = reach /\ lo' = lo /\ hi' = hi /\ origin' = origin
  BY DEF Table!Ready, Table!table, Table!layout
<1>2. TableTypes'
  <2>1. LayoutTypes'
    BY LayoutStays DEF TableInv, TableTypes, Table!Ready, Table!table, Table!layout
  <2>2. SearchTypes'
    BY <1>1 DEF TableInv, TableTypes, LayoutTypes, SearchTypes,
       Table!Ready, Table!table, Table!layout, Dim
  <2> QED BY <2>1, <2>2 DEF TableTypes
<1>3. \A d \in Dim : IsStrided(d) /\ IsReached(d)
  BY DEF TableInv, TableTypes, LayoutTypes, SearchTypes, Table!Ready, IsStrided, IsReached, Dim
<1>4. StridesAreProducts' /\ ReachIsSum'
  BY <1>1, <1>3 DEF TableInv, StridesAreProducts, ReachIsSum, Dim
<1>5. origin + reach[0] + products[0] <= products[0]
  BY DEF TableInv, Table!Ready, OriginIsInTable, ReachIsSum, TableTypes, LayoutTypes,
     SearchTypes
<1> QED
  BY <1>1, <1>2, <1>4, <1>5 DEF TableInv, OriginIsInTable, Table!SearchEncloses

\* A search starts with the whole dimension.
LEMMA GetIndexInv == TableInv /\ Table!GetIndex => TableInv'
<1> SUFFICES ASSUME TableInv, Table!GetIndex PROVE TableInv'
  OBVIOUS
<1>1. /\ phase = "dimension" /\ phase' = "search" /\ i \in Dim
      /\ i' = i /\ n' = n /\ sizes' = sizes /\ x' = x
      /\ coordinates' = coordinates /\ strides' = strides /\ products' = products
      /\ reach' = reach /\ lo' = 0 /\ hi' = sizes[i] - 1 /\ origin' = origin
  BY DEF TableInv, TableTypes, LayoutTypes, SearchTypes, Table!GetIndex, Table!table,
     Table!layout, Dim
<1>2. sizes[i] \in Nat \ {0}
  BY <1>1 DEF TableInv, TableTypes, LayoutTypes, SearchTypes
<1>3. TableTypes'
  <2>1. LayoutTypes'
    BY LayoutStays DEF TableInv, TableTypes, Table!GetIndex, Table!table, Table!layout
  <2>2. SearchTypes'
    BY <1>1, <1>2 DEF TableInv, TableTypes, LayoutTypes, SearchTypes,
       Table!GetIndex, Table!table, Table!layout, Dim
  <2> QED BY <2>1, <2>2 DEF TableTypes
<1>4. StridesAreProducts' /\ ReachIsSum'
  BY <1>1 DEF TableInv, StridesAreProducts, ReachIsSum, IsStrided, IsReached, Dim
<1>5. OriginIsInTable'
  BY <1>1 DEF TableInv, OriginIsInTable, Dim
<1>6. Table!SearchEncloses'
  BY <1>1, <1>2 DEF Table!SearchEncloses
<1> QED
  BY <1>3, <1>4, <1>5, <1>6 DEF TableInv

\* Halving keeps the coordinate between its bounds.
LEMMA BisectInv == TableInv /\ Table!Bisect => TableInv'
<1> SUFFICES ASSUME TableInv, Table!Bisect PROVE TableInv'
  OBVIOUS
<1>1. /\ phase = "search" /\ phase' = phase /\ i \in Dim
      /\ i' = i /\ n' = n /\ sizes' = sizes /\ x' = x
      /\ coordinates' = coordinates /\ strides' = strides /\ products' = products
      /\ reach' = reach /\ origin' = origin
  BY DEF TableInv, OriginIsInTable, Table!Bisect, Table!table, Table!layout
<1>2. /\ lo \in Nat /\ hi \in Int /\ hi > lo + 1 /\ hi < sizes[i]
      /\ sizes[i] \in Nat \ {0} /\ coordinates[i] \in Int /\ x[i] \in [Nat -> Int]
  BY <1>1 DEF TableInv, TableTypes, LayoutTypes, SearchTypes, Table!SearchEncloses, Table!Bisect
<1>3. Table!Middle \in Nat /\ lo < Table!Middle /\ Table!Middle < hi
  BY <1>2 DEF Table!Middle
<1>4. \/ coordinates[i] < x[i][Table!Middle] /\ hi' = Table!Middle /\ lo' = lo
      \/ x[i][Table!Middle] <= coordinates[i] /\ lo' = Table!Middle /\ hi' = hi
  <2>1. x[i][Table!Middle] \in Int
    BY <1>2, <1>3
  <2> QED BY <1>2, <2>1 DEF Table!Bisect
<1>5. TableTypes'
  <2>1. LayoutTypes'
    BY LayoutStays DEF TableInv, TableTypes, Table!Bisect, Table!table, Table!layout
  <2>2. SearchTypes'
    <3>1. lo' \in Nat /\ hi' \in Int
      BY <1>2, <1>3, <1>4
    <3> QED BY <1>1, <3>1 DEF TableInv, TableTypes, SearchTypes
  <2> QED BY <2>1, <2>2 DEF TableTypes
<1>6. StridesAreProducts' /\ ReachIsSum'
  BY <1>1 DEF TableInv, StridesAreProducts, ReachIsSum, IsStrided, IsReached, Dim
<1>7. OriginIsInTable'
  BY <1>1 DEF TableInv, OriginIsInTable, Dim
<1>8. Table!SearchEncloses'
  BY <1>1, <1>2, <1>3, <1>4 DEF TableInv, Table!SearchEncloses
<1> QED
  BY <1>5, <1>6, <1>7, <1>8 DEF TableInv

\* The vertices that a dimension adds lie within the product that its stride
\* leaves out.
LEMMA DimensionFits ==
  ASSUME NEW p \in Nat, NEW s \in Nat \ {0}, NEW l \in Nat, NEW t \in Nat,
         t = IF s > 1 THEN p ELSE 0,
         IF s > 1 THEN l + 2 <= s ELSE l = 0
  PROVE  l * t + t + p <= p * s
<1>1. CASE s > 1
  <2>1. (l + 2) * p <= s * p
    <3>1. PICK r \in Nat : s = l + 2 + r
      BY <1>1
    <3>2. s * p = (l + 2) * p + r * p /\ r * p \in Nat /\ (l + 2) * p \in Nat
      BY <3>1
    <3> QED BY <3>2
  <2>2. l * t + t + p = (l + 2) * p /\ p * s = s * p
    BY <1>1
  <2> QED BY <2>1, <2>2
<1>2. CASE ~(s > 1)
  BY <1>2
<1> QED BY <1>1, <1>2

\* The vertices of one more dimension are in the table.
LEMMA FoundInv == TableInv /\ Table!Found => TableInv'
<1> SUFFICES ASSUME TableInv, Table!Found PROVE TableInv'
  OBVIOUS
<1>1. /\ phase = "search" /\ phase' = "dimension" /\ i \in Dim
      /\ i' = i + 1 /\ n' = n /\ sizes' = sizes /\ x' = x
      /\ coordinates' = coordinates /\ strides' = strides /\ products' = products
      /\ reach' = reach /\ lo' = lo /\ hi' = hi
      /\ origin' = origin + lo * strides[i]
  BY DEF TableInv, OriginIsInTable, Table!Found, Table!table, Table!layout
<1>2. /\ lo \in Nat /\ hi \in Int /\ hi < sizes[i] /\ (lo < hi \/ (lo = 0 /\ hi = 0))
      /\ sizes[i] \in Nat \ {0} /\ strides[i] \in Nat /\ origin \in Nat
      /\ i \in 0..n /\ i + 1 \in 0..n
      /\ products[i] \in Nat /\ products[i + 1] \in Nat /\ products[0] \in Nat
      /\ reach[i] \in Nat /\ reach[i + 1] \in Nat
  <2>1. /\ n \in Nat /\ i \in 0..n /\ i + 1 \in 0..n /\ 0 \in 0..n
        /\ lo \in Nat /\ hi \in Int /\ origin \in Nat
    BY <1>1 DEF TableInv, TableTypes, LayoutTypes, SearchTypes, Dim
  <2>2. /\ sizes[i] \in Nat \ {0} /\ strides[i] \in Nat
        /\ products[i] \in Nat /\ products[i + 1] \in Nat /\ products[0] \in Nat
        /\ reach[i] \in Nat /\ reach[i + 1] \in Nat
    BY <1>1, <2>1 DEF TableInv, TableTypes, LayoutTypes
  <2>3. hi < sizes[i] /\ (lo < hi \/ (lo = 0 /\ hi = 0))
    BY <1>1 DEF TableInv, Table!SearchEncloses
  <2> QED BY <2>1, <2>2, <2>3
<1>3. IF sizes[i] > 1 THEN lo + 2 <= sizes[i] ELSE lo = 0
  BY <1>2
<1>4. /\ products[i] = products[i + 1] * sizes[i]
      /\ strides[i] = IF sizes[i] > 1 THEN products[i + 1] ELSE 0
      /\ reach[i + 1] = reach[i] + strides[i]
      /\ origin + reach[i] + products[i] <= products[0]
  BY <1>1 DEF TableInv, StridesAreProducts, ReachIsSum, IsStrided, IsReached, OriginIsInTable
<1>5. lo * strides[i] + strides[i] + products[i + 1] <= products[i + 1] * sizes[i]
  BY <1>2, <1>3, <1>4, DimensionFits
<1>6. lo * strides[i] \in Nat
  BY <1>2
<1>7. origin + lo * strides[i] + reach[i + 1] + products[i + 1] <= products[0]
  <2> DEFINE m == lo * strides[i]
  <2>1. m + strides[i] + products[i + 1] <= products[i]
    BY <1>4, <1>5
  <2>2. m \in Nat
    BY <1>6
  <2> HIDE DEF m
  <2>3. origin + m + reach[i + 1] + products[i + 1] <= products[0]
    BY <1>2, <1>4, <2>1, <2>2
  <2> QED BY <2>3 DEF m
<1>8. TableTypes'
  <2>1. LayoutTypes'
    BY LayoutStays DEF TableInv, TableTypes, Table!Found, Table!table, Table!layout
  <2>2. SearchTypes'
    <3>1. phase' \in {"strides", "offsets", "dimension", "search"}
      BY <1>1
    <3>2. origin' \in Nat
      BY <1>1, <1>2, <1>6
    <3> QED BY <1>1, <1>2, <3>1, <3>2 DEF SearchTypes
  <2> QED BY <2>1, <2>2 DEF TableTypes
<1>9. StridesAreProducts' /\ ReachIsSum'
  BY <1>1 DEF TableInv, StridesAreProducts, ReachIsSum, IsStrided, IsReached, Dim
<1>10. OriginIsInTable' /\ Table!SearchEncloses'
  BY <1>1, <1>7 DEF OriginIsInTable, Table!SearchEncloses
<1> QED
  BY <1>8, <1>9, <1>10 DEF TableInv

\* No step breaks the invariant.
LEMMA TableStepInv == TableInv /\ [Table!Next]_(Table!vars) => TableInv'
<1> SUFFICES ASSUME TableInv, [Table!Next]_(Table!vars) PROVE TableInv'
  OBVIOUS
<1>1. CASE UNCHANGED Table!vars
  BY <1>1 DEF Table!vars, Table!table, Table!layout, TableInv, TableTypes, LayoutTypes, SearchTypes,
     StridesAreProducts, ReachIsSum, OriginIsInTable, Table!SearchEncloses,
     IsStrided, IsReached, Dim
<1> QED
  BY <1>1, StrideInv, StridedInv, OffsetInv, ReadyInv, GetIndexInv, BisectInv, FoundInv
  DEF Table!Next

\* The invariant holds throughout.
LEMMA TableInvHolds == Table!Spec => []TableInv
  BY TableInitInv, TableStepInv, PTL DEF Table!Spec

-----------------------------------------------------------------------------

\* No coordinate makes getScalar or getVector read past the values of a table
\* (LookupTableImpl), whatever its number of dimensions, and although the
\* dimensions of length 1 have no stride.
THEOREM LookupsStayInTable == Table!Spec => []Table!VerticesAreInTable
<1>1. TableInv => Table!VerticesAreInTable
  BY DEF TableInv, OriginIsInTable, Table!VerticesAreInTable
<1> QED BY TableInvHolds, <1>1, PTL

\* The bisection of LookupTableImpl::getIndex encloses the coordinate, unless
\* it is outside of the dimension.
THEOREM BisectionEncloses == Table!Spec => []Table!SearchEncloses
  BY TableInvHolds, PTL DEF TableInv

-----------------------------------------------------------------------------
(* TiePoints. *)

VARIABLES
  tieSize, ordering, cosine, midIndex, wanted, minIndex, maxIndex, position,
  weights, indexes, counts, tiePhase

Points == INSTANCE TiePoints WITH
  size <- tieSize, n <- wanted, i <- position, phase <- tiePhase

PointTypes ==
  /\ tieSize \in Nat \ {0} /\ wanted \in Nat \ {0} /\ midIndex \in 0..tieSize
  /\ ordering \in [Nat -> Nat] /\ cosine \in [Nat -> Points!Cosine]
  /\ \A j, k \in Nat : ordering[j] = ordering[k] => j = k

WindowTypes ==
  /\ PointTypes
  /\ weights \in [Points!Slots -> Int] /\ indexes \in [Points!Slots -> Nat]
  /\ minIndex \in Nat /\ maxIndex \in Nat /\ position \in Nat
  /\ tiePhase \in {"window", "search", "done"}

\* What has been scanned of the window.
Scanned == minIndex..(position - 1)

IsSorted ==
  tiePhase # "window" =>
    /\ \A k, l \in Points!Slots : k <= l => weights[k] >= weights[l]
    /\ \A k \in Points!Slots : weights[k] \in Points!Cosine

\* The kept tie points have been scanned, and the weights are theirs.
KeptAreScanned ==
  tiePhase # "window" =>
    \A k \in Points!Slots : weights[k] # Points!Farthest =>
      \E j \in Scanned : indexes[k] = ordering[j] /\ weights[k] = cosine[j]

ScannedAreKept ==
  tiePhase # "window" =>
    \A j \in Scanned :
       \/ \E k \in Points!Slots : indexes[k] = ordering[j] /\ weights[k] = cosine[j]
       \/ \A k \in Points!Slots : weights[k] >= cosine[j]

BeginsAtMinimum == tiePhase # "window" => minIndex <= position

AllAreScanned == tiePhase = "done" => position >= maxIndex

Counted ==
  tiePhase = "done" =>
    \/ counts = Points!Slots /\ \A k \in Points!Slots : weights[k] # Points!One
    \/ \E k \in Points!Slots : counts = {k} /\ weights[k] = Points!One

PointInv ==
  /\ WindowTypes /\ Points!WindowIsInTable /\ IsSorted /\ KeptAreScanned /\ ScannedAreKept
  /\ Points!TiePointsDiffer /\ BeginsAtMinimum /\ AllAreScanned /\ Counted

-----------------------------------------------------------------------------

LEMMA Cosines ==
  Points!Cosine \subseteq Int /\ Points!Farthest \in Points!Cosine /\ \A c \in Points!Cosine : Points!Farthest <= c /\ c <= Points!One
  BY DEF Points!Cosine, Points!Farthest, Points!One

LEMMA PointInitInv == Points!Init => PointInv
  BY DEF Points!Init, PointInv, WindowTypes, PointTypes, Points!WindowIsInTable, IsSorted, KeptAreScanned, ScannedAreKept,
     Points!TiePointsDiffer, BeginsAtMinimum, AllAreScanned, Counted

LEMMA WindowInv == PointInv /\ Points!Window => PointInv'
<1> SUFFICES ASSUME PointInv, Points!Window PROVE PointInv'
  OBVIOUS
<1>1. /\ tieSize' = tieSize /\ ordering' = ordering /\ cosine' = cosine /\ midIndex' = midIndex
      /\ wanted' = wanted /\ indexes' = indexes /\ tiePhase' = "search" /\ position' = minIndex'
      /\ weights' = [k \in Points!Slots |-> Points!Farthest]
  BY DEF Points!Window, Points!tiePoints
<1>2. tieSize \in Nat \ {0} /\ wanted \in Nat \ {0} /\ midIndex \in 0..tieSize /\ Points!Range = 200
  BY DEF PointInv, WindowTypes, PointTypes, Points!Range
<1>3. /\ minIndex' = IF midIndex >= Points!Range THEN midIndex - Points!Range ELSE 0
      /\ maxIndex' = IF tieSize < Points!Range \/ midIndex <= tieSize - Points!Range THEN midIndex + Points!Range ELSE tieSize
  BY DEF Points!Window
<1>4. minIndex' \in Nat /\ maxIndex' \in Nat
  BY <1>2, <1>3
<1>5. WindowTypes'
  <2>1. PointTypes'
    BY <1>1 DEF PointInv, WindowTypes, PointTypes
  <2>2. weights' \in [Points!Slots -> Int]
    BY <1>1, Cosines
  <2> QED BY <1>1, <1>4, <2>1, <2>2 DEF PointInv, WindowTypes, Points!Slots
<1>6. Points!WindowIsInTable'
  BY <1>1, <1>2, <1>3 DEF Points!WindowIsInTable
<1>7. \A k \in Points!Slots : weights'[k] = Points!Farthest
  BY <1>1
<1>8. Scanned' = {}
  <2>1. position' = minIndex' /\ minIndex' \in Int
    BY <1>1, <1>4
  <2>2. Scanned' = minIndex'..(minIndex' - 1)
    BY <2>1 DEF Scanned
  <2>3. \A y \in Int : y..(y - 1) = {}
    OBVIOUS
  <2> QED BY <2>1, <2>2, <2>3
<1>9. IsSorted' /\ KeptAreScanned' /\ ScannedAreKept' /\ Points!TiePointsDiffer'
  BY <1>1, <1>7, <1>8, Cosines DEF IsSorted, KeptAreScanned, ScannedAreKept, Points!TiePointsDiffer, Points!Slots
<1> QED
  BY <1>1, <1>4, <1>5, <1>6, <1>9 DEF PointInv, BeginsAtMinimum, AllAreScanned, Counted

\* Both steps of the search scan one more tie point.
LEMMA OneMore ==
  ASSUME PointInv, Points!Insert \/ Points!Skip
  PROVE  /\ tieSize' = tieSize /\ ordering' = ordering /\ cosine' = cosine /\ midIndex' = midIndex
         /\ wanted' = wanted /\ minIndex' = minIndex /\ maxIndex' = maxIndex /\ Points!Slots' = Points!Slots
         /\ tiePhase = "search" /\ tiePhase' = "search" /\ position' = position + 1
         /\ position \in Nat /\ minIndex \in Nat /\ maxIndex \in Nat /\ minIndex <= position
         /\ wanted \in Nat \ {0} /\ cosine[position] \in Points!Cosine /\ ordering[position] \in Nat
         /\ weights \in [Points!Slots -> Int] /\ indexes \in [Points!Slots -> Nat]
<1>1. /\ tieSize' = tieSize /\ ordering' = ordering /\ cosine' = cosine /\ midIndex' = midIndex
      /\ wanted' = wanted /\ minIndex' = minIndex /\ maxIndex' = maxIndex
      /\ tiePhase = "search" /\ tiePhase' = "search" /\ position' = position + 1
  BY DEF Points!Insert, Points!Skip, Points!tiePoints
<1>2. /\ position \in Nat /\ minIndex \in Nat /\ maxIndex \in Nat /\ wanted \in Nat \ {0}
      /\ cosine[position] \in Points!Cosine /\ ordering[position] \in Nat
      /\ weights \in [Points!Slots -> Int] /\ indexes \in [Points!Slots -> Nat]
  BY DEF PointInv, WindowTypes, PointTypes
<1>3. minIndex <= position
  BY <1>1 DEF PointInv, BeginsAtMinimum
<1> QED BY <1>1, <1>2, <1>3 DEF Points!Slots

LEMMA OneMoreIsScanned ==
  ASSUME PointInv, Points!Insert \/ Points!Skip
  PROVE  Scanned' = Scanned \cup {position} /\ position \notin Scanned /\ Scanned \subseteq Nat
<1>1. /\ minIndex' = minIndex /\ position' = position + 1 /\ position \in Nat /\ minIndex \in Nat /\ minIndex <= position
  BY OneMore
<1> QED BY <1>1 DEF Scanned

LEMMA SkipInv == PointInv /\ Points!Skip => PointInv'
<1> SUFFICES ASSUME PointInv, Points!Skip PROVE PointInv'
  OBVIOUS
<1>1. weights' = weights /\ indexes' = indexes /\ \A k \in Points!Slots : weights[k] >= cosine[position]
  <2>1. \A k \in Points!Slots : cosine[position] <= weights[k]
    BY DEF Points!Skip
  <2>2. \A k \in Points!Slots : weights[k] \in Int /\ cosine[position] \in Int
    BY OneMore, Cosines
  <2> QED BY <2>1, <2>2 DEF Points!Skip, Points!kept
<1>2. Points!Slots' = Points!Slots
  BY OneMore
<1>3. WindowTypes' /\ Points!WindowIsInTable' /\ BeginsAtMinimum' /\ AllAreScanned' /\ Counted'
  BY <1>1, <1>2, OneMore
  DEF PointInv, WindowTypes, PointTypes, Points!WindowIsInTable, BeginsAtMinimum, AllAreScanned, Counted
<1>4. IsSorted' /\ Points!TiePointsDiffer'
  BY <1>1, <1>2, OneMore DEF PointInv, IsSorted, Points!TiePointsDiffer
<1>5. KeptAreScanned'
  <2> SUFFICES ASSUME NEW k \in Points!Slots, weights[k] # Points!Farthest
               PROVE  \E j \in Scanned' : indexes[k] = ordering[j]
                                     /\ weights[k] = cosine[j]
    BY <1>1, <1>2, OneMore DEF KeptAreScanned
  <2>1. PICK j \in Scanned : indexes[k] = ordering[j] /\ weights[k] = cosine[j]
    BY OneMore DEF PointInv, KeptAreScanned
  <2> QED BY <2>1, OneMoreIsScanned
<1>6. ScannedAreKept'
  <2> SUFFICES ASSUME NEW j \in Scanned'
               PROVE  \/ \E k \in Points!Slots : indexes[k] = ordering[j] /\ weights[k] = cosine[j]
                      \/ \A k \in Points!Slots : weights[k] >= cosine[j]
    BY <1>1, <1>2, OneMore DEF ScannedAreKept
  <2>1. CASE j = position
    BY <1>1, <2>1
  <2>2. CASE j \in Scanned
    BY <2>2, OneMore DEF PointInv, ScannedAreKept
  <2> QED BY <2>1, <2>2, OneMoreIsScanned
<1> QED BY <1>3, <1>4, <1>5, <1>6 DEF PointInv

LEMMA InsertInv == PointInv /\ Points!Insert => PointInv'
<1> SUFFICES ASSUME PointInv, Points!Insert PROVE PointInv'
  OBVIOUS
<1> DEFINE d == cosine[position]
<1>1. PICK p \in Points!Slots : /\ Points!IsPlace(p)
                         /\ weights' = Points!Inserted(weights, p, d)
                         /\ indexes' = Points!Inserted(indexes, p, ordering[position])
  BY DEF Points!Insert
<1>2. /\ Points!Slots' = Points!Slots /\ wanted \in Nat \ {0} /\ p \in Nat /\ d \in Points!Cosine /\ d \in Int
      /\ ordering[position] \in Nat
      /\ weights \in [Points!Slots -> Int] /\ indexes \in [Points!Slots -> Nat]
  <2>1. d \in Int
    BY OneMore, Cosines
  <2>2. p \in Nat
    BY DEF Points!Slots
  <2> QED BY <2>1, <2>2, OneMore
<1>3. /\ d > weights[p] /\ weights[p] \in Int
      /\ \A l \in Points!Slots : l < p => d <= weights[l]
  <2>1. \A l \in Points!Slots : l < p => l \in 0..(p - 1)
    BY <1>2 DEF Points!Slots
  <2> QED BY <1>1, <1>2, <2>1 DEF Points!IsPlace
\* Where the values in the new slots come from.
<1>4. \A s \in Points!Slots :
        /\ s < p => weights'[s] = weights[s] /\ indexes'[s] = indexes[s]
        /\ s = p => weights'[s] = d /\ indexes'[s] = ordering[position]
        /\ s > p => /\ s - 1 \in Points!Slots
                    /\ weights'[s] = weights[s - 1] /\ indexes'[s] = indexes[s - 1]
  BY <1>1, <1>2 DEF Points!Inserted, Points!Slots
<1>5. /\ \A k, l \in Points!Slots : k <= l => weights[k] >= weights[l]
      /\ \A k \in Points!Slots : weights[k] \in Points!Cosine
  BY OneMore DEF PointInv, IsSorted
<1>6. WindowTypes'
  <2>1. weights' \in [Points!Slots -> Int] /\ indexes' \in [Points!Slots -> Nat]
    <3>1. \A s \in Points!Slots : s > p => s - 1 \in Points!Slots
      BY <1>4
    <3>2. \A s \in Points!Slots : s < p \/ s = p \/ s > p
      BY <1>2 DEF Points!Slots
    <3>3. \A s \in Points!Slots : weights'[s] \in Int /\ indexes'[s] \in Nat
      BY <1>2, <1>4, <3>1, <3>2
    <3> QED BY <1>1, <3>3 DEF Points!Inserted
  <2> QED BY <1>2, <2>1, OneMore DEF PointInv, WindowTypes, PointTypes
<1>7. Points!WindowIsInTable' /\ BeginsAtMinimum' /\ AllAreScanned' /\ Counted'
  BY OneMore DEF PointInv, Points!WindowIsInTable, BeginsAtMinimum, AllAreScanned, Counted
<1>8. IsSorted'
  <2>1. ASSUME NEW k \in Points!Slots, NEW l \in Points!Slots, k <= l PROVE weights'[k] >= weights'[l]
    <3>1. k \in Int /\ l \in Int /\ p \in Int
      BY DEF Points!Slots
    <3>2. CASE l < p
      BY <1>4, <1>5, <2>1, <3>1, <3>2
    <3>3. CASE l = p /\ k < p
      BY <1>2, <1>3, <1>4, <3>1, <3>3
    <3>4. CASE l = p /\ k = p
      BY <1>2, <1>4, <3>4
    <3>5. CASE l > p /\ k < p
      BY <1>2, <1>4, <1>5, <3>1, <3>5
    <3>6. CASE l > p /\ k = p
      <4>1. l - 1 \in Points!Slots /\ weights'[l] = weights[l - 1] /\ weights'[k] = d /\ p <= l - 1
        BY <1>4, <3>1, <3>6
      <4>2. weights[p] >= weights[l - 1] /\ weights[l - 1] \in Int
        BY <1>2, <1>5, <4>1
      <4> QED BY <1>2, <1>3, <4>1, <4>2
    <3>7. CASE l > p /\ k > p
      <4>1. /\ l - 1 \in Points!Slots /\ k - 1 \in Points!Slots /\ k - 1 <= l - 1
            /\ weights'[l] = weights[l - 1] /\ weights'[k] = weights[k - 1]
        BY <1>4, <2>1, <3>1, <3>7
      <4> QED BY <1>5, <4>1
    <3> QED BY <2>1, <3>1, <3>2, <3>3, <3>4, <3>5, <3>6, <3>7
  <2>2. ASSUME NEW k \in Points!Slots PROVE weights'[k] \in Points!Cosine
    <3>1. k < p \/ k = p \/ k > p
      BY <1>2 DEF Points!Slots
    <3> QED BY <1>2, <1>4, <1>5, <3>1
  <2> QED BY <1>2, <2>1, <2>2, OneMore DEF IsSorted
\* Each slot holds what a slot held before, or the new tie point.
<1>9. ASSUME NEW s \in Points!Slots
      PROVE  \/ s = p /\ weights'[s] = d /\ indexes'[s] = ordering[position]
             \/ s # p /\ \E q \in Points!Slots : /\ q = IF s < p THEN s ELSE s - 1
                                          /\ weights'[s] = weights[q] /\ indexes'[s] = indexes[q]
  <2>1. s < p \/ s = p \/ s > p
    BY <1>2 DEF Points!Slots
  <2>2. CASE s < p
    <3>1. s # p /\ s = IF s < p THEN s ELSE s - 1
      BY <1>2, <2>2 DEF Points!Slots
    <3> QED BY <1>4, <2>2, <3>1
  <2>3. CASE s = p
    BY <1>4, <2>3
  <2>4. CASE s > p
    <3>1. s # p /\ s - 1 = IF s < p THEN s ELSE s - 1
      BY <1>2, <2>4 DEF Points!Slots
    <3> QED BY <1>4, <2>4, <3>1
  <2> QED BY <2>1, <2>2, <2>3, <2>4
<1>10. ASSUME NEW s \in Points!Slots
       PROVE  \/ weights'[s] = d /\ indexes'[s] = ordering[position]
              \/ \E q \in Points!Slots : weights'[s] = weights[q] /\ indexes'[s] = indexes[q]
  BY <1>9
<1>11. KeptAreScanned'
  <2> SUFFICES ASSUME NEW s \in Points!Slots, weights'[s] # Points!Farthest
               PROVE  \E j \in Scanned' : indexes'[s] = ordering[j]
                                     /\ weights'[s] = cosine[j]
    BY OneMore DEF KeptAreScanned
  <2>1. CASE weights'[s] = d /\ indexes'[s] = ordering[position]
    <3>1. position \in Scanned'
      BY OneMore, OneMoreIsScanned
    <3> QED BY <2>1, <3>1
  <2>2. ASSUME NEW q \in Points!Slots, weights'[s] = weights[q] /\ indexes'[s] = indexes[q]
        PROVE  \E j \in Scanned' : indexes'[s] = ordering[j]
                              /\ weights'[s] = cosine[j]
    <3>1. PICK j \in Scanned : indexes[q] = ordering[j] /\ weights[q] = cosine[j]
      BY <2>2, OneMore DEF PointInv, KeptAreScanned
    <3> QED BY <2>2, <3>1, OneMoreIsScanned
  <2> QED BY <1>10, <2>1, <2>2
<1>12. ScannedAreKept'
  <2> SUFFICES ASSUME NEW j \in Scanned'
               PROVE  \/ \E s \in Points!Slots : indexes'[s] = ordering[j] /\ weights'[s] = cosine[j]
                      \/ \A s \in Points!Slots : weights'[s] >= cosine[j]
    BY <1>2, OneMore DEF ScannedAreKept
  <2> DEFINE c == cosine[j]
  <2>1. c \in Int
    <3>1. j \in Nat /\ cosine \in [Nat -> Points!Cosine]
      BY OneMore, OneMoreIsScanned DEF PointInv, WindowTypes, PointTypes
    <3> QED BY <3>1, Cosines
  <2>2. CASE j = position
    BY <1>4, <2>2
\* What is not nearer than c stays behind what is.
  <2>3. ASSUME \A s \in Points!Slots : weights[s] >= c PROVE \A s \in Points!Slots : weights'[s] >= c
    <3>1. d >= c
      <4>1. weights[p] >= c
        BY <2>3
      <4> QED BY <1>2, <1>3, <2>1, <4>1
    <3> QED BY <1>10, <2>3, <3>1
  <2>4. ASSUME NEW s \in Points!Slots, indexes[s] = ordering[j] /\ weights[s] = c
        PROVE  \/ \E t \in Points!Slots : indexes'[t] = ordering[j] /\ weights'[t] = c
               \/ \A t \in Points!Slots : weights'[t] >= c
    <3>1. s < p \/ s >= p
      BY <1>2 DEF Points!Slots
    <3>2. CASE s < p
      BY <1>4, <2>4, <3>2
    <3>3. CASE s >= p /\ s + 1 \in Points!Slots
      <4>1. s + 1 > p /\ (s + 1) - 1 = s
        <5>1. s \in Int /\ p \in Int
          BY DEF Points!Slots
        <5> QED BY <3>3, <5>1
      <4>2. weights'[s + 1] = weights[s] /\ indexes'[s + 1] = indexes[s]
        BY <1>4, <3>3, <4>1
      <4> QED BY <2>4, <3>3, <4>2
    <3>4. CASE s >= p /\ s + 1 \notin Points!Slots
      <4>1. \A t \in Points!Slots : t <= s
        BY <1>2, <3>4 DEF Points!Slots
      <4>2. \A t \in Points!Slots : weights[t] >= c
        BY <1>5, <2>4, <4>1
      <4> QED BY <2>3, <4>2
    <3> QED BY <3>1, <3>2, <3>3, <3>4
  <2> QED BY <2>2, <2>3, <2>4, OneMore, OneMoreIsScanned DEF PointInv, ScannedAreKept
<1>13. Points!TiePointsDiffer'
  <2> SUFFICES ASSUME NEW k \in Points!Slots, NEW l \in Points!Slots, k # l,
                      weights'[k] # Points!Farthest, weights'[l] # Points!Farthest
               PROVE  indexes'[k] # indexes'[l]
    BY <1>2, OneMore DEF Points!TiePointsDiffer
\* The new tie point is none of those that are kept.
  <2>1. ASSUME NEW q \in Points!Slots, weights[q] # Points!Farthest PROVE indexes[q] # ordering[position]
    <3>1. PICK j \in Scanned : indexes[q] = ordering[j]
      BY <2>1, OneMore DEF PointInv, KeptAreScanned
    <3>2. j # position /\ j \in Nat /\ position \in Nat
      BY <3>1, OneMore, OneMoreIsScanned
    <3>3. \A a, b \in Nat : ordering[a] = ordering[b] => a = b
      BY DEF PointInv, WindowTypes, PointTypes
    <3> QED BY <3>1, <3>2, <3>3
  <2>2. ASSUME NEW q \in Points!Slots, NEW r \in Points!Slots, q # r,
               weights[q] # Points!Farthest, weights[r] # Points!Farthest
        PROVE  indexes[q] # indexes[r]
    BY <2>2, OneMore DEF PointInv, Points!TiePointsDiffer
  <2>3. CASE k = p
    <3>1. indexes'[k] = ordering[position] /\ l # p
      BY <1>4, <2>3
    <3>2. PICK q \in Points!Slots : weights'[l] = weights[q] /\ indexes'[l] = indexes[q]
      BY <1>9, <3>1
    <3> QED BY <2>1, <3>1, <3>2
  <2>4. CASE l = p
    <3>1. indexes'[l] = ordering[position] /\ k # p
      BY <1>4, <2>4
    <3>2. PICK q \in Points!Slots : weights'[k] = weights[q] /\ indexes'[k] = indexes[q]
      BY <1>9, <3>1
    <3> QED BY <2>1, <3>1, <3>2
  <2>5. CASE k # p /\ l # p
    <3>1. PICK q \in Points!Slots : q = (IF k < p THEN k ELSE k - 1)
                             /\ weights'[k] = weights[q] /\ indexes'[k] = indexes[q]
      BY <1>9, <2>5
    <3>2. PICK r \in Points!Slots : r = (IF l < p THEN l ELSE l - 1)
                             /\ weights'[l] = weights[r] /\ indexes'[l] = indexes[r]
      BY <1>9, <2>5
    <3>3. q # r
      <4>1. k \in Int /\ l \in Int /\ p \in Int
        BY DEF Points!Slots
      <4> QED BY <2>5, <3>1, <3>2, <4>1
    <3> QED BY <2>2, <3>1, <3>2, <3>3
  <2> QED BY <2>3, <2>4, <2>5
<1> QED BY <1>6, <1>7, <1>8, <1>11, <1>12, <1>13 DEF PointInv

LEMMA WeighInv == PointInv /\ Points!Weigh => PointInv'
<1> SUFFICES ASSUME PointInv, Points!Weigh PROVE PointInv'
  OBVIOUS
<1>1. /\ tieSize' = tieSize /\ ordering' = ordering /\ cosine' = cosine /\ midIndex' = midIndex
      /\ wanted' = wanted /\ minIndex' = minIndex /\ maxIndex' = maxIndex /\ position' = position
      /\ weights' = weights /\ indexes' = indexes /\ tiePhase = "search" /\ tiePhase' = "done"
      /\ position >= maxIndex
  BY DEF Points!Weigh, Points!tiePoints, Points!kept
<1>2. Points!Slots' = Points!Slots
  BY <1>1 DEF Points!Slots
<1>3. WindowTypes' /\ Points!WindowIsInTable' /\ BeginsAtMinimum' /\ AllAreScanned'
  BY <1>1, <1>2 DEF PointInv, WindowTypes, PointTypes, Points!WindowIsInTable, BeginsAtMinimum, AllAreScanned
<1>4. Counted'
  BY <1>1, <1>2 DEF Points!Weigh, Counted
<1>5. IsSorted' /\ KeptAreScanned' /\ ScannedAreKept' /\ Points!TiePointsDiffer'
  BY <1>1, <1>2
  DEF PointInv, IsSorted, KeptAreScanned, ScannedAreKept, Points!TiePointsDiffer, Scanned
<1> QED BY <1>3, <1>4, <1>5 DEF PointInv

LEMMA PointInvHolds == Points!Spec => []PointInv
<1>1. PointInv /\ [Points!Next]_Points!vars => PointInv'
  <2> SUFFICES ASSUME PointInv, [Points!Next]_Points!vars PROVE PointInv'
    OBVIOUS
  <2>1. CASE UNCHANGED Points!vars
    <3>1. Points!Slots' = Points!Slots
      BY <2>1 DEF Points!vars, Points!tiePoints, Points!Slots
    <3> QED
      BY <2>1, <3>1
      DEF Points!vars, Points!tiePoints, Points!kept, PointInv, WindowTypes, PointTypes, Points!WindowIsInTable, IsSorted,
          KeptAreScanned, ScannedAreKept, Points!TiePointsDiffer, BeginsAtMinimum, AllAreScanned,
          Counted, Scanned
  <2> QED BY <2>1, WindowInv, InsertInv, SkipInv, WeighInv DEF Points!Next
<1> QED BY PointInitInv, <1>1, PTL DEF Points!Spec

-----------------------------------------------------------------------------

\* The window of TiePointInterpolator::prepare lies in the table, if there are
\* at least 200 tie points.
THEOREM WindowStaysInTable == Points!Spec => []Points!WindowIsInTable
<1>1. PointInv => Points!WindowIsInTable
  BY DEF PointInv
<1> QED BY PointInvHolds, <1>1, PTL

\* The insertion of TiePointInterpolator::prepare keeps the nearest tie points
\* of the window.
THEOREM InsertionKeepsTheNearest == Points!Spec => []Points!NearestAreKept
<1>1. PointInv => Points!NearestAreKept
  <2> SUFFICES ASSUME PointInv, tiePhase = "done", NEW j \in minIndex..(maxIndex - 1)
               PROVE  \/ \E k \in Points!Slots : indexes[k] = ordering[j]
                      \/ \A k \in Points!Slots : weights[k] >= cosine[j]
    BY DEF Points!NearestAreKept
  <2>1. j \in Scanned
    BY DEF PointInv, WindowTypes, AllAreScanned, Scanned
  <2> QED BY <2>1 DEF PointInv, ScannedAreKept
<1> QED BY PointInvHolds, <1>1, PTL

\* The tie points that prepare keeps are different ones.
THEOREM NoTiePointTwice == Points!Spec => []Points!TiePointsDiffer
<1>1. PointInv => Points!TiePointsDiffer
  BY DEF PointInv
<1> QED BY PointInvHolds, <1>1, PTL

\* A pixel that lies on a tie point of the window gets its value.
THEOREM TiePointsAreExact == Points!Spec => []Points!ExactTiePointDecides
<1>1. PointInv => Points!ExactTiePointDecides
  <2> SUFFICES ASSUME PointInv, tiePhase = "done", NEW j \in minIndex..(maxIndex - 1), cosine[j] = Points!One
               PROVE  \E k \in Points!Slots : counts = {k} /\ weights[k] = Points!One
    BY DEF Points!ExactTiePointDecides
  <2>1. j \in Scanned
    BY DEF PointInv, WindowTypes, AllAreScanned, Scanned
  <2>2. 0 \in Points!Slots /\ \A k \in Points!Slots : weights[k] <= Points!One /\ weights[k] \in Int /\ Points!One \in Int
    <3>1. 0 \in Points!Slots
      BY DEF PointInv, WindowTypes, PointTypes, Points!Slots
    <3>2. \A k \in Points!Slots : weights[k] \in Points!Cosine
      BY DEF PointInv, IsSorted
    <3>3. Points!One \in Int
      BY DEF Points!One
    <3> QED BY <3>1, <3>2, <3>3, Cosines
  <2>3. \E k \in Points!Slots : weights[k] = Points!One
    <3>1. CASE \E k \in Points!Slots : weights[k] = cosine[j]
      BY <3>1
    <3>2. CASE \A k \in Points!Slots : weights[k] >= cosine[j]
      BY <2>2, <3>2
    <3> QED BY <2>1, <3>1, <3>2 DEF PointInv, ScannedAreKept
  <2> QED BY <2>3 DEF PointInv, Counted
<1> QED BY PointInvHolds, <1>1, PTL

-----------------------------------------------------------------------------
(* MapCoordinates. *)

VARIABLES
  axis, first, degrees, step, mapSize, coordinate, bounds, mapPhase, m

M == INSTANCE MapCoordinates WITH
  size <- mapSize, phase <- mapPhase


MapTypes ==
  /\ M!AddTargetSegments
  /\ coordinate \in [0..(mapSize - 1) -> Int]
  /\ bounds \in [0..(2 * mapSize - 1) -> Int]
  /\ mapPhase \in {"coordinates", "bounds", "done"} /\ m \in Nat
  /\ mapPhase = "bounds" => \E k \in 0..mapSize : m = 2 * k

CoordinatesAreSet ==
  \A j \in 0..(mapSize - 1) :
    mapPhase # "coordinates" \/ j < m => coordinate[j] = M!Target(j)

BoundsAreSet ==
  \A j \in 0..(mapSize - 1) :
    mapPhase = "done" \/ (mapPhase = "bounds" /\ 2 * j < m) =>
      bounds[2 * j] = M!Target(j) - 1 /\ bounds[2 * j + 1] = M!Target(j) + 1

MapInv == MapTypes /\ CoordinatesAreSet /\ BoundsAreSet

\* Coordinates are numbers, whatever the limits of the map.
LEMMA Numbers ==
  ASSUME M!AddTargetSegments
  PROVE  /\ mapSize \in Nat \ {0} /\ step \in {2, 16} /\ degrees \in Nat \ {0}
         /\ \A j \in Nat : M!Target(j) \in Int
<1>1. /\ first \in Int /\ degrees \in Nat \ {0} /\ step \in {2, 16}
      /\ mapSize \in {degrees * 112, degrees * 112 + 1, degrees * 14 + 1}
  BY DEF M!AddTargetSegments, M!Pixel, M!SubsampledPixel
<1>2. ASSUME NEW j \in Nat PROVE M!Target(j) \in Int
  <2>1. j * step \in Int /\ first * M!Degree \in Int
    BY <1>1 DEF M!Degree
  <2> QED BY <2>1 DEF M!Target
<1>3. mapSize \in Nat \ {0}
  BY <1>1
<1> QED BY <1>1, <1>2, <1>3

\* Two coordinates next to each other are one step apart.
LEMMA OneStep ==
  ASSUME M!AddTargetSegments, NEW j \in Nat
  PROVE  M!Target(j + 1) = IF axis = "lat" THEN M!Target(j) - step ELSE M!Target(j) + step
<1>1. step \in {2, 16} /\ first * M!Degree \in Int
  BY Numbers DEF M!AddTargetSegments, M!Degree
<1>2. (j + 1) * step = j * step + step /\ j * step \in Int
  BY <1>1
<1> QED BY <1>1, <1>2 DEF M!Target

LEMMA MapInitInv == M!Init => MapInv
  BY Numbers DEF M!Init, MapInv, MapTypes, CoordinatesAreSet, BoundsAreSet

LEMMA SetCoordinateInv == MapInv /\ M!SetCoordinate => MapInv'
<1> SUFFICES ASSUME MapInv, M!SetCoordinate PROVE MapInv'
  OBVIOUS
<1>1. /\ mapPhase = "coordinates" /\ mapPhase' = mapPhase /\ m < mapSize /\ m' = m + 1 /\ bounds' = bounds
      /\ coordinate' = [coordinate EXCEPT ![m] = M!Target(m)]
      /\ axis' = axis /\ first' = first /\ degrees' = degrees /\ step' = step /\ mapSize' = mapSize
  BY DEF M!SetCoordinate, M!limits
<1>2. /\ M!AddTargetSegments /\ m \in 0..(mapSize - 1) /\ M!Target(m) \in Int
      /\ coordinate \in [0..(mapSize - 1) -> Int]
  BY <1>1, Numbers DEF MapInv, MapTypes
<1>3. MapTypes'
  BY <1>1, <1>2 DEF MapInv, MapTypes, M!AddTargetSegments
<1>4. ASSUME NEW j \in 0..(mapSize - 1), j < m + 1
      PROVE  coordinate'[j] = M!Target(j)
  BY <1>1, <1>2, <1>4 DEF MapInv, MapTypes, CoordinatesAreSet
<1>5. CoordinatesAreSet' /\ BoundsAreSet'
  BY <1>1, <1>4 DEF CoordinatesAreSet, BoundsAreSet, M!Target
<1> QED BY <1>3, <1>5 DEF MapInv

LEMMA SetBoundsInv == MapInv /\ M!SetBounds => MapInv'
<1> SUFFICES ASSUME MapInv, M!SetBounds PROVE MapInv'
  OBVIOUS
<1>1. /\ mapPhase = "bounds" /\ mapPhase' = mapPhase /\ m < 2 * mapSize /\ m' = m + 2
      /\ coordinate' = coordinate
      /\ axis' = axis /\ first' = first /\ degrees' = degrees /\ step' = step /\ mapSize' = mapSize
  BY DEF M!SetBounds, M!limits
<1>2. PICK k \in 0..mapSize : m = 2 * k
  BY <1>1 DEF MapInv, MapTypes
<1>3. /\ M!AddTargetSegments /\ mapSize \in Nat \ {0}
      /\ k \in 0..(mapSize - 1) /\ m \div 2 = k /\ M!Target(k) \in Int
  BY <1>1, <1>2, Numbers DEF MapInv, MapTypes
<1>4. bounds' = [bounds EXCEPT ![2 * k] = M!Target(k) - 1, ![2 * k + 1] = M!Target(k) + 1]
  BY <1>2, <1>3 DEF M!SetBounds
<1>5. MapTypes'
  <2>1. bounds' \in [0..(2 * mapSize - 1) -> Int]
    <3>1. bounds \in [0..(2 * mapSize - 1) -> Int] /\ M!Target(k) - 1 \in Int /\ M!Target(k) + 1 \in Int
      BY <1>3 DEF MapInv, MapTypes
    <3> QED BY <1>4, <3>1
  <2>2. \E j \in 0..mapSize : m' = 2 * j
    BY <1>1, <1>2, <1>3
  <2>3. M!AddTargetSegments'
    BY <1>1, <1>3 DEF M!AddTargetSegments
  <2> QED BY <1>1, <2>1, <2>2, <2>3 DEF MapInv, MapTypes
<1>6. ASSUME NEW j \in 0..(mapSize - 1), 2 * j < m + 2
      PROVE  bounds'[2 * j] = M!Target(j) - 1 /\ bounds'[2 * j + 1] = M!Target(j) + 1
  <2>1. /\ bounds \in [0..(2 * mapSize - 1) -> Int]
        /\ 2 * k \in 0..(2 * mapSize - 1) /\ 2 * k + 1 \in 0..(2 * mapSize - 1)
        /\ 2 * j \in 0..(2 * mapSize - 1) /\ 2 * j + 1 \in 0..(2 * mapSize - 1)
    BY <1>3 DEF MapInv, MapTypes
  <2>2. CASE j = k
    BY <1>4, <2>1, <2>2
  <2>3. CASE j # k
    <3>1. 2 * j < m /\ 2 * j # 2 * k /\ 2 * j # 2 * k + 1 /\ 2 * j + 1 # 2 * k
      BY <1>2, <1>6, <2>3
    <3>2. bounds[2 * j] = M!Target(j) - 1 /\ bounds[2 * j + 1] = M!Target(j) + 1
      BY <1>1, <3>1 DEF MapInv, BoundsAreSet
    <3> QED BY <1>4, <2>1, <3>1, <3>2
  <2> QED BY <2>2, <2>3
<1>7. CoordinatesAreSet' /\ BoundsAreSet'
  BY <1>1, <1>6 DEF MapInv, CoordinatesAreSet, BoundsAreSet, M!Target
<1> QED BY <1>5, <1>7 DEF MapInv

\* Between two lines nothing is written.
LEMMA TurnInv == MapInv /\ (M!BeginBounds \/ M!Finish \/ M!Process) => MapInv'
<1> SUFFICES ASSUME MapInv, M!BeginBounds \/ M!Finish \/ M!Process PROVE MapInv'
  OBVIOUS
<1>1. /\ coordinate' = coordinate /\ bounds' = bounds
      /\ axis' = axis /\ first' = first /\ degrees' = degrees /\ step' = step /\ mapSize' = mapSize
  BY DEF M!BeginBounds, M!Finish, M!Process, M!limits
<1>2. M!AddTargetSegments /\ mapSize \in Nat \ {0} /\ m \in Nat
  BY Numbers DEF MapInv, MapTypes
<1>3. MapTypes'
  <2>1. M!AddTargetSegments'
    BY <1>1, <1>2 DEF M!AddTargetSegments
  <2>2. mapPhase' \in {"coordinates", "bounds", "done"} /\ m' \in Nat
    BY <1>2 DEF M!BeginBounds, M!Finish, M!Process
  <2>3. mapPhase' = "bounds" => m' = 2 * 0 /\ 0 \in 0..mapSize
    BY <1>2 DEF M!BeginBounds, M!Finish, M!Process
  <2> QED BY <1>1, <2>1, <2>2, <2>3 DEF MapInv, MapTypes
<1>4. CoordinatesAreSet'
  BY <1>1, <1>2 DEF MapInv, CoordinatesAreSet, M!Target, M!BeginBounds, M!Finish, M!Process
<1>5. BoundsAreSet'
  BY <1>1, <1>2 DEF MapInv, BoundsAreSet, M!Target, M!BeginBounds, M!Finish, M!Process
<1> QED BY <1>3, <1>4, <1>5 DEF MapInv

LEMMA MapInvHolds == M!Spec => []MapInv
<1>1. MapInv /\ [M!Next]_M!vars => MapInv'
  <2> SUFFICES ASSUME MapInv, [M!Next]_M!vars PROVE MapInv'
    OBVIOUS
  <2>1. CASE UNCHANGED M!vars
    BY <2>1 DEF M!vars, M!limits, MapInv, MapTypes, M!AddTargetSegments, CoordinatesAreSet, BoundsAreSet, M!Target
  <2> QED BY <2>1, SetCoordinateInv, SetBoundsInv, TurnInv DEF M!Next
<1> QED BY MapInitInv, <1>1, PTL DEF M!Spec

\* Vco and Vpr write the coordinates of all rows and columns, each between its
\* bounds.
THEOREM EachCoordinateIsBounded == M!Spec => []M!CoordinatesAreBounded
<1>1. MapInv => M!CoordinatesAreBounded
  <2> SUFFICES ASSUME MapInv, mapPhase = "done", NEW j \in 0..(mapSize - 1)
               PROVE  /\ coordinate[j] = M!Target(j)
                      /\ bounds[2 * j] < coordinate[j] /\ coordinate[j] < bounds[2 * j + 1]
    BY DEF M!CoordinatesAreBounded
  <2>1. j \in Nat /\ M!Target(j) \in Int
    BY Numbers DEF MapInv, MapTypes
  <2>2. coordinate[j] = M!Target(j) /\ bounds[2 * j] = M!Target(j) - 1
        /\ bounds[2 * j + 1] = M!Target(j) + 1
    BY DEF MapInv, CoordinatesAreSet, BoundsAreSet
  <2> QED BY <2>1, <2>2
<1> QED BY MapInvHolds, <1>1, PTL

\* The bounds of two pixels of a map next to each other are the same number.
THEOREM NoGapBetweenPixels == M!Spec => []M!PixelsTileTheMap
<1>1. MapInv => M!PixelsTileTheMap
  <2> SUFFICES ASSUME MapInv, mapPhase = "done", step = M!Pixel, NEW j \in 0..(mapSize - 2)
               PROVE  IF axis = "lat" THEN bounds[2 * j] = bounds[2 * (j + 1) + 1]
                      ELSE bounds[2 * j + 1] = bounds[2 * (j + 1)]
    BY DEF M!PixelsTileTheMap
  <2>1. M!AddTargetSegments /\ mapSize \in Nat \ {0} /\ M!Target(j) \in Int
        /\ j \in 0..(mapSize - 1) /\ j + 1 \in 0..(mapSize - 1)
    BY Numbers DEF MapInv, MapTypes
  <2>2. M!Target(j + 1) = IF axis = "lat" THEN M!Target(j) - 2 ELSE M!Target(j) + 2
    BY <2>1, OneStep DEF M!Pixel
  <2>3. /\ bounds[2 * j] = M!Target(j) - 1 /\ bounds[2 * j + 1] = M!Target(j) + 1
        /\ bounds[2 * (j + 1)] = M!Target(j + 1) - 1
        /\ bounds[2 * (j + 1) + 1] = M!Target(j + 1) + 1
    BY <2>1 DEF MapInv, BoundsAreSet
  <2> QED BY <2>1, <2>2, <2>3
<1> QED BY MapInvHolds, <1>1, PTL

\* The last row and column of the map of Vpr, and those of its map of tie
\* points, lie at the limits of the map.
THEOREM LastTiePointIsLastPixel == M!Spec => []M!MapsEndTogether
<1>1. MapInv => M!MapsEndTogether
  <2> SUFFICES ASSUME MapInv, mapPhase = "done", mapSize # degrees * 112
               PROVE  coordinate[mapSize - 1] = IF axis = "lat" THEN (first - degrees) * M!Degree
                                             ELSE (first + degrees) * M!Degree
    BY DEF M!MapsEndTogether
  <2>1. /\ M!AddTargetSegments /\ first \in Int /\ degrees \in Nat \ {0} /\ mapSize \in Nat \ {0}
        /\ mapSize - 1 \in 0..(mapSize - 1)
    BY Numbers DEF MapInv, MapTypes, M!AddTargetSegments
  <2>2. (mapSize - 1) * step = degrees * M!Degree
    BY <2>1 DEF M!AddTargetSegments, M!Pixel, M!SubsampledPixel, M!Degree
  <2>3. coordinate[mapSize - 1] = M!Target(mapSize - 1)
    BY <2>1 DEF MapInv, CoordinatesAreSet
  <2> QED BY <2>1, <2>2, <2>3 DEF M!Target, M!Degree
<1> QED BY MapInvHolds, <1>1, PTL

-----------------------------------------------------------------------------
(* Minimum. *)

CONSTANTS
  Representable, InitialAot, HighestAot, One, MaxIter,
  AbsoluteAccuracyGoal, RelativeAccuracyGoal, Percent

VARIABLES
  function, guess, bracket, searchPhase, narrowings, converged

Search == INSTANCE Minimum WITH
  origin <- guess, phase <- searchPhase, i <- narrowings

\* brack looks for the third point beyond the better one of the first two.
BrackIsDownhill ==
  searchPhase = "brack" =>
    /\ Search!Beyond(bracket.lowerX, bracket.minimumX, bracket.upperX)
    /\ Search!HasItsValues(bracket)
    /\ bracket.minimumF <= bracket.lowerF
    /\ bracket.minimumF <= function[guess]

EndsAreInRange ==
  searchPhase = "metric" =>
    /\ HighestAot \in Int
    /\ 0 <= bracket.lowerX /\ bracket.upperX <= HighestAot

MinimumInv ==
  /\ Search!TypeOK
  /\ Search!MinimumIsBracketed
  /\ Search!NeverAboveTheGuess
  /\ Search!LineBracketIsValid
  /\ BrackIsDownhill
  /\ EndsAreInRange

-----------------------------------------------------------------------------

\* A number is an integer.
LEMMA NumberIsInt == Search!Number \subseteq Int
  BY DEF Search!Number

\* The values of a function at three numbers make a bracket.
LEMMA EvaluatedIsBracket ==
  ASSUME function \in [Search!Number -> Int],
         NEW a \in Search!Number, NEW y \in Search!Number, NEW b \in Search!Number
  PROVE  Search!Evaluated(a, y, b) \in Search!Bracket
  BY DEF Search!Evaluated, Search!Bracket

\* An evaluation of the function inside the bracket leaves one that is not
\* wider, with a minimum that is not higher and ends that are not lower.
LEMMA NarrowedIsBracket ==
  ASSUME MinimumInv, searchPhase \in {"metric", "line"},
         NEW u \in Search!Number, bracket.lowerX <= u, u <= bracket.upperX,
         NEW b, b = Search!Narrowed(u)
  PROVE  /\ b \in Search!Bracket
         /\ Search!HasItsValues(b)
         /\ b.lowerX <= b.minimumX /\ b.minimumX <= b.upperX
         /\ bracket.lowerX <= b.lowerX /\ b.upperX <= bracket.upperX
         /\ b.minimumF <= bracket.minimumF
         /\ bracket.minimumF <= bracket.lowerF => b.minimumF <= b.lowerF
         /\ bracket.minimumF <= bracket.upperF => b.minimumF <= b.upperF
<1> DEFINE z == bracket.minimumX
<1>1. /\ bracket.lowerX \in Search!Number /\ z \in Search!Number /\ bracket.upperX \in Search!Number
      /\ function \in [Search!Number -> Int] /\ Search!Number \subseteq Int
  BY NumberIsInt DEF MinimumInv, Search!TypeOK, Search!Bracket
<1>2. /\ bracket.lowerX <= z /\ z <= bracket.upperX
      /\ bracket.lowerF = function[bracket.lowerX]
      /\ bracket.minimumF = function[z]
      /\ bracket.upperF = function[bracket.upperX]
  BY DEF MinimumInv, Search!MinimumIsBracketed, Search!HasItsValues
<1>3. /\ u \in Int /\ z \in Int /\ bracket.lowerX \in Int /\ bracket.upperX \in Int
      /\ function[u] \in Int /\ function[z] \in Int
      /\ function[bracket.lowerX] \in Int /\ function[bracket.upperX] \in Int
  BY <1>1
<1>4. CASE function[u] <= function[z] /\ u < z
  <2>1. b = Search!Evaluated(bracket.lowerX, u, z)
    BY <1>2, <1>4 DEF Search!Narrowed
  <2>2. b \in Search!Bracket
    BY <1>1, <2>1, EvaluatedIsBracket
  <2>3. /\ b.lowerX = bracket.lowerX /\ b.minimumX = u /\ b.upperX = z
        /\ b.lowerF = function[bracket.lowerX] /\ b.minimumF = function[u]
        /\ b.upperF = function[z]
    BY <2>1 DEF Search!Evaluated
  <2>4. Search!HasItsValues(b)
    BY <2>3 DEF Search!HasItsValues
  <2> HIDE DEF z
  <2>5. /\ b.lowerX <= b.minimumX /\ b.minimumX <= b.upperX
        /\ bracket.lowerX <= b.lowerX /\ b.upperX <= bracket.upperX
    BY <1>2, <1>4, <1>3, <2>3
  <2>6. /\ b.minimumF <= bracket.minimumF
        /\ bracket.minimumF <= bracket.lowerF => b.minimumF <= b.lowerF
        /\ bracket.minimumF <= bracket.upperF => b.minimumF <= b.upperF
    BY <1>2, <1>4, <1>3, <2>3
  <2> QED BY <2>2, <2>4, <2>5, <2>6
<1>5. CASE function[u] <= function[z] /\ ~(u < z)
  <2>1. b = Search!Evaluated(z, u, bracket.upperX)
    BY <1>2, <1>5 DEF Search!Narrowed
  <2>2. b \in Search!Bracket
    BY <1>1, <2>1, EvaluatedIsBracket
  <2>3. /\ b.lowerX = z /\ b.minimumX = u /\ b.upperX = bracket.upperX
        /\ b.lowerF = function[z] /\ b.minimumF = function[u]
        /\ b.upperF = function[bracket.upperX]
    BY <2>1 DEF Search!Evaluated
  <2>4. Search!HasItsValues(b)
    BY <2>3 DEF Search!HasItsValues
  <2> HIDE DEF z
  <2>5. /\ b.lowerX <= b.minimumX /\ b.minimumX <= b.upperX
        /\ bracket.lowerX <= b.lowerX /\ b.upperX <= bracket.upperX
    BY <1>2, <1>5, <1>3, <2>3
  <2>6. /\ b.minimumF <= bracket.minimumF
        /\ bracket.minimumF <= bracket.lowerF => b.minimumF <= b.lowerF
        /\ bracket.minimumF <= bracket.upperF => b.minimumF <= b.upperF
    BY <1>2, <1>5, <1>3, <2>3
  <2> QED BY <2>2, <2>4, <2>5, <2>6
<1>6. CASE ~(function[u] <= function[z]) /\ u < z
  <2>1. b = Search!Evaluated(u, z, bracket.upperX)
    BY <1>2, <1>6 DEF Search!Narrowed
  <2>2. b \in Search!Bracket
    BY <1>1, <2>1, EvaluatedIsBracket
  <2>3. /\ b.lowerX = u /\ b.minimumX = z /\ b.upperX = bracket.upperX
        /\ b.lowerF = function[u] /\ b.minimumF = function[z]
        /\ b.upperF = function[bracket.upperX]
    BY <2>1 DEF Search!Evaluated
  <2>4. Search!HasItsValues(b)
    BY <2>3 DEF Search!HasItsValues
  <2> HIDE DEF z
  <2>5. /\ b.lowerX <= b.minimumX /\ b.minimumX <= b.upperX
        /\ bracket.lowerX <= b.lowerX /\ b.upperX <= bracket.upperX
    BY <1>2, <1>6, <1>3, <2>3
  <2>6. /\ b.minimumF <= bracket.minimumF
        /\ bracket.minimumF <= bracket.lowerF => b.minimumF <= b.lowerF
        /\ bracket.minimumF <= bracket.upperF => b.minimumF <= b.upperF
    BY <1>2, <1>6, <1>3, <2>3
  <2> QED BY <2>2, <2>4, <2>5, <2>6
<1>7. CASE ~(function[u] <= function[z]) /\ ~(u < z)
  <2>1. b = Search!Evaluated(bracket.lowerX, z, u)
    BY <1>2, <1>7 DEF Search!Narrowed
  <2>2. b \in Search!Bracket
    BY <1>1, <2>1, EvaluatedIsBracket
  <2>3. /\ b.lowerX = bracket.lowerX /\ b.minimumX = z /\ b.upperX = u
        /\ b.lowerF = function[bracket.lowerX] /\ b.minimumF = function[z]
        /\ b.upperF = function[u]
    BY <2>1 DEF Search!Evaluated
  <2>4. Search!HasItsValues(b)
    BY <2>3 DEF Search!HasItsValues
  <2> HIDE DEF z
  <2>5. /\ b.lowerX <= b.minimumX /\ b.minimumX <= b.upperX
        /\ bracket.lowerX <= b.lowerX /\ b.upperX <= bracket.upperX
    BY <1>2, <1>7, <1>3, <2>3
  <2>6. /\ b.minimumF <= bracket.minimumF
        /\ bracket.minimumF <= bracket.lowerF => b.minimumF <= b.lowerF
        /\ bracket.minimumF <= bracket.upperF => b.minimumF <= b.upperF
    BY <1>2, <1>7, <1>3, <2>3
  <2> QED BY <2>2, <2>4, <2>5, <2>6
<1> QED BY <1>4, <1>5, <1>6, <1>7

-----------------------------------------------------------------------------

LEMMA MinimumInitInv == Search!Init => MinimumInv
<1>1. ASSUME Search!Init PROVE Search!TypeOK
  <2>1. narrowings \in Nat /\ converged \in BOOLEAN /\ searchPhase \in {"start", "brack", "metric", "line"}
    BY <1>1 DEF Search!Init
  <2> QED BY <1>1, <2>1 DEF Search!Init, Search!TypeOK
<1> QED
  BY <1>1 DEF Search!Init, MinimumInv, Search!MinimumIsBracketed, Search!NeverAboveTheGuess, Search!LineBracketIsValid,
         BrackIsDownhill, EndsAreInRange

LEMMA FindMinimumInv == MinimumInv /\ Search!FindMinimum => MinimumInv'
<1> SUFFICES ASSUME MinimumInv, Search!FindMinimum PROVE MinimumInv'
  OBVIOUS
<1>1. /\ 0 \in Search!Number /\ InitialAot \in Search!Number /\ HighestAot \in Search!Number
      /\ function \in [Search!Number -> Int] /\ Search!Number \subseteq Int
      /\ 0 <= InitialAot /\ InitialAot <= HighestAot
  BY NumberIsInt DEF Search!FindMinimum, MinimumInv, Search!TypeOK
<1>2. /\ bracket' = Search!Evaluated(0, InitialAot, HighestAot) /\ bracket' \in Search!Bracket
      /\ guess' = InitialAot /\ searchPhase' = "metric" /\ function' = function
      /\ narrowings' = narrowings /\ converged' = converged
  BY <1>1, EvaluatedIsBracket DEF Search!FindMinimum
<1>3. /\ bracket'.lowerX = 0 /\ bracket'.minimumX = InitialAot
      /\ bracket'.upperX = HighestAot /\ bracket'.lowerF = function[0]
      /\ bracket'.minimumF = function[InitialAot] /\ bracket'.upperF = function[HighestAot]
  BY <1>2 DEF Search!Evaluated
<1>4. Search!TypeOK'
  BY <1>1, <1>2 DEF MinimumInv, Search!TypeOK
<1>5. Search!MinimumIsBracketed' /\ EndsAreInRange'
  BY <1>1, <1>2, <1>3 DEF Search!MinimumIsBracketed, Search!HasItsValues, EndsAreInRange
<1>6. Search!NeverAboveTheGuess'
  BY <1>1, <1>2, <1>3 DEF Search!NeverAboveTheGuess
<1> QED
  BY <1>2, <1>4, <1>5, <1>6 DEF MinimumInv, Search!LineBracketIsValid, BrackIsDownhill

LEMMA BrackInv == MinimumInv /\ Search!Brack => MinimumInv'
<1> SUFFICES ASSUME MinimumInv, Search!Brack PROVE MinimumInv'
  OBVIOUS
<1>1. /\ 0 \in Search!Number /\ One \in Search!Number /\ 0 < One
      /\ function \in [Search!Number -> Int] /\ Search!Number \subseteq Int
  BY NumberIsInt DEF Search!Brack, MinimumInv, Search!TypeOK
<1>2. PICK a \in {0, One}, b \in {0, One}, u \in Search!Number :
        /\ a # b
        /\ function[b] < function[a] \/ (function[b] = function[a] /\ b = One)
        /\ Search!Beyond(a, b, u)
        /\ bracket' = Search!Evaluated(a, b, u)
  BY DEF Search!Brack
<1>3. a \in Search!Number /\ b \in Search!Number
  BY <1>1, <1>2
<1>4. bracket' \in Search!Bracket
  BY <1>1, <1>2, <1>3, EvaluatedIsBracket
<1>5. /\ bracket'.lowerX = a /\ bracket'.minimumX = b /\ bracket'.upperX = u
      /\ bracket'.lowerF = function[a] /\ bracket'.minimumF = function[b]
      /\ bracket'.upperF = function[u]
  BY <1>2 DEF Search!Evaluated
<1>6. searchPhase' = "brack" /\ function' = function /\ guess' = 0
  BY DEF Search!Brack
<1>7. function[b] <= function[a] /\ function[b] <= function[0]
  BY <1>1, <1>2, <1>3
<1>8. Search!TypeOK'
  BY <1>1, <1>4 DEF Search!Brack, MinimumInv, Search!TypeOK
<1>9. BrackIsDownhill'
  BY <1>2, <1>5, <1>6, <1>7 DEF BrackIsDownhill, Search!HasItsValues
<1> QED
  BY <1>6, <1>8, <1>9 DEF MinimumInv, Search!MinimumIsBracketed, Search!NeverAboveTheGuess,
     Search!LineBracketIsValid, EndsAreInRange

LEMMA ExpandInv == MinimumInv /\ Search!Expand => MinimumInv'
<1> SUFFICES ASSUME MinimumInv, Search!Expand PROVE MinimumInv'
  OBVIOUS
<1>1. PICK u \in Search!Number :
        /\ Search!Beyond(bracket.minimumX, bracket.upperX, u)
        /\ bracket' = [bracket EXCEPT !.upperX = u, !.upperF = function[u]]
  BY DEF Search!Expand
<1>2. /\ bracket \in Search!Bracket /\ function \in [Search!Number -> Int] /\ Search!Number \subseteq Int
      /\ Search!Beyond(bracket.lowerX, bracket.minimumX, bracket.upperX)
      /\ Search!HasItsValues(bracket)
      /\ bracket.minimumF <= bracket.lowerF /\ bracket.minimumF <= function[guess]
  BY NumberIsInt DEF Search!Expand, MinimumInv, Search!TypeOK, BrackIsDownhill, Search!HasItsValues
<1>3. /\ bracket'.lowerX = bracket.lowerX /\ bracket'.lowerF = bracket.lowerF
      /\ bracket'.minimumX = bracket.minimumX /\ bracket'.minimumF = bracket.minimumF
      /\ bracket'.upperX = u /\ bracket'.upperF = function[u]
      /\ bracket' \in Search!Bracket
  BY <1>1, <1>2 DEF Search!Bracket
<1>4. Search!Beyond(bracket.lowerX, bracket.minimumX, u)
  BY <1>1, <1>2 DEF Search!Beyond, Search!Bracket
<1>5. Search!HasItsValues(bracket')
  BY <1>2, <1>3 DEF Search!HasItsValues
<1>6. Search!TypeOK'
  BY <1>2, <1>3 DEF Search!Expand, MinimumInv, Search!TypeOK
<1>7. BrackIsDownhill'
  BY <1>2, <1>3, <1>4, <1>5 DEF Search!Expand, BrackIsDownhill, Search!HasItsValues
<1> QED
  BY <1>6, <1>7 DEF Search!Expand, MinimumInv, Search!MinimumIsBracketed, Search!NeverAboveTheGuess,
     Search!LineBracketIsValid, EndsAreInRange

LEMMA SortInv == MinimumInv /\ Search!Sort => MinimumInv'
<1> SUFFICES ASSUME MinimumInv, Search!Sort PROVE MinimumInv'
  OBVIOUS
<1>1. /\ bracket \in Search!Bracket /\ function \in [Search!Number -> Int] /\ Search!Number \subseteq Int
      /\ Search!Beyond(bracket.lowerX, bracket.minimumX, bracket.upperX)
      /\ Search!HasItsValues(bracket)
      /\ bracket.minimumF <= bracket.lowerF /\ bracket.minimumF <= function[guess]
      /\ bracket.minimumF <= bracket.upperF
  BY NumberIsInt DEF Search!Sort, MinimumInv, Search!TypeOK, BrackIsDownhill, Search!HasItsValues
<1>2. /\ bracket.lowerX \in Int /\ bracket.minimumX \in Int /\ bracket.upperX \in Int
      /\ bracket.lowerF = function[bracket.lowerX]
      /\ bracket.minimumF = function[bracket.minimumX]
      /\ bracket.upperF = function[bracket.upperX]
  BY <1>1 DEF Search!Bracket, Search!HasItsValues
<1>3. /\ bracket' \in Search!Bracket
      /\ Search!HasItsValues(bracket')
      /\ bracket'.lowerX <= bracket'.minimumX /\ bracket'.minimumX <= bracket'.upperX
      /\ bracket'.minimumF = bracket.minimumF
      /\ bracket'.minimumF <= bracket'.lowerF /\ bracket'.minimumF <= bracket'.upperF
  <2>1. CASE bracket.lowerX > bracket.upperX
    <3>1. bracket' = Search!Reversed
      BY <2>1 DEF Search!Sort
    <3>2. /\ Search!Reversed.lowerX = bracket.upperX /\ Search!Reversed.lowerF = bracket.upperF
          /\ Search!Reversed.upperX = bracket.lowerX /\ Search!Reversed.upperF = bracket.lowerF
          /\ Search!Reversed.minimumX = bracket.minimumX /\ Search!Reversed.minimumF = bracket.minimumF
          /\ Search!Reversed \in Search!Bracket
      BY <1>1 DEF Search!Reversed, Search!Bracket
    <3>3. Search!HasItsValues(Search!Reversed)
      BY <1>2, <3>2 DEF Search!HasItsValues
    <3>4. bracket.upperX <= bracket.minimumX /\ bracket.minimumX <= bracket.lowerX
      BY <1>1, <1>2, <2>1 DEF Search!Beyond
    <3> QED BY <1>1, <3>1, <3>2, <3>3, <3>4
  <2>2. CASE ~(bracket.lowerX > bracket.upperX)
    <3>1. bracket' = bracket
      BY <2>2 DEF Search!Sort
    <3>2. bracket.lowerX <= bracket.minimumX /\ bracket.minimumX <= bracket.upperX
      BY <1>1, <1>2, <2>2 DEF Search!Beyond
    <3> QED BY <1>1, <3>1, <3>2
  <2> QED BY <2>1, <2>2
<1>4. Search!TypeOK'
  BY <1>1, <1>3 DEF Search!Sort, MinimumInv, Search!TypeOK
<1>5. Search!MinimumIsBracketed'
  BY <1>3 DEF Search!Sort, Search!MinimumIsBracketed, Search!HasItsValues
<1> QED
  BY <1>1, <1>3, <1>4, <1>5 DEF Search!Sort, MinimumInv, Search!NeverAboveTheGuess, Search!LineBracketIsValid,
     BrackIsDownhill, EndsAreInRange

\* What an iteration of brent keeps, and that it narrows the bracket.
LEMMA BrentInv == MinimumInv /\ Search!Brent => MinimumInv' /\ Search!Narrows
<1> SUFFICES ASSUME MinimumInv, Search!Brent PROVE MinimumInv' /\ Search!Narrows
  OBVIOUS
<1>1. PICK u \in Search!Number : /\ bracket.lowerX <= u /\ u <= bracket.upperX
                          /\ bracket' = Search!Narrowed(u)
  BY DEF Search!Brent
<1>2. searchPhase \in {"metric", "line"} /\ searchPhase' = searchPhase /\ function' = function
      /\ guess' = guess /\ narrowings' = narrowings + 1 /\ converged' \in BOOLEAN
  BY DEF Search!Brent, Search!TestInterval
<1>3. /\ bracket' \in Search!Bracket
      /\ Search!HasItsValues(bracket')
      /\ bracket'.lowerX <= bracket'.minimumX /\ bracket'.minimumX <= bracket'.upperX
      /\ bracket.lowerX <= bracket'.lowerX /\ bracket'.upperX <= bracket.upperX
      /\ bracket'.minimumF <= bracket.minimumF
      /\ bracket.minimumF <= bracket.lowerF => bracket'.minimumF <= bracket'.lowerF
      /\ bracket.minimumF <= bracket.upperF => bracket'.minimumF <= bracket'.upperF
  BY <1>1, <1>2, NarrowedIsBracket
<1>4. Search!TypeOK'
  BY <1>2, <1>3 DEF MinimumInv, Search!TypeOK
<1>5. Search!MinimumIsBracketed'
  BY <1>2, <1>3 DEF Search!MinimumIsBracketed, Search!HasItsValues
<1>6. bracket \in Search!Bracket /\ function[guess] \in Int /\ Search!Number \subseteq Int
  BY NumberIsInt DEF MinimumInv, Search!TypeOK
<1>7. Search!NeverAboveTheGuess'
  BY <1>2, <1>3, <1>6 DEF MinimumInv, Search!NeverAboveTheGuess, Search!Bracket
<1>8. Search!LineBracketIsValid' /\ BrackIsDownhill'
  BY <1>2, <1>3 DEF MinimumInv, Search!LineBracketIsValid, BrackIsDownhill
<1>9. EndsAreInRange'
  <2>1. /\ bracket.lowerX \in Int /\ bracket'.lowerX \in Int
        /\ bracket.upperX \in Int /\ bracket'.upperX \in Int
    BY <1>3, <1>6 DEF Search!Bracket
  <2>2. SUFFICES ASSUME searchPhase = "metric"
                 PROVE  0 <= bracket'.lowerX /\ bracket'.upperX <= HighestAot
    BY <1>2 DEF MinimumInv, EndsAreInRange
  <2>3. HighestAot \in Int /\ 0 <= bracket.lowerX /\ bracket.upperX <= HighestAot
    BY <2>2 DEF MinimumInv, EndsAreInRange
  <2> QED BY <1>3, <2>1, <2>3
<1> QED BY <1>3, <1>4, <1>5, <1>7, <1>8, <1>9 DEF MinimumInv, Search!Narrows

LEMMA MinimumStepInv == MinimumInv /\ [Search!Next]_Search!vars => MinimumInv' /\ (Search!Narrows \/ UNCHANGED Search!vars)
<1> SUFFICES ASSUME MinimumInv, [Search!Next]_Search!vars PROVE MinimumInv' /\ (Search!Narrows \/ UNCHANGED Search!vars)
  OBVIOUS
<1>1. CASE Search!FindMinimum
  BY <1>1, FindMinimumInv DEF Search!FindMinimum, Search!Narrows
<1>2. CASE Search!Brack
  BY <1>2, BrackInv DEF Search!Brack, Search!Narrows
<1>3. CASE Search!Expand
  BY <1>3, ExpandInv DEF Search!Expand, Search!Narrows
<1>4. CASE Search!Sort
  BY <1>4, SortInv DEF Search!Sort, Search!Narrows
<1>5. CASE Search!Brent
  BY <1>5, BrentInv
<1>6. CASE UNCHANGED Search!vars
  BY <1>6 DEF Search!vars, MinimumInv, Search!TypeOK, Search!MinimumIsBracketed, Search!NeverAboveTheGuess,
     Search!LineBracketIsValid, BrackIsDownhill, EndsAreInRange, Search!HasItsValues
<1> QED BY <1>1, <1>2, <1>3, <1>4, <1>5, <1>6 DEF Search!Next

LEMMA MinimumInvHolds == Search!Spec => []MinimumInv
  BY MinimumInitInv, MinimumStepInv, PTL DEF Search!Spec

-----------------------------------------------------------------------------

\* The result of a search lies between the ends of the bracket and has the
\* value the bracket says (Min::brent).
THEOREM ResultIsBracketed == Search!Spec => []Search!MinimumIsBracketed
  BY MinimumInvHolds, PTL DEF MinimumInv

\* A search never ends above the guess it started with, whether it converges or
\* not and whatever bracket it was given (LineMinimizer::findMinimum and
\* ErrorMetric::findMinimum, which use the bracket of a search that failed).
THEOREM SearchNeverClimbs == Search!Spec => []Search!NeverAboveTheGuess
  BY MinimumInvHolds, PTL DEF MinimumInv

\* The aerosol optical thickness of a retrieval is in [0, 3], so that the test
\* at the end of ErrorMetric::findMinimum cannot fail.
THEOREM ThicknessIsInRange == Search!Spec => []Search!AotIsInRange
<1>1. MinimumInv => Search!AotIsInRange
  <2> SUFFICES ASSUME MinimumInv, searchPhase = "metric" PROVE bracket.minimumX \in 0..HighestAot
    BY DEF Search!AotIsInRange
  <2>1. bracket.lowerX \in Int /\ bracket.minimumX \in Int /\ bracket.upperX \in Int
    BY NumberIsInt DEF MinimumInv, Search!TypeOK, Search!Bracket
  <2>2. /\ HighestAot \in Int /\ 0 <= bracket.lowerX /\ bracket.upperX <= HighestAot
        /\ bracket.lowerX <= bracket.minimumX /\ bracket.minimumX <= bracket.upperX
    BY DEF MinimumInv, EndsAreInRange, Search!MinimumIsBracketed
  <2> QED BY <2>1, <2>2
<1> QED BY MinimumInvHolds, <1>1, PTL

\* What Min::brack finds is a bracket, and Min::brent keeps it one.
THEOREM BracketStaysValid == Search!Spec => []Search!LineBracketIsValid
  BY MinimumInvHolds, PTL DEF MinimumInv

\* Every iteration of Min::brent makes progress or stays (Min::brent).
THEOREM IterationsNeverWorsen == Search!Spec => Search!NeverWorse
  BY MinimumInvHolds, MinimumStepInv, PTL DEF Search!Spec, Search!NeverWorse

-----------------------------------------------------------------------------
(* Powell: the search along a direction ends at or below its origin, as    *)
(* SearchNeverClimbs says of Minimum.                                      *)

VARIABLES
  start, zn, z0, maxDecrease, direction, replaced, powellPhase, k, iteration

P == INSTANCE Powell WITH
  maxIndex <- direction, phase <- powellPhase, i <- iteration

\* Without a decrease there is no index, and then the accuracy goal is reached;
\* and an iteration never ends above where it began.
PowellInv ==
  /\ start \in Int /\ zn \in Int /\ z0 \in Int /\ maxDecrease \in Int
  /\ k \in P!Begin..P!End /\ powellPhase \in {"initialize", "minimize", "done"}
  /\ P!ResidualNeverRises
  /\ P!OnlyItsDirections
  /\ powellPhase = "minimize" =>
       /\ zn <= z0 /\ 0 <= maxDecrease
       /\ zn < z0 => 0 < maxDecrease
       /\ 0 < maxDecrease => direction \in P!Begin..(P!End - 1)

LEMMA PowellInitInv == P!Init => PowellInv
  BY DEF P!Init, PowellInv, P!ResidualNeverRises, P!OnlyItsDirections, P!Begin, P!End

LEMMA PowellMinimizeInv == PowellInv /\ P!Minimize => PowellInv'
<1> SUFFICES ASSUME PowellInv, P!Minimize PROVE PowellInv'
  OBVIOUS
<1>1. PICK z \in Int :
        /\ z <= zn /\ zn' = z
        /\ maxDecrease' = IF P!Abs(z - zn) > maxDecrease THEN P!Abs(z - zn) ELSE maxDecrease
        /\ direction' = IF P!Abs(z - zn) > maxDecrease THEN k ELSE direction
  BY DEF P!Minimize, P!IsFound
<1>2. k \in P!Begin..(P!End - 1) /\ k' \in P!Begin..P!End
  BY DEF P!Minimize, PowellInv, P!Begin, P!End
<1>3. P!Abs(z - zn) = zn - z
  BY <1>1 DEF PowellInv, P!Abs
<1> QED
  BY <1>1, <1>2, <1>3 DEF P!Minimize, PowellInv, P!ResidualNeverRises, P!OnlyItsDirections

LEMMA PowellExtrapolateInv == PowellInv /\ P!Extrapolate => PowellInv'
<1> SUFFICES ASSUME PowellInv, P!Extrapolate PROVE PowellInv'
  OBVIOUS
<1>1. zn' \in Int /\ zn' <= zn /\ replaced' \in {replaced, replaced \cup {direction}}
  BY DEF P!Extrapolate, P!IsFound, PowellInv
<1>2. zn <= z0 /\ z0 # zn
  <2>1. CASE z0 = zn
    BY <2>1 DEF P!Extrapolate, P!IsAccurate, PowellInv, P!Abs
  <2> QED BY <2>1 DEF P!Extrapolate, PowellInv
<1>3. direction \in P!Begin..(P!End - 1)
  BY <1>2 DEF P!Extrapolate, PowellInv
<1> QED
  BY <1>1, <1>3 DEF P!Extrapolate, PowellInv, P!ResidualNeverRises, P!OnlyItsDirections

LEMMA PowellStepInv == PowellInv /\ [P!Next]_P!vars => PowellInv'
<1> SUFFICES ASSUME PowellInv, [P!Next]_P!vars PROVE PowellInv'
  OBVIOUS
<1>1. CASE P!Initialize
  BY <1>1 DEF P!Initialize, PowellInv, P!ResidualNeverRises, P!OnlyItsDirections, P!Begin, P!End
<1>2. CASE P!Minimize
  BY <1>2, PowellMinimizeInv
<1>3. CASE P!Stop
  BY <1>3 DEF P!Stop, PowellInv, P!ResidualNeverRises, P!OnlyItsDirections
<1>4. CASE P!Extrapolate
  BY <1>4, PowellExtrapolateInv
<1>5. CASE UNCHANGED P!vars
  BY <1>5 DEF P!vars, PowellInv, P!ResidualNeverRises, P!OnlyItsDirections
<1> QED BY <1>1, <1>2, <1>3, <1>4, <1>5 DEF P!Next

\* MultiMin::powell never returns parameters that are worse than its guess,
\* whether it returns true or false (its caller ignores which).
THEOREM PowellDescends == P!Spec => []P!ResidualNeverRises
  BY PowellInitInv, PowellStepInv, PTL DEF P!Spec, PowellInv

\* MultiMin::powell keeps its hands off the rows of the matrix that it shares
\* with MultiMin::chol2D (innerU = u[maxIndex], with maxIndex 0 at first).
THEOREM PowellKeepsToItsRows == P!Spec => []P!OnlyItsDirections
  BY PowellInitInv, PowellStepInv, PTL DEF P!Spec, PowellInv
=============================================================================
