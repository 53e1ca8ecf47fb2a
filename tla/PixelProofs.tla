---------------------------- MODULE PixelProofs -----------------------------
(***************************************************************************)
(* The proofs about pixels.                                                *)
(*                                                                         *)
(* SynPixel: the pixels of a SYN L2 product hold what one pass over the    *)
(* product would give, for every grid, every scene and every outcome of    *)
(* the retrievals.  The inductive invariant Inv has three parts: the rows  *)
(* the modules have registered (RowsInv), the averaged pixels as functions *)
(* of the scene (AveragedInv), and what pixels may hold (PixelInv).        *)
(*                                                                         *)
(* VgtPixel: what a pixel of the VGT-S map keeps, for every number of      *)
(* observations and passes and all values of reflectances and NDVIs.       *)
(***************************************************************************)
EXTENDS SynPixel, VgtPixel, WellFoundedInduction, TLAPS

-----------------------------------------------------------------------------
(* Numbers. *)

\* A set of natural numbers has a least one.
LEMMA Least ==
  ASSUME NEW S \in SUBSET Nat, S # {}
  PROVE  \E x \in S : \A y \in S : x <= y
<1>1. PICK x \in S : \A y \in S : ~ (<<y, x>> \in OpToRel(<, Nat))
  BY NatLessThanWellFounded, WFMin
<1>2. \A y \in S : ~ (y < x)
  BY <1>1 DEF OpToRel
<1>. QED
  BY <1>2

\* The least element is what Min finds.
LEMMA MinIs ==
  ASSUME NEW S \in SUBSET Nat, S # {}
  PROVE  Min(S) \in S /\ \A y \in S : Min(S) <= y
BY Least DEF Min

\* A set of columns has a greatest one.
LEMMA MaxIs ==
  ASSUME NEW n \in Nat, NEW S \in SUBSET (0..n), S # {}
  PROVE  Max(S) \in S /\ \A y \in S : Max(S) >= y
<1> DEFINE D == {n - x : x \in S}
<1>1. D \in SUBSET Nat
  OBVIOUS
<1>2. D # {}
  OBVIOUS
<1> HIDE DEF D
<1>3. PICK d \in D : \A e \in D : d <= e
  BY <1>1, <1>2, Least
<1>4. PICK x \in S : d = n - x
  BY DEF D
<1>5. \A y \in S : n - y \in D
  BY DEF D
<1>6. \A y \in S : x >= y
  BY <1>3, <1>4, <1>5
<1>. QED
  BY <1>6 DEF Max

\* Max and Min of two numbers.
LEMMA OfTwo ==
  ASSUME NEW a \in Int, NEW b \in Int
  PROVE  /\ Max({a, b}) = IF a >= b THEN a ELSE b
         /\ Min({a, b}) = IF a <= b THEN a ELSE b
<1>1. \A x \in {a, b} : (\A y \in {a, b} : x >= y) <=> x = IF a >= b THEN a ELSE b
  OBVIOUS
<1>2. \A x \in {a, b} : (\A y \in {a, b} : x <= y) <=> x = IF a <= b THEN a ELSE b
  OBVIOUS
<1>. QED
  BY <1>1, <1>2 DEF Max, Min

\* A quotient is rounded down.
LEMMA Division ==
  ASSUME NEW x \in Nat, NEW a \in Nat \ {0}
  PROVE  /\ x \div a \in Nat
         /\ (x \div a) * a <= x
         /\ x < (x \div a) * a + a
OBVIOUS

\* A number below a multiple of a belongs to one of the blocks before it.
LEMMA Below ==
  ASSUME NEW x \in Nat, NEW a \in Nat \ {0}, NEW k \in Nat
  PROVE  x < k * a <=> x \div a < k
<1> DEFINE q == x \div a
<1>1. q \in Nat /\ q * a <= x /\ x < q * a + a
  BY Division
<1>2. ASSUME q < k PROVE x < k * a
  <2>1. k - q - 1 \in Nat
    BY <1>1, <1>2
  <2>2. (k - q - 1) * a >= 0
    <3> DEFINE d == k - q - 1
    <3>1. d \in Nat
      BY <2>1
    <3> HIDE DEF d
    <3>2. d * a >= 0
      BY <3>1
    <3>. QED
      BY <3>2 DEF d
  <2> HIDE DEF q
  <2>3. (k - q - 1) * a = k * a - q * a - a
    BY <1>1
  <2>. QED
    BY <1>1, <2>2, <2>3
<1>3. ASSUME x < k * a, ~(q < k) PROVE FALSE
  <2>1. q - k \in Nat
    BY <1>1, <1>3
  <2>2. (q - k) * a >= 0
    <3> DEFINE d == q - k
    <3>1. d \in Nat
      BY <2>1
    <3> HIDE DEF d
    <3>2. d * a >= 0
      BY <3>1
    <3>. QED
      BY <3>2 DEF d
  <2> HIDE DEF q
  <2>3. (q - k) * a = q * a - k * a
    BY <1>1
  <2>. QED
    BY <1>1, <1>3, <2>2, <2>3
<1>. QED
  BY <1>2, <1>3

\* The rows and columns of the averaged segment.
LEMMA LastBlock ==
  ASSUME NEW x \in Nat, NEW a \in Nat \ {0}
  PROVE  /\ (x + a) \div a - 1 \in Nat
         /\ (x + a) \div a - 1 <= x
         /\ (x + a) \div a - 1 <= (x + 1) \div a
         /\ \A y \in 0..x : y \div a \in 0..((x + a) \div a - 1)
<1> DEFINE q == (x + a) \div a
<1>1. q \in Nat /\ q * a <= x + a /\ x + a < q * a + a
  BY Division
<1>2. q >= 1
  <2>1. ~(x + a < 1 * a) /\ x + a \in Nat
    OBVIOUS
  <2>2. ~(q < 1)
    BY <2>1, Below
  <2>. QED
    BY <1>1, <2>2
<1>3. \A y \in 0..x : y \div a \in 0..(q - 1)
  <2>1. ASSUME NEW y \in 0..x PROVE y \div a \in 0..(q - 1)
    <3>1. y \in Nat /\ y < q * a
      <4> HIDE DEF q
      <4>. QED
        BY <1>1
    <3>2. y \div a < q /\ y \div a \in Nat
      BY <1>1, <3>1, Below, Division
    <3>. QED
      BY <1>1, <3>2
  <2>. QED
    BY <2>1
<1>4. q - 1 <= x
  <2>1. x + a < (x + 2) * a
    <3>1. (x + 2) * a = x * a + 2 * a /\ x * a >= x
      OBVIOUS
    <3>. QED
      BY <3>1
  <2>2. x + a \in Nat /\ x + 2 \in Nat
    OBVIOUS
  <2>3. q < x + 2
    BY <2>1, <2>2, Below
  <2>. QED
    BY <1>1, <2>3
<1>5. q - 1 <= (x + 1) \div a
  <2> DEFINE r == (x + 1) \div a
  <2>1. r \in Nat /\ x + 1 < r * a + a
    BY Division
  <2>2. x + a < (r + 2) * a
    <3> HIDE DEF r
    <3>1. (r + 2) * a = r * a + 2 * a
      BY <2>1
    <3>. QED
      BY <2>1, <3>1
  <2>3. x + a \in Nat /\ r + 2 \in Nat
    BY <2>1
  <2> HIDE DEF r
  <2>4. q < r + 2
    BY <2>2, <2>3, Below
  <2>. QED
    BY <1>1, <2>1, <2>4 DEF r
<1>. QED
  BY <1>1, <1>2, <1>3, <1>4, <1>5

\* The segments have rows and columns, and blocks are within their segment.
LEMMA Sizes ==
  /\ MaxL \in Nat /\ MaxM \in Nat /\ Factor \in Nat \ {0} /\ FillDistance \in Nat
  /\ MaxAL \in Nat /\ MaxAL >= 1 /\ MaxAL <= MaxL /\ MaxAL <= (MaxL + 1) \div Factor
  /\ MaxAM \in Nat /\ MaxAM >= 1
  /\ \A y \in 0..MaxL : y \div Factor \in 0..MaxAL
  /\ \A y \in 0..MaxM : y \div Factor \in 0..MaxAM
<1>1. MaxL \in Nat /\ MaxM \in Nat /\ Factor \in Nat \ {0} /\ FillDistance \in Nat
      /\ MaxAL >= 1 /\ MaxAM >= 1
  BY GridAssumption
<1>2. /\ MaxAL \in Nat /\ MaxAL <= MaxL /\ MaxAL <= (MaxL + 1) \div Factor
      /\ \A y \in 0..MaxL : y \div Factor \in 0..MaxAL
  BY <1>1, LastBlock DEF MaxAL
<1>3. MaxAM \in Nat /\ \A y \in 0..MaxM : y \div Factor \in 0..MaxAM
  BY <1>1, LastBlock DEF MaxAM
<1>. QED
  BY <1>1, <1>2, <1>3

-----------------------------------------------------------------------------
(* Rows. *)

\* The last averaged row, as a function of the last classified row.
LastAveragedOf(x) ==
  Min({IF x < MaxL THEN (x + 1) \div Factor - 1 ELSE (x + 1) \div Factor, MaxAL})

\* Averaged rows are those whose blocks have been classified, all of them at
\* the end; there are no fewer of them when more rows have been classified.
LEMMA AveragedRow ==
  ASSUME NEW x \in -1..MaxL
  PROVE  /\ LastAveragedOf(x) \in -1..MaxAL
         /\ \A y \in 0..MaxL : y \div Factor <= LastAveragedOf(x) => y <= x
         /\ \A z \in x..MaxL : LastAveragedOf(x) <= LastAveragedOf(z)
<1> DEFINE lines(z) == (z + 1) \div Factor
<1>1. \A z \in -1..MaxL : lines(z) \in Nat
  BY Sizes, Division
<1>2. ASSUME NEW z \in -1..MaxL
      PROVE  /\ z < MaxL => LastAveragedOf(z) = IF lines(z) - 1 <= MaxAL THEN lines(z) - 1 ELSE MaxAL
             /\ z = MaxL => LastAveragedOf(z) = MaxAL
  <2>1. lines(z) \in Int /\ lines(z) - 1 \in Int /\ MaxAL \in Int /\ MaxL \in Int
    BY <1>1, Sizes
  <2> DEFINE k == IF z < MaxL THEN lines(z) - 1 ELSE lines(z)
  <2>2. k \in Int
    BY <2>1
  <2>3. LastAveragedOf(z) = Min({k, MaxAL})
    BY DEF LastAveragedOf
  <2>4. z < MaxL => k = lines(z) - 1
    OBVIOUS
  <2>5. z = MaxL => k = lines(z) /\ MaxAL <= lines(z)
    BY <2>1, Sizes
  <2> HIDE DEF k, lines
  <2>6. LastAveragedOf(z) = IF k <= MaxAL THEN k ELSE MaxAL
    BY <2>1, <2>2, <2>3, OfTwo
  <2>. QED
    BY <2>1, <2>4, <2>5, <2>6
<1>3. ASSUME NEW z \in x..MaxL PROVE lines(x) <= lines(z)
  <2>1. x + 1 \in Nat /\ z + 1 \in Nat /\ x + 1 <= z + 1 /\ Factor \in Nat \ {0}
        /\ lines(x) \in Nat /\ lines(z) \in Nat
    BY <1>1, Sizes
  <2>2. ~(lines(z) < lines(x))
    <3>1. ASSUME lines(z) < lines(x) PROVE FALSE
      <4>1. z + 1 < lines(x) * Factor
        BY <2>1, <3>1, Below
      <4>2. ~(x + 1 < lines(x) * Factor)
        BY <2>1, Below
      <4> HIDE DEF lines
      <4>3. lines(x) * Factor \in Int
        BY <2>1
      <4>. QED
        BY <2>1, <4>1, <4>2, <4>3
    <3>. QED
      BY <3>1
  <2>. QED
    BY <2>1, <2>2
<1>4. ASSUME x < MaxL, NEW y \in 0..MaxL, y \div Factor < lines(x)
      PROVE  y <= x
  <2>1. y \in Nat /\ x + 1 \in Nat /\ Factor \in Nat \ {0} /\ lines(x) \in Nat
    BY <1>1, Sizes
  <2>2. y < lines(x) * Factor /\ ~(x + 1 < lines(x) * Factor)
    BY <1>4, <2>1, Below
  <2> HIDE DEF lines
  <2>3. lines(x) * Factor \in Int
    BY <2>1
  <2>. QED
    BY <2>1, <2>2, <2>3
<1>5. \A y \in 0..MaxL : y \div Factor \in Int
  BY Sizes
<1> HIDE DEF lines
<1>6. LastAveragedOf(x) \in -1..MaxAL
  BY <1>1, <1>2, Sizes
<1>7. \A y \in 0..MaxL : y \div Factor <= LastAveragedOf(x) => y <= x
  <2>1. ASSUME NEW y \in 0..MaxL, y \div Factor <= LastAveragedOf(x), x < MaxL PROVE y <= x
    <3>1. LastAveragedOf(x) <= lines(x) - 1 /\ lines(x) \in Nat /\ LastAveragedOf(x) \in Int
      BY <1>1, <1>2, <1>6, <2>1, Sizes
    <3>2. y \div Factor < lines(x)
      BY <1>5, <2>1, <3>1
    <3>. QED
      BY <1>4, <2>1, <3>2
  <2>2. ASSUME NEW y \in 0..MaxL, ~(x < MaxL) PROVE y <= x
    BY <2>2, Sizes
  <2>. QED
    BY <2>1, <2>2
<1>8. ASSUME NEW z \in x..MaxL PROVE LastAveragedOf(x) <= LastAveragedOf(z)
  <2>1. z \in -1..MaxL /\ lines(x) <= lines(z) /\ lines(x) \in Nat /\ lines(z) \in Nat
    BY <1>1, <1>3, Sizes
  <2>2. CASE z < MaxL
    BY <1>2, <2>1, <2>2, Sizes
  <2>3. CASE z = MaxL
    BY <1>2, <1>6, <2>1, <2>3
  <2>. QED
    BY <2>1, <2>2, <2>3, Sizes
<1>. QED
  BY <1>6, <1>7, <1>8

IsBetween(x, max) ==
  /\ Source0(x, max) \in 0..(max - 1)
  /\ Source0(x, max) + Weight(x, Source0(x, max)) \in 0..max
  /\ (Source0(x, max) + Weight(x, Source0(x, max))) - x \div Factor \in -1..1

\* A row lies between the averaged row of its own block and a neighbour.
LEMMA SourceIs ==
  ASSUME NEW max \in Nat, max >= 1, NEW x \in Nat, x \div Factor \in 0..max
  PROVE  IsBetween(x, max)
<1> DEFINE q == x \div Factor
           r == (x - Factor \div 2) \div Factor
           s == Source0(x, max)
           w == Weight(x, s)
           n == max - 1
           k == Min({r, n})
<1>1. q \in 0..max /\ q \in Int /\ q * Factor <= x /\ x < q * Factor + Factor
      /\ Factor \in Nat \ {0}
  BY Sizes, Division
<1>2. r \in Int /\ r * Factor <= x - Factor \div 2 /\ x - Factor \div 2 < r * Factor + Factor
      /\ Factor \div 2 \in 0..(Factor - 1)
  BY <1>1
<1>3. r \in {q - 1, q}
  <2> HIDE DEF q, r
  <2>1. (q - 1) * Factor = q * Factor - Factor /\ (r + 1) * Factor = r * Factor + Factor
    BY <1>1, <1>2
  <2>2. q - 1 <= r
    <3>1. ASSUME r + 1 <= q - 1 PROVE FALSE
      <4>1. (r + 1) * Factor <= (q - 1) * Factor
        BY <1>1, <1>2, <3>1
      <4>. QED
        BY <1>1, <1>2, <2>1, <4>1
    <3>. QED
      BY <1>1, <1>2, <3>1
  <2>3. r <= q
    <3>1. ASSUME q + 1 <= r PROVE FALSE
      <4>1. (q + 1) * Factor <= r * Factor /\ (q + 1) * Factor = q * Factor + Factor
        BY <1>1, <1>2, <3>1
      <4>. QED
        BY <1>1, <1>2, <4>1
    <3>. QED
      BY <1>1, <1>2, <3>1
  <2>. QED
    BY <1>1, <1>2, <2>2, <2>3
<1>4. s = Max({0, k})
  BY DEF Source0, Clamped
<1>5. w \in {0, 1}
  BY DEF Weight
<1>6. n \in Nat /\ n \in Int /\ n = max - 1
  OBVIOUS
<1> HIDE DEF q, r, s, w, n, k
<1>7. k = IF r <= n THEN r ELSE n
  BY <1>2, <1>6, OfTwo DEF k
<1>8. s \in 0..(max - 1) /\ s \in {q - 1, q}
  <2>1. k \in Int
    BY <1>2, <1>6, <1>7
  <2>2. Max({0, k}) = IF 0 >= k THEN 0 ELSE k
    BY <2>1, OfTwo
  <2>. QED
    BY <1>1, <1>2, <1>3, <1>4, <1>6, <1>7, <2>2
<1>9. s + w \in 0..max /\ (s + w) - q \in -1..1
  BY <1>1, <1>5, <1>8
<1>. QED
  BY <1>8, <1>9 DEF q, s, w, IsBetween

\* The averaged pixel that a pixel is interpolated from is that of its block or
\* a neighbour of it.
LEMMA CornerIs ==
  ASSUME NEW p \in Position
  PROVE  /\ Corner(p) \in Averaged
         /\ \A i \in {1, 2} : Corner(p)[i] - p[i] \div Factor \in -1..1
         /\ Corner(p)[1] <= Source0(p[1], MaxAL) + 1
<1>1. /\ p[1] \in 0..MaxL /\ p[2] \in 0..MaxM
      /\ MaxAL \in Nat /\ MaxAM \in Nat /\ MaxAL >= 1 /\ MaxAM >= 1
      /\ p[1] \div Factor \in 0..MaxAL /\ p[2] \div Factor \in 0..MaxAM
  BY Sizes DEF Position
<1> DEFINE row == p[1]
           column == p[2]
           l0 == Source0(row, MaxAL)
           m0 == Source0(column, MaxAM)
           l == l0 + Weight(row, l0)
           m == m0 + Weight(column, m0)
           u == row \div Factor
           v == column \div Factor
<1>2. Corner(p) = <<l, m>>
  BY DEF Corner
<1>3. /\ row \in Nat /\ u \in 0..MaxAL /\ MaxAL \in Nat /\ MaxAL >= 1
      /\ column \in Nat /\ v \in 0..MaxAM /\ MaxAM \in Nat /\ MaxAM >= 1
  BY <1>1, Sizes
<1> HIDE DEF row, column
<1>4. l0 \in 0..(MaxAL - 1) /\ l \in 0..MaxAL /\ l - u \in -1..1
  BY <1>3, SourceIs DEF IsBetween
<1>5. m \in 0..MaxAM /\ m - v \in -1..1
  BY <1>3, SourceIs DEF IsBetween
<1>6. Weight(row, l0) \in {0, 1}
  BY DEF Weight
<1> HIDE DEF l0
<1>7. l <= l0 + 1
  BY <1>3, <1>4, <1>6
<1> HIDE DEF l, m, u, v
<1>8. /\ <<l, m>> \in Averaged
      /\ \A i \in {1, 2} : <<l, m>>[i] - <<u, v>>[i] \in -1..1
  BY <1>4, <1>5 DEF Averaged
<1>9. \A i \in {1, 2} : <<u, v>>[i] = p[i] \div Factor
  BY DEF u, v, row, column
<1>10. l0 = Source0(p[1], MaxAL)
  BY DEF l0, row
<1>11. Corner(p)[1] <= Source0(p[1], MaxAL) + 1
  BY <1>2, <1>7, <1>10
<1>12. \A i \in {1, 2} : Corner(p)[i] - p[i] \div Factor \in -1..1
  BY <1>2, <1>8, <1>9
<1>. QED
  BY <1>2, <1>8, <1>11, <1>12

-----------------------------------------------------------------------------
(* Averaged pixels. *)

\* There is always a first one of the nearest sources.
LEMMA NearestIs ==
  ASSUME NEW a \in Averaged, NEW sources \in SUBSET Averaged, sources # {}
  PROVE  (CHOOSE s \in sources : IsFirstOfNearest(a, s, sources)) \in sources
<1>1. \A s \in Averaged : s = <<s[1], s[2]>> /\ s[1] \in Nat /\ s[2] \in Nat
  BY Sizes DEF Averaged
<1>2. \A s \in Averaged : Square(a, s) \in Nat
  <2>1. ASSUME NEW x \in Int, NEW y \in Int PROVE x * x + y * y \in Nat
    BY <2>1
  <2>2. ASSUME NEW s \in Averaged PROVE Square(a, s) \in Nat
    <3>1. a[1] - s[1] \in Int /\ a[2] - s[2] \in Int
      BY <1>1
    <3>. QED
      BY <2>1, <3>1 DEF Square
  <2>. QED
    BY <2>2
<1> DEFINE D == {Square(a, s) : s \in sources}
<1>3. D \in SUBSET Nat /\ D # {}
  BY <1>2
<1>4. PICK s0 \in sources : \A z \in sources : Square(a, s0) <= Square(a, z)
  <2> HIDE DEF D
  <2>1. PICK d \in D : \A e \in D : d <= e
    BY <1>3, Least
  <2>. QED
    BY <2>1 DEF D
<1> DEFINE N == {s \in sources : Square(a, s) = Square(a, s0)}
           L == {s[1] : s \in N}
<1>5. L \in SUBSET Nat /\ L # {}
  BY <1>1
<1>6. PICK s1 \in N : \A z \in N : s1[1] <= z[1]
  <2> HIDE DEF L, N
  <2>1. PICK d \in L : \A e \in L : d <= e
    BY <1>5, Least
  <2>. QED
    BY <2>1 DEF L
<1> DEFINE C == {s[2] : s \in {z \in N : z[1] = s1[1]}}
<1>7. C \in SUBSET Nat /\ C # {}
  BY <1>1
<1>8. PICK s2 \in N : s2[1] = s1[1] /\ \A z \in N : z[1] = s1[1] => s2[2] <= z[2]
  <2> HIDE DEF C, N
  <2>1. PICK d \in C : \A e \in C : d <= e
    BY <1>7, Least
  <2>. QED
    BY <2>1 DEF C
<1>9. ASSUME NEW z \in sources \ {s2}
      PROVE  \/ Square(a, s2) < Square(a, z)
             \/ Square(a, s2) = Square(a, z)
                /\ (s2[1] < z[1] \/ (s2[1] = z[1] /\ s2[2] < z[2]))
  <2>1. Square(a, s2) = Square(a, s0) /\ Square(a, s0) <= Square(a, z)
        /\ Square(a, s0) \in Nat /\ Square(a, z) \in Nat
    BY <1>2, <1>4, <1>8
  <2>2. CASE Square(a, z) = Square(a, s0)
    <3>1. z \in N /\ z \in Averaged /\ s2 \in Averaged
      BY <2>2
    <3>2. s2[1] <= z[1] /\ (z[1] = s1[1] => s2[2] <= z[2])
      BY <1>6, <1>8, <3>1
    <3>3. z[1] # s2[1] \/ z[2] # s2[2]
      BY <1>1, <3>1
    <3>. QED
      BY <1>1, <1>8, <2>1, <2>2, <3>1, <3>2, <3>3
  <2>. QED
    BY <2>1, <2>2
<1>10. s2 \in sources /\ IsFirstOfNearest(a, s2, sources)
  BY <1>9 DEF IsFirstOfNearest
<1>. QED
  BY <1>10
-----------------------------------------------------------------------------
(* What the rows hold. *)

\* No module is ahead of those it depends on.
RowsInv ==
  /\ scene \in Scenes /\ outcome \in Outcomes
  /\ inMemoryL \in -1..MaxL
  /\ computed \in [Module -> Int]
  /\ computed["PCL"] \in -1..inMemoryL
  /\ computed["AVE"] \in -1..LastAveragedOf(computed["PCL"])
  /\ computed["AER"] \in -1..MaxAL
  /\ computed["AER"] # -1 => computed["AER"] <= LastFillableL(computed["AVE"])
  /\ computed["AEI"] \in -1..computed["PCL"]
  /\ computed["ACO"] \in -1..computed["AEI"]

\* An averaged pixel that has not been averaged.
Fresh == [flags |-> {}, radiance |-> {}, aot |-> NoValue, model |-> NoModel]

\* The flags and radiances of a block, in terms of the scene.
SceneFlags(a) ==
  {f \in {"PARTLY_CLOUDY"} : \E p \in Block(a) : scene[p].cloud # {}}
  \cup {f \in {"PARTLY_WATER"} : \E p \in Block(a) : ~scene[p].land}
  \cup {f \in {"BORDER"} : Cardinality(Block(a)) < BlockSize}

SceneRadiance(a) ==
  {c \in Channel :
     \A p \in Block(a) : scene[p].land /\ scene[p].cloud = {} /\ c \in scene[p].radiance}

\* What Ave makes of a block.
Input(a) == [Fresh EXCEPT !.flags = SceneFlags(a), !.radiance = SceneRadiance(a)]

\* Aer's retrieval, of any averaged pixel.
RetrievedFrom(q, a) ==
  CASE q.flags \cap {"SUCCESS", "TOO_LOW", "HIGH_ERROR", "FILLED"} # {} -> q
    [] q.flags \cap {"PARTLY_CLOUDY", "PARTLY_WATER"} # {} -> [q EXCEPT !.aot = NoValue]
    [] OTHER ->
         IF FindMinimum(q, outcome[a])
         THEN [q EXCEPT !.aot = {a}, !.model = a, !.flags = @ \cup Raised(outcome[a])]
         ELSE [q EXCEPT !.aot = NoValue]

\* What the retrieval makes of a block, and what it is filled from.
Result(a) == RetrievedFrom(Input(a), a)

Sources(a) == {s \in Averaged : IsNear(a, s) /\ "SUCCESS" \in Result(s).flags}

\* What one pass over the whole product gives.
Final(a) ==
  IF "SUCCESS" \in Result(a).flags THEN Result(a)
  ELSE [Result(a) EXCEPT
          !.aot = Sources(a), !.flags = @ \cup {"FILLED"},
          !.model = IF Sources(a) = {} THEN @
                    ELSE CHOOSE s \in Sources(a) : IsFirstOfNearest(a, s, Sources(a))]

\* Rows that Aer has registered are final, those it waits with are retrieved or
\* about to be, and the others are as they were at the start.
AveragedInv ==
  /\ averaged = [a \in Averaged |-> averaged[a]]
  /\ \A a \in Averaged :
       /\ a[1] <= computed["AER"] => averaged[a] = Final(a)
       /\ computed["AER"] < a[1] /\ a[1] <= computed["AVE"]
          => averaged[a] \in {Input(a), Result(a)}
       /\ computed["AVE"] < a[1] => averaged[a] = Fresh

PixelRecord ==
  [flags : SUBSET SynFlag, sdr : SUBSET Channel, err : SUBSET Channel,
   model : {NoModel} \cup Averaged, aot : {NoValue} \cup SUBSET Averaged]

\* Classified rows are flagged as the scene is, reflectances are in rows that
\* Aco has registered, and models come from nearby.
PixelIs(p, q) ==
  /\ p[1] <= computed["PCL"] => /\ ("LAND" \in q.flags) = scene[p].land
                                /\ ("CLOUD" \in q.flags) = (scene[p].cloud # {})
  /\ q.sdr \cup q.err # {} => /\ p[1] <= computed["ACO"]
                              /\ scene[p].land /\ scene[p].cloud = {}
                              /\ q.model # NoModel
  /\ q.model # NoModel =>
       \A i \in {1, 2} :
          q.model[i] - p[i] \div Factor \in (-FillDistance - 1)..(FillDistance + 1)
  /\ q.sdr \subseteq q.err

PixelInv ==
  /\ pixel \in [Position -> PixelRecord]
  /\ \A p \in Position : PixelIs(p, pixel[p])

Inv == RowsInv /\ AveragedInv /\ PixelInv
-----------------------------------------------------------------------------
(* The retrieval. *)

AveragedRecord ==
  [flags : SUBSET AverageFlag, radiance : SUBSET Channel,
   aot : {NoValue} \cup SUBSET Averaged, model : {NoModel} \cup Averaged]

\* What scenes and outcomes are made of.
LEMMA WhatIsSeen ==
  ASSUME scene \in Scenes, outcome \in Outcomes
  PROVE  /\ \A p \in Position : /\ scene[p].land \in BOOLEAN
                                /\ scene[p].radiance \subseteq Channel
         /\ \A a \in Averaged : outcome[a] \in Outcome
BY ScenesAssumption, OutcomesAssumption

IsDone(q) == q.flags \cap {"SUCCESS", "TOO_LOW", "HIGH_ERROR", "FILLED"} # {}

IsPartly(q) == q.flags \cap {"PARTLY_CLOUDY", "PARTLY_WATER"} # {}

Best(q, a) ==
  [q EXCEPT !.aot = {a}, !.model = a, !.flags = @ \cup Raised(outcome[a])]

\* One field of an averaged pixel changes.
LEMMA Updates ==
  ASSUME NEW f, NEW r, NEW t, NEW m, NEW q, NEW x,
         q = [flags |-> f, radiance |-> r, aot |-> t, model |-> m]
  PROVE  /\ [q EXCEPT !.flags = x] = [flags |-> x, radiance |-> r, aot |-> t, model |-> m]
         /\ [q EXCEPT !.radiance = x] = [flags |-> f, radiance |-> x, aot |-> t, model |-> m]
         /\ [q EXCEPT !.aot = x] = [flags |-> f, radiance |-> r, aot |-> x, model |-> m]
         /\ [q EXCEPT !.model = x] = [flags |-> f, radiance |-> r, aot |-> t, model |-> x]
OBVIOUS

\* The cases of the retrieval.
LEMMA Cases ==
  ASSUME NEW q, NEW a
  PROVE  /\ IsDone(q) /\ ~IsPartly(q) => RetrievedFrom(q, a) = q
         /\ ~IsDone(q) /\ IsPartly(q) => RetrievedFrom(q, a) = [q EXCEPT !.aot = NoValue]
         /\ ~IsDone(q) /\ ~IsPartly(q) /\ ~FindMinimum(q, outcome[a])
            => RetrievedFrom(q, a) = [q EXCEPT !.aot = NoValue]
         /\ ~IsDone(q) /\ ~IsPartly(q) /\ FindMinimum(q, outcome[a])
            => RetrievedFrom(q, a) = Best(q, a)
<1> DEFINE n == [q EXCEPT !.aot = NoValue]
           b == Best(q, a)
           g == FindMinimum(q, outcome[a])
<1>1. RetrievedFrom(q, a) = CASE IsDone(q) -> q [] IsPartly(q) -> n
                              [] OTHER -> IF g THEN b ELSE n
  BY DEF RetrievedFrom, IsDone, IsPartly, Best
<1> HIDE DEF n, b, g
<1>. QED
  <2>1. ASSUME IsDone(q), ~IsPartly(q) PROVE RetrievedFrom(q, a) = q
    BY <1>1, <2>1
  <2>2. ASSUME ~IsDone(q), IsPartly(q) PROVE RetrievedFrom(q, a) = n
    BY <1>1, <2>2
  <2>3. ASSUME ~IsDone(q), ~IsPartly(q), ~g PROVE RetrievedFrom(q, a) = n
    BY <1>1, <2>3
  <2>4. ASSUME ~IsDone(q), ~IsPartly(q), g PROVE RetrievedFrom(q, a) = b
    BY <1>1, <2>4
  <2>. QED
    BY <2>1, <2>2, <2>3, <2>4 DEF n, b, g

\* The fields of an averaged pixel that Aer has not seen.
LEMMA InputIs ==
  ASSUME NEW a
  PROVE  /\ Input(a) = [flags |-> SceneFlags(a), radiance |-> SceneRadiance(a),
                        aot |-> NoValue, model |-> NoModel]
         /\ Input(a) \in AveragedRecord /\ Fresh \in AveragedRecord
         /\ Input(a).flags \subseteq {"PARTLY_CLOUDY", "PARTLY_WATER", "BORDER"}
<1>1. Input(a) = [flags |-> SceneFlags(a), radiance |-> SceneRadiance(a),
                  aot |-> NoValue, model |-> NoModel]
  <2>1. Fresh = [flags |-> {}, radiance |-> {}, aot |-> NoValue, model |-> NoModel]
    BY DEF Fresh
  <2>2. [Fresh EXCEPT !.flags = SceneFlags(a)]
          = [flags |-> SceneFlags(a), radiance |-> {}, aot |-> NoValue, model |-> NoModel]
    BY <2>1
  <2>3. Input(a) = [[Fresh EXCEPT !.flags = SceneFlags(a)] EXCEPT !.radiance = SceneRadiance(a)]
    BY DEF Input
  <2> DEFINE v == [Fresh EXCEPT !.flags = SceneFlags(a)]
             f == SceneFlags(a)
             r == SceneRadiance(a)
  <2>4. v = [flags |-> f, radiance |-> {}, aot |-> NoValue, model |-> NoModel]
    BY <2>2
  <2>5. Input(a) = [v EXCEPT !.radiance = r]
    BY <2>3
  <2> HIDE DEF v, f, r
  <2>6. Input(a) = [flags |-> f, radiance |-> r, aot |-> NoValue, model |-> NoModel]
    BY <2>4, <2>5, Updates
  <2>. QED
    BY <2>6 DEF f, r
<1>2. SceneFlags(a) \subseteq {"PARTLY_CLOUDY", "PARTLY_WATER", "BORDER"}
  BY DEF SceneFlags
<1>3. SceneRadiance(a) \subseteq Channel
  BY DEF SceneRadiance
<1>4. SceneFlags(a) \in SUBSET AverageFlag
  BY <1>2 DEF AverageFlag
<1>. QED
  BY <1>1, <1>2, <1>3, <1>4 DEF AveragedRecord, Fresh

\* A minimum is sought if there are radiances of two instruments or views.
LEMMA TwoRadiances ==
  ASSUME NEW q, q.radiance \subseteq Channel
  PROVE  (HasRadiances(q) /\ IsMetric(q))
           <=> (\E c, d \in Channel : c # d /\ c \in q.radiance /\ d \in q.radiance)
<1>1. IsMetric(q) <=> ("SLN" \in q.radiance \/ "SLO" \in q.radiance)
  BY DEF IsMetric
<1>2. HasRadiances(q) <=> ("OLC" \in q.radiance \/ ("SLN" \in q.radiance /\ "SLO" \in q.radiance))
  BY DEF HasRadiances
<1>. QED
  BY <1>1, <1>2 DEF Channel

\* How the retrieval of a block ends: it succeeds or fails by what the sensors
\* see, and doing it again changes nothing.
LEMMA ResultIs ==
  ASSUME scene \in Scenes, outcome \in Outcomes, NEW a \in Averaged
  PROVE  /\ Result(a) \in AveragedRecord
         /\ "FILLED" \notin Result(a).flags
         /\ ("SUCCESS" \in Result(a).flags) <=> Succeeds(a)
         /\ "SUCCESS" \in Result(a).flags => Result(a).aot = {a}
         /\ Result(a).model \in {NoModel, a}
         /\ RetrievedFrom(Result(a), a) = Result(a)
<1> DEFINE q == Input(a)
           o == outcome[a]
           retrieved == Best(q, a)
<1>1. /\ q = [flags |-> SceneFlags(a), radiance |-> SceneRadiance(a),
              aot |-> NoValue, model |-> NoModel]
      /\ q \in AveragedRecord
      /\ q.flags \subseteq {"PARTLY_CLOUDY", "PARTLY_WATER", "BORDER"}
  BY InputIs
<1>2. o \in Outcome
  BY WhatIsSeen
<1>3. Raised(o) = (IF o = "good" THEN {"SUCCESS"} ELSE IF o = "tooLow" THEN {"TOO_LOW"}
                   ELSE IF o = "highError" THEN {"HIGH_ERROR"}
                   ELSE IF o = "negative" THEN {"NEGATIVE_CURVATURE"} ELSE {})
  BY <1>2 DEF Raised, Outcome, Retrieval
<1>4. [q EXCEPT !.aot = NoValue] = q
  BY <1>1
<1>5. ~IsDone(q)
  BY <1>1 DEF IsDone
<1>6. IsPartly(q) <=> ~(\A p \in Block(a) : scene[p].land /\ scene[p].cloud = {})
  <2>1. IsPartly(q) <=> ("PARTLY_CLOUDY" \in SceneFlags(a) \/ "PARTLY_WATER" \in SceneFlags(a))
    BY <1>1 DEF IsPartly
  <2>2. ("PARTLY_CLOUDY" \in SceneFlags(a)) <=> (\E p \in Block(a) : scene[p].cloud # {})
    BY DEF SceneFlags
  <2>3. ("PARTLY_WATER" \in SceneFlags(a)) <=> (\E p \in Block(a) : ~scene[p].land)
    BY DEF SceneFlags
  <2>. QED
    BY <2>1, <2>2, <2>3
<1>7. ~IsPartly(q) =>
        (FindMinimum(q, o)
           <=> (/\ o # "none"
                /\ \E c, d \in Channel :
                     c # d /\ \A p \in Block(a) : {c, d} \subseteq scene[p].radiance))
  <2>1. q.radiance = SceneRadiance(a) /\ q.radiance \subseteq Channel
    BY <1>1 DEF SceneRadiance
  <2>2. FindMinimum(q, o)
          <=> (/\ o # "none"
               /\ \E c, d \in Channel : c # d /\ c \in q.radiance /\ d \in q.radiance)
    BY <2>1, TwoRadiances DEF FindMinimum
  <2>3. ASSUME ~IsPartly(q)
        PROVE  \A c \in Channel :
                  (c \in q.radiance) <=> (\A p \in Block(a) : c \in scene[p].radiance)
    BY <1>6, <2>1, <2>3 DEF SceneRadiance
  <2>. QED
    BY <2>2, <2>3
<1>8. Succeeds(a) <=> (o = "good" /\ ~IsPartly(q) /\ FindMinimum(q, o))
  BY <1>6, <1>7 DEF Succeeds
<1>9. Result(a) = IF ~IsPartly(q) /\ FindMinimum(q, o) THEN retrieved ELSE q
  BY <1>4, <1>5, Cases DEF Result
<1>10. retrieved = [flags |-> q.flags \cup Raised(o), radiance |-> q.radiance, aot |-> {a}, model |-> a]
  <2> DEFINE f == SceneFlags(a)
             r == SceneRadiance(a)
             v == [q EXCEPT !.aot = {a}]
             w == [v EXCEPT !.model = a]
             x == q.flags \cup Raised(o)
  <2>1. q = [flags |-> f, radiance |-> r, aot |-> NoValue, model |-> NoModel]
    BY <1>1
  <2>2. retrieved = [w EXCEPT !.flags = x]
    BY DEF Best
  <2> HIDE DEF q, f, r, x
  <2>3. v = [flags |-> f, radiance |-> r, aot |-> {a}, model |-> NoModel]
    BY <2>1
  <2> HIDE DEF v
  <2>4. w = [flags |-> f, radiance |-> r, aot |-> {a}, model |-> a]
    BY <2>3
  <2> HIDE DEF w
  <2>5. retrieved = [flags |-> x, radiance |-> r, aot |-> {a}, model |-> a]
    BY <2>2, <2>4
  <2>6. q.radiance = r
    BY <2>1
  <2>. QED
    BY <2>5, <2>6 DEF x
<1> HIDE DEF q, retrieved
<1>11. CASE IsPartly(q) \/ ~FindMinimum(q, o)
  <2>1. Result(a) = q
    BY <1>9, <1>11
  <2>2. RetrievedFrom(q, a) = q
    BY <1>4, <1>5, <1>11, Cases
  <2>3. "SUCCESS" \notin q.flags /\ "FILLED" \notin q.flags /\ q.model = NoModel
    BY <1>1
  <2>4. ("SUCCESS" \in q.flags) <=> Succeeds(a)
    BY <1>8, <1>11, <2>3
  <2>5. q \in AveragedRecord
    BY <1>1
  <2>. QED
    BY <2>1, <2>2, <2>3, <2>4, <2>5
<1>12. CASE ~IsPartly(q) /\ FindMinimum(q, o)
  <2>1. Result(a) = retrieved
    BY <1>9, <1>12
  <2>2. retrieved.flags = q.flags \cup Raised(o) /\ retrieved.radiance = q.radiance
        /\ retrieved.aot = {a} /\ retrieved.model = a
    BY <1>10
  <2>3. retrieved \in AveragedRecord
    <3>1. q.flags \cup Raised(o) \in SUBSET AverageFlag
      BY <1>1, <1>3 DEF AverageFlag, Retrieval
    <3>2. q.radiance \in SUBSET Channel
      BY <1>1 DEF AveragedRecord
    <3>. QED
      BY <1>10, <3>1, <3>2 DEF AveragedRecord
  <2>4. ("SUCCESS" \in retrieved.flags) <=> (o = "good")
    BY <1>1, <1>3, <2>2
  <2>5. "FILLED" \notin retrieved.flags
    BY <1>1, <1>3, <2>2
  <2>6. Succeeds(a) <=> (o = "good")
    BY <1>8, <1>12
  <2>7. ~IsPartly(retrieved)
    BY <1>3, <1>12, <2>2 DEF IsPartly
  <2>8. RetrievedFrom(retrieved, a) = retrieved
    <3>1. CASE IsDone(retrieved)
      BY <2>7, <3>1, Cases
    <3>2. CASE ~IsDone(retrieved)
      <4>1. FindMinimum(retrieved, o)
        BY <1>12, <2>2 DEF FindMinimum, HasRadiances, IsMetric
      <4>2. retrieved.flags \cup Raised(o) = retrieved.flags
        BY <2>2
      <4>3. [retrieved EXCEPT !.aot = {a}] = retrieved
        BY <1>10
      <4>4. [retrieved EXCEPT !.model = a] = retrieved
        BY <1>10
      <4>5. [retrieved EXCEPT !.flags = retrieved.flags] = retrieved
        BY <1>10
      <4>6. Best(retrieved, a) = retrieved
        BY <4>2, <4>3, <4>4, <4>5 DEF Best
      <4>. QED
        BY <2>7, <3>2, <4>1, <4>6, Cases
    <3>. QED
      BY <3>1, <3>2
  <2>9. ("SUCCESS" \in retrieved.flags) <=> Succeeds(a)
    BY <2>4, <2>6
  <2>. QED
    BY <2>1, <2>2, <2>3, <2>5, <2>8, <2>9
<1>. QED
  BY <1>11, <1>12
\* The blocks that a block is filled from are the successful ones nearby.
LEMMA SourcesAre ==
  ASSUME scene \in Scenes, outcome \in Outcomes, NEW a \in Averaged
  PROVE  Sources(a) = {s \in Averaged : IsNear(a, s) /\ Succeeds(s)}
<1>1. \A s \in Averaged : ("SUCCESS" \in Result(s).flags) <=> Succeeds(s)
  BY ResultIs
<1>2. \A s : s \in Sources(a) <=> s \in Averaged /\ IsNear(a, s) /\ "SUCCESS" \in Result(s).flags
  BY DEF Sources
<1>3. \A s : s \in {z \in Averaged : IsNear(a, z) /\ Succeeds(z)}
               <=> s \in Averaged /\ IsNear(a, s) /\ Succeeds(s)
  OBVIOUS
<1> DEFINE N == {z \in Averaged : IsNear(a, z) /\ Succeeds(z)}
<1>4. \A s : s \in Sources(a) <=> s \in N
  BY <1>1, <1>2, <1>3
<1> HIDE DEF N
<1>5. Sources(a) = N
  BY <1>4
<1>. QED
  BY <1>5 DEF N

\* What one pass over the product gives a block: its own value or that of the
\* successful ones nearby, and a model of a block that is not far away.
LEMMA FinalIs ==
  ASSUME scene \in Scenes, outcome \in Outcomes, NEW a \in Averaged
  PROVE  /\ Final(a) \in AveragedRecord
         /\ ("SUCCESS" \in Final(a).flags) <=> Succeeds(a)
         /\ ("FILLED" \in Final(a).flags) <=> ~Succeeds(a)
         /\ Final(a).aot = IF Succeeds(a) THEN {a}
                           ELSE {s \in Averaged : IsNear(a, s) /\ Succeeds(s)}
         /\ Final(a).model # NoModel =>
              \A i \in {1, 2} : Final(a).model[i] - a[i] \in (-FillDistance)..FillDistance
<1> DEFINE q == Result(a)
           S == Sources(a)
           m == IF S = {} THEN q.model ELSE CHOOSE s \in S : IsFirstOfNearest(a, s, S)
<1>1. /\ q \in AveragedRecord
      /\ "FILLED" \notin q.flags
      /\ ("SUCCESS" \in q.flags) <=> Succeeds(a)
      /\ "SUCCESS" \in q.flags => q.aot = {a}
      /\ q.model \in {NoModel, a}
  BY ResultIs
<1>2. S = {s \in Averaged : IsNear(a, s) /\ Succeeds(s)} /\ S \in SUBSET Averaged
  BY SourcesAre
<1>3. \A i \in {1, 2} : a[i] - a[i] \in (-FillDistance)..FillDistance
  BY Sizes DEF Averaged
<1>4. CASE Succeeds(a)
  <2>1. Final(a) = q
    BY <1>1, <1>4 DEF Final
  <2>2. q.model # NoModel => q.model = a
    BY <1>1
  <2> HIDE DEF q
  <2>3. q.model # NoModel =>
          \A i \in {1, 2} : q.model[i] - a[i] \in (-FillDistance)..FillDistance
    BY <1>3, <2>2
  <2>. QED
    BY <1>1, <1>4, <2>1, <2>3
<1>5. CASE ~Succeeds(a)
  <2> DEFINE F == q.flags \cup {"FILLED"}
             v == [q EXCEPT !.aot = S]
             w == [v EXCEPT !.flags = v.flags \cup {"FILLED"}]
  <2>1. Final(a) = [[[q EXCEPT !.aot = S] EXCEPT !.flags = q.flags \cup {"FILLED"}] EXCEPT !.model = m]
    BY <1>1, <1>5 DEF Final
  <2>2. q = [flags |-> q.flags, radiance |-> q.radiance, aot |-> q.aot, model |-> q.model]
        /\ q.radiance \in SUBSET Channel /\ q.flags \in SUBSET AverageFlag
        /\ q.model \in {NoModel} \cup Averaged
    BY <1>1 DEF AveragedRecord
  <2>3. Final(a) = [flags |-> F, radiance |-> q.radiance, aot |-> S, model |-> m]
    <3> DEFINE x == [q EXCEPT !.aot = S]
               y == [x EXCEPT !.flags = F]
    <3>1. Final(a) = [y EXCEPT !.model = m]
      BY <2>1
    <3> HIDE DEF F, m, S, q
    <3>2. x = [flags |-> q.flags, radiance |-> q.radiance, aot |-> S, model |-> q.model]
      BY <2>2
    <3> HIDE DEF x
    <3>3. y = [flags |-> F, radiance |-> q.radiance, aot |-> S, model |-> q.model]
      BY <3>2
    <3> HIDE DEF y
    <3>. QED
      BY <3>1, <3>3
  <2>4. F \in SUBSET AverageFlag /\ "FILLED" \in F /\ "SUCCESS" \notin F
    BY <1>1, <1>5, <2>2 DEF AverageFlag, Retrieval
  <2>5. m \in {NoModel} \cup Averaged
    BY <1>2, <2>2, NearestIs
  <2>6. m # NoModel => \A i \in {1, 2} : m[i] - a[i] \in (-FillDistance)..FillDistance
    <3>1. CASE S = {}
      <4>1. m # NoModel => m = a
        BY <1>1, <3>1
      <4> HIDE DEF m
      <4>. QED
        BY <1>3, <4>1
    <3>2. CASE S # {}
      <4>1. m \in S
        BY <1>2, <3>2, NearestIs
      <4>2. IsNear(a, m) /\ m \in Averaged
        BY <1>2, <4>1
      <4> HIDE DEF m
      <4>. QED
        BY <4>2, Sizes DEF IsNear, Averaged
    <3>. QED
      BY <3>1, <3>2
  <2> HIDE DEF F, m, q, S
  <2>7. Final(a) \in AveragedRecord
    BY <1>2, <2>2, <2>3, <2>4, <2>5 DEF AveragedRecord
  <2>8. Final(a).flags = F /\ Final(a).aot = S /\ Final(a).model = m
    BY <2>3
  <2>9. Final(a).model # NoModel =>
          \A i \in {1, 2} : Final(a).model[i] - a[i] \in (-FillDistance)..FillDistance
    BY <2>6, <2>8
  <2>10. Final(a).aot = {s \in Averaged : IsNear(a, s) /\ Succeeds(s)}
    BY <1>2, <2>8
  <2>. QED
    BY <1>5, <2>4, <2>7, <2>8, <2>9, <2>10
<1>. QED
  BY <1>4, <1>5

\* Filling a block from a grid whose blocks nearby have been retrieved gives
\* what one pass gives.
LEMMA FilledIs ==
  ASSUME NEW a \in Averaged, NEW grid, grid[a] = Result(a), "SUCCESS" \notin Result(a).flags,
         \A s \in Averaged : IsNear(a, s) =>
            (("SUCCESS" \in grid[s].flags) <=> ("SUCCESS" \in Result(s).flags))
  PROVE  Filled(a, grid) = Final(a)
<1> DEFINE S == {s \in Averaged : IsNear(a, s) /\ "SUCCESS" \in grid[s].flags}
<1>1. S = Sources(a)
  BY DEF Sources
<1>2. Filled(a, grid) = [grid[a] EXCEPT
                           !.aot = S, !.flags = @ \cup {"FILLED"},
                           !.model = IF S = {} THEN @
                                     ELSE CHOOSE s \in S : IsFirstOfNearest(a, s, S)]
  BY DEF Filled
<1> HIDE DEF S
<1>. QED
  BY <1>1, <1>2 DEF Final
-----------------------------------------------------------------------------
(* Rows are registered in order. *)

\* Registering rows never goes below the first one.
LEMMA RegisterIs ==
  ASSUME NEW m \in Module, NEW x \in Int, computed \in [Module -> Int], Register(m, x)
  PROVE  /\ computed' \in [Module -> Int]
         /\ computed'[m] = IF x >= -1 THEN x ELSE -1
         /\ \A n \in Module \ {m} : computed'[n] = computed[n]
<1>1. Max({x, -1}) = IF x >= -1 THEN x ELSE -1
  BY OfTwo
<1>2. computed' = [computed EXCEPT ![m] = IF x >= -1 THEN x ELSE -1]
  BY <1>1 DEF Register
<1>. QED
  BY <1>2

\* Aei stops at the first row that Aer keeps waiting.
LEMMA InterpolatedRows ==
  ASSUME RowsInv
  PROVE  /\ LastInterpolatedL \in computed["AEI"]..computed["PCL"]
         /\ \A l \in Rows("AEI", LastInterpolatedL) : ~(Source0(l, MaxAL) + 1 > computed["AER"])
<1> DEFINE first == computed["AEI"]
           last == computed["PCL"]
           late == {l \in (first + 1)..last : Source0(l, MaxAL) + 1 > computed["AER"]}
<1>1. first \in Int /\ last \in Int /\ -1 <= first /\ first <= last
  BY Sizes DEF RowsInv
<1>2. LastInterpolatedL = IF late = {} THEN last ELSE Min(late) - 1
  BY DEF LastInterpolatedL, Rows
<1>3. \A l \in (first + 1)..last : l \notin late => ~(Source0(l, MaxAL) + 1 > computed["AER"])
  OBVIOUS
<1>4. late \in SUBSET ((first + 1)..last)
  OBVIOUS
<1>5. Rows("AEI", LastInterpolatedL) = (first + 1)..LastInterpolatedL
  BY DEF Rows
<1> HIDE DEF first, last, late
<1>6. CASE late = {}
  <2>1. LastInterpolatedL = last
    BY <1>2, <1>6
  <2>. QED
    BY <1>1, <1>3, <1>5, <1>6, <2>1 DEF first, last
<1>7. CASE late # {}
  <2>1. late \in SUBSET Nat
    BY <1>1, <1>4
  <2>2. Min(late) \in late /\ \A y \in late : Min(late) <= y
    BY <1>7, <2>1, MinIs
  <2>3. Min(late) \in (first + 1)..last /\ LastInterpolatedL = Min(late) - 1
    BY <1>2, <1>4, <1>7, <2>2
  <2>4. \A l \in (first + 1)..LastInterpolatedL : l \in (first + 1)..last /\ l \notin late
    BY <1>1, <2>2, <2>3
  <2>5. LastInterpolatedL \in first..last
    BY <1>1, <2>3
  <2>. QED
    BY <1>3, <1>5, <2>4, <2>5 DEF first, last
<1>. QED
  BY <1>6, <1>7

\* The rows of a module only grow, and never beyond what it depends on.
LEMMA RowsStep ==
  ASSUME RowsInv, [Next]_vars
  PROVE  RowsInv' /\ \A m \in Module : computed[m] <= computed'[m]
<1> DEFINE Typed ==
      /\ inMemoryL \in -1..MaxL /\ computed \in [Module -> Int]
      /\ {"PCL", "AVE", "AER", "AEI", "ACO"} = Module
<1>1. Typed
  BY DEF RowsInv, Module
<1>2. /\ MaxL \in Nat /\ MaxAL \in Nat /\ FillDistance \in Nat
      /\ computed["PCL"] \in -1..MaxL
      /\ LastAveragedOf(computed["PCL"]) \in -1..MaxAL
      /\ \A z \in computed["PCL"]..MaxL :
            LastAveragedOf(computed["PCL"]) <= LastAveragedOf(z) /\ LastAveragedOf(z) \in -1..MaxAL
  <2>1. computed["PCL"] \in -1..MaxL /\ MaxL \in Nat /\ MaxAL \in Nat /\ FillDistance \in Nat
    BY Sizes DEF RowsInv
  <2>2. \A z \in computed["PCL"]..MaxL : z \in -1..MaxL
    BY <2>1
  <2>. QED
    BY <2>1, <2>2, AveragedRow
<1>3. CASE Col
  <2>1. /\ inMemoryL' \in (inMemoryL + 1)..MaxL
        /\ UNCHANGED <<scene, outcome, computed>>
    BY <1>3 DEF Col
  <2>2. LastAveragedOf(computed["PCL"])' = LastAveragedOf(computed["PCL"])
    BY <2>1 DEF LastAveragedOf
  <2>3. LastFillableL(computed["AVE"])' = LastFillableL(computed["AVE"])
    BY <2>1 DEF LastFillableL
  <2>4. inMemoryL' \in -1..MaxL /\ computed["PCL"] \in -1..(inMemoryL')
    BY <1>1, <1>2, <2>1 DEF RowsInv
  <2>5. RowsInv'
    BY <2>1, <2>2, <2>3, <2>4 DEF RowsInv
  <2>6. \A m \in Module : computed[m] <= computed'[m]
    BY <1>1, <2>1
  <2>. QED
    BY <2>5, <2>6
<1>4. CASE Pcl
  <2>1. Register("PCL", inMemoryL) /\ UNCHANGED <<scene, outcome, inMemoryL>>
    BY <1>4 DEF Pcl
  <2>2. computed' \in [Module -> Int] /\ computed'["PCL"] = inMemoryL
        /\ \A n \in Module \ {"PCL"} : computed'[n] = computed[n]
    BY <1>1, <1>2, <2>1, RegisterIs
  <2>3. computed'["PCL"] \in computed["PCL"]..MaxL
    BY <1>1, <1>2, <2>2 DEF RowsInv
  <2>4. LastAveragedOf(computed["PCL"])' \in LastAveragedOf(computed["PCL"])..MaxAL
    BY <1>2, <2>3 DEF LastAveragedOf
  <2>. QED
    BY <1>1, <1>2, <2>1, <2>2, <2>3, <2>4 DEF RowsInv, LastFillableL
<1>5. CASE Ave
  <2>1. Register("AVE", LastAveragedL) /\ UNCHANGED <<scene, outcome, inMemoryL>>
    BY <1>5 DEF Ave
  <2>2. LastAveragedL = LastAveragedOf(computed["PCL"])
    BY DEF LastAveragedL, LastAveragedOf
  <2>3. computed' \in [Module -> Int] /\ computed'["AVE"] = LastAveragedOf(computed["PCL"])
        /\ \A n \in Module \ {"AVE"} : computed'[n] = computed[n]
    BY <1>1, <1>2, <2>1, <2>2, RegisterIs
  <2>4. computed["AVE"] <= computed'["AVE"] /\ computed["AVE"] \in Int
    BY <1>1, <1>2, <2>3 DEF RowsInv
  <2>5. LastAveragedOf(computed["PCL"])' = LastAveragedOf(computed["PCL"])
    BY <1>1, <2>3 DEF LastAveragedOf
  <2>6. computed["AER"] # -1 => computed["AER"] <= LastFillableL(computed'["AVE"])
    BY <1>1, <1>2, <2>3, <2>4 DEF RowsInv, LastFillableL
  <2>. QED
    BY <1>1, <1>2, <2>1, <2>3, <2>4, <2>5, <2>6 DEF RowsInv
<1>6. CASE Aer
  <2>1. Register("AER", LastFillableL(computed["AVE"])) /\ UNCHANGED <<scene, outcome, inMemoryL>>
    BY <1>6 DEF Aer
  <2>2. computed["AVE"] \in -1..MaxAL
    BY <1>1, <1>2 DEF RowsInv
  <2>3. LastFillableL(computed["AVE"]) \in Int /\ LastFillableL(computed["AVE"]) <= MaxAL
    BY <1>2, <2>2 DEF LastFillableL
  <2>4. /\ computed' \in [Module -> Int]
        /\ computed'["AER"] = IF LastFillableL(computed["AVE"]) >= -1
                              THEN LastFillableL(computed["AVE"]) ELSE -1
        /\ \A n \in Module \ {"AER"} : computed'[n] = computed[n]
    BY <1>1, <2>1, <2>3, RegisterIs
  <2>5. computed["AER"] <= computed'["AER"] /\ computed'["AER"] \in -1..MaxAL
    BY <1>1, <1>2, <2>3, <2>4 DEF RowsInv
  <2>6. LastAveragedOf(computed["PCL"])' = LastAveragedOf(computed["PCL"])
    BY <1>1, <2>4 DEF LastAveragedOf
  <2>7. computed'["AVE"] = computed["AVE"]
    BY <1>1, <2>4
  <2>8. computed'["AER"] # -1 => computed'["AER"] <= LastFillableL(computed'["AVE"])
    BY <2>3, <2>4, <2>7
  <2>. QED
    BY <1>1, <1>2, <2>1, <2>4, <2>5, <2>6, <2>7, <2>8 DEF RowsInv
<1>7. CASE Aei
  <2>1. Register("AEI", LastInterpolatedL) /\ UNCHANGED <<scene, outcome, inMemoryL>>
    BY <1>7 DEF Aei
  <2>2. LastInterpolatedL \in computed["AEI"]..computed["PCL"]
    BY InterpolatedRows
  <2>3. computed["AEI"] \in -1..MaxL
    BY <1>1, <1>2 DEF RowsInv
  <2>4. /\ computed' \in [Module -> Int]
        /\ computed'["AEI"] = LastInterpolatedL
        /\ \A n \in Module \ {"AEI"} : computed'[n] = computed[n]
    BY <1>1, <1>2, <2>1, <2>2, <2>3, RegisterIs
  <2>5. LastAveragedOf(computed["PCL"])' = LastAveragedOf(computed["PCL"])
    BY <1>1, <2>4 DEF LastAveragedOf
  <2>. QED
    BY <1>1, <1>2, <2>1, <2>2, <2>3, <2>4, <2>5 DEF RowsInv, LastFillableL
<1>8. CASE Aco
  <2>1. Register("ACO", computed["AEI"]) /\ UNCHANGED <<scene, outcome, inMemoryL>>
    BY <1>8 DEF Aco
  <2>2. computed["AEI"] \in -1..MaxL
    BY <1>1, <1>2 DEF RowsInv
  <2>3. /\ computed' \in [Module -> Int]
        /\ computed'["ACO"] = computed["AEI"]
        /\ \A n \in Module \ {"ACO"} : computed'[n] = computed[n]
    BY <1>1, <2>1, <2>2, RegisterIs
  <2>4. LastAveragedOf(computed["PCL"])' = LastAveragedOf(computed["PCL"])
    BY <1>1, <2>3 DEF LastAveragedOf
  <2>. QED
    BY <1>1, <1>2, <2>1, <2>2, <2>3, <2>4 DEF RowsInv, LastFillableL
<1>9. CASE UNCHANGED vars
  <2>1. UNCHANGED <<scene, outcome, inMemoryL, computed>>
    BY <1>9 DEF vars
  <2>2. LastAveragedOf(computed["PCL"])' = LastAveragedOf(computed["PCL"])
    BY <2>1 DEF LastAveragedOf
  <2>3. \A m \in Module : computed[m] <= computed'[m]
    BY <1>1, <2>1
  <2>. QED
    BY <2>1, <2>2, <2>3 DEF RowsInv, LastFillableL
<1>. QED
  BY <1>3, <1>4, <1>5, <1>6, <1>7, <1>8, <1>9 DEF Next
-----------------------------------------------------------------------------
(* Averaged pixels are those of one pass. *)

\* What a block gives depends on the scene only.
LEMMA SceneStays ==
  ASSUME UNCHANGED <<scene, outcome>>, NEW CONSTANT a
  PROVE  Input(a)' = Input(a) /\ Result(a)' = Result(a) /\ Final(a)' = Final(a)
<1>1. scene' = scene /\ outcome' = outcome
  OBVIOUS
<1>2. ASSUME NEW CONSTANT b PROVE Input(b)' = Input(b)
  <2>1. SceneFlags(b)' = SceneFlags(b)
    BY <1>1 DEF SceneFlags
  <2>2. SceneRadiance(b)' = SceneRadiance(b)
    BY <1>1 DEF SceneRadiance
  <2>. QED
    BY <2>1, <2>2 DEF Input, Fresh
<1>3. ASSUME NEW CONSTANT b PROVE Result(b)' = Result(b)
  <2>1. Input(b)' = Input(b)
    BY <1>2
  <2>. QED
    BY <1>1, <2>1 DEF Result, RetrievedFrom
<1>4. Sources(a)' = Sources(a)
  <2>1. \A s \in Averaged : Result(s)' = Result(s)
    BY <1>3
  <2>. QED
    BY <2>1 DEF Sources
<1>5. Final(a)' = Final(a)
  <2>1. Result(a)' = Result(a)
    BY <1>3
  <2>. QED
    BY <1>4, <2>1 DEF Final
<1>. QED
  BY <1>2, <1>3, <1>5

\* Once its rows have been classified, Ave finds of a block what the sensors
\* see of it.
LEMMA AveragingIs ==
  ASSUME RowsInv, PixelInv, NEW a \in Averaged, a[1] <= LastAveragedOf(computed["PCL"])
  PROVE  AveragedFlags(a) = SceneFlags(a) /\ AveragedRadiance(a) = SceneRadiance(a)
<1>1. ASSUME NEW p \in Block(a)
      PROVE  /\ ("LAND" \in pixel[p].flags) <=> scene[p].land
             /\ ("CLOUD" \in pixel[p].flags) <=> (scene[p].cloud # {})
  <2>1. p \in Position /\ p[1] \in 0..MaxL /\ p[1] \div Factor = a[1]
    BY DEF Block, Position
  <2>2. computed["PCL"] \in -1..MaxL
    BY Sizes DEF RowsInv
  <2>3. p[1] \div Factor <= LastAveragedOf(computed["PCL"])
    BY <2>1
  <2>4. p[1] <= computed["PCL"]
    BY <2>1, <2>2, <2>3, AveragedRow
  <2>5. scene[p].land \in BOOLEAN
    BY <2>1, WhatIsSeen DEF RowsInv
  <2>6. PixelIs(p, pixel[p])
    BY <2>1 DEF PixelInv
  <2>7. ("LAND" \in pixel[p].flags) = scene[p].land
    BY <2>4, <2>6 DEF PixelIs
  <2>8. ("CLOUD" \in pixel[p].flags) = (scene[p].cloud # {})
    BY <2>4, <2>6 DEF PixelIs
  <2>. QED
    BY <2>5, <2>7, <2>8
<1>2. AveragedFlags(a) = SceneFlags(a)
  <2>1. (\E p \in Block(a) : "CLOUD" \in pixel[p].flags) <=> (\E p \in Block(a) : scene[p].cloud # {})
    BY <1>1
  <2>2. (\E p \in Block(a) : "LAND" \notin pixel[p].flags) <=> (\E p \in Block(a) : ~scene[p].land)
    BY <1>1
  <2>3. {f \in {"PARTLY_CLOUDY"} : \E p \in Block(a) : "CLOUD" \in pixel[p].flags}
          = {f \in {"PARTLY_CLOUDY"} : \E p \in Block(a) : scene[p].cloud # {}}
    BY <2>1
  <2>4. {f \in {"PARTLY_WATER"} : \E p \in Block(a) : "LAND" \notin pixel[p].flags}
          = {f \in {"PARTLY_WATER"} : \E p \in Block(a) : ~scene[p].land}
    BY <2>2
  <2>. QED
    BY <2>3, <2>4 DEF AveragedFlags, SceneFlags
<1>3. AveragedRadiance(a) = SceneRadiance(a)
  <2>1. \A p \in Block(a) : IsClearLand(p) <=> scene[p].land /\ scene[p].cloud = {}
    BY <1>1 DEF IsClearLand
  <2>2. \A c \in Channel :
          (\A p \in Block(a) : IsClearLand(p) /\ c \in scene[p].radiance)
            <=> (\A p \in Block(a) : scene[p].land /\ scene[p].cloud = {} /\ c \in scene[p].radiance)
    BY <2>1
  <2>. QED
    BY <2>2 DEF AveragedRadiance, SceneRadiance
<1>. QED
  BY <1>2, <1>3

\* Whatever the passes are, a registered row is that of one pass, because Aer
\* keeps what it has retrieved but cannot fill yet.
LEMMA AveragedStep ==
  ASSUME Inv, [Next]_vars
  PROVE  AveragedInv'
<1>1. RowsInv /\ AveragedInv /\ PixelInv
  BY DEF Inv
<1>2. RowsInv' /\ \A m \in Module : computed[m] <= computed'[m]
  BY <1>1, RowsStep
<1>3. UNCHANGED <<scene, outcome>>
  BY DEF Next, vars, Col, Pcl, Ave, Aer, Aei, Aco
<1>4. \A a \in Averaged :
        Input(a)' = Input(a) /\ Result(a)' = Result(a) /\ Final(a)' = Final(a)
  BY <1>3, SceneStays
<1>5. Fresh' = Fresh
  BY DEF Fresh
<1>6. /\ \A a \in Averaged : a[1] \in Nat /\ a[1] <= MaxAL
      /\ MaxL \in Nat /\ MaxAL \in Nat /\ FillDistance \in Nat
      /\ LastAveragedOf(computed["PCL"]) \in -1..MaxAL
      /\ computed["PCL"] \in -1..MaxL /\ computed["AVE"] \in -1..MaxAL
      /\ computed["AER"] \in -1..MaxAL
  <2>1. computed["PCL"] \in -1..MaxL
    BY <1>1, Sizes DEF RowsInv
  <2>2. LastAveragedOf(computed["PCL"]) \in -1..MaxAL
    BY <2>1, AveragedRow
  <2>. QED
    BY <1>1, <2>1, <2>2, Sizes DEF RowsInv, Averaged
<1>7. ASSUME UNCHANGED averaged, computed'["AVE"] = computed["AVE"],
             computed'["AER"] = computed["AER"]
      PROVE  AveragedInv'
  BY <1>1, <1>4, <1>5, <1>7 DEF AveragedInv
<1>8. computed \in [Module -> Int] /\ Module = {"PCL", "AVE", "AER", "AEI", "ACO"}
  BY <1>1 DEF RowsInv, Module
<1>9. CASE Col \/ UNCHANGED vars
  BY <1>7, <1>9 DEF Col, vars
<1>10. CASE Pcl
  <2>1. Register("PCL", inMemoryL) /\ averaged' = averaged
    BY <1>10 DEF Pcl
  <2>. QED
    BY <1>7, <1>8, <2>1 DEF Register
<1>11. CASE Aei
  <2>1. Register("AEI", LastInterpolatedL) /\ averaged' = averaged
    BY <1>11 DEF Aei
  <2>. QED
    BY <1>7, <1>8, <2>1 DEF Register
<1>12. CASE Aco
  <2>1. Register("ACO", computed["AEI"]) /\ averaged' = averaged
    BY <1>12 DEF Aco
  <2>. QED
    BY <1>7, <1>8, <2>1 DEF Register
<1>13. CASE Ave
  <2> DEFINE new(a) == IF a[1] \in Rows("AVE", LastAveragedL)
                       THEN [averaged[a] EXCEPT !.flags = AveragedFlags(a),
                                                !.radiance = AveragedRadiance(a)]
                       ELSE averaged[a]
  <2>1. averaged' = [a \in Averaged |-> new(a)] /\ Register("AVE", LastAveragedL)
    BY <1>13 DEF Ave
  <2>2. LastAveragedL = LastAveragedOf(computed["PCL"])
    BY DEF LastAveragedL, LastAveragedOf
  <2>3. computed'["AVE"] = LastAveragedOf(computed["PCL"]) /\ computed'["AER"] = computed["AER"]
    <3>1. Register("AVE", LastAveragedL)
      BY <2>1
    <3>2. LastAveragedL \in Int /\ LastAveragedL >= -1
      BY <1>6, <2>2
    <3>. QED
      BY <1>8, <2>2, <3>1, <3>2, RegisterIs
  <2>4. computed["AVE"] <= computed'["AVE"]
    BY <1>2, <1>8
  <2>5. computed["AER"] <= computed["AVE"]
    BY <1>1, <1>6 DEF RowsInv, LastFillableL
  <2>6. ASSUME NEW a \in Averaged, computed["AVE"] < a[1], a[1] <= computed'["AVE"]
        PROVE  new(a) = Input(a)
    <3>1. a[1] \in Rows("AVE", LastAveragedL)
      BY <1>6, <2>2, <2>3, <2>6 DEF Rows
    <3>2. averaged[a] = Fresh
      BY <1>1, <2>6 DEF AveragedInv
    <3>3. AveragedFlags(a) = SceneFlags(a) /\ AveragedRadiance(a) = SceneRadiance(a)
      BY <1>1, <2>3, <2>6, AveragingIs
    <3>4. new(a) = [averaged[a] EXCEPT !.flags = AveragedFlags(a), !.radiance = AveragedRadiance(a)]
      BY <3>1
    <3>. QED
      BY <3>2, <3>3, <3>4 DEF Input
  <2>7. ASSUME NEW a \in Averaged, ~(computed["AVE"] < a[1] /\ a[1] <= computed'["AVE"])
        PROVE  new(a) = averaged[a]
    BY <1>6, <2>2, <2>3, <2>7 DEF Rows
  <2> HIDE DEF new
  <2>8. \A a \in Averaged : averaged'[a] = new(a)
    BY <2>1
  <2>9. averaged' = [a \in Averaged |-> averaged'[a]]
    BY <2>1
  <2>10. ASSUME NEW a \in Averaged
         PROVE  /\ a[1] <= computed'["AER"] => averaged'[a] = Final(a)
                /\ computed'["AER"] < a[1] /\ a[1] <= computed'["AVE"]
                   => averaged'[a] \in {Input(a), Result(a)}
                /\ computed'["AVE"] < a[1] => averaged'[a] = Fresh
    <3>1. CASE computed["AVE"] < a[1] /\ a[1] <= computed'["AVE"]
      BY <1>6, <2>3, <2>5, <2>6, <2>8, <3>1
    <3>2. CASE ~(computed["AVE"] < a[1] /\ a[1] <= computed'["AVE"])
      <4>1. averaged'[a] = averaged[a]
        BY <2>7, <2>8, <3>2
      <4>2. /\ a[1] <= computed["AER"] => averaged[a] = Final(a)
            /\ computed["AER"] < a[1] /\ a[1] <= computed["AVE"]
               => averaged[a] \in {Input(a), Result(a)}
            /\ computed["AVE"] < a[1] => averaged[a] = Fresh
        BY <1>1 DEF AveragedInv
      <4>. QED
        BY <1>6, <2>3, <2>4, <3>2, <4>1, <4>2
    <3>. QED
      BY <3>1, <3>2
  <2>. QED
    BY <1>4, <1>5, <2>9, <2>10 DEF AveragedInv
<1>14. CASE Aer
  <2> DEFINE lastL == computed["AVE"]
             fill == LastFillableL(lastL)
             retrieved == [a \in Averaged |->
                             IF a[1] \in Rows("AER", lastL) THEN Retrieved(a) ELSE averaged[a]]
             toFill == {a \in Averaged : a[1] \in Rows("AER", fill)
                                         /\ "SUCCESS" \notin retrieved[a].flags}
  <2>1. /\ averaged' = [a \in Averaged |-> IF a \in toFill THEN Filled(a, retrieved) ELSE retrieved[a]]
        /\ Register("AER", fill)
    BY <1>14 DEF Aer
  <2>2. /\ fill \in Int /\ fill <= lastL /\ lastL \in -1..MaxAL
        /\ lastL < MaxAL => fill = lastL - FillDistance
    BY <1>6 DEF LastFillableL
  <2>3. /\ computed'["AER"] = IF fill >= -1 THEN fill ELSE -1
        /\ computed'["AVE"] = lastL
    <3>1. Register("AER", fill)
      BY <2>1
    <3> HIDE DEF fill
    <3>. QED
      BY <1>8, <2>2, <3>1, RegisterIs
  <2>4. computed["AER"] <= computed'["AER"] /\ computed["AER"] <= lastL
    BY <1>1, <1>2, <1>6, <1>8 DEF RowsInv, LastFillableL
  <2>5. ASSUME NEW a \in Averaged
        PROVE  /\ a[1] <= computed["AER"] => retrieved[a] = Final(a)
               /\ computed["AER"] < a[1] /\ a[1] <= lastL => retrieved[a] = Result(a)
               /\ lastL < a[1] => retrieved[a] = Fresh
    <3>1. retrieved[a] = IF computed["AER"] + 1 <= a[1] /\ a[1] <= lastL
                         THEN RetrievedFrom(averaged[a], a) ELSE averaged[a]
      BY <1>6, <2>2 DEF Rows, Retrieved, RetrievedFrom, RetrieveAerosolProperties
    <3>2. /\ a[1] <= computed["AER"] => averaged[a] = Final(a)
          /\ computed["AER"] < a[1] /\ a[1] <= lastL => averaged[a] \in {Input(a), Result(a)}
          /\ lastL < a[1] => averaged[a] = Fresh
      BY <1>1 DEF AveragedInv
    <3>3. RetrievedFrom(Result(a), a) = Result(a) /\ RetrievedFrom(Input(a), a) = Result(a)
      BY <1>1, ResultIs DEF RowsInv, Result
    <3> HIDE DEF retrieved, lastL
    <3>. QED
      BY <1>6, <2>2, <3>1, <3>2, <3>3
  <2>6. \A a \in Averaged : ("SUCCESS" \in Final(a).flags) <=> ("SUCCESS" \in Result(a).flags)
    BY <1>1, ResultIs, FinalIs DEF RowsInv
  <2>7. ASSUME NEW a \in toFill PROVE Filled(a, retrieved) = Final(a)
    <3>1. a \in Averaged /\ computed["AER"] < a[1] /\ a[1] <= fill
          /\ "SUCCESS" \notin retrieved[a].flags
      BY <1>6, <2>2, <2>7 DEF Rows
    <3> HIDE DEF retrieved, toFill, fill, lastL
    <3>2. retrieved[a] = Result(a)
      BY <1>6, <2>2, <2>5, <3>1
    <3>3. ASSUME NEW s \in Averaged, IsNear(a, s)
          PROVE  ("SUCCESS" \in retrieved[s].flags) <=> ("SUCCESS" \in Result(s).flags)
      <4>1. s[1] <= a[1] + FillDistance
        BY <1>6, <3>1, <3>3 DEF IsNear
      <4>2. s[1] <= lastL
        BY <1>6, <2>2, <3>1, <4>1
      <4>3. retrieved[s] \in {Final(s), Result(s)}
        BY <1>6, <2>2, <2>5, <4>2
      <4>. QED
        BY <2>6, <4>3
    <3>. QED
      BY <3>1, <3>2, <3>3, FilledIs
  <2>8. averaged' = [a \in Averaged |-> averaged'[a]]
    BY <2>1
  <2>9. \A a \in Averaged : averaged'[a] = IF a \in toFill THEN Final(a) ELSE retrieved[a]
    BY <2>1, <2>7
  <2>10. \A a \in Averaged :
           a \in toFill <=> /\ computed["AER"] < a[1] /\ a[1] <= fill
                            /\ "SUCCESS" \notin retrieved[a].flags
    BY <1>6, <2>2 DEF Rows
  <2> HIDE DEF toFill, retrieved, fill
  <2>11. ASSUME NEW a \in Averaged
         PROVE  /\ a[1] <= computed'["AER"] => averaged'[a] = Final(a)
                /\ computed'["AER"] < a[1] /\ a[1] <= lastL => averaged'[a] = Result(a)
                /\ lastL < a[1] => averaged'[a] = Fresh
    <3>1. CASE a[1] <= computed["AER"]
      BY <1>6, <2>2, <2>3, <2>4, <2>5, <2>9, <2>10, <3>1
    <3>2. CASE computed["AER"] < a[1] /\ a[1] <= fill
      <4>1. retrieved[a] = Result(a)
        BY <1>6, <2>2, <2>5, <3>2
      <4>2. "SUCCESS" \in Result(a).flags => Final(a) = Result(a)
        BY DEF Final
      <4>3. averaged'[a] = Final(a)
        BY <2>9, <2>10, <3>2, <4>1, <4>2
      <4>4. a[1] <= computed'["AER"] /\ a[1] <= lastL
        BY <1>6, <2>2, <2>3, <3>2
      <4>. QED
        BY <1>6, <2>2, <2>3, <4>3, <4>4
    <3>3. CASE computed["AER"] < a[1] /\ fill < a[1]
      <4>1. averaged'[a] = retrieved[a]
        BY <1>6, <2>2, <2>9, <2>10, <3>3
      <4>2. ~(a[1] <= computed'["AER"])
        BY <1>6, <2>2, <2>3, <3>3
      <4>. QED
        BY <2>5, <3>3, <4>1, <4>2
    <3>. QED
      BY <1>6, <2>2, <3>1, <3>2, <3>3
  <2>. QED
    BY <1>4, <1>5, <2>3, <2>8, <2>11 DEF AveragedInv
<1>. QED
  BY <1>9, <1>10, <1>11, <1>12, <1>13, <1>14 DEF Next
-----------------------------------------------------------------------------
(* Pixels. *)

\* A pixel has these fields, and can change one of them.
LEMMA PixelFields ==
  ASSUME NEW q \in PixelRecord
  PROVE  /\ q = [flags |-> q.flags, sdr |-> q.sdr, err |-> q.err, model |-> q.model, aot |-> q.aot]
         /\ q.flags \in SUBSET SynFlag /\ q.sdr \in SUBSET Channel /\ q.err \in SUBSET Channel
         /\ q.model \in {NoModel} \cup Averaged /\ q.aot \in {NoValue} \cup SUBSET Averaged
BY DEF PixelRecord

\* Pcl flags a pixel as the scene is.
LEMMA ClassifiedIs ==
  ASSUME RowsInv, NEW p \in Position, NEW q \in PixelRecord
  PROVE  LET n == [q EXCEPT !.flags = SynFlags(p)]
         IN  /\ n \in PixelRecord
             /\ n.sdr = q.sdr /\ n.err = q.err /\ n.model = q.model
             /\ ("LAND" \in n.flags) = scene[p].land
             /\ ("CLOUD" \in n.flags) = (scene[p].cloud # {})
<1> DEFINE F == SynFlags(p)
           n == [q EXCEPT !.flags = F]
<1>1. F \in SUBSET SynFlag
  BY DEF SynFlags, SynFlag
<1>2. ("LAND" \in F) <=> scene[p].land
  BY DEF SynFlags
<1>3. ("CLOUD" \in F) <=> scene[p].cloud # {}
  BY DEF SynFlags, Clouds
<1>4. scene[p].land \in BOOLEAN
  BY WhatIsSeen DEF RowsInv
<1> HIDE DEF F
<1>5. n = [flags |-> F, sdr |-> q.sdr, err |-> q.err, model |-> q.model, aot |-> q.aot]
  BY PixelFields
<1>6. n \in PixelRecord
  BY <1>1, <1>5, PixelFields DEF PixelRecord
<1>7. n.flags = F /\ n.sdr = q.sdr /\ n.err = q.err /\ n.model = q.model
  BY <1>5
<1>8. ("LAND" \in F) = scene[p].land
  BY <1>2, <1>4
<1>9. ("CLOUD" \in F) = (scene[p].cloud # {})
  BY <1>3
<1>. QED
  BY <1>6, <1>7, <1>8, <1>9 DEF F

\* Aei takes the aerosol of a registered block nearby, and leaves the flags of
\* the classification alone.
LEMMA InterpolatedIs ==
  ASSUME RowsInv, AveragedInv, PixelInv, NEW p \in Position,
         p[1] \in Rows("AEI", LastInterpolatedL)
  PROVE  /\ Interpolated(p) \in PixelRecord
         /\ Interpolated(p).sdr = pixel[p].sdr /\ Interpolated(p).err = pixel[p].err
         /\ ("LAND" \in Interpolated(p).flags) = ("LAND" \in pixel[p].flags)
         /\ ("CLOUD" \in Interpolated(p).flags) = ("CLOUD" \in pixel[p].flags)
         /\ Interpolated(p).model # NoModel =>
              \A i \in {1, 2} : Interpolated(p).model[i] - p[i] \div Factor
                                  \in (-FillDistance - 1)..(FillDistance + 1)
<1> DEFINE c == Corner(p)
           a == averaged[c]
           q == pixel[p]
           F == q.flags \cup (a.flags \cap AverageFlag)
           n == Interpolated(p)
<1>1. /\ c \in Averaged
      /\ \A i \in {1, 2} : c[i] - p[i] \div Factor \in -1..1
      /\ c[1] <= Source0(p[1], MaxAL) + 1
  BY CornerIs
<1>2. a = Final(c)
  <2>1. ~(Source0(p[1], MaxAL) + 1 > computed["AER"])
    BY InterpolatedRows
  <2>2. Source0(p[1], MaxAL) \in Int
    <3>1. /\ p[1] \in 0..MaxL /\ MaxAL \in Nat /\ MaxAL >= 1 /\ MaxL \in Nat
          /\ p[1] \div Factor \in 0..MaxAL
      BY Sizes DEF Position
    <3>2. p[1] \in Nat
      BY <3>1
    <3>. QED
      BY <3>1, <3>2, SourceIs DEF IsBetween
  <2>3. c[1] \in Int /\ computed["AER"] \in Int
    BY <1>1, Sizes DEF Averaged, RowsInv
  <2> HIDE DEF c
  <2>4. c[1] <= computed["AER"]
    BY <1>1, <2>1, <2>2, <2>3
  <2>. QED
    BY <1>1, <2>4 DEF AveragedInv
<1>3. /\ a \in AveragedRecord
      /\ a.model # NoModel => \A i \in {1, 2} : a.model[i] - c[i] \in (-FillDistance)..FillDistance
  BY <1>1, <1>2, FinalIs DEF RowsInv
<1>4. q \in PixelRecord
  BY DEF PixelInv
<1>5. a.aot \in {NoValue} \cup SUBSET Averaged /\ a.model \in {NoModel} \cup Averaged
  BY <1>3 DEF AveragedRecord
<1>6. n = [[[q EXCEPT !.aot = a.aot] EXCEPT !.model = a.model] EXCEPT !.flags = F]
  BY DEF Interpolated
<1>7. F \in SUBSET SynFlag /\ ("LAND" \in F) = ("LAND" \in q.flags)
      /\ ("CLOUD" \in F) = ("CLOUD" \in q.flags)
  <2>1. AverageFlag \subseteq SynFlag /\ "LAND" \notin AverageFlag /\ "CLOUD" \notin AverageFlag
    BY DEF AverageFlag, SynFlag, Retrieval
  <2>2. q.flags \in SUBSET SynFlag
    BY <1>4, PixelFields
  <2> HIDE DEF q, a
  <2>. QED
    BY <2>1, <2>2
<1>8. \A i \in {1, 2} : c[i] \in Int /\ p[i] \div Factor \in Int
  BY <1>1, Sizes DEF Averaged, Position
<1>9. a.model # NoModel =>
        \A i \in {1, 2} : a.model[i] - p[i] \div Factor \in (-FillDistance - 1)..(FillDistance + 1)
  <2>1. ASSUME a.model # NoModel, NEW i \in {1, 2}
        PROVE  a.model[i] - p[i] \div Factor \in (-FillDistance - 1)..(FillDistance + 1)
    <3>1. a.model[i] \in Int
      BY <1>5, <2>1, Sizes DEF Averaged
    <3> DEFINE x == a.model[i]
               y == c[i]
               z == p[i] \div Factor
    <3>2. /\ x \in Int /\ y \in Int /\ z \in Int /\ FillDistance \in Nat
          /\ x - y \in (-FillDistance)..FillDistance /\ y - z \in -1..1
      BY <1>1, <1>3, <1>8, <2>1, <3>1, Sizes
    <3> HIDE DEF x, y, z
    <3>3. x - z \in (-FillDistance - 1)..(FillDistance + 1)
      BY <3>2
    <3>. QED
      BY <3>3 DEF x, z
  <2>. QED
    BY <2>1
<1>10. n = [flags |-> F, sdr |-> q.sdr, err |-> q.err, model |-> a.model, aot |-> a.aot]
  <2> DEFINE t == a.aot
             m == a.model
             v == [q EXCEPT !.aot = t]
             w == [v EXCEPT !.model = m]
  <2>1. n = [w EXCEPT !.flags = F]
    BY <1>6
  <2>2. q = [flags |-> q.flags, sdr |-> q.sdr, err |-> q.err, model |-> q.model, aot |-> q.aot]
    BY <1>4, PixelFields
  <2> HIDE DEF q, t, m, F, n
  <2>3. v = [flags |-> q.flags, sdr |-> q.sdr, err |-> q.err, model |-> q.model, aot |-> t]
    BY <2>2
  <2> HIDE DEF v
  <2>4. w = [flags |-> q.flags, sdr |-> q.sdr, err |-> q.err, model |-> m, aot |-> t]
    BY <2>3
  <2> HIDE DEF w
  <2>5. n = [flags |-> F, sdr |-> q.sdr, err |-> q.err, model |-> m, aot |-> t]
    BY <2>1, <2>4
  <2>. QED
    BY <2>5 DEF m, t
<1>11. q.sdr \in SUBSET Channel /\ q.err \in SUBSET Channel
  BY <1>4, PixelFields
<1> HIDE DEF n, F, a, c
<1>12. n \in PixelRecord
  BY <1>5, <1>7, <1>10, <1>11 DEF PixelRecord
<1>13. n.flags = F /\ n.sdr = q.sdr /\ n.err = q.err /\ n.model = a.model
  BY <1>10
<1>14. n.model # NoModel =>
         \A i \in {1, 2} : n.model[i] - p[i] \div Factor \in (-FillDistance - 1)..(FillDistance + 1)
  BY <1>9, <1>13
<1>. QED
  BY <1>7, <1>12, <1>13, <1>14 DEF n

\* Aco writes an error with each reflectance, the last value in the working
\* array being that of the pixel itself, and corrects clear land only.
LEMMA CorrectedIs ==
  ASSUME RowsInv, PixelInv, NEW p \in Position, p[1] <= computed["PCL"]
  PROVE  LET n == Corrected(p)
         IN  /\ n \in PixelRecord
             /\ n.flags = pixel[p].flags /\ n.model = pixel[p].model
             /\ n.sdr \subseteq n.err
             /\ n.sdr \cup n.err # {} =>
                  scene[p].land /\ scene[p].cloud = {} /\ n.model # NoModel
<1> DEFINE q == pixel[p]
           n == Corrected(p)
           c == IsCorrected(p)
           R == IF c THEN Reflectances(p) ELSE {}
           E == IF c THEN Errors(p) ELSE {}
<1>1. q \in PixelRecord /\ PixelIs(p, q)
  BY DEF PixelInv
<1>2. n = [[q EXCEPT !.sdr = R] EXCEPT !.err = E]
  <2>1. ASSUME c PROVE n = [[q EXCEPT !.sdr = R] EXCEPT !.err = E]
    BY <2>1 DEF Corrected
  <2>2. ASSUME ~c PROVE n = [[q EXCEPT !.sdr = R] EXCEPT !.err = E]
    BY <2>2 DEF Corrected
  <2>. QED
    BY <2>1, <2>2
<1>3. R \in SUBSET Channel /\ E \in SUBSET Channel
  <2>1. scene[p].radiance \subseteq Channel
    BY WhatIsSeen DEF RowsInv
  <2>. QED
    BY <2>1 DEF Reflectances, Errors
<1>4. R \subseteq E
  <2>1. ASSUME c, NEW k \in Reflectances(p) PROVE k \in Errors(p)
    <3> DEFINE W == Writers(p, k)
    <3>1. k \in Channel /\ k \in scene[p].radiance /\ k \notin scene[p].outside
      <4>1. scene[p].radiance \subseteq Channel
        BY WhatIsSeen DEF RowsInv
      <4>. QED
        BY <4>1 DEF Reflectances
    <3>2. p = <<p[1], p[2]>> /\ p[2] \in Nat
      BY Sizes DEF Position
    <3>3. W \subseteq 0..p[2]
      BY DEF Writers
    <3>4. p[2] \in W
      <4> DEFINE z == <<p[1], p[2]>>
      <4>1. z = p /\ p[2] \in 0..p[2]
        BY <3>2
      <4>2. W = {m \in 0..p[2] : IsCorrected(<<p[1], m>>) /\ k \in scene[<<p[1], m>>].radiance}
        BY DEF Writers
      <4>3. IsCorrected(z) /\ k \in scene[z].radiance
        BY <2>1, <3>1, <4>1
      <4>. QED
        BY <4>1, <4>2, <4>3
    <3> HIDE DEF W
    <3>5. W # {}
      BY <3>4
    <3>6. Max(W) \in W /\ \A y \in W : Max(W) >= y
      BY <3>2, <3>3, <3>5, MaxIs
    <3>7. Max(W) = p[2]
      BY <3>2, <3>3, <3>4, <3>6
    <3>8. k \notin scene[<<p[1], Max(W)>>].outside
      BY <3>1, <3>2, <3>7
    <3>. QED
      BY <3>1, <3>8 DEF Errors, W
  <2>. QED
    BY <2>1
<1>5. c => scene[p].land /\ scene[p].cloud = {} /\ q.model # NoModel
  <2>1. ("LAND" \in q.flags) = scene[p].land
    BY <1>1 DEF PixelIs
  <2>2. ("CLOUD" \in q.flags) = (scene[p].cloud # {})
    BY <1>1 DEF PixelIs
  <2>3. c => "LAND" \in q.flags /\ "CLOUD" \notin q.flags /\ q.model # NoModel
    BY DEF IsCorrected, IsClearLand
  <2> HIDE DEF q, c
  <2>. QED
    BY <2>1, <2>2, <2>3
<1>6. ~c => R = {} /\ E = {}
  OBVIOUS
<1> HIDE DEF R, E, n, c, q
<1>7. n = [flags |-> q.flags, sdr |-> R, err |-> E, model |-> q.model, aot |-> q.aot]
  <2> DEFINE v == [q EXCEPT !.sdr = R]
  <2>1. n = [v EXCEPT !.err = E]
    BY <1>2
  <2>2. q = [flags |-> q.flags, sdr |-> q.sdr, err |-> q.err, model |-> q.model, aot |-> q.aot]
    BY <1>1, PixelFields
  <2>3. v = [flags |-> q.flags, sdr |-> R, err |-> q.err, model |-> q.model, aot |-> q.aot]
    BY <2>2
  <2> HIDE DEF v
  <2>. QED
    BY <2>1, <2>3
<1>8. n \in PixelRecord
  BY <1>1, <1>3, <1>7, PixelFields DEF PixelRecord
<1>9. n.flags = q.flags /\ n.sdr = R /\ n.err = E /\ n.model = q.model
  BY <1>7
<1>10. n.sdr \cup n.err # {} => c
  BY <1>6, <1>9
<1>. QED
  BY <1>4, <1>5, <1>8, <1>9, <1>10 DEF n, q
\* A step that leaves a pixel and the rows of Pcl and Aco alone leaves it as it
\* has to be.
LEMMA PixelStays ==
  ASSUME PixelInv, UNCHANGED scene, NEW p \in Position, UNCHANGED pixel[p],
         p[1] <= computed'["PCL"] => p[1] <= computed["PCL"],
         p[1] <= computed["ACO"] => p[1] <= computed'["ACO"]
  PROVE  pixel'[p] \in PixelRecord /\ PixelIs(p, pixel[p])'
<1>1. pixel[p] \in PixelRecord /\ PixelIs(p, pixel[p])
  BY DEF PixelInv
<1>. QED
  BY <1>1 DEF PixelIs

\* No step gives a pixel what it must not have.
LEMMA PixelStep ==
  ASSUME Inv, [Next]_vars
  PROVE  PixelInv'
<1>1. RowsInv /\ AveragedInv /\ PixelInv
  BY DEF Inv
<1>2. RowsInv' /\ \A m \in Module : computed[m] <= computed'[m]
  BY <1>1, RowsStep
<1>3. UNCHANGED scene
  BY DEF Next, vars, Col, Pcl, Ave, Aer, Aei, Aco
<1>4. /\ \A p \in Position : p[1] \in 0..MaxL
      /\ MaxL \in Nat /\ computed["PCL"] \in -1..MaxL /\ inMemoryL \in -1..MaxL
      /\ computed["AEI"] \in -1..computed["PCL"] /\ computed["ACO"] \in -1..computed["AEI"]
  BY <1>1, Sizes DEF RowsInv, Position
<1>5. computed \in [Module -> Int] /\ Module = {"PCL", "AVE", "AER", "AEI", "ACO"}
  BY <1>1 DEF RowsInv, Module
<1>6. ASSUME \A p \in Position : pixel'[p] \in PixelRecord /\ PixelIs(p, pixel[p])',
             pixel' = [p \in Position |-> pixel'[p]]
      PROVE  PixelInv'
  <2>1. pixel' \in [Position -> PixelRecord]
    BY <1>6
  <2>2. PixelRecord' = PixelRecord
    BY DEF PixelRecord
  <2>. QED
    BY <1>6, <2>1, <2>2 DEF PixelInv
<1>7. ASSUME UNCHANGED pixel, computed'["PCL"] = computed["PCL"], computed'["ACO"] = computed["ACO"]
      PROVE  PixelInv'
  <2>1. \A p \in Position : pixel'[p] \in PixelRecord /\ PixelIs(p, pixel[p])'
    BY <1>1, <1>3, <1>7, PixelStays
  <2>2. pixel' = [p \in Position |-> pixel'[p]]
    BY <1>1, <1>7 DEF PixelInv
  <2>. QED
    BY <1>6, <2>1, <2>2
<1>8. CASE Col \/ UNCHANGED vars
  BY <1>7, <1>8 DEF Col, vars
<1>9. CASE Ave
  <2>1. Register("AVE", LastAveragedL) /\ pixel' = pixel
    BY <1>9 DEF Ave
  <2>. QED
    BY <1>5, <1>7, <2>1 DEF Register
<1>10. CASE Aer
  <2>1. Register("AER", LastFillableL(computed["AVE"])) /\ pixel' = pixel
    BY <1>10 DEF Aer
  <2>. QED
    BY <1>5, <1>7, <2>1 DEF Register
<1>11. CASE Pcl
  <2> DEFINE new(p) == IF p[1] \in Rows("PCL", inMemoryL)
                       THEN [pixel[p] EXCEPT !.flags = SynFlags(p)] ELSE pixel[p]
  <2>1. pixel' = [p \in Position |-> new(p)] /\ Register("PCL", inMemoryL)
    BY <1>11 DEF Pcl
  <2>2. computed'["PCL"] = inMemoryL /\ computed'["ACO"] = computed["ACO"]
    <3>1. Register("PCL", inMemoryL)
      BY <2>1
    <3>. QED
      BY <1>4, <1>5, <3>1, RegisterIs
  <2>3. \A p \in Position : pixel'[p] = new(p)
    BY <2>1
  <2>4. pixel' = [p \in Position |-> pixel'[p]]
    BY <2>1
  <2>5. ASSUME NEW p \in Position
        PROVE  pixel'[p] \in PixelRecord /\ PixelIs(p, pixel[p])'
    <3>1. CASE p[1] \in Rows("PCL", inMemoryL)
      <4>1. pixel'[p] = [pixel[p] EXCEPT !.flags = SynFlags(p)]
        BY <2>3, <3>1
      <4>2. pixel[p] \in PixelRecord /\ PixelIs(p, pixel[p])
        BY <1>1 DEF PixelInv
      <4>3. /\ pixel'[p] \in PixelRecord
            /\ pixel'[p].sdr = pixel[p].sdr /\ pixel'[p].err = pixel[p].err
            /\ pixel'[p].model = pixel[p].model
            /\ ("LAND" \in pixel'[p].flags) = scene[p].land
            /\ ("CLOUD" \in pixel'[p].flags) = (scene[p].cloud # {})
        BY <1>1, <4>1, <4>2, ClassifiedIs
      <4>. QED
        BY <1>3, <2>2, <4>2, <4>3 DEF PixelIs
    <3>2. CASE p[1] \notin Rows("PCL", inMemoryL)
      <4>1. pixel'[p] = pixel[p]
        BY <2>3, <3>2
      <4>2. p[1] <= inMemoryL => p[1] <= computed["PCL"]
        BY <1>4, <3>2 DEF Rows
      <4>. QED
        BY <1>1, <1>3, <2>2, <4>1, <4>2, PixelStays
    <3>. QED
      BY <3>1, <3>2
  <2>. QED
    BY <1>6, <2>4, <2>5
<1>12. CASE Aei
  <2> DEFINE new(p) == IF p[1] \in Rows("AEI", LastInterpolatedL) THEN Interpolated(p) ELSE pixel[p]
  <2>1. pixel' = [p \in Position |-> new(p)]
    BY <1>12 DEF Aei
  <2>2. computed'["PCL"] = computed["PCL"] /\ computed'["ACO"] = computed["ACO"]
    <3>1. Register("AEI", LastInterpolatedL)
      BY <1>12 DEF Aei
    <3>. QED
      BY <1>5, <3>1 DEF Register
  <2>3. \A p \in Position : pixel'[p] = new(p)
    BY <2>1
  <2>4. pixel' = [p \in Position |-> pixel'[p]]
    BY <2>1
  <2>5. ASSUME NEW p \in Position
        PROVE  pixel'[p] \in PixelRecord /\ PixelIs(p, pixel[p])'
    <3>1. CASE p[1] \in Rows("AEI", LastInterpolatedL)
      <4>1. pixel'[p] = Interpolated(p)
        BY <2>3, <3>1
      <4>2. pixel[p] \in PixelRecord /\ PixelIs(p, pixel[p])
        BY <1>1 DEF PixelInv
      <4>3. /\ pixel'[p] \in PixelRecord
            /\ pixel'[p].sdr = pixel[p].sdr /\ pixel'[p].err = pixel[p].err
            /\ ("LAND" \in pixel'[p].flags) = ("LAND" \in pixel[p].flags)
            /\ ("CLOUD" \in pixel'[p].flags) = ("CLOUD" \in pixel[p].flags)
            /\ pixel'[p].model # NoModel =>
                 \A i \in {1, 2} : pixel'[p].model[i] - p[i] \div Factor
                                     \in (-FillDistance - 1)..(FillDistance + 1)
        BY <1>1, <3>1, <4>1, InterpolatedIs
      <4>4. ~(p[1] <= computed["ACO"])
        BY <1>4, <3>1 DEF Rows
      <4>. QED
        BY <1>3, <2>2, <4>2, <4>3, <4>4 DEF PixelIs
    <3>2. CASE p[1] \notin Rows("AEI", LastInterpolatedL)
      <4>1. pixel'[p] = pixel[p]
        BY <2>3, <3>2
      <4>. QED
        BY <1>1, <1>3, <2>2, <4>1, PixelStays
    <3>. QED
      BY <3>1, <3>2
  <2>. QED
    BY <1>6, <2>4, <2>5
<1>13. CASE Aco
  <2> DEFINE new(p) == IF p[1] \in Rows("ACO", computed["AEI"]) THEN Corrected(p) ELSE pixel[p]
  <2>1. pixel' = [p \in Position |-> new(p)]
    BY <1>13 DEF Aco
  <2>2. computed'["PCL"] = computed["PCL"] /\ computed'["ACO"] = computed["AEI"]
    <3>1. Register("ACO", computed["AEI"])
      BY <1>13 DEF Aco
    <3>2. computed["AEI"] \in Int /\ computed["AEI"] >= -1
      BY <1>4
    <3>. QED
      BY <1>5, <3>1, <3>2, RegisterIs
  <2>3. \A p \in Position : pixel'[p] = new(p)
    BY <2>1
  <2>4. pixel' = [p \in Position |-> pixel'[p]]
    BY <2>1
  <2>5. ASSUME NEW p \in Position
        PROVE  pixel'[p] \in PixelRecord /\ PixelIs(p, pixel[p])'
    <3>1. CASE p[1] \in Rows("ACO", computed["AEI"])
      <4>1. pixel'[p] = Corrected(p)
        BY <2>3, <3>1
      <4>2. pixel[p] \in PixelRecord /\ PixelIs(p, pixel[p])
        BY <1>1 DEF PixelInv
      <4>3. p[1] <= computed["AEI"] /\ p[1] <= computed["PCL"]
        BY <1>4, <3>1 DEF Rows
      <4>4. /\ pixel'[p] \in PixelRecord
            /\ pixel'[p].flags = pixel[p].flags /\ pixel'[p].model = pixel[p].model
            /\ pixel'[p].sdr \subseteq pixel'[p].err
            /\ pixel'[p].sdr \cup pixel'[p].err # {} =>
                 scene[p].land /\ scene[p].cloud = {} /\ pixel'[p].model # NoModel
        BY <1>1, <4>1, <4>3, CorrectedIs
      <4>. QED
        BY <1>3, <2>2, <4>2, <4>3, <4>4 DEF PixelIs
    <3>2. CASE p[1] \notin Rows("ACO", computed["AEI"])
      <4>1. pixel'[p] = pixel[p]
        BY <2>3, <3>2
      <4>2. p[1] <= computed["ACO"] => p[1] <= computed'["ACO"]
        BY <1>4, <2>2
      <4>. QED
        BY <1>1, <1>3, <2>2, <4>1, <4>2, PixelStays
    <3>. QED
      BY <3>1, <3>2
  <2>. QED
    BY <1>6, <2>4, <2>5
<1>. QED
  BY <1>8, <1>9, <1>10, <1>11, <1>12, <1>13 DEF Next

-----------------------------------------------------------------------------
(* The theorems. *)

\* At the start nothing has been computed.
LEMMA Starts ==
  ASSUME Init
  PROVE  Inv
<1>1. /\ MaxL \in Nat /\ MaxAL \in Nat
      /\ \A a \in Averaged : a[1] \in Nat
      /\ \A p \in Position : p[1] \in Nat
  BY Sizes DEF Averaged, Position
<1>2. LastAveragedOf(-1) \in -1..MaxAL
  <2>1. -1 \in -1..MaxL
    BY <1>1
  <2>. QED
    BY <2>1, AveragedRow
<1>3. RowsInv
  BY <1>1, <1>2 DEF Init, RowsInv, Module
<1>4. AveragedInv
  <2>1. averaged = [a \in Averaged |-> Fresh]
    BY DEF Init, Fresh
  <2>2. computed["AER"] = -1 /\ computed["AVE"] = -1
    BY DEF Init, Module
  <2>3. \A a \in Averaged : ~(a[1] <= -1)
    BY <1>1
  <2>. QED
    BY <2>1, <2>2, <2>3 DEF AveragedInv
<1>5. PixelInv
  <2> DEFINE z == [flags |-> {}, aot |-> NoValue, model |-> NoModel, sdr |-> {}, err |-> {}]
  <2>1. pixel = [p \in Position |-> z]
    BY DEF Init
  <2>2. z \in PixelRecord
    BY DEF PixelRecord
  <2>3. z.sdr \cup z.err = {} /\ z.model = NoModel /\ z.sdr \subseteq z.err
    OBVIOUS
  <2>4. computed["PCL"] = -1
    BY DEF Init, Module
  <2>5. \A p \in Position : ~(p[1] <= -1)
    BY <1>1
  <2> HIDE DEF z
  <2>. QED
    BY <2>1, <2>2, <2>3, <2>4, <2>5 DEF PixelInv, PixelIs
<1>. QED
  BY <1>3, <1>4, <1>5 DEF Inv

\* Rows, averaged pixels and pixels are always as described.
THEOREM Inductive == Spec => []Inv
<1>1. Init => Inv
  BY Starts
<1>2. Inv /\ [Next]_vars => Inv'
  BY RowsStep, AveragedStep, PixelStep DEF Inv
<1>. QED
  BY <1>1, <1>2, PTL DEF Spec

\* Flags, values, models and rows are such.
THEOREM TypeCorrect == Spec => []TypeOK
<1>1. Inv => TypeOK
  <2>1. ASSUME Inv PROVE TypeOK
    <3>1. RowsInv /\ AveragedInv /\ PixelInv
      BY <2>1 DEF Inv
    <3>2. computed \in [Module -> -1..MaxL] /\ inMemoryL \in -1..MaxL /\ computed["AER"] <= MaxAL
      <4>1. /\ computed \in [Module -> Int] /\ inMemoryL \in -1..MaxL
            /\ MaxL \in Nat /\ MaxAL \in Nat /\ MaxAL <= MaxL
            /\ computed["PCL"] \in -1..MaxL
        BY <3>1, Sizes DEF RowsInv
      <4>2. LastAveragedOf(computed["PCL"]) \in -1..MaxAL
        BY <4>1, AveragedRow
      <4>3. \A m \in {"PCL", "AVE", "AER", "AEI", "ACO"} : computed[m] \in -1..MaxL
        BY <3>1, <4>1, <4>2 DEF RowsInv
      <4>4. computed["AER"] <= MaxAL
        BY <3>1, <4>1 DEF RowsInv
      <4>. QED
        BY <4>1, <4>3, <4>4 DEF Module
    <3>3. ASSUME NEW a \in Averaged PROVE averaged[a] \in AveragedRecord
      <4>1. Final(a) \in AveragedRecord /\ Result(a) \in AveragedRecord
            /\ Input(a) \in AveragedRecord /\ Fresh \in AveragedRecord
        BY <3>1, FinalIs, ResultIs, InputIs DEF RowsInv
      <4>2. a[1] \in Int /\ computed["AER"] \in Int /\ computed["AVE"] \in Int
        BY <3>1, Sizes DEF Averaged, RowsInv, Module
      <4>3. averaged[a] \in {Final(a), Input(a), Result(a), Fresh}
        BY <3>1, <4>2 DEF AveragedInv
      <4>. QED
        BY <4>1, <4>3
    <3>4. averaged \in [Averaged -> AveragedRecord]
      BY <3>1, <3>3 DEF AveragedInv
    <3>5. pixel \in [Position -> PixelRecord]
      BY <3>1 DEF PixelInv
    <3>. QED
      BY <3>2, <3>4, <3>5 DEF TypeOK, AveragedRecord, PixelRecord
  <2>. QED
    BY <2>1
<1>. QED
  BY <1>1, Inductive, PTL

\* However the rows are cut into passes, the rows that Aer has registered hold
\* the aerosol that one pass would give.
THEOREM AerosolOfOnePass == Spec => []AerosolIsThatOfOnePass
<1>1. Inv => AerosolIsThatOfOnePass
  <2>1. ASSUME Inv, NEW a \in Averaged, a[1] <= computed["AER"]
        PROVE  /\ averaged[a].aot = IF Succeeds(a) THEN {a}
                                    ELSE {s \in Averaged : IsNear(a, s) /\ Succeeds(s)}
               /\ ("SUCCESS" \in averaged[a].flags) = Succeeds(a)
               /\ ("FILLED" \in averaged[a].flags) = ~Succeeds(a)
    <3>1. averaged[a] = Final(a) /\ RowsInv
      BY <2>1 DEF Inv, AveragedInv
    <3>2. /\ Final(a).aot = IF Succeeds(a) THEN {a}
                            ELSE {s \in Averaged : IsNear(a, s) /\ Succeeds(s)}
          /\ ("SUCCESS" \in Final(a).flags) <=> Succeeds(a)
          /\ ("FILLED" \in Final(a).flags) <=> ~Succeeds(a)
      BY <3>1, FinalIs DEF RowsInv
    <3>3. Succeeds(a) \in BOOLEAN
      BY DEF Succeeds
    <3>4. ("SUCCESS" \in averaged[a].flags) = Succeeds(a)
      BY <3>1, <3>2, <3>3
    <3>5. ("FILLED" \in averaged[a].flags) = ~Succeeds(a)
      BY <3>1, <3>2, <3>3
    <3>. QED
      BY <3>1, <3>2, <3>4, <3>5
  <2>. QED
    BY <2>1 DEF AerosolIsThatOfOnePass
<1>. QED
  BY <1>1, Inductive, PTL

\* Aco corrects clear land only, with the aerosol of a block nearby.
THEOREM ClearLandOnly == Spec => []OnlyClearLandIsCorrected
<1>1. Inv => OnlyClearLandIsCorrected
  <2>1. ASSUME Inv, NEW p \in Position, pixel[p].sdr \cup pixel[p].err # {}
        PROVE  /\ scene[p].land /\ scene[p].cloud = {}
               /\ pixel[p].model # NoModel
               /\ \A i \in {1, 2} : pixel[p].model[i] - p[i] \div Factor
                                      \in (-FillDistance - 1)..(FillDistance + 1)
    BY <2>1 DEF Inv, PixelInv, PixelIs
  <2>. QED
    BY <2>1 DEF OnlyClearLandIsCorrected
<1>. QED
  BY <1>1, Inductive, PTL

\* Each reflectance comes with its error.
THEOREM ErrorWithEachReflectance == Spec => []ReflectancesHaveErrors
<1>1. Inv => ReflectancesHaveErrors
  BY DEF Inv, PixelInv, PixelIs, ReflectancesHaveErrors
<1>. QED
  BY <1>1, Inductive, PTL

-----------------------------------------------------------------------------
(* VgtPixel: its invariant.  The map compares with a rounded NDVI, so that  *)
(* a worse observation may replace a better one.  It does not drift away:  *)
(* the stored byte is always that of the best NDVI compared so far, and    *)
(* the observation in the map has the same byte.                           *)

NdviValue == ((-1000)..1000) \cup {Fill}

PixelType ==
  [refl : [Band -> Int], good : SUBSET Band, land : BOOLEAN,
   cloud : {CLEAR, UNCERTAIN, CLOUD}, ndvi : NdviValue]

CompositeTypes ==
  /\ observed \in PixelType
  /\ measured \in {CLEAR, UNCERTAIN, CLOUD}
  /\ source \in [ndvi : NdviValue, cloud : {CLEAR, UNCERTAIN, CLOUD}]
  /\ best \in NdviValue
  /\ step \in {"VFL", "VAC", "VCO", "NEXT"} => pass >= 1

\* An observation has an NDVI only if it was not flagged as cloud and both
\* bands were corrected; flagging it again does not change that.
NdviIsOfCorrectedBands ==
  observed.ndvi # Fill =>
    /\ observed.refl["B2"] # Fill /\ observed.refl["B3"] # Fill
    /\ measured # CLOUD

\* The stored byte is that of the best NDVI and that of the observation in the
\* map; before the first one is composed there is nothing to store.
ByteIsOfTheBest ==
  /\ map["NDVI"] = 0 => mapNdvi = 0 /\ best <= -100
  /\ map["NDVI"] # 0 =>
       /\ source.ndvi > -100 /\ best > -100
       /\ mapNdvi = Quantised(source.ndvi)
       /\ mapNdvi = Quantised(best)

CompositeInv ==
  /\ CompositeTypeOK
  /\ CompositeTypes
  /\ NdviIsOfCorrectedBands
  /\ ByteIsOfTheBest
  /\ CompositeIsOneObservation
  /\ NoCloudIsComposed

-----------------------------------------------------------------------------
(* Values. *)

LEMMA NdviIsInt ==
  \A n \in NdviValue : n \in Int /\ (n > -100 => n # Fill)
  BY SMT DEF NdviValue, Fill

\* The reflectances of an instance are integers.
LEMMA ReflectancesAreInts ==
  ASSUME NEW b \in Band, NEW x \in Reflectance[b]
  PROVE  x \in Int
BY ReflectanceAssumption

\* Reflectances are integers, as is the fill value.
LEMMA ReflectanceIsInt ==
  ASSUME NEW r \in [Band -> (UNION {Reflectance[b] : b \in Band}) \cup {Fill}]
  PROVE  r \in [Band -> Int]
<1>1. Fill \in Int
  BY SMT DEF Fill
<1> DEFINE R == UNION {Reflectance[b] : b \in Band}
<1>2. R \subseteq Int
  BY ReflectancesAreInts, Zenon
<1>3. r \in [Band -> R \cup {Fill}]
  OBVIOUS
<1> HIDE DEF R, Fill
<1>4. QED
  BY <1>1, <1>2, <1>3

-----------------------------------------------------------------------------
(* Rounding. *)

\* A stored NDVI is a byte, and smaller than the value by less than a step.
LEMMA QuantisedIsByte ==
  ASSUME NEW n \in Int, n > -100
  PROVE  /\ Quantised(n) \in 0..255
         /\ 4 * Quantised(n) - 100 <= n
         /\ Quantised(n) < 255 => n < 4 * Quantised(n) - 96
<1> DEFINE q == (n + 100) \div 4
<1>1. q \in Int /\ 4 * q <= n + 100 /\ n + 100 < 4 * q + 4
  OBVIOUS
<1>2. q >= 0
  BY <1>1
<1>3. CASE q > 255
  BY <1>1, <1>3 DEF Quantised
<1>4. CASE q <= 255
  BY <1>1, <1>2, <1>4 DEF Quantised
<1>5. QED
  BY <1>1, <1>3, <1>4

\* Two NDVIs of which the second is greater than what is stored of the first,
\* and not greater than the first, are stored alike.
LEMMA RoundedAlike ==
  ASSUME NEW a \in Int, NEW n \in Int, a > -100, n <= a, n > 4 * Quantised(a) - 100
  PROVE  n > -100 /\ Quantised(n) = Quantised(a)
<1> DEFINE q == Quantised(a)
           r == Quantised(n)
<1>1. q \in 0..255 /\ 4 * q - 100 <= a
  BY QuantisedIsByte
<1>2. n > -100
  BY <1>1
<1>3. r \in 0..255 /\ 4 * r - 100 <= n /\ (r < 255 => n < 4 * r - 96)
  BY <1>2, QuantisedIsByte
<1>4. q < 255 => a < 4 * q - 96
  BY QuantisedIsByte
<1>5. n > 4 * q - 100
  OBVIOUS
<1> HIDE DEF q, r
<1>6. q <= r
  BY <1>1, <1>3, <1>5
<1>7. r <= q
  BY <1>1, <1>3, <1>4
<1>8. r = q
  BY <1>1, <1>3, <1>6, <1>7
<1>9. QED
  BY <1>2, <1>8 DEF q, r

\* What setDouble stores of the greater of two NDVIs is not smaller.
LEMMA RoundingIsMonotone ==
  ASSUME NEW a \in Int, NEW n \in Int, a > -100, n > a
  PROVE  Quantised(n) >= Quantised(a)
<1>1. (a + 100) \div 4 <= (n + 100) \div 4
  OBVIOUS
<1>2. QED
  BY <1>1 DEF Quantised

-----------------------------------------------------------------------------
(* Every step keeps the invariant. *)

LEMMA InitCompositeInv == CompositeInit => CompositeInv
<1> SUFFICES ASSUME CompositeInit PROVE CompositeInv
  OBVIOUS
<1> USE DEF CompositeInit
<1>1. CompositeTypeOK
  BY ObservationsAssumption, MaxPassesAssumption DEF CompositeTypeOK, NoPixel, CLEAR, Band, Sample
<1>2. CompositeTypes
  BY DEF CompositeTypes, PixelType, NoPixel, CLEAR, Band, Fill, NdviValue
<1>3. NdviIsOfCorrectedBands
  BY DEF NdviIsOfCorrectedBands, NoPixel
<1>4. ByteIsOfTheBest
  BY DEF ByteIsOfTheBest, Sample, Fill
<1>5. CompositeIsOneObservation /\ NoCloudIsComposed
  BY DEF CompositeIsOneObservation, NoCloudIsComposed, Sample, Band
<1>6. QED
  BY <1>1, <1>2, <1>3, <1>4, <1>5 DEF CompositeInv

\* What the steps other than Compare leave alone.
LEMMA MapUnchanged ==
  ASSUME CompositeInv, UNCHANGED <<map, mapNdvi, mapSm, source, best>>
  PROVE  ByteIsOfTheBest' /\ CompositeIsOneObservation' /\ NoCloudIsComposed'
<1>1. ByteIsOfTheBest'
  BY DEF CompositeInv, ByteIsOfTheBest, Quantised
<1>2. CompositeIsOneObservation' /\ NoCloudIsComposed'
  BY DEF CompositeInv, CompositeIsOneObservation, NoCloudIsComposed
<1>3. QED
  BY <1>1, <1>2

LEMMA VbmInv == CompositeInv /\ Vbm => CompositeInv'
<1> SUFFICES ASSUME CompositeInv, Vbm PROVE CompositeInv'
  OBVIOUS
<1>0. PICK land \in BOOLEAN :
        \E r \in Mapped(land) : \E good \in Good(r) :
          observed' = [refl |-> r, good |-> good, land |-> land, cloud |-> CLEAR, ndvi |-> Fill]
  BY DEF Vbm
<1>1. PICK r \in Mapped(land) :
        \E good \in Good(r) :
          observed' = [refl |-> r, good |-> good, land |-> land, cloud |-> CLEAR, ndvi |-> Fill]
  BY <1>0
<1>2. PICK good \in Good(r) :
        observed' = [refl |-> r, good |-> good, land |-> land, cloud |-> CLEAR, ndvi |-> Fill]
  BY <1>1
<1>3. r \in [Band -> Int]
  BY ReflectanceIsInt DEF Mapped
<1>4. good \subseteq Band
  BY DEF Band, Good
<1>5. CompositeTypeOK'
  BY <1>2, <1>4, MaxPassesAssumption DEF CompositeInv, CompositeTypeOK, Vbm
<1>6. CompositeTypes'
  <2>1. Fill \in NdviValue /\ CLEAR \in {CLEAR, UNCERTAIN, CLOUD}
    BY DEF NdviValue
  <2>2. observed' \in PixelType
    BY <1>2, <1>3, <1>4, <2>1, Zenon DEF PixelType
  <2>3. pass' = 1 /\ UNCHANGED <<measured, source, best>>
    BY DEF Vbm, history
  <2>4. pass' >= 1
    BY <2>3
  <2>5. CompositeTypes
    BY DEF CompositeInv
  <2>6. /\ measured \in {CLEAR, UNCERTAIN, CLOUD}
        /\ source \in [ndvi : NdviValue, cloud : {CLEAR, UNCERTAIN, CLOUD}]
        /\ best \in NdviValue
    BY <2>5, Zenon DEF CompositeTypes
  <2>7. measured' = measured /\ source' = source /\ best' = best
    BY <2>3
  <2> QED BY <2>2, <2>4, <2>6, <2>7, Zenon DEF CompositeTypes
<1>7. NdviIsOfCorrectedBands'
  BY <1>2 DEF NdviIsOfCorrectedBands
<1>8. UNCHANGED <<map, mapNdvi, mapSm, source, best>>
  BY DEF Vbm, history
<1>9. QED
  BY <1>5, <1>6, <1>7, <1>8, MapUnchanged DEF CompositeInv

LEMMA VflInv == CompositeInv /\ Vfl => CompositeInv'
<1> SUFFICES ASSUME CompositeInv, Vfl PROVE CompositeInv'
  OBVIOUS
<1>1. observed \in PixelType /\ observed' = [observed EXCEPT !.cloud = CloudFlags(observed)]
  BY DEF CompositeInv, CompositeTypes, Vfl
<1>2. CloudFlags(observed) \in {CLEAR, UNCERTAIN, CLOUD}
  BY DEF CloudFlags
<1>3. observed' \in PixelType
  BY <1>1, <1>2, Zenon DEF PixelType
<1>4. /\ observed'.cloud \in {CLEAR, UNCERTAIN, CLOUD}
      /\ observed'.good = observed.good /\ observed'.ndvi = observed.ndvi /\ observed'.refl = observed.refl
  BY <1>1, <1>2 DEF PixelType
<1>5. CompositeTypeOK'
  BY <1>4 DEF CompositeInv, CompositeTypeOK, Vfl
<1>6. CompositeTypes'
  BY <1>3 DEF CompositeInv, CompositeTypes, Vfl, history
<1>7. NdviIsOfCorrectedBands'
  BY <1>4 DEF CompositeInv, NdviIsOfCorrectedBands, Vfl, history
<1>8. UNCHANGED <<map, mapNdvi, mapSm, source, best>>
  BY DEF Vfl, history
<1>9. QED
  BY <1>5, <1>6, <1>7, <1>8, MapUnchanged DEF CompositeInv

LEMMA VacInv == CompositeInv /\ Vac => CompositeInv'
<1> SUFFICES ASSUME CompositeInv, Vac PROVE CompositeInv'
  OBVIOUS
<1>0. PICK r \in CorrectedSamples(observed) : \E n \in VacNdvi(observed, r) :
        observed' = [refl |-> r, good |-> observed.good, land |-> observed.land, cloud |-> observed.cloud, ndvi |-> n]
  BY DEF Vac
<1>1. PICK n \in VacNdvi(observed, r) :
        observed' = [refl |-> r, good |-> observed.good, land |-> observed.land, cloud |-> observed.cloud, ndvi |-> n]
  BY <1>0
<1>2. observed \in PixelType
  BY DEF CompositeInv, CompositeTypes
<1>3. r \in [Band -> Int]
  BY ReflectanceIsInt DEF CorrectedSamples
<1>4. n \in NdviValue
  BY NdviAssumption, SMT DEF VacNdvi, NdviValue
<1>5. observed' \in PixelType
  BY <1>1, <1>2, <1>3, <1>4 DEF PixelType
<1>6. /\ observed'.cloud = observed.cloud /\ observed'.good = observed.good
      /\ observed'.refl = r /\ observed'.ndvi = n
  BY <1>1, <1>2 DEF PixelType
<1>7. CompositeTypeOK'
  BY <1>6 DEF CompositeInv, CompositeTypeOK, Vac
<1>8. CompositeTypes'
  BY <1>2, <1>5 DEF CompositeInv, CompositeTypes, Vac, PixelType
<1>9. NdviIsOfCorrectedBands'
  <2> SUFFICES ASSUME n # Fill
               PROVE  r["B2"] # Fill /\ r["B3"] # Fill /\ measured' # CLOUD
    BY <1>6 DEF NdviIsOfCorrectedBands
  <2>1. r["B2"] # Fill /\ r["B3"] # Fill
    BY DEF VacNdvi
  <2>2. observed.cloud # CLOUD
    BY <2>1 DEF CorrectedSamples, Band
  <2>3. QED
    BY <2>1, <2>2 DEF Vac
<1>10. UNCHANGED <<map, mapNdvi, mapSm, source, best>>
  BY DEF Vac
<1>11. QED
  BY <1>7, <1>8, <1>9, <1>10, MapUnchanged DEF CompositeInv

\* A better observation brings its own samples and a byte that is that of the
\* best, too: it is the best, or differs from it by rounding only.
LEMMA BetterInv ==
  ASSUME CompositeInv, Compare, IsBetter(observed)
  PROVE  CompositeInv'
<1> DEFINE n == observed.ndvi
<1>1. /\ n \in NdviValue /\ best \in NdviValue
      /\ mapNdvi \in 0..255 /\ measured \in {CLEAR, UNCERTAIN, CLOUD}
      /\ observed.cloud \in {CLEAR, UNCERTAIN, CLOUD}
  BY DEF CompositeInv, CompositeTypes, CompositeTypeOK, PixelType
<1>2. n \in Int /\ n > -100 /\ n # Fill /\ n > 4 * mapNdvi - 100 /\ n \in NdviValue
  BY <1>1, NdviIsInt DEF IsBetter, MapNdvi
<1>3. /\ map' = [s \in Sample |-> IF s \in CopiedSamples(observed) THEN obs ELSE map[s]]
      /\ mapNdvi' = Quantised(n) /\ mapSm' = observed.cloud
      /\ source' = [ndvi |-> n, cloud |-> measured]
      /\ best' = IF n > best THEN n ELSE best
      /\ UNCHANGED <<obs, pass, observed, measured>> /\ step' = "NEXT"
      /\ step = "VCO"
  BY DEF Compare
<1>4. observed.refl["B2"] # Fill /\ observed.refl["B3"] # Fill /\ measured # CLOUD
  BY <1>2 DEF CompositeInv, NdviIsOfCorrectedBands
<1>5. {"B2", "B3", "NDVI", "SM", "Angles", "TG"} \subseteq CopiedSamples(observed)
  BY <1>4 DEF CopiedSamples, Band
<1>6. \A s \in {"B2", "B3", "NDVI", "SM", "Angles", "TG"} : map'[s] = obs
  BY <1>3, <1>5 DEF Sample, Band
<1>7. obs \in 1..Observations /\ map \in [Sample -> 0..obs]
  BY DEF CompositeInv, CompositeTypeOK
<1>8. map' \in [Sample -> 0..obs]
  BY <1>3, <1>7, ObservationsAssumption
<1>9. Quantised(n) \in 0..255
  BY <1>2, QuantisedIsByte
<1>10. CompositeTypeOK'
  BY <1>1, <1>3, <1>8, <1>9 DEF CompositeInv, CompositeTypeOK
<1>11. CompositeTypes'
  <2>1. best' \in NdviValue
    BY <1>1, <1>3
  <2>2. source' \in [ndvi : NdviValue, cloud : {CLEAR, UNCERTAIN, CLOUD}]
    BY <1>1, <1>3
  <2>3. pass >= 1 /\ observed \in PixelType
    BY <1>3 DEF CompositeInv, CompositeTypes
  <2>4. observed' \in PixelType /\ measured' \in {CLEAR, UNCERTAIN, CLOUD} /\ pass' >= 1
    BY <1>1, <1>3, <2>3
  <2>5. QED
    BY <2>1, <2>2, <2>4 DEF CompositeTypes
<1>12. NdviIsOfCorrectedBands'
  BY <1>3 DEF CompositeInv, NdviIsOfCorrectedBands
<1>13. ByteIsOfTheBest'
  <2>1. map'["NDVI"] # 0
    BY <1>6, <1>7
  <2>2. source'.ndvi = n
    BY <1>3
  <2>3. CASE n > best
    <3>1. best' = n
      BY <1>3, <2>3
    <3>2. mapNdvi' = Quantised(source'.ndvi) /\ mapNdvi' = Quantised(best')
      BY <1>3, <2>2, <3>1
    <3>3. QED
      BY <1>2, <2>1, <2>2, <3>1, <3>2 DEF ByteIsOfTheBest, Quantised
  <2>4. CASE ~(n > best)
    <3>1. best' = best
      BY <1>3, <2>4
    <3>2. best \in Int /\ n <= best /\ best > -100
      BY <1>1, <1>2, <2>4, NdviIsInt
    <3>3. mapNdvi = Quantised(best)
      BY <3>2 DEF CompositeInv, ByteIsOfTheBest
    <3>4. Quantised(n) = Quantised(best)
      BY <1>2, <3>2, <3>3, RoundedAlike
    <3>5. mapNdvi' = Quantised(source'.ndvi) /\ mapNdvi' = Quantised(best')
      BY <1>3, <2>2, <3>1, <3>4
    <3>6. QED
      BY <1>2, <2>1, <2>2, <3>1, <3>2, <3>5 DEF ByteIsOfTheBest, Quantised
  <2>5. QED
    BY <2>3, <2>4
<1>14. CompositeIsOneObservation' /\ NoCloudIsComposed'
  BY <1>3, <1>4, <1>6 DEF CompositeIsOneObservation, NoCloudIsComposed
<1>15. QED
  BY <1>10, <1>11, <1>12, <1>13, <1>14 DEF CompositeInv

\* An observation that is not better is not the best, either.
LEMMA NotBetterInv ==
  ASSUME CompositeInv, Compare, ~IsBetter(observed)
  PROVE  CompositeInv'
<1> DEFINE n == observed.ndvi
<1>1. /\ n \in NdviValue /\ best \in NdviValue
      /\ mapNdvi \in 0..255
  BY DEF CompositeInv, CompositeTypes, CompositeTypeOK, PixelType
<1>2. n \in Int /\ best \in Int /\ n <= 4 * mapNdvi - 100
  BY <1>1, NdviIsInt DEF IsBetter, MapNdvi
<1>3. /\ UNCHANGED <<map, mapNdvi, mapSm, source, obs, pass, observed, measured>>
      /\ step' = "NEXT" /\ step = "VCO"
      /\ best' = IF n > best THEN n ELSE best
  BY DEF Compare
<1>4. CompositeTypeOK'
  BY <1>3 DEF CompositeInv, CompositeTypeOK
<1>5. CompositeTypes'
  <2>1. best' \in NdviValue
    BY <1>1, <1>3
  <2>2. QED
    BY <1>3, <2>1 DEF CompositeInv, CompositeTypes
<1>6. NdviIsOfCorrectedBands'
  BY <1>3 DEF CompositeInv, NdviIsOfCorrectedBands
<1>7. ByteIsOfTheBest'
  <2>1. CASE map["NDVI"] = 0
    <3>1. mapNdvi = 0 /\ best <= -100
      BY <2>1 DEF CompositeInv, ByteIsOfTheBest
    <3>2. best' <= -100
      BY <1>2, <1>3, <3>1
    <3>3. QED
      BY <1>3, <2>1, <3>1, <3>2 DEF ByteIsOfTheBest
  <2>2. CASE map["NDVI"] # 0
    <3>1. best > -100 /\ mapNdvi = Quantised(best)
      BY <2>2 DEF CompositeInv, ByteIsOfTheBest
    <3>2. 4 * Quantised(best) - 100 <= best /\ Quantised(best) \in 0..255
      BY <1>2, <3>1, QuantisedIsByte
    <3>3. n <= best
      BY <1>2, <3>1, <3>2
    <3>4. best' = best
      BY <1>2, <1>3, <3>3
    <3>5. QED
      BY <1>3, <3>4 DEF CompositeInv, ByteIsOfTheBest, Quantised
  <2>3. QED
    BY <2>1, <2>2
<1>8. CompositeIsOneObservation' /\ NoCloudIsComposed'
  BY <1>3 DEF CompositeInv, CompositeIsOneObservation, NoCloudIsComposed
<1>9. QED
  BY <1>4, <1>5, <1>6, <1>7, <1>8 DEF CompositeInv

LEMMA LeaveOrStayInv == CompositeInv /\ (OutOfTime \/ StayInMemory) => CompositeInv'
<1> SUFFICES ASSUME CompositeInv, OutOfTime \/ StayInMemory PROVE CompositeInv'
  OBVIOUS
<1>1. UNCHANGED <<map, mapNdvi, mapSm, source, best>> /\ UNCHANGED <<obs, observed, measured>>
  BY DEF OutOfTime, StayInMemory, history
<1>2. CompositeTypeOK'
  BY <1>1, MaxPassesAssumption DEF CompositeInv, CompositeTypeOK, OutOfTime, StayInMemory
<1>3. pass' >= 1 \/ step' = "LEAVE"
  BY DEF OutOfTime, StayInMemory, CompositeInv, CompositeTypes, CompositeTypeOK
<1>4. CompositeTypes'
  BY <1>1, <1>3 DEF CompositeInv, CompositeTypes
<1>5. NdviIsOfCorrectedBands'
  BY <1>1 DEF CompositeInv, NdviIsOfCorrectedBands
<1>6. QED
  BY <1>1, <1>2, <1>4, <1>5, MapUnchanged DEF CompositeInv

LEMMA NextObservationInv == CompositeInv /\ NextObservation => CompositeInv'
<1> SUFFICES ASSUME CompositeInv, NextObservation PROVE CompositeInv'
  OBVIOUS
<1>1. UNCHANGED <<map, mapNdvi, mapSm, source, best>>
  BY DEF NextObservation
<1>2. obs' = obs + 1 /\ obs \in 1..Observations /\ obs < Observations
  BY DEF NextObservation, CompositeInv, CompositeTypeOK
<1>3. map' \in [Sample -> 0..obs']
  <2>1. map \in [Sample -> 0..obs]
    BY DEF CompositeInv, CompositeTypeOK
  <2>2. 0..obs \subseteq 0..obs'
    BY <1>2, ObservationsAssumption
  <2>3. QED
    BY <1>1, <2>1, <2>2
<1>4. CompositeTypeOK'
  BY <1>1, <1>2, <1>3, ObservationsAssumption, MaxPassesAssumption
     DEF CompositeInv, CompositeTypeOK, NextObservation, NoPixel, CLEAR
<1>5. NoPixel \in PixelType
  BY DEF NoPixel, PixelType, CLEAR, Fill, NdviValue
<1>6. CompositeTypes'
  BY <1>1, <1>5 DEF CompositeInv, CompositeTypes, NextObservation
<1>7. NdviIsOfCorrectedBands'
  BY DEF NextObservation, NdviIsOfCorrectedBands, NoPixel
<1>8. QED
  BY <1>1, <1>4, <1>6, <1>7, MapUnchanged DEF CompositeInv

LEMMA StutteringInv == CompositeInv /\ UNCHANGED compositeVars => CompositeInv'
<1> SUFFICES ASSUME CompositeInv, UNCHANGED compositeVars PROVE CompositeInv'
  OBVIOUS
<1>1. UNCHANGED <<map, mapNdvi, mapSm, source, best>>
  BY DEF compositeVars
<1>2. CompositeTypeOK'
  BY DEF CompositeInv, CompositeTypeOK, compositeVars
<1>3. CompositeTypes' /\ NdviIsOfCorrectedBands'
  BY DEF CompositeInv, CompositeTypes, NdviIsOfCorrectedBands, compositeVars
<1>4. QED
  BY <1>1, <1>2, <1>3, MapUnchanged DEF CompositeInv

LEMMA NextCompositeInv == CompositeInv /\ [CompositeNext]_compositeVars => CompositeInv'
<1> SUFFICES ASSUME CompositeInv, [CompositeNext]_compositeVars PROVE CompositeInv'
  OBVIOUS
<1>1. CASE Vbm
  BY <1>1, VbmInv
<1>2. CASE Vfl
  BY <1>2, VflInv
<1>3. CASE Vac
  BY <1>3, VacInv
<1>4. CASE Compare
  <2>1. CASE IsBetter(observed)
    BY <1>4, <2>1, BetterInv
  <2>2. CASE ~IsBetter(observed)
    BY <1>4, <2>2, NotBetterInv
  <2>3. QED
    BY <2>1, <2>2
<1>5. CASE OutOfTime \/ StayInMemory
  BY <1>5, LeaveOrStayInv
<1>6. CASE NextObservation
  BY <1>6, NextObservationInv
<1>7. CASE UNCHANGED compositeVars
  BY <1>7, StutteringInv
<1>8. QED
  BY <1>1, <1>2, <1>3, <1>4, <1>5, <1>6, <1>7 DEF CompositeNext

LEMMA CompositeInvHolds == CompositeSpec => []CompositeInv
<1>1. QED
  BY InitCompositeInv, NextCompositeInv, PTL DEF CompositeSpec

\* That the observation in the map has the byte of the best one bounds its
\* NDVI: both lie in the step of that byte, or at or beyond the last one.
LEMMA ByteBoundsTheBest == CompositeInv => WithinOneStepOfTheBest
<1> DEFINE limit == IF best > 920 THEN 920 ELSE best
<1> SUFFICES ASSUME CompositeInv, limit > -100
             PROVE  map["NDVI"] # 0 /\ source.ndvi > limit - 4
  BY DEF WithinOneStepOfTheBest
<1>1. /\ best \in Int /\ source.ndvi \in Int
  BY NdviIsInt DEF CompositeInv, CompositeTypes
<1>2. best > -100
  BY <1>1
<1>3. map["NDVI"] # 0
  BY <1>1, <1>2 DEF CompositeInv, ByteIsOfTheBest
<1>4. source.ndvi > -100 /\ Quantised(source.ndvi) = Quantised(best)
  BY <1>3 DEF CompositeInv, ByteIsOfTheBest
<1> DEFINE q == Quantised(best)
<1>5. /\ q \in 0..255 /\ 4 * q - 100 <= source.ndvi
      /\ q < 255 => best < 4 * q - 96
  <2>1. q \in 0..255 /\ (q < 255 => best < 4 * q - 96)
    BY <1>1, <1>2, QuantisedIsByte
  <2>2. 4 * q - 100 <= source.ndvi
    BY <1>1, <1>4, QuantisedIsByte
  <2>3. QED
    BY <2>1, <2>2
<1> HIDE DEF q
<1>6. source.ndvi > limit - 4
  BY <1>1, <1>5
<1>7. QED
  BY <1>3, <1>6

-----------------------------------------------------------------------------
(* Theorems. *)

\* The samples of the pixel and of the map keep their types; what setDouble
\* stores is a byte, whatever the NDVI.
THEOREM CompositeTypeCorrect == CompositeSpec => []CompositeTypeOK
<1>1. CompositeInv => CompositeTypeOK
  BY DEF CompositeInv
<1>2. QED
  BY <1>1, CompositeInvHolds, PTL

\* Whatever fill values Vco does not copy, the NDVI of the map, the bands it
\* is computed from, the status map, the angles and the time are those of one
\* observation: only an observation with both bands has an NDVI.
THEOREM OneObservation == CompositeSpec => []CompositeIsOneObservation
<1>1. CompositeInv => CompositeIsOneObservation
  BY DEF CompositeInv
<1>2. QED
  BY <1>1, CompositeInvHolds, PTL

\* The comparison in Vco with a rounded and limited NDVI never loses more than
\* one step of the stored byte, after any number of observations and passes.
THEOREM NeverFarFromTheBest == CompositeSpec => []WithinOneStepOfTheBest
<1>1. QED
  BY ByteBoundsTheBest, CompositeInvHolds, PTL

\* No observation that was a cloud when Vac corrected it comes into the map,
\* although Vfl takes its fill values for a clear pixel in the next pass.
THEOREM NoCloud == CompositeSpec => []NoCloudIsComposed
<1>1. CompositeInv => NoCloudIsComposed
  BY DEF CompositeInv
<1>2. QED
  BY <1>1, CompositeInvHolds, PTL
=============================================================================
