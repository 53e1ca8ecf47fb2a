----------------------------- MODULE TiePoints ------------------------------
(***************************************************************************)
(* The interpolation between tie points (TiePointInterpolator): which tie  *)
(* points prepare() takes for a pixel.  The tie points are sorted by their *)
(* latitudes once; a pixel is compared with those in a window around its   *)
(* own latitude, and the nearest of them are kept by insertion.            *)
(*                                                                         *)
(* The cosine of a distance is an integer in units of 1 / One.  Whatever   *)
(* lies in memory behind the last tie point has a cosine and a position as *)
(* well.                                                                   *)
(***************************************************************************)
EXTENDS Integers

Range    == 200
One      == 1000
Farthest == -One   \* the initial weight of a slot

Cosine == Farthest..One

VARIABLES
  size,                \* the number of tie points
  ordering,            \* position by latitude -> position in the segment
  cosine,              \* position by latitude -> cosine of the distance to the pixel
  midIndex,            \* the first position not south of the pixel
  n,                   \* the number of tie points to keep
  minIndex, maxIndex,  \* the window
  i,                   \* the next position of it
  weights, indexes,    \* what is kept
  counts,              \* the ones whose final weight is not zero
  phase

tiePoints == <<size, ordering, cosine, midIndex, n>>
kept      == <<weights, indexes>>
vars      == <<tiePoints, minIndex, maxIndex, i, kept, counts, phase>>

Slots == 0..(n - 1)

\* The constructor sorts the positions 0, 1, ... by the latitudes.
Init ==
  /\ size \in Nat \ {0} /\ n \in Nat \ {0}
  /\ ordering \in [Nat -> Nat]
  /\ \A j, k \in Nat : ordering[j] = ordering[k] => j = k
  /\ cosine \in [Nat -> Cosine]
  /\ midIndex \in 0..size
  /\ weights \in [Slots -> Int] /\ indexes \in [Slots -> Nat]
  /\ minIndex = 0 /\ maxIndex = 0 /\ i = 0 /\ counts = {}
  /\ phase = "window"

\* The difference of two numbers without sign is never negative: with fewer
\* tie points than Range it is a very large number.
Window ==
  /\ phase = "window"
  /\ minIndex' = IF midIndex >= Range THEN midIndex - Range ELSE 0
  /\ maxIndex' = IF size < Range \/ midIndex <= size - Range THEN midIndex + Range ELSE size
  /\ weights' = [k \in Slots |-> Farthest]
  /\ i' = minIndex'
  /\ phase' = "search"
  /\ UNCHANGED <<tiePoints, indexes, counts>>

\* The first of the kept tie points that is farther away.
IsPlace(k) == cosine[i] > weights[k] /\ \A l \in 0..(k - 1) : cosine[i] <= weights[l]

Inserted(map, k, value) ==
  [l \in Slots |-> IF l < k THEN map[l] ELSE IF l = k THEN value ELSE map[l - 1]]

\* A tie point that is nearer than one of those kept takes its place, and the
\* last one is dropped.
Insert ==
  /\ phase = "search" /\ i < maxIndex
  /\ \E k \in Slots :
       /\ IsPlace(k)
       /\ weights' = Inserted(weights, k, cosine[i])
       /\ indexes' = Inserted(indexes, k, ordering[i])
  /\ i' = i + 1
  /\ UNCHANGED <<tiePoints, minIndex, maxIndex, counts, phase>>

Skip ==
  /\ phase = "search" /\ i < maxIndex
  /\ \A k \in Slots : cosine[i] <= weights[k]
  /\ i' = i + 1
  /\ UNCHANGED <<tiePoints, minIndex, maxIndex, kept, counts, phase>>

\* The final weights are the reciprocal distances; if a distance is zero, the
\* first such tie point has all the weight.
Weigh ==
  /\ phase = "search" /\ i >= maxIndex
  /\ \/ /\ \A k \in Slots : weights[k] # One
        /\ counts' = Slots
     \/ \E k \in Slots :
          /\ weights[k] = One /\ \A l \in 0..(k - 1) : weights[l] # One
          /\ counts' = {k}
  /\ phase' = "done"
  /\ UNCHANGED <<tiePoints, minIndex, maxIndex, i, kept>>

Next == Window \/ Insert \/ Skip \/ Weigh

Spec == Init /\ [][Next]_vars

-----------------------------------------------------------------------------

\* With as many tie points as the window may have to one side, it does not
\* leave the table, and holds all tie points that are that near.  (With fewer,
\* prepare() reads behind the end of the table.)
WindowIsInTable ==
  phase # "window" /\ size >= Range =>
    /\ 0 <= minIndex /\ minIndex < maxIndex /\ maxIndex <= size
    /\ \A j \in 0..(size - 1) :
         midIndex - Range <= j /\ j < midIndex + Range => j \in minIndex..(maxIndex - 1)

\* No tie point of the window is left out for one that is farther away.
NearestAreKept ==
  phase = "done" =>
    \A j \in minIndex..(maxIndex - 1) :
       \/ \E k \in Slots : indexes[k] = ordering[j]
       \/ \A k \in Slots : weights[k] >= cosine[j]

\* No tie point counts twice.
TiePointsDiffer ==
  \A k, l \in Slots :
    phase # "window" /\ k # l /\ weights[k] # Farthest /\ weights[l] # Farthest =>
      indexes[k] # indexes[l]

\* A pixel at the place of a tie point has the value of that tie point.
ExactTiePointDecides ==
  phase = "done" =>
    \A j \in minIndex..(maxIndex - 1) :
      cosine[j] = One => \E k \in Slots : counts = {k} /\ weights[k] = One
=============================================================================
