------------------------------- MODULE Lookup -------------------------------
(***************************************************************************)
(* The lookup tables of the auxiliary data (LookupTableImpl): how the      *)
(* constructor lays out a table of any number of dimensions, and which     *)
(* tabulated values getScalar and getVector read for given coordinates.    *)
(* The interpolation between them is left out.                             *)
(*                                                                         *)
(* Of the offsets of the vertices around a coordinate only the largest is  *)
(* kept, that of the vertex on the upper side in each dimension so far:    *)
(* the last that the constructor computes for a dimension.                 *)
(***************************************************************************)
EXTENDS Integers

VARIABLES
  n,            \* the number of dimensions
  sizes,        \* their lengths
  x,            \* the vertex coordinates of each dimension
  coordinates,  \* the coordinates that are looked up
  strides,      \* what the constructor computes: the stride of each dimension,
  products,     \*   the values that stride takes, the product of the lengths from
                \*   a dimension on,
  reach,        \*   and the largest offset in the dimensions before each
  phase, i,     \* what is being computed, for which dimension
  lo, hi,       \* the search in the dimension i
  origin        \* the first vertex, in the dimensions so far

table == <<n, sizes, x, coordinates>>
layout == <<strides, products, reach>>
vars == <<table, layout, phase, i, lo, hi, origin>>

\* The constructor asserts that no dimension is empty; nobody checks that the
\* vertex coordinates ascend.
Init ==
  /\ n \in Nat
  /\ sizes \in [0..(n - 1) -> Nat \ {0}]
  /\ x \in [0..(n - 1) -> [Nat -> Int]]
  /\ coordinates \in [0..(n - 1) -> Int]
  /\ strides = [d \in 0..(n - 1) |-> 0]
  /\ products = [d \in 0..n |-> 1]
  /\ reach = [d \in 0..n |-> 0]
  /\ phase = "strides" /\ i = n
  /\ lo = 0 /\ hi = 0 /\ origin = 0

\* A dimension with one vertex has no stride.
Stride ==
  /\ phase = "strides" /\ i > 0
  /\ strides' = [strides EXCEPT ![i - 1] = IF sizes[i - 1] > 1 THEN products[i] ELSE 0]
  /\ products' = [products EXCEPT ![i - 1] = products[i] * sizes[i - 1]]
  /\ i' = i - 1
  /\ UNCHANGED <<table, reach, phase, lo, hi, origin>>

Strided ==
  /\ phase = "strides" /\ i = 0
  /\ phase' = "offsets"
  /\ UNCHANGED <<table, layout, i, lo, hi, origin>>

Offset ==
  /\ phase = "offsets" /\ i < n
  /\ reach' = [reach EXCEPT ![i + 1] = reach[i] + strides[i]]
  /\ i' = i + 1
  /\ UNCHANGED <<table, strides, products, phase, lo, hi, origin>>

\* The table is ready for a call of getScalar or getVector.
Ready ==
  /\ phase = "offsets" /\ i = n
  /\ phase' = "dimension" /\ i' = 0
  /\ UNCHANGED <<table, layout, lo, hi, origin>>

GetIndex ==
  /\ phase = "dimension" /\ i < n
  /\ lo' = 0 /\ hi' = sizes[i] - 1
  /\ phase' = "search"
  /\ UNCHANGED <<table, layout, i, origin>>

Middle == (lo + hi) \div 2

Bisect ==
  /\ phase = "search" /\ hi > lo + 1
  /\ IF coordinates[i] < x[i][Middle] THEN hi' = Middle /\ lo' = lo
     ELSE lo' = Middle /\ hi' = hi
  /\ UNCHANGED <<table, layout, phase, i, origin>>

Found ==
  /\ phase = "search" /\ hi <= lo + 1
  /\ origin' = origin + lo * strides[i]
  /\ i' = i + 1
  /\ phase' = "dimension"
  /\ UNCHANGED <<table, layout, lo, hi>>

Next == Stride \/ Strided \/ Offset \/ Ready \/ GetIndex \/ Bisect \/ Found

Spec == Init /\ [][Next]_vars

-----------------------------------------------------------------------------

\* Whatever the coordinates, the values around them are in the table: those of
\* getScalar once all dimensions are done, and the vectors of getVector, which
\* start at the vertices of the dimensions but the last and are as long as the
\* last.  products[0] is the number of the values.
VerticesAreInTable ==
  phase = "dimension" => origin + reach[i] + products[i] <= products[0]

\* The search ends between two vertices that enclose the coordinate, unless it
\* lies outside of all; no step of it leaves the dimension.
SearchEncloses ==
  phase = "search" =>
    /\ 0 <= lo /\ hi < sizes[i] /\ (lo < hi \/ (lo = 0 /\ hi = 0))
    /\ lo > 0 => x[i][lo] <= coordinates[i]
    /\ hi < sizes[i] - 1 => coordinates[i] < x[i][hi]
=============================================================================
