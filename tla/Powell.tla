------------------------------- MODULE Powell -------------------------------
(***************************************************************************)
(* The minimisation of the angular residual over its eight parameters:     *)
(* MultiMin::powell, as ErrorMetric::getValue calls it for the variables   *)
(* 2 to 9.  The directions and the vectors it works on are those that      *)
(* MultiMin::chol2D uses for the variables 0 and 1.                        *)
(*                                                                         *)
(* The values of the residual are integers in a unit above 1.0e-20.  A     *)
(* search along a direction starts at the current point, so that it does   *)
(* not end above its value: Minimum has the search, and the theorem        *)
(* SearchNeverClimbs of AlgorithmProofs says so.                          *)
(***************************************************************************)
EXTENDS Integers

Begin   == 2
End     == 10
MaxIter == 100

VARIABLES
  start,        \* the value of the residual at the initial guess
  zn, z0,       \* its value at the current point, and before this iteration
  maxDecrease,  \* the largest decrease along a direction in this iteration
  maxIndex,     \* and that direction
  replaced,     \* the directions that are no longer unit vectors
  phase,        \* what comes next in the iteration
  k,            \* the next direction
  i             \* the iterations that have been made

vars == <<start, zn, z0, maxDecrease, maxIndex, replaced, phase, k, i>>

Abs(x)    == IF x < 0 THEN -x ELSE x
Square(x) == x * x

\* ErrorMetric::getValue sets the directions to unit vectors before each call.
Init ==
  /\ start \in Int /\ zn = start /\ z0 = start
  /\ maxDecrease = 0 /\ maxIndex = 0 /\ replaced = {}
  /\ phase = "initialize" /\ k = Begin /\ i = 0

Initialize ==
  /\ phase = "initialize" /\ i < MaxIter
  /\ z0' = zn /\ maxDecrease' = 0 /\ maxIndex' = 0 /\ k' = Begin
  /\ phase' = "minimize"
  /\ UNCHANGED <<start, zn, replaced, i>>

\* LineMinimizer::findMinimum finds a point that is not above the current one.
IsFound(z) == z \in Int /\ z <= zn

Minimize ==
  /\ phase = "minimize" /\ k < End
  /\ \E z \in Int :
       /\ IsFound(z)
       /\ zn' = z
       /\ maxDecrease' = IF Abs(z - zn) > maxDecrease THEN Abs(z - zn) ELSE maxDecrease
       /\ maxIndex' = IF Abs(z - zn) > maxDecrease THEN k ELSE maxIndex
  /\ k' = k + 1
  /\ UNCHANGED <<start, z0, replaced, phase, i>>

\* An accuracy goal of 5.0e-4.
IsAccurate == 4000 * (z0 - zn) <= Abs(z0) + Abs(zn)

Stop ==
  /\ phase = "minimize" /\ k = End
  /\ IsAccurate
  /\ phase' = "done"
  /\ UNCHANGED <<start, zn, z0, maxDecrease, maxIndex, replaced, k, i>>

\* Whether the direction of the maximum decrease is worth a new one, given the
\* value at the extrapolated point.
IsDiscarded(ze) ==
  /\ ze < z0
  /\ 2 * (z0 - 2 * zn + ze) * Square(z0 - zn - maxDecrease) < maxDecrease * Square(z0 - ze)

Extrapolate ==
  /\ phase = "minimize" /\ k = End
  /\ ~IsAccurate
  /\ \E ze \in Int :
       \/ /\ IsDiscarded(ze)
          /\ replaced' = replaced \cup {maxIndex}
          /\ \E z \in Int : IsFound(z) /\ zn' = z
       \/ /\ ~IsDiscarded(ze)
          /\ UNCHANGED <<replaced, zn>>
  /\ i' = i + 1
  /\ phase' = "initialize"
  /\ UNCHANGED <<start, z0, maxDecrease, maxIndex, k>>

Next == Initialize \/ Minimize \/ Stop \/ Extrapolate

Spec == Init /\ [][Next]_vars

-----------------------------------------------------------------------------

\* The residual never rises, in whatever iteration powell stops.
ResidualNeverRises == zn <= start

\* The directions that powell replaces are its own, although the index of the
\* largest decrease is 0 as long as there is none: chol2D keeps its matrix in
\* the rows 0 and 1.
OnlyItsDirections == replaced \subseteq Begin..(End - 1)
=============================================================================
