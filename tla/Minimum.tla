------------------------------ MODULE Minimum -------------------------------
(***************************************************************************)
(* The one-dimensional minimisation of the aerosol retrieval: Min::brack   *)
(* and Min::brent, as ErrorMetric::findMinimum (the error metric over the  *)
(* optical thickness) and LineMinimizer::findMinimum (the angular residual *)
(* along a direction) use them.                                            *)
(*                                                                         *)
(* The numbers are integers in some unit.  Where Brent's method evaluates  *)
(* the function next - at the minimum of a parabola, at the golden         *)
(* section, or one tolerance beside the minimum - is left open: any point  *)
(* of the bracket.  The code keeps to it: a parabolic step that comes near *)
(* the ends or leaves the bracket is replaced by one tolerance toward the  *)
(* midpoint, and a bracket that is still too wide for testInterval is much *)
(* wider than that.                                                        *)
(***************************************************************************)
EXTENDS Integers

CONSTANTS
  Representable,  \* the numbers there are
  InitialAot,     \* T550_ini of the auxiliary data
  HighestAot,     \* 3.0
  One,            \* 1.0
  MaxIter,        \* how often brent narrows the bracket
  AbsoluteAccuracyGoal, RelativeAccuracyGoal, Percent

Number == Int \cap Representable

VARIABLES
  function,   \* what is minimised
  origin,     \* the guess that the search starts with
  bracket,    \* the Bracket that brack and brent are given
  phase,      \* where the search is
  i,          \* the iterations of brent
  converged   \* what brent returns

vars == <<function, origin, bracket, phase, i, converged>>

Bracket == [lowerX : Number, minimumX : Number, upperX : Number,
            lowerF : Int, minimumF : Int, upperF : Int]

Evaluated(a, x, b) ==
  [lowerX |-> a, minimumX |-> x, upperX |-> b,
   lowerF |-> function[a], minimumF |-> function[x], upperF |-> function[b]]

HasItsValues(b) ==
  /\ b.lowerF = function[b.lowerX]
  /\ b.minimumF = function[b.minimumX]
  /\ b.upperF = function[b.upperX]

\* A Bracket is not initialised.
Init ==
  /\ function \in [Number -> Int]
  /\ origin \in Number
  /\ bracket \in Bracket
  /\ phase = "start" /\ i = 0 /\ converged = FALSE

-----------------------------------------------------------------------------
(* ErrorMetric::findMinimum hands brent a bracket of its own. *)

FindMinimum ==
  /\ phase = "start"
  /\ {0, InitialAot, HighestAot} \subseteq Number
  /\ InitialAot \in 0..HighestAot
  /\ origin' = InitialAot
  /\ bracket' = Evaluated(0, InitialAot, HighestAot)
  /\ phase' = "metric"
  /\ UNCHANGED <<function, i, converged>>

-----------------------------------------------------------------------------
(* LineMinimizer::findMinimum has brack look for one, from 0 and 1 on. *)

\* Whether u lies beyond b, seen from a.
Beyond(a, b, u) == (a < b /\ b < u) \/ (u < b /\ b < a)

\* The search goes downhill: its two points change places unless the second
\* is the better one.
Brack ==
  /\ phase = "start"
  /\ {0, One} \subseteq Number /\ 0 < One
  /\ origin' = 0
  /\ \E a, b \in {0, One}, u \in Number :
       /\ a # b
       /\ function[b] < function[a] \/ (function[b] = function[a] /\ b = One)
       /\ Beyond(a, b, u)
       /\ bracket' = Evaluated(a, b, u)
  /\ phase' = "brack"
  /\ UNCHANGED <<function, i, converged>>

\* The third point moves on, the minimum stays where it is.
Expand ==
  /\ phase = "brack"
  /\ bracket.minimumF > bracket.upperF
  /\ \E u \in Number :
       /\ Beyond(bracket.minimumX, bracket.upperX, u)
       /\ bracket' = [bracket EXCEPT !.upperX = u, !.upperF = function[u]]
  /\ UNCHANGED <<function, origin, phase, i, converged>>

Reversed == [bracket EXCEPT !.lowerX = bracket.upperX, !.lowerF = bracket.upperF,
                            !.upperX = bracket.lowerX, !.upperF = bracket.lowerF]

Sort ==
  /\ phase = "brack"
  /\ bracket.minimumF <= bracket.upperF
  /\ bracket' = IF bracket.lowerX > bracket.upperX THEN Reversed ELSE bracket
  /\ phase' = "line"
  /\ UNCHANGED <<function, origin, i, converged>>

-----------------------------------------------------------------------------
(* Min::brent.  The phase "metric" or "line" tells who called it. *)

Narrowed(u) ==
  LET z == bracket.minimumX
  IN  IF function[u] <= bracket.minimumF
      THEN IF u < z THEN Evaluated(bracket.lowerX, u, z)
           ELSE Evaluated(z, u, bracket.upperX)
      ELSE IF u < z THEN Evaluated(u, z, bracket.upperX)
           ELSE Evaluated(bracket.lowerX, z, u)

MinAbs(a, b) == IF a > 0 THEN a ELSE IF b < 0 THEN -b ELSE 0

TestInterval(a, b) ==
  Percent * (b - a) < Percent * AbsoluteAccuracyGoal + RelativeAccuracyGoal * MinAbs(a, b)

Brent ==
  /\ phase \in {"metric", "line"} /\ ~converged /\ i < MaxIter
  /\ \E u \in Number :
       /\ bracket.lowerX <= u /\ u <= bracket.upperX
       /\ bracket' = Narrowed(u)
  /\ i' = i + 1
  /\ converged' = TestInterval(bracket'.lowerX, bracket'.upperX)
  /\ UNCHANGED <<function, origin, phase>>

-----------------------------------------------------------------------------

Next == FindMinimum \/ Brack \/ Expand \/ Sort \/ Brent

Spec == Init /\ [][Next]_vars

-----------------------------------------------------------------------------

\* Numbers, values and phases are such.
TypeOK ==
  /\ function \in [Number -> Int] /\ origin \in Number
  /\ bracket \in Bracket
  /\ phase \in {"start", "brack", "metric", "line"}
  /\ i \in Nat /\ converged \in BOOLEAN

\* From when brent is called on, the minimum lies between the two ends, and the
\* three values are those of the function: whoever reads the bracket after any
\* number of iterations, converged or not, gets a point and its value.
MinimumIsBracketed ==
  phase \in {"metric", "line"} =>
    /\ bracket.lowerX <= bracket.minimumX /\ bracket.minimumX <= bracket.upperX
    /\ HasItsValues(bracket)

\* The minimum is not above the guess the search started with, although the
\* bracket of ErrorMetric::findMinimum need not hold a minimum and brent,
\* whatever its header says, never rejects a bracket.
NeverAboveTheGuess ==
  phase \in {"metric", "line"} => bracket.minimumF <= function[origin]

\* The thickness of ErrorMetric::findMinimum never leaves [0, 3], so that its
\* test of the range is idle as long as T550_ini lies there.
AotIsInRange == phase = "metric" => bracket.minimumX \in 0..HighestAot

\* A bracket from brack stays one: brent keeps the minimum below both ends.
LineBracketIsValid ==
  phase = "line" => /\ bracket.minimumF <= bracket.lowerF
                    /\ bracket.minimumF <= bracket.upperF

\* No iteration of brent raises the minimum or widens the bracket.
Narrows ==
  phase \in {"metric", "line"} =>
    /\ bracket'.minimumF <= bracket.minimumF
    /\ bracket.lowerX <= bracket'.lowerX /\ bracket'.upperX <= bracket.upperX

NeverWorse == [][Narrows]_vars
=============================================================================
