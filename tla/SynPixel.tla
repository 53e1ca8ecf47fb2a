------------------------------ MODULE SynPixel ------------------------------
(***************************************************************************)
(* The pixels of a SYN L2 product on their way from the classification     *)
(* (Pcl) over the averaged segment (Ave, Aer) and back (Aei) to the        *)
(* surface reflectances (Aco).  The rows arrive in several passes of the   *)
(* main loop, and every module computes what its predecessor lets it.      *)
(*                                                                         *)
(* There is one camera; a channel stands for all channels of its           *)
(* instrument and view.  Whether a retrieval finds a minimum, and whether  *)
(* a reflectance lies in [0, 1], is chosen with the scene.  An aerosol     *)
(* value is the set of the averaged pixels it is the weighted mean of.     *)
(***************************************************************************)
EXTENDS Integers, FiniteSets, FiniteSetsExt

CONSTANTS
  MaxL, MaxM,    \* the last row and column of the segment SYN_COLLOCATED
  Factor,        \* ave_square of the auxiliary data
  FillDistance,  \* the n of Aer::process
  Scenes,        \* what the sensors may see: pixel -> land, cloud, radiance, ...
  Outcomes,      \* how the retrievals may end: averaged pixel -> Outcome
  NoValue,       \* the fill value of T550
  NoModel        \* the fill value 0 of AMIN

Channel  == {"OLC", "SLN", "SLO"}
Position == (0..MaxL) \X (0..MaxM)

\* No model explains the radiances, the thickness is next to zero, the error
\* surface bends downwards, the error is large, or all is well.
Outcome == {"none", "tooLow", "negative", "highError", "good"}

\* The last row and column of the segment SYN_AVERAGED.
MaxAL == (MaxL + Factor) \div Factor - 1
MaxAM == (MaxM + Factor) \div Factor - 1
Averaged == (0..MaxAL) \X (0..MaxAM)

ASSUME GridAssumption ==
  /\ MaxL \in Nat /\ MaxM \in Nat /\ Factor \in Nat \ {0} /\ FillDistance \in Nat
  /\ MaxAL >= 1 /\ MaxAM >= 1
ASSUME ScenesAssumption ==
  Scenes \subseteq [Position -> [land : BOOLEAN, cloud : SUBSET {"SLN", "SLO"},
                                 radiance : SUBSET Channel, outside : SUBSET Channel]]
ASSUME OutcomesAssumption == Outcomes \subseteq [Averaged -> Outcome]

Retrieval == {"SUCCESS", "TOO_LOW", "HIGH_ERROR", "FILLED", "NEGATIVE_CURVATURE"}
AverageFlag == Retrieval \cup {"PARTLY_CLOUDY", "PARTLY_WATER", "BORDER"}
SynFlag == AverageFlag \cup {"LAND", "CLOUD", "NO_OLC", "NO_SLN", "NO_SLO"}

VARIABLES
  scene,      \* what the sensors see
  outcome,    \* how the retrievals end
  turn,       \* the module that comes next
  inMemoryL,  \* the last row that has been read and collocated
  computed,   \* module -> the last row it has registered, -1: none
  averaged,   \* the segment SYN_AVERAGED
  pixel       \* the samples of the segment SYN_COLLOCATED

vars == <<scene, outcome, turn, inMemoryL, computed, averaged, pixel>>

Module == {"PCL", "AVE", "AER", "AEI", "ACO"}

Init ==
  /\ scene \in Scenes /\ outcome \in Outcomes
  /\ turn = "COL" /\ inMemoryL = -1
  /\ computed = [m \in Module |-> -1]
  /\ averaged = [a \in Averaged |->
       [flags |-> {}, radiance |-> {}, aot |-> NoValue, model |-> NoModel]]
  /\ pixel = [p \in Position |->
       [flags |-> {}, aot |-> NoValue, model |-> NoModel, sdr |-> {}, err |-> {}]]

\* Rows that a module has yet to compute, up to the last one it may.
Rows(m, lastL) == (computed[m] + 1)..lastL

RegisterAsItIs(m, lastL) == computed' = [computed EXCEPT ![m] = lastL]

\* Registering a row before the first one erases what was registered.
Register(m, lastL) == computed' = [computed EXCEPT ![m] = Max({lastL, -1})]

-----------------------------------------------------------------------------
(* The reader and the collocation bring more rows. *)

Col ==
  /\ turn = "COL"
  /\ inMemoryL' \in (inMemoryL + 1)..MaxL
  /\ turn' = "PCL"
  /\ UNCHANGED <<scene, outcome, computed, averaged, pixel>>

-----------------------------------------------------------------------------
(* Pcl. *)

CloudsOfNadirView(p) == scene[p].cloud \cap {"SLN"}

\* A pixel is cloudy if it is cloudy in one of the views of SLSTR.
Clouds(p) == scene[p].cloud

SynFlags(p) ==
  {f \in {"LAND"} : scene[p].land}
  \cup {f \in {"CLOUD"} : Clouds(p) # {}}
  \cup {f \in {"NO_OLC"} : "OLC" \notin scene[p].radiance}
  \cup {f \in {"NO_SLN"} : "SLN" \notin scene[p].radiance}
  \cup {f \in {"NO_SLO"} : "SLO" \notin scene[p].radiance}

Pcl ==
  /\ turn = "PCL"
  /\ pixel' = [p \in Position |->
       IF p[1] \in Rows("PCL", inMemoryL) THEN [pixel[p] EXCEPT !.flags = SynFlags(p)]
       ELSE pixel[p]]
  /\ Register("PCL", inMemoryL)
  /\ turn' = "AVE"
  /\ UNCHANGED <<scene, outcome, inMemoryL, averaged>>

-----------------------------------------------------------------------------
(* Ave. *)

BlockSize == Factor * Factor

\* The positions an averaged pixel stands for, as far as the segment has them.
Block(a) == {p \in Position : p[1] \div Factor = a[1] /\ p[2] \div Factor = a[2]}

IsClearLand(p) == "LAND" \in pixel[p].flags /\ "CLOUD" \notin pixel[p].flags

\* A radiance is averaged only if each pixel of the block is clear land and has
\* one.
AveragedRadiance(a) ==
  {c \in Channel : \A p \in Block(a) : IsClearLand(p) /\ c \in scene[p].radiance}

AveragedFlags(a) ==
  {f \in {"PARTLY_CLOUDY"} : \E p \in Block(a) : "CLOUD" \in pixel[p].flags}
  \cup {f \in {"PARTLY_WATER"} : \E p \in Block(a) : "LAND" \notin pixel[p].flags}
  \cup {f \in {"BORDER"} : Cardinality(Block(a)) < BlockSize}

\* A last block of rows that is not complete counts only at the end.
LastAveragedL ==
  LET lines == (computed["PCL"] + 1) \div Factor
  IN  Min({IF computed["PCL"] < MaxL THEN lines - 1 ELSE lines, MaxAL})

Ave ==
  /\ turn = "AVE"
  /\ averaged' = [a \in Averaged |->
       IF a[1] \in Rows("AVE", LastAveragedL)
       THEN [averaged[a] EXCEPT !.flags = AveragedFlags(a), !.radiance = AveragedRadiance(a)]
       ELSE averaged[a]]
  /\ Register("AVE", LastAveragedL)
  /\ turn' = "AER"
  /\ UNCHANGED <<scene, outcome, inMemoryL, pixel>>

-----------------------------------------------------------------------------
(* Aer. *)

\* A minimum is sought if there are radiances of OLCI or of both views.
HasRadiances(q) == "OLC" \in q.radiance \/ {"SLN", "SLO"} \subseteq q.radiance

\* The angular part of the metric is divided by the sum of its weights: without
\* a radiance of SLSTR the metric is 0 / 0, which is no number.
IsMetric(q) == q.radiance \cap {"SLN", "SLO"} # {}

\* A metric that is no number is never the smallest; a model that explains the
\* radiances need not exist either.
FindMinimum(q, o) == HasRadiances(q) /\ IsMetric(q) /\ o # "none"

Raised(o) ==
  {f \in Retrieval : \/ f = "SUCCESS" /\ o = "good"
                     \/ f = "TOO_LOW" /\ o = "tooLow"
                     \/ f = "HIGH_ERROR" /\ o = "highError"
                     \/ f = "NEGATIVE_CURVATURE" /\ o = "negative"}

\* The thickness and the model of the best fit are kept whatever the outcome,
\* unless there is no fit.
RetrieveAerosolProperties(a) ==
  LET q == averaged[a]
  IN  IF FindMinimum(q, outcome[a])
      THEN [q EXCEPT !.aot = {a}, !.model = a, !.flags = @ \cup Raised(outcome[a])]
      ELSE [q EXCEPT !.aot = NoValue]

\* Pixels that are done are left alone; one with a negative curvature is not.
Retrieved(a) ==
  LET q == averaged[a]
  IN  CASE q.flags \cap {"SUCCESS", "TOO_LOW", "HIGH_ERROR", "FILLED"} # {} -> q
        [] q.flags \cap {"PARTLY_CLOUDY", "PARTLY_WATER"} # {}
           -> [q EXCEPT !.aot = NoValue]
        [] OTHER -> RetrieveAerosolProperties(a)

IsNear(a, s) ==
  s[1] \in (a[1] - FillDistance)..(a[1] + FillDistance)
  /\ s[2] \in (a[2] - FillDistance)..(a[2] + FillDistance)

Square(a, s) == (a[1] - s[1]) * (a[1] - s[1]) + (a[2] - s[2]) * (a[2] - s[2])

\* Of two sources that are as near as each other the first one counts.
IsFirstOfNearest(a, s, sources) ==
  \A z \in sources \ {s} :
     \/ Square(a, s) < Square(a, z)
     \/ Square(a, s) = Square(a, z)
        /\ (s[1] < z[1] \/ (s[1] = z[1] /\ s[2] < z[2]))

\* Background values are mixed with those of the successful pixels nearby, and
\* the model is that of the nearest; without one it stays what it was.
Filled(a, grid) ==
  LET sources == {s \in Averaged : IsNear(a, s) /\ "SUCCESS" \in grid[s].flags}
  IN  [grid[a] EXCEPT
         !.aot = sources,
         !.flags = @ \cup {"FILLED"},
         !.model = IF sources = {} THEN @
                   ELSE CHOOSE s \in sources : IsFirstOfNearest(a, s, sources)]

FillableToLastL(lastL) == lastL

\* Rows wait for the rows below them that they may be filled from.
LastFillableL(lastL) == IF lastL < MaxAL THEN lastL - FillDistance ELSE lastL

Aer ==
  /\ turn = "AER"
  /\ LET lastL     == computed["AVE"]
         retrieved == [a \in Averaged |->
                         IF a[1] \in Rows("AER", lastL) THEN Retrieved(a) ELSE averaged[a]]
         toFill    == {a \in Averaged : a[1] \in Rows("AER", LastFillableL(lastL))
                                        /\ "SUCCESS" \notin retrieved[a].flags}
     IN  /\ averaged' = [a \in Averaged |->
                           IF a \in toFill THEN Filled(a, retrieved) ELSE retrieved[a]]
         /\ Register("AER", LastFillableL(lastL))
  /\ turn' = "AEI"
  /\ UNCHANGED <<scene, outcome, inMemoryL, pixel>>

-----------------------------------------------------------------------------
(* Aei. *)

Clamped(x, lo, hi) == Max({lo, Min({x, hi})})

\* The first of the two averaged rows or columns that row or column x lies
\* between.  The division rounds toward zero, which the clamping makes up for.
Source0(x, maxAverage) == Clamped((x - Factor \div 2) \div Factor, 0, maxAverage - 1)

\* The weight of the second: minMax returns a long, so that a weight between 0
\* and 1 becomes 0.
Weight(x, source0) ==
  IF 2 * x + 1 - (2 * source0 * Factor + Factor) >= 2 * Factor THEN 1 ELSE 0

\* One of the four averaged pixels gets all the weight; model and flags are
\* taken from it, too.
Corner(p) ==
  LET l0 == Source0(p[1], MaxAL)
      m0 == Source0(p[2], MaxAM)
  IN  <<l0 + Weight(p[1], l0), m0 + Weight(p[2], m0)>>

\* The loop stops at the first row whose averaged rows are not both there.
LastInterpolatedL ==
  LET rows == Rows("AEI", computed["PCL"])
      late == {l \in rows : Source0(l, MaxAL) + 1 > computed["AER"]}
  IN  IF late = {} THEN computed["PCL"] ELSE Min(late) - 1

Interpolated(p) ==
  LET a == averaged[Corner(p)]
  IN  [pixel[p] EXCEPT !.aot = a.aot, !.model = a.model,
                       !.flags = @ \cup (a.flags \cap AverageFlag)]

Aei ==
  /\ turn = "AEI"
  /\ pixel' = [p \in Position |->
       IF p[1] \in Rows("AEI", LastInterpolatedL) THEN Interpolated(p) ELSE pixel[p]]
  /\ Register("AEI", LastInterpolatedL)
  /\ turn' = "ACO"
  /\ UNCHANGED <<scene, outcome, inMemoryL, averaged>>

-----------------------------------------------------------------------------
(* Aco. *)

IsCorrected(p) == IsClearLand(p) /\ pixel[p].model # NoModel

\* Only the reflectances in [0, 1] of channels with a radiance are stored.
Reflectances(p) == scene[p].radiance \ scene[p].outside

\* The pixels of the row that have left a value in the working array rboa.
Writers(p, c) ==
  {m \in 0..p[2] : IsCorrected(<<p[1], m>>) /\ c \in scene[<<p[1], m>>].radiance}

ErrorsBeforeReflectances(p) ==
  {c \in Channel :
     LET earlier == Writers(p, c) \ {p[2]}
     IN  earlier = {} \/ c \notin scene[<<p[1], Max(earlier)>>].outside}

\* An error is stored wherever the array rboa holds a value in [0, 1]: that of
\* this pixel, of the last one that had a radiance, or the zero of the start.
Errors(p) ==
  {c \in Channel :
     Writers(p, c) = {} \/ c \notin scene[<<p[1], Max(Writers(p, c))>>].outside}

Corrected(p) ==
  IF IsCorrected(p) THEN [pixel[p] EXCEPT !.sdr = Reflectances(p), !.err = Errors(p)]
  ELSE [pixel[p] EXCEPT !.sdr = {}, !.err = {}]

Aco ==
  /\ turn = "ACO"
  /\ pixel' = [p \in Position |->
       IF p[1] \in Rows("ACO", computed["AEI"]) THEN Corrected(p) ELSE pixel[p]]
  /\ Register("ACO", computed["AEI"])
  /\ turn' = "COL"
  /\ UNCHANGED <<scene, outcome, inMemoryL, averaged>>

-----------------------------------------------------------------------------

Next == Col \/ Pcl \/ Ave \/ Aer \/ Aei \/ Aco

Spec == Init /\ [][Next]_vars

-----------------------------------------------------------------------------

\* Flags, values, models and rows are such.
TypeOK ==
  /\ inMemoryL \in -1..MaxL
  /\ computed \in [Module -> -1..MaxL] /\ computed["AER"] <= MaxAL
  /\ averaged \in [Averaged -> [flags : SUBSET AverageFlag, radiance : SUBSET Channel,
                                aot : {NoValue} \cup SUBSET Averaged,
                                model : {NoModel} \cup Averaged]]
  /\ pixel \in [Position -> [flags : SUBSET SynFlag, sdr : SUBSET Channel,
                             err : SUBSET Channel, model : {NoModel} \cup Averaged,
                             aot : {NoValue} \cup SUBSET Averaged]]

\* What the sensors see in the block of an averaged pixel lets Aer succeed.
Succeeds(a) ==
  /\ outcome[a] = "good"
  /\ \A p \in Block(a) : scene[p].land /\ scene[p].cloud = {}
  /\ \E c, d \in Channel : c # d /\ \A p \in Block(a) : {c, d} \subseteq scene[p].radiance

\* However the rows are cut into passes, the rows Aer has registered hold what
\* one pass over the whole product would have given: the value of a successful
\* pixel is its own, and each other pixel is filled, from all the successful
\* pixels nearby (Aer::process retrieves rows that it cannot yet fill).
AerosolIsThatOfOnePass ==
  \A a \in Averaged : a[1] <= computed["AER"] =>
     /\ averaged[a].aot = IF Succeeds(a) THEN {a}
                          ELSE {s \in Averaged : IsNear(a, s) /\ Succeeds(s)}
     /\ ("SUCCESS" \in averaged[a].flags) = Succeeds(a)
     /\ ("FILLED" \in averaged[a].flags) = ~Succeeds(a)

\* A reflectance or an error that Aco stores belongs to a pixel that is land
\* and clear in both views of SLSTR, and was computed with the aerosol of a
\* block that is at most one block and the filling distance away.
OnlyClearLandIsCorrected ==
  \A p \in Position : pixel[p].sdr \cup pixel[p].err # {} =>
     /\ scene[p].land /\ scene[p].cloud = {}
     /\ pixel[p].model # NoModel
     /\ \A i \in {1, 2} :
          pixel[p].model[i] - p[i] \div Factor \in (-FillDistance - 1)..(FillDistance + 1)

\* Each reflectance that Aco stores comes with its error, although errors are
\* computed in a second loop from the working arrays of the row.
ReflectancesHaveErrors == \A p \in Position : pixel[p].sdr \subseteq pixel[p].err
=============================================================================
