--------------------------- MODULE MapCoordinates ---------------------------
(***************************************************************************)
(* The coordinates of a map and their bounds, as Vco and Vpr write them    *)
(* into segments of one line in every pass of the main loop: for the rows  *)
(* or the columns of the map, and (Vpr) of the map of tie points.          *)
(*                                                                         *)
(* The unit of a coordinate is half a pixel of the map.                    *)
(***************************************************************************)
EXTENDS Integers

Degree == 2 * 112   \* TARGET_PIXELS_PER_DEGREE

\* DEGREES_PER_TARGET_PIXEL and DEGREES_PER_SUBSAMPLED_TARGET_PIXEL.
Pixel           == 2
SubsampledPixel == 16

VARIABLES
  axis,        \* "lat": from north to south, "lon": from west to east
  first,       \* where the axis begins, in degrees,
  degrees,     \*   and how many degrees it has
  step,        \* the distance of two coordinates
  size,        \* the number of coordinates
  coordinate,  \* the line of the coordinates
  bounds,      \* the line of their bounds, two for each
  phase, m     \* the line that is being written, and its next sample

limits == <<axis, first, degrees, step, size>>
vars == <<limits, coordinate, bounds, phase, m>>

\* The limits are to be read from the job order one day.
AddTargetSegments ==
  /\ axis \in {"lat", "lon"} /\ first \in Int /\ degrees \in Nat \ {0}
  /\ \/ step = Pixel /\ size = degrees * 112             \* Vco
     \/ step = Pixel /\ size = degrees * 112 + 1         \* Vpr
     \/ step = SubsampledPixel /\ size = degrees * 14 + 1

Init ==
  /\ AddTargetSegments
  /\ coordinate \in [0..(size - 1) -> Int]
  /\ bounds \in [0..(2 * size - 1) -> Int]
  /\ phase = "coordinates" /\ m = 0

Target(j) == IF axis = "lat" THEN first * Degree - j * step ELSE first * Degree + j * step

SetCoordinate ==
  /\ phase = "coordinates" /\ m < size
  /\ coordinate' = [coordinate EXCEPT ![m] = Target(m)]
  /\ m' = m + 1
  /\ UNCHANGED <<limits, bounds, phase>>

BeginBounds ==
  /\ phase = "coordinates" /\ m >= size
  /\ phase' = "bounds" /\ m' = 0
  /\ UNCHANGED <<limits, coordinate, bounds>>

\* Half a pixel of the map, also around a tie point.
SetBounds ==
  /\ phase = "bounds" /\ m < 2 * size
  /\ bounds' = [bounds EXCEPT ![m] = Target(m \div 2) - 1, ![m + 1] = Target(m \div 2) + 1]
  /\ m' = m + 2
  /\ UNCHANGED <<limits, coordinate, phase>>

Finish ==
  /\ phase = "bounds" /\ m >= 2 * size
  /\ phase' = "done"
  /\ UNCHANGED <<limits, coordinate, bounds, m>>

\* The next pass writes everything again.
Process ==
  /\ phase = "done"
  /\ phase' = "coordinates" /\ m' = 0
  /\ UNCHANGED <<limits, coordinate, bounds>>

Next == SetCoordinate \/ BeginBounds \/ SetBounds \/ Finish \/ Process

Spec == Init /\ [][Next]_vars

-----------------------------------------------------------------------------

\* The lines are written up to their ends and not beyond, and each coordinate
\* lies between its bounds.
CoordinatesAreBounded ==
  phase = "done" =>
    \A j \in 0..(size - 1) :
      /\ coordinate[j] = Target(j)
      /\ bounds[2 * j] < coordinate[j] /\ coordinate[j] < bounds[2 * j + 1]

\* The pixels of the map leave no gap and do not overlap.
PixelsTileTheMap ==
  phase = "done" /\ step = Pixel =>
    \A j \in 0..(size - 2) :
      IF axis = "lat" THEN bounds[2 * j] = bounds[2 * (j + 1) + 1]
      ELSE bounds[2 * j + 1] = bounds[2 * (j + 1)]

\* The map of tie points ends where the map of Vpr does, at the end of the
\* axis, although both count their rows and columns by themselves.
MapsEndTogether ==
  phase = "done" /\ size # degrees * 112 =>
    coordinate[size - 1] =
      IF axis = "lat" THEN (first - degrees) * Degree ELSE (first + degrees) * Degree
=============================================================================
