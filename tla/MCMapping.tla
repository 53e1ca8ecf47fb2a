------------------------------ MODULE MCMapping ------------------------------
(***************************************************************************)
(* Small source products for TLC.  Pixel c of source row r lies            *)
(* off + Gap * r + Tilt * c tenths of a row of the map south of its first  *)
(* row; the row of the map finds the nearest source row for each c.  The   *)
(* tie points of the map are in column 0.                                  *)
(***************************************************************************)
EXTENDS Mapping

CONSTANTS
  RowCounts,   \* the numbers of rows of the OLCI segments
  FirstRows,   \* where the first row of a source product may lie
  LateRows,    \* those of products that begin before the sensing time
  SlsOffsets   \* the collocations of SLSTR channels, as sets of rows

Gap  == 4
Tilt == 14
Pixels == {0, 1}

Position(off, r, c) == off + Gap * r + Tilt * c

Distance(x, y) == IF x < y THEN y - x ELSE x - y

\* PixelFinder: the nearest pixel within 0.7 rows of the map.
Nearest(off, n, l, c) ==
  LET near == {r \in 0..(n - 1) : Distance(Position(off, r, c), 10 * l) <= 7}
  IN IF near = {} THEN {}
     ELSE {CHOOSE r \in near : \A q \in near :
             Distance(Position(off, r, c), 10 * l) <= Distance(Position(off, q, c), 10 * l)}

ProductOf(n, off, sls) ==
  [rows    |-> [s \in SourceSegments |-> IF s = "INFO" THEN 1 ELSE n],
   sources |-> [s \in ColSources |-> [l \in 0..(n - 1) |->
                  IF s = "OLC" THEN {l} ELSE {l + d : d \in sls} \cap 0..(n - 1)]],
   north   |-> [r \in 0..(n - 1) |-> Position(off, r, Min(Pixels))],
   south   |-> [r \in 0..(n - 1) |-> Position(off, r, Max(Pixels))],
   found   |-> [l \in 0..MaxTargetL |-> UNION {Nearest(off, n, l, c) : c \in Pixels}],
   foundTp |-> [l \in 0..MaxTargetL |-> Nearest(off, n, l, 0)],
   inTime  |-> IF off \in LateRows THEN 2..(n - 1) ELSE 0..(n - 1)]

MCProducts == {ProductOf(n, off, sls) : n \in RowCounts, off \in FirstRows, sls \in SlsOffsets}

\* The values in a .cfg.
Exact  == {0}
Around == {-1, 0, 1}
MCSlsOffsets == {Exact, Around}
MCLateRows == {10}
MCFirstRows == {-50, -22, -10, 10, 40}
=============================================================================
