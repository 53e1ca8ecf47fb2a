------------------------------- MODULE MCSyl2 -------------------------------
(***************************************************************************)
(* Small source products for TLC.  Two rows are averaged into one and gaps *)
(* are filled from one averaged line on either side, instead of 8 and 120. *)
(***************************************************************************)
EXTENDS Syl2

CONSTANTS
  RowCounts,   \* the numbers of rows of the OLCI segments
  SlsRows,     \* how many rows more or less the SLSTR segments have
  OlcOffsets,  \* the misregistrations of OLCI channels, as sets of rows
  SlsOffsets   \* the collocations of SLSTR channels, as sets of rows

\* The rows of a source segment of n rows that lie at the offsets from line l.
RowsAt(l, offsets, n) == {l + d : d \in offsets} \cap 0..(n - 1)

ProductOf(n, d, misRows, tpRows, olc, sln, slo) ==
  [rows    |-> [s \in SourceSegments |->
                  CASE s \in {"OLC", "GEO"} -> n
                    [] s = "OLC_MIS" -> misRows
                    [] s \in {"SLN", "SLO"} -> n + d
                    [] s = "INFO" -> 1
                    [] s = "TP" -> tpRows],
   sources |-> [s \in ColSources |-> [l \in 0..(n - 1) |->
                  CASE s = "OLC" -> RowsAt(l, olc, n)
                    [] s = "SLN" -> RowsAt(l, sln, n + d)
                    [] s = "SLO" -> RowsAt(l, slo, n + d)]]]

MCProducts ==
  {ProductOf(n, d, mis, n, olc, sln, slo) :
     n \in RowCounts, d \in SlsRows, mis \in {1}, olc \in OlcOffsets, sln \in SlsOffsets, slo \in SlsOffsets}
  \cup
  {ProductOf(n, d, n, n, olc, sln, slo) :
     n \in RowCounts, d \in SlsRows, olc \in OlcOffsets, sln \in SlsOffsets, slo \in SlsOffsets}

\* The offsets in a .cfg: what a line of the target needs of the source.
Exact  == {0}
Behind == {-1, 0}
Ahead  == {0, 1}
Around == {-1, 0, 1}
MCOlcOffsets == {Exact, Around}
MCSlsOffsets == {Behind, Ahead}
=============================================================================
