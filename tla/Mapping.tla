------------------------------ MODULE Mapping ------------------------------
(***************************************************************************)
(* What the VGT tasks have in common: the mapping of a source row to VGT   *)
(* bands (modules/Vbm), and how Vco and Vpr, which are two copies of one   *)
(* procedure, carry the rows of a sliding source window over to a map that *)
(* is in memory as a whole.                                                *)
(*                                                                         *)
(* Latitudes are given in tenths of a row of the map and grow to the       *)
(* south, so that row l of the map lies at 10 * l.                         *)
(***************************************************************************)
EXTENDS Task

CONSTANTS
  MaxTargetL,   \* the last row of the map
  Mapper,       \* the module that fills the map
  Margin        \* by how much the regions must be apart to be disjoint

ASSUME MappingAssumption ==
  /\ MaxTargetL \in Nat
  /\ Mapper \in {"VCO", "VPR"}
  /\ Margin \in Nat

\* VGT-S corrects for the atmosphere, VGT-P does not.
ASSUME MappingPipeline ==
  Pipeline \in {
    <<"READER", "COL", "PCL", "VBM", "VFL", Mapper, "VGT_WRITER", "MANIFEST">>,
    <<"READER", "COL", "PCL", "VBM", "VFL", "VAC", Mapper, "VGT_WRITER", "MANIFEST">>}

\* The northmost and the southmost latitude of each source row, the source rows
\* that are found for a row of the map, and those in the time range.
ASSUME MapProductsAssumption ==
  \A p \in Products :
    /\ p.north \in [Rows(p) -> Int] /\ p.south \in [Rows(p) -> Int]
    /\ p.found \in [0..MaxTargetL -> SUBSET Rows(p)]

VARIABLE
  composed   \* what the map holds: <<row of the map, source, source row>>

\* The coordinates of the map are four segments of one line, which are
\* treated alike: COORD stands for them.
Map   == "VGT"
Coord == "COORD"

ASSUME MappingSegments == SourceSegments \cup {T, Map, Coord} \subseteq Segment

Mapped == (0..MaxTargetL) \X (1..Sources) \X Nat

-----------------------------------------------------------------------------
VbmProcess ==
  /\ Turn("process", "VBM")
  /\ Register("VBM", [s \in {T} |-> GetLastComputableL(T, "VBM")], << >>)
  /\ Compute("VBM", ComputableLines("VBM"), final["PCL"])
  /\ UNCHANGED <<segmentLineCount, product, file, ncFiles, manifest, composed>>

\* Vfl registers nothing: it flags all rows in memory in every pass.  Its flags
\* are those of a row as long as the reflectances of the row are in good.
FlagAgain(good) ==
  /\ Turn("process", "VFL")
  /\ Compute("VFL", ComputableLines("VFL"), good)
  /\ UNCHANGED contextVars
  /\ UNCHANGED <<segmentLineCount, product, file, ncFiles, manifest, composed>>
  /\ ProcessNext

-----------------------------------------------------------------------------
(* The mapper. *)

NewMap(s) == IF s = Coord THEN NewGrid(1, 0) ELSE NewGrid(MaxTargetL + 1, MaxTargetL)

FirstTargetL == GetFirstComputableL(Map, Mapper)
LastTargetL  == GetLastComputableL(Map, Mapper)
LastSourceL  == GetLastComputableL(T, Mapper)

InMemory == grid[T].minInMemoryL..MaxInMemoryL(T)

IsNorthOfSource == \A r \in InMemory : product.north[r] > 10 * LastTargetL + Margin

IsSouthOfSource ==
  /\ \A r \in InMemory : product.south[r] < 10 * FirstTargetL - Margin
  /\ LastSourceL < grid[T].maxL

MayMap == Turn("process", Mapper) /\ ~IsNorthOfSource /\ ~IsSouthOfSource

\* The rows of the map for which a source row has not been computed.
UnfinishedRows ==
  {l \in FirstTargetL..LastTargetL : \E r \in product.found[l] : r > LastSourceL}

\* Mutant: the first unfinished row is taken for finished.
MappedLastLTooFar == IF UnfinishedRows = {} THEN LastTargetL ELSE Min(UnfinishedRows)

MappedLastL == IF UnfinishedRows = {} THEN LastTargetL ELSE Min(UnfinishedRows) - 1

\* The loop runs up to and including the first of these rows.
MapLines == FirstTargetL..Smaller(MappedLastL + 1, LastTargetL)

\* The source rows of row l of the map that are carried over to the map.
ComputedRows(l) == {r \in product.found[l] : r <= LastSourceL}

\* Mutant: the source rows of an unfinished row are not required.
MapRequiresNothingL == IF MapLines = {} THEN 0 ELSE MaxInMemoryL(T) + 1

\* The requirement is that of the last row of the loop.
MapRequiredL ==
  IF MapLines = {} THEN 0
  ELSE Min(product.found[Max(MapLines)] \cup {MaxInMemoryL(T) + 1})

\* The source region lies south of what is left of the map: the rest of the
\* map is done.
MapCompletes ==
  /\ Turn("process", Mapper)
  /\ IsNorthOfSource
  /\ Register(Mapper, [s \in {Map} |-> LastTargetL], << >>)
  /\ UNCHANGED <<dataVars, composed>>

\* The source region has not reached the map: nothing is registered.
MapWaits ==
  /\ Turn("process", Mapper)
  /\ ~IsNorthOfSource
  /\ IsSouthOfSource
  /\ ProcessNext
  /\ UNCHANGED <<contextVars, dataVars, composed>>

RegisterMapped ==
  Register(Mapper, [s \in {Map} |-> MappedLastL], [s \in {T, "OLC"} |-> MapRequiredL])

\* GridImpl::getIndex throws if a row to be mapped, in rows[l], has left memory.
MapThrows(rows) == \E l \in MapLines : \E r \in rows[l] : ~IsInMemory(T, r)

-----------------------------------------------------------------------------
(* VgtWriter. *)

\* The map is written as a whole, in every pass, and so are the coordinates.
VgtWriterProcess(segments, content) ==
  /\ Turn("process", "VGT_WRITER")
  /\ Register("VGT_WRITER", [s \in segments |-> grid[s].maxL], << >>)
  /\ file' = content
  /\ UNCHANGED <<segmentLineCount, product, final, ncFiles, manifest, composed>>

-----------------------------------------------------------------------------
\* What the map receives from a source product.
Found(p) == UNION {{<<l, source, r>> : r \in p.found[l]} : l \in 0..MaxTargetL}

MappingTypeOK ==
  /\ TaskTypeOK
  /\ composed \subseteq Mapped

\* The program throws for two reasons only, wherever the source lies on the
\* map.  An entry of 0 reads like none: the mapper begins with row 0 of the map
\* a second time, and its source rows may have left memory.  And the row that
\* completes the map may require the first row of the window, which then stays:
\* in the next pass there is no line to collocate, the collocation requires
\* nothing, and the windows of SLSTR slide past the rows of the next line.
ThrowsAtTheEdgesOnly(fault) ==
  fault =>
    \/ Turn("process", Mapper) /\ lastComputedL[Map][Mapper] = 0
    \/ Turn("process", "COL") /\ lastComputedL[Map][Mapper] = MaxTargetL

\* What the mapper relies on, in a product of which the first k lines are
\* collocated from the first n rows: rows run from north to south, no pixel
\* (but of the last row) lies between the margin and the radius of the search,
\* the source rows of a row of the map fit into a window, in the first pass if
\* they begin with row 0, and if they do not, those of the rows after it begin
\* no earlier.
Maps(p, n, k) ==
  /\ \A q, r \in Rows(p) : q < r => p.north[q] <= p.north[r]
  /\ \A l \in 0..MaxTargetL : \A r \in p.found[l] :
       /\ p.north[r] <= 10 * l + Margin
       /\ p.south[r] >= 10 * l - Margin \/ r = p.rows["OLC"] - 1
       /\ \A q \in p.found[l] : r - q < n /\ (q = 0 => r < k)
       /\ r >= k =>
            \A j \in (l + 1)..MaxTargetL : \A q \in p.found[j] : \E o \in p.found[l] : o <= q

LongWindows ==
  \A n \in LineCounts, p \in Products :
    \E k \in 2..Smaller(n, p.rows["OLC"]) : Collocates(p, n, k) /\ Maps(p, n, k)

\* The modules that register rows of the SYN grid register them only when they
\* have been computed from final rows that were in memory.
RegisteredAreFinal(modules) ==
  HasSegment(T) => \A m \in modules : 0..lastComputedL[T][m] \subseteq final[m]
=============================================================================
