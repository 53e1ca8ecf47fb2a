------------------------------ MODULE Context ------------------------------
(***************************************************************************)
(* The processing context (core/Context, core/GridImpl,                    *)
(* core/SwathSegment): which segments exist, which rows of each are held   *)
(* in memory, how far every module has computed every segment and from     *)
(* which row on every module still requires it.                            *)
(*                                                                         *)
(* A segment is a window of sizeL rows that slides over the rows 0..maxL   *)
(* of a product.  The context decides from the registered progress of the  *)
(* modules which rows a module may compute next (getFirstComputableL,      *)
(* getLastComputableL) and how far a window may slide (moveForward).       *)
(***************************************************************************)
EXTENDS Integers, Sequences, FiniteSetsExt

CONSTANTS
  Segment,   \* the segment ids the modules of the task use
  Pipeline   \* the modules in the order they were added (moduleList)

Module == Range(Pipeline)

ASSUME PipelineAssumption ==
  /\ Pipeline \in Seq(Range(Pipeline))
  /\ Pipeline # << >>

\* The value of a map that has no entry.  Rows are numbered from zero and the
\* setters erase the entry when they are given a negative row.
None == -1

Entry == Nat \cup {None}

VARIABLES
  grid,            \* segment id -> the rows of the segment and its window
  lastComputedL,   \* segment -> module -> last row the module has computed
  firstRequiredL   \* segment -> module -> first row the module still needs

contextVars == <<grid, lastComputedL, firstRequiredL>>

Smaller(a, b) == IF a < b THEN a ELSE b
Larger(a, b)  == IF a < b THEN b ELSE a

-----------------------------------------------------------------------------
(* Segments and their windows. *)

Grid == [sizeL : Nat \ {0}, maxL : Nat, minInMemoryL : Nat]

\* What the constructor of a grid accepts; the window starts at row 0.
NewGrid(sizeL, maxL) == [sizeL |-> sizeL, maxL |-> maxL, minInMemoryL |-> 0]

IsValidShape(g) == g.sizeL - 1 <= g.maxL

HasSegment(s) == s \in DOMAIN grid

MaxInMemoryL(s) == grid[s].minInMemoryL + grid[s].sizeL - 1

IsInMemory(s, l) == grid[s].minInMemoryL <= l /\ l <= MaxInMemoryL(s)

\* Adds the segments of new, a function from ids to grids.  The context
\* refuses an id it already knows.
CanAddSegments(new) ==
  /\ DOMAIN new \cap DOMAIN grid = {}
  /\ \A s \in DOMAIN new : IsValidShape(new[s])

AddSegments(new) ==
  grid' = [s \in DOMAIN grid \cup DOMAIN new |->
             IF s \in DOMAIN new THEN new[s] ELSE grid[s]]

NoEntries == [m \in Module |-> None]

\* Mutant: the entries of a removed segment stay.
RemoveSegmentsOnly(ids) ==
  /\ grid' = [s \in DOMAIN grid \ ids |-> grid[s]]
  /\ UNCHANGED <<lastComputedL, firstRequiredL>>

\* Removing a segment forgets everything the modules registered for it.
RemoveSegments(ids) ==
  /\ grid' = [s \in DOMAIN grid \ ids |-> grid[s]]
  /\ lastComputedL' = [s \in Segment |->
                         IF s \in ids THEN NoEntries ELSE lastComputedL[s]]
  /\ firstRequiredL' = [s \in Segment |->
                          IF s \in ids THEN NoEntries ELSE firstRequiredL[s]]

-----------------------------------------------------------------------------
(* Registered progress.  A row counts as registered only if it is greater  *)
(* than zero: an entry of 0 reads like no entry.                           *)

HasLastComputedL(s, m)  == lastComputedL[s][m] > 0
HasFirstRequiredL(s, m) == firstRequiredL[s][m] > 0

GetLastComputedL(s, m) ==
  IF HasLastComputedL(s, m) THEN lastComputedL[s][m] ELSE None

\* The modules the loop over moduleList visits before it reaches m.
Predecessors(m) ==
  {Pipeline[j] : j \in {i \in DOMAIN Pipeline : \A h \in 1..i : Pipeline[h] # m}}

GetFirstComputableL(s, m) ==
  IF HasLastComputedL(s, m)
    THEN Larger(grid[s].minInMemoryL, lastComputedL[s][m] + 1)
    ELSE grid[s].minInMemoryL

\* Mutant: the rows in memory, whatever the predecessors have computed.
GetLastInMemoryL(s, m) == Smaller(MaxInMemoryL(s), grid[s].maxL)

GetLastComputableL(s, m) ==
  Min({Smaller(MaxInMemoryL(s), grid[s].maxL)} \cup
      {lastComputedL[s][p] : p \in {q \in Predecessors(m) : HasLastComputedL(s, q)}})

\* setLastComputedL throws when the row is beyond the segment or when it is
\* smaller than a row already registered.
IsInvalidRow(s, m, l) ==
  /\ l >= 0
  /\ (HasLastComputedL(s, m) /\ l < lastComputedL[s][m]) \/ l > grid[s].maxL

EntryOf(l) == IF l < 0 THEN None ELSE l

\* The maps after module m has set its rows for the segments of rows, a
\* function from segment ids to rows.
Registered(map, m, rows) ==
  [s \in Segment |->
     IF s \in DOMAIN rows THEN [map[s] EXCEPT ![m] = EntryOf(rows[s])] ELSE map[s]]

-----------------------------------------------------------------------------
(* Sliding the windows. *)

GetFirstRequiredL(s) ==
  Min({Smaller(MaxInMemoryL(s) + 1, grid[s].maxL)} \cup
      {firstRequiredL[s][m] : m \in {q \in Module : HasFirstRequiredL(s, q)}})

\* The row up to which every module with an entry has computed the window.
\* Here an entry of 0 does count.
CommonlyComputedL(s) ==
  Min({MaxInMemoryL(s)} \cup
      {lastComputedL[s][m] : m \in {q \in Module : lastComputedL[s][q] # None}})

\* Mutants: the window is moved past the end of the segment, past rows that
\* have not been computed, or one row too far.
ForwardPastTheEndL(s) == Smaller(CommonlyComputedL(s) + 1, GetFirstRequiredL(s))

ForwardUncomputedL(s) ==
  Smaller(GetFirstRequiredL(s), grid[s].maxL - grid[s].sizeL + 1)

\* The row the window is moved to, if it lies ahead of the window's start.
ForwardL(s) ==
  Smaller(Smaller(CommonlyComputedL(s) + 1, GetFirstRequiredL(s)),
          grid[s].maxL - grid[s].sizeL + 1)

\* Mutant: the window follows a row that is required again.
MovedGridBack(s) == [grid[s] EXCEPT !.minInMemoryL = Larger(0, ForwardL(s))]

MovedGrid(s) ==
  [grid[s] EXCEPT !.minInMemoryL = Larger(@, ForwardL(s))]

\* Mutants: only the windows count, or a segment is never computed far enough.
IsAllInMemory(g) ==
  \A s \in DOMAIN g : g[s].minInMemoryL + g[s].sizeL - 1 >= g[s].maxL

IsNeverCompleted(g) ==
  \A s \in DOMAIN g :
     /\ g[s].minInMemoryL + g[s].sizeL - 1 >= g[s].maxL
     /\ \A m \in Module : lastComputedL[s][m] # None => lastComputedL[s][m] > g[s].maxL

\* Evaluated after the windows have moved, hence on the grids g.
IsCompleted(g) ==
  \A s \in DOMAIN g :
     /\ g[s].minInMemoryL + g[s].sizeL - 1 >= g[s].maxL
     /\ \A m \in Module : lastComputedL[s][m] # None => lastComputedL[s][m] >= g[s].maxL

-----------------------------------------------------------------------------
ContextInit ==
  /\ grid = [s \in {} |-> NewGrid(1, 0)]
  /\ lastComputedL = [s \in Segment |-> NoEntries]
  /\ firstRequiredL = [s \in Segment |-> NoEntries]

ContextTypeOK ==
  /\ DOMAIN grid \subseteq Segment
  /\ grid \in [DOMAIN grid -> Grid]
  /\ lastComputedL \in [Segment -> [Module -> Entry]]
  /\ firstRequiredL \in [Segment -> [Module -> Entry]]

\* A window never leaves its segment: SwathSegment.moveForward and
\* GridImpl.moveForward throw unless the row they are given lies in the
\* window or directly behind it and leaves room for a whole window.
WindowsInBounds ==
  \A s \in DOMAIN grid :
     /\ IsValidShape(grid[s])
     /\ MaxInMemoryL(s) <= grid[s].maxL
     /\ ForwardL(s) <= MaxInMemoryL(s) + 1
=============================================================================
