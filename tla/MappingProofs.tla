--------------------------- MODULE MappingProofs ----------------------------
(***************************************************************************)
(* The lemmas about the tasks that map a product onto a grid, VGT-P and    *)
(* VGT-S: what the turns of the reader, of the collocation, of the modules *)
(* in between, of the mapper and of the writer keep, for every product and *)
(* every window with room for the rows that a row of the map needs at once *)
(* (LongWindows).                                                          *)
(*                                                                         *)
(* The inductive invariant is Basics: the context and the control fit the  *)
(* task (TypesFit, Tracked), what is registered is final, and the rows of  *)
(* the map that are not done have their source rows in memory or ahead of  *)
(* the window (MapInv).  WindowInv adds that the rows the collocation is   *)
(* going to read have not left memory.  What the two tasks add for their   *)
(* own mappers is in VgtsProofs and VgtpProofs.                            *)
(***************************************************************************)
EXTENDS Mapping, ContextProofs

-----------------------------------------------------------------------------
(* The pipeline of the tasks. *)

\* The place of the mapper in the pipeline, and the modules that register rows
\* of the SYN grid, with their places.
MapperAt == Len(Pipeline) - 2

Syn == {"COL", "PCL", "VBM", "VAC"} \cap Module

SynAt(m) == CASE m = "COL" -> 2 [] m = "PCL" -> 3 [] m = "VBM" -> 4 [] m = "VAC" -> 6

\* The modules in their order.
LEMMA PipelineIs ==
  /\ MapperAt \in {6, 7}
  /\ Len(Pipeline) = MapperAt + 2
  /\ DOMAIN Pipeline = 1..(MapperAt + 2)
  /\ Pipeline[1] = "READER" /\ Pipeline[2] = "COL" /\ Pipeline[3] = "PCL"
  /\ Pipeline[4] = "VBM" /\ Pipeline[5] = "VFL"
  /\ MapperAt = 7 => Pipeline[6] = "VAC"
  /\ Pipeline[MapperAt] = Mapper
  /\ Pipeline[MapperAt + 1] = "VGT_WRITER"
  /\ Pipeline[MapperAt + 2] = "MANIFEST"
<1>1. CASE Pipeline = <<"READER", "COL", "PCL", "VBM", "VFL", Mapper, "VGT_WRITER", "MANIFEST">>
  <2>1. Len(Pipeline) = 8 /\ DOMAIN Pipeline = 1..8
    BY <1>1
  <2>2. MapperAt = 6
    BY <2>1 DEF MapperAt
  <2>. QED
    BY <1>1, <2>1, <2>2
<1>2. CASE Pipeline = <<"READER", "COL", "PCL", "VBM", "VFL", "VAC", Mapper, "VGT_WRITER", "MANIFEST">>
  <2>1. Len(Pipeline) = 9 /\ DOMAIN Pipeline = 1..9
    BY <1>2
  <2>2. MapperAt = 7
    BY <2>1 DEF MapperAt
  <2>. QED
    BY <1>2, <2>1, <2>2
<1>. QED
  BY <1>1, <1>2, MappingPipeline

\* The index in the pipeline tells whose turn it is.
LEMMA TurnIs ==
  ASSUME NEW i \in DOMAIN Pipeline
  PROVE  /\ Pipeline[i] = "READER" <=> i = 1
         /\ Pipeline[i] = "COL" <=> i = 2
         /\ Pipeline[i] = "PCL" <=> i = 3
         /\ Pipeline[i] = "VBM" <=> i = 4
         /\ Pipeline[i] = "VFL" <=> i = 5
         /\ Pipeline[i] = "VAC" <=> i = 6 /\ MapperAt = 7
         /\ Pipeline[i] = Mapper <=> i = MapperAt
         /\ Pipeline[i] = "VGT_WRITER" <=> i = MapperAt + 1
         /\ Pipeline[i] = "MANIFEST" <=> i = MapperAt + 2
<1>1. i \in {1, 2, 3, 4, 5} \/ (i = 6 /\ MapperAt = 7) \/ i \in {MapperAt, MapperAt + 1, MapperAt + 2}
  BY PipelineIs
<1>. QED
  BY <1>1, PipelineIs, MappingAssumption

\* The modules.
LEMMA ModulesAre ==
  /\ {"READER", "COL", "PCL", "VBM", "VFL", Mapper, "VGT_WRITER", "MANIFEST"} \subseteq Module
  /\ "VAC" \in Module <=> MapperAt = 7
  /\ Syn = {"COL", "PCL", "VBM"} \cup (IF MapperAt = 7 THEN {"VAC"} ELSE {})
  /\ Mapper \notin Syn
  /\ Syn \subseteq Module
  /\ \A m \in Syn : /\ SynAt(m) \in DOMAIN Pipeline /\ Pipeline[SynAt(m)] = m
                    /\ SynAt(m) \in 2..(MapperAt - 1)
                    /\ m # "COL" => SynAt(m) > 2
  /\ SynAt("COL") = 2 /\ SynAt("PCL") = 3 /\ SynAt("VBM") = 4 /\ SynAt("VAC") = 6
  /\ \A m, p \in Syn : SynAt(m) = SynAt(p) => m = p
<1>1. Module = {Pipeline[i] : i \in DOMAIN Pipeline}
  BY DEF Module, Range
<1>2. \A i \in DOMAIN Pipeline : Pipeline[i] \in Module
  BY <1>1
<1>3. {"READER", "COL", "PCL", "VBM", "VFL", Mapper, "VGT_WRITER", "MANIFEST"} \subseteq Module
  BY <1>2, PipelineIs
<1>4. "VAC" \in Module <=> MapperAt = 7
  BY <1>1, PipelineIs, TurnIs
<1>5. Syn = {"COL", "PCL", "VBM"} \cup (IF MapperAt = 7 THEN {"VAC"} ELSE {})
  BY <1>3, <1>4 DEF Syn
<1>6. SynAt("COL") = 2 /\ SynAt("PCL") = 3 /\ SynAt("VBM") = 4 /\ SynAt("VAC") = 6
  BY DEF SynAt
<1>. QED
  BY <1>3, <1>4, <1>5, <1>6, PipelineIs, MappingAssumption DEF Syn

\* The predecessors of a module are the modules with smaller indices.
LEMMA Before ==
  ASSUME NEW k \in DOMAIN Pipeline
  PROVE  Predecessors(Pipeline[k]) = {Pipeline[j] : j \in 1..(k - 1)}
<1>1. \A i, j \in DOMAIN Pipeline : Pipeline[i] = Pipeline[j] => i = j
  <2>. SUFFICES ASSUME NEW i \in DOMAIN Pipeline, NEW j \in DOMAIN Pipeline, Pipeline[i] = Pipeline[j]
                PROVE  i = j
    OBVIOUS
  <2>1. i \in {1, 2, 3, 4, 5} \/ (i = 6 /\ MapperAt = 7) \/ i \in {MapperAt, MapperAt + 1, MapperAt + 2}
    BY PipelineIs
  <2>. QED
    BY <2>1, PipelineIs, TurnIs
<1>2. {i \in DOMAIN Pipeline : \A h \in 1..i : Pipeline[h] # Pipeline[k]} = 1..(k - 1)
  <2>1. ASSUME NEW i \in DOMAIN Pipeline
        PROVE  (\A h \in 1..i : Pipeline[h] # Pipeline[k]) <=> i < k
    <3>1. CASE i < k
      BY <1>1, <3>1, PipelineIs, SMTT(30)
    <3>2. CASE ~(i < k)
      BY <3>2, PipelineIs
    <3>. QED
      BY <3>1, <3>2
  <2>. QED
    BY <2>1, PipelineIs
<1>. QED
  BY <1>2 DEF Predecessors

\* The predecessors that matter: the reader before the collocation, and the
\* collocation and what else registers rows of the SYN grid before the others.
LEMMA PredecessorsAre ==
  /\ Predecessors("COL") = {"READER"}
  /\ \A k \in 3..MapperAt :
       /\ "COL" \in Predecessors(Pipeline[k])
       /\ \A p \in Predecessors(Pipeline[k]) : p \in Module /\ (p \in Syn => SynAt(p) < k)
  /\ \A p \in Predecessors(Mapper) : p \in Module /\ p \notin {Mapper, "VGT_WRITER"}
<1>1. Predecessors("COL") = {"READER"}
  <2>1. Predecessors("COL") = {Pipeline[j] : j \in 1..1}
    BY Before, PipelineIs
  <2>2. 1..1 = {1}
    OBVIOUS
  <2>. QED
    BY <2>1, <2>2, PipelineIs
<1>2. ASSUME NEW k \in 3..MapperAt
      PROVE  /\ k \in DOMAIN Pipeline
             /\ "COL" \in Predecessors(Pipeline[k])
             /\ \A p \in Predecessors(Pipeline[k]) : \E j \in 1..(k - 1) : j \in DOMAIN Pipeline /\ p = Pipeline[j]
  <2>1. k \in DOMAIN Pipeline /\ 2 \in 1..(k - 1) /\ 1..(k - 1) \subseteq DOMAIN Pipeline
    BY PipelineIs
  <2>2. Predecessors(Pipeline[k]) = {Pipeline[j] : j \in 1..(k - 1)}
    BY <2>1, Before
  <2>. QED
    BY <2>1, <2>2, PipelineIs
<1>3. ASSUME NEW k \in 3..MapperAt, NEW p \in Predecessors(Pipeline[k])
      PROVE  p \in Module /\ (p \in Syn => SynAt(p) < k)
  <2>1. PICK j \in 1..(k - 1) : j \in DOMAIN Pipeline /\ p = Pipeline[j]
    BY <1>2
  <2>2. p \in Module
    BY <2>1 DEF Module, Range
  <2>3. ASSUME p \in Syn PROVE SynAt(p) = j
    <3>1. SynAt(p) \in DOMAIN Pipeline /\ Pipeline[SynAt(p)] = p
      BY <2>3, ModulesAre
    <3>2. p \in {"COL", "PCL", "VBM", "VAC"}
      BY <2>3 DEF Syn
    <3>. QED
      BY <2>1, <3>1, <3>2, TurnIs
  <2>. QED
    BY <2>1, <2>2, <2>3, PipelineIs
<1>4. ASSUME NEW p \in Predecessors(Mapper) PROVE p \in Module /\ p \notin {Mapper, "VGT_WRITER"}
  <2>1. MapperAt \in 3..MapperAt /\ Pipeline[MapperAt] = Mapper
    BY PipelineIs
  <2>2. PICK j \in 1..(MapperAt - 1) : j \in DOMAIN Pipeline /\ p = Pipeline[j]
    BY <1>2, <2>1
  <2>3. p \in Module
    BY <2>2 DEF Module, Range
  <2>. QED
    BY <2>2, <2>3, TurnIs, PipelineIs
<1>. QED
  BY <1>1, <1>2, <1>3, <1>4

-----------------------------------------------------------------------------
(* The invariant behind the others: which segments there are, how large    *)
(* they are, who registers what, and how far the modules get in a pass.    *)

L(m)    == lastComputedL[T][m]
MappedL == lastComputedL[Map][Mapper]
Asked   == firstRequiredL[T][Mapper]

\* Module number i of the pipeline has been started and has not been stopped,
\* nothing is registered that is registered while it is started, and it has had
\* its turn in this pass.
Busy == phase \in {"process", "move"}

IsStarted(i) == Busy \/ (phase = "start" /\ at > i) \/ (phase = "stop" /\ at >= i)

IsFresh(i) == phase = "start" \/ ~IsStarted(i)

TurnOver(i) == phase = "move" \/ (phase = "process" /\ at > i)

\* The segments in the context are those of the modules that are started; only
\* the map may be there without.
Present ==
  /\ IsStarted(1) => SourceSegments \subseteq DOMAIN grid /\ product \in Products
  /\ ~IsStarted(1) => SourceSegments \cap DOMAIN grid = {}
  /\ HasSegment(T) <=> IsStarted(2)
  /\ IsStarted(MapperAt) => HasSegment(Map)

\* The segments have the sizes that follow from the source product.
ShapesFit ==
  /\ \A s \in SourceSegments \cap DOMAIN grid :
       /\ grid[s].sizeL = GetSegmentSize(s, product.rows[s])
       /\ grid[s].maxL = product.rows[s] - 1
       /\ MaxInMemoryL(s) <= grid[s].maxL
  /\ HasSegment(T) =>
       /\ grid[T].sizeL = grid["OLC"].sizeL
       /\ grid[T].maxL = grid["OLC"].maxL
       /\ MaxInMemoryL(T) <= grid[T].maxL
  /\ HasSegment(Map) => grid[Map] = NewMap(Map)

\* No module registers rows but its own, and no entry outlives its segment.
OwnEntries ==
  /\ \A m \in Module \ Syn : L(m) = None
  /\ \A s \in SourceSegments : \A m \in Module \ {"READER"} : lastComputedL[s][m] = None
  /\ \A m \in Module \ {Mapper, "VGT_WRITER"} : lastComputedL[Map][m] = None
  /\ \A s \in SourceSegments \cup {T} : \A m \in Module \ {"COL", Mapper} :
       firstRequiredL[s][m] = None
  /\ \A s \in SourceSegments \ {"OLC"} : firstRequiredL[s][Mapper] = None

Fresh ==
  /\ IsFresh(1) =>
       \A s \in SourceSegments : lastComputedL[s] = NoEntries /\ firstRequiredL[s] = NoEntries
  /\ IsFresh(2) => lastComputedL[T] = NoEntries /\ firstRequiredL[T] = NoEntries
  /\ IsFresh(MapperAt) => MappedL = None
  /\ phase = "start" =>
       \A s \in (SourceSegments \cup {T}) \cap DOMAIN grid : grid[s].minInMemoryL = 0

\* In a pass the collocation registers rows, at least one besides row 0, and
\* the modules after it follow to the same row.
Pace ==
  /\ \A m \in Syn :
       /\ L(m) = None => grid[T].minInMemoryL = 0 /\ ~TurnOver(SynAt(m))
       /\ L(m) # None => L(m) >= 1
       /\ grid[T].minInMemoryL <= L(m) + 1
       /\ L(m) <= MaxInMemoryL(T)
  /\ \A m, p \in Syn : SynAt(m) <= SynAt(p) =>
       /\ L(p) <= L(m)
       /\ TurnOver(SynAt(p)) \/ ~TurnOver(SynAt(m)) => L(p) = L(m)

Progress == Busy => Pace

\* The reader reads the whole window.
ReaderInv ==
  Busy =>
    \A s \in SourceSegments :
      /\ lastComputedL[s]["READER"] <= MaxInMemoryL(s)
      /\ TurnOver(1) => lastComputedL[s]["READER"] = MaxInMemoryL(s)

TrackedNow == Present /\ ShapesFit /\ OwnEntries /\ Fresh /\ Progress /\ ReaderInv

Tracked == phase # "failed" => TrackedNow

TypesFit ==
  /\ ProcessorTypeOK
  /\ segmentLineCount \in LineCounts
  /\ final \in [Module -> SUBSET Nat]

\* What the types say of the context and of the control.
LEMMA Types ==
  ASSUME TypesFit
  PROVE  /\ ContextTypeOK
         /\ \A s \in Segment : \A m \in Module :
              /\ lastComputedL[s][m] \in Entry /\ firstRequiredL[s][m] \in Entry
              /\ lastComputedL[s][m] \in Int /\ lastComputedL[s][m] >= -1
              /\ firstRequiredL[s][m] \in Int /\ firstRequiredL[s][m] >= -1
         /\ at \in DOMAIN Pipeline /\ at \in Int /\ at >= 1 /\ at <= MapperAt + 2
         /\ phase \in Phase
         /\ segmentLineCount \in Nat \ {0}
         /\ MapperAt \in {6, 7}
<1>1. ContextTypeOK /\ at \in DOMAIN Pipeline /\ phase \in Phase
  BY DEF TypesFit, ProcessorTypeOK
<1>2. \A s \in Segment : \A m \in Module :
         lastComputedL[s][m] \in Entry /\ firstRequiredL[s][m] \in Entry
  BY <1>1 DEF ContextTypeOK
<1>3. segmentLineCount \in Nat \ {0}
  BY TaskAssumption DEF TypesFit
<1>. QED
  BY <1>1, <1>2, <1>3, PipelineIs, SMTT(30) DEF Entry, None

\* The segments of the tasks.
LEMMA SegmentsAre ==
  /\ SourceSegments \subseteq Segment /\ T \in Segment /\ Map \in Segment /\ Coord \in Segment
  /\ T \notin SourceSegments /\ Map \notin SourceSegments /\ T # Map
  /\ Coord \notin SourceSegments /\ Coord # T /\ Coord # Map
  /\ ColSources \subseteq SourceSegments /\ "OLC" \in ColSources /\ "OLC_MIS" \in SourceSegments
  /\ "OLC" \in SourceSegments
BY MappingSegments DEF SourceSegments, ColSources, T, Map, Coord

\* What the control does at the end of a turn.
LEMMA TurnsPass ==
  ASSUME TypesFit
  PROVE  /\ phase = "process" /\ ProcessNext =>
              /\ Busy' /\ phase' # "failed" /\ at' \in DOMAIN Pipeline /\ phase' \in Phase
              /\ \A i \in DOMAIN Pipeline : TurnOver(i)' <=> (TurnOver(i) \/ i = at)
              /\ \A i \in DOMAIN Pipeline : IsStarted(i) /\ IsStarted(i)' /\ ~IsFresh(i)'
         /\ phase = "start" /\ StartNext =>
              /\ phase' \in {"start", "process"} /\ at' \in DOMAIN Pipeline /\ phase' \in Phase
              /\ Busy' <=> at = MapperAt + 2
              /\ phase' = "start" <=> at # MapperAt + 2
              /\ \A i \in DOMAIN Pipeline : IsStarted(i)' <=> (IsStarted(i) \/ i = at)
              /\ \A i \in DOMAIN Pipeline : IsFresh(i) /\ ~TurnOver(i)'
         /\ phase = "stop" /\ StopNext =>
              /\ ~Busy' /\ phase' \in {"start", "stop", "done"}
              /\ at' \in DOMAIN Pipeline /\ phase' \in Phase
              /\ phase' # "stop" <=> at = 1
              /\ \A i \in DOMAIN Pipeline : IsStarted(i)' <=> (IsStarted(i) /\ i # at)
              /\ \A i \in DOMAIN Pipeline : IsFresh(i)' <=> (~IsStarted(i) \/ i = at \/ at = 1)
<1>1. at \in 1..(MapperAt + 2) /\ DOMAIN Pipeline = 1..(MapperAt + 2) /\ Len(Pipeline) = MapperAt + 2
      /\ MapperAt \in {6, 7} /\ phase \in Phase
  BY Types, PipelineIs
<1>2. ASSUME phase = "process", ProcessNext
      PROVE  /\ Busy' /\ phase' # "failed" /\ at' \in DOMAIN Pipeline /\ phase' \in Phase
             /\ \A i \in DOMAIN Pipeline : TurnOver(i)' <=> (TurnOver(i) \/ i = at)
             /\ \A i \in DOMAIN Pipeline : IsStarted(i) /\ IsStarted(i)' /\ ~IsFresh(i)'
  BY <1>1, <1>2 DEF ProcessNext, Busy, TurnOver, IsStarted, IsFresh, Phase
<1>3. ASSUME phase = "start", StartNext
      PROVE  /\ phase' \in {"start", "process"} /\ at' \in DOMAIN Pipeline /\ phase' \in Phase
             /\ Busy' <=> at = MapperAt + 2
             /\ phase' = "start" <=> at # MapperAt + 2
             /\ \A i \in DOMAIN Pipeline : IsStarted(i)' <=> (IsStarted(i) \/ i = at)
             /\ \A i \in DOMAIN Pipeline : IsFresh(i) /\ ~TurnOver(i)'
  BY <1>1, <1>3 DEF StartNext, Busy, TurnOver, IsStarted, IsFresh, Phase
<1>4. ASSUME phase = "stop", StopNext
      PROVE  /\ ~Busy' /\ phase' \in {"start", "stop", "done"}
             /\ at' \in DOMAIN Pipeline /\ phase' \in Phase
             /\ phase' # "stop" <=> at = 1
             /\ \A i \in DOMAIN Pipeline : IsStarted(i)' <=> (IsStarted(i) /\ i # at)
             /\ \A i \in DOMAIN Pipeline : IsFresh(i)' <=> (~IsStarted(i) \/ i = at \/ at = 1)
  BY <1>1, <1>4 DEF StopNext, Busy, IsStarted, IsFresh, Phase
<1>. QED
  BY <1>2, <1>3, <1>4

\* The variables of the control keep their types.
ControlTypeOK ==
  /\ phase \in Phase
  /\ at \in DOMAIN Pipeline
  /\ source \in 1..Sources
  /\ exitCode \in {Running, OK, INCOMPLETE, FAILURE}

LEMMA ControlTypes ==
  ASSUME TypesFit,
         \/ phase = "process" /\ ProcessNext
         \/ phase = "start" /\ StartNext
         \/ phase = "stop" /\ StopNext
         \/ Throw
         \/ MoveSegmentsForward
         \/ UNCHANGED controlVars
  PROVE  ControlTypeOK'
<1>1. ControlTypeOK
  BY DEF TypesFit, ProcessorTypeOK, ControlTypeOK
<1>2. CASE phase = "process" /\ ProcessNext
  BY <1>1, <1>2, TurnsPass DEF ControlTypeOK, ProcessNext
<1>3. CASE phase = "start" /\ StartNext
  BY <1>1, <1>3, TurnsPass DEF ControlTypeOK, StartNext
<1>4. CASE phase = "stop" /\ StopNext
  <2>1. source' \in 1..Sources
    BY <1>1, <1>4, SourcesAssumption DEF ControlTypeOK, StopNext
  <2>. QED
    BY <1>1, <1>4, <2>1, TurnsPass DEF ControlTypeOK, StopNext
<1>5. CASE Throw
  BY <1>1, <1>5 DEF ControlTypeOK, Throw, ExitCodeOf, Phase
<1>6. CASE MoveSegmentsForward
  BY <1>1, <1>6, PipelineIs DEF ControlTypeOK, MoveSegmentsForward, Phase
<1>7. CASE UNCHANGED controlVars
  BY <1>1, <1>7 DEF ControlTypeOK, controlVars
<1>. QED
  BY <1>2, <1>3, <1>4, <1>5, <1>6, <1>7

-----------------------------------------------------------------------------
(* Starting modules. *)

\* The numbers of rows of a product.
LEMMA ProductIs ==
  ASSUME NEW p \in Products
  PROVE  /\ \A s \in SourceSegments : p.rows[s] \in Nat \ {0}
         /\ p.rows["OLC"] \in Nat \ {0}
         /\ \A s \in ColSources : \A l \in Rows(p) : p.sources[s][l] \subseteq 0..(p.rows[s] - 1)
BY ProductsAssumption, SegmentsAre DEF Rows

\* The context after segments have been added.
LEMMA Added ==
  ASSUME ContextTypeOK, NEW new, AddSegments(new), UNCHANGED <<lastComputedL, firstRequiredL>>,
         DOMAIN new \subseteq Segment, DOMAIN new \cap DOMAIN grid = {},
         \A s \in DOMAIN new : new[s] \in Grid
  PROVE  /\ ContextTypeOK'
         /\ DOMAIN grid' = DOMAIN grid \cup DOMAIN new
         /\ \A s \in DOMAIN grid : grid'[s] = grid[s]
         /\ \A s \in DOMAIN new : grid'[s] = new[s]
<1>1. grid' = [s \in DOMAIN grid \cup DOMAIN new |-> IF s \in DOMAIN new THEN new[s] ELSE grid[s]]
  BY DEF AddSegments
<1>2. /\ DOMAIN grid' = DOMAIN grid \cup DOMAIN new
      /\ \A s \in DOMAIN grid : grid'[s] = grid[s]
      /\ \A s \in DOMAIN new : grid'[s] = new[s]
  BY <1>1
<1>3. \A s \in DOMAIN grid : grid[s] \in Grid
  BY DEF ContextTypeOK
<1>4. grid' \in [DOMAIN grid' -> Grid]
  BY <1>1, <1>2, <1>3
<1>. QED
  BY <1>2, <1>4 DEF ContextTypeOK

\* As long as modules are started nothing is registered and all windows are at
\* row 0.
LEMMA StartKeepsFresh ==
  ASSUME TypesFit, Tracked, phase = "start", StartNext,
         UNCHANGED <<lastComputedL, firstRequiredL>>,
         \A s \in (SourceSegments \cup {T}) \cap DOMAIN grid' :
           grid'[s].minInMemoryL = 0 /\ MaxInMemoryL(s)' \in Nat,
         \A s \in SourceSegments \cup {T} : IsStarted(MapperAt)' => s \in DOMAIN grid'
  PROVE  OwnEntries' /\ Fresh' /\ Progress' /\ ReaderInv'
<1>1. TrackedNow /\ phase # "failed"
  BY DEF Tracked
<1>2. MapperAt \in DOMAIN Pipeline /\ 1 \in DOMAIN Pipeline /\ 2 \in DOMAIN Pipeline
  BY PipelineIs
<1>3. /\ \A s \in SourceSegments : lastComputedL[s] = NoEntries /\ firstRequiredL[s] = NoEntries
      /\ lastComputedL[T] = NoEntries /\ firstRequiredL[T] = NoEntries
      /\ MappedL = None
  BY <1>1, <1>2, TurnsPass DEF TrackedNow, Fresh
<1>4. OwnEntries'
  BY <1>1 DEF TrackedNow, OwnEntries, L
<1>5. Fresh'
  BY <1>3 DEF Fresh, MappedL
<1>6. Busy' => IsStarted(MapperAt)' /\ \A i \in DOMAIN Pipeline : ~TurnOver(i)'
  BY <1>2, TurnsPass DEF IsStarted
<1>7. \A m \in Module : NoEntries[m] = None
  BY DEF NoEntries
<1>8. ASSUME NEW m \in Syn PROVE L(m)' = None
  BY <1>3, <1>7, ModulesAre DEF L
<1>9. Progress'
  <2>. SUFFICES ASSUME Busy' PROVE Pace'
    BY DEF Progress
  <2>1. T \in DOMAIN grid' /\ grid'[T].minInMemoryL = 0 /\ MaxInMemoryL(T)' \in Nat
    BY <1>6
  <2>2. \A m \in Syn : ~TurnOver(SynAt(m))'
    BY <1>6, ModulesAre
  <2>. QED
    BY <1>8, <2>1, <2>2 DEF None, Pace
<1>10. ReaderInv'
  <2>. SUFFICES ASSUME Busy', NEW s \in SourceSegments
                PROVE  /\ lastComputedL'[s]["READER"] <= MaxInMemoryL(s)'
                       /\ TurnOver(1)' => lastComputedL'[s]["READER"] = MaxInMemoryL(s)'
    BY DEF ReaderInv
  <2>1. ~TurnOver(1)' /\ s \in DOMAIN grid' /\ MaxInMemoryL(s)' \in Nat
    BY <1>2, <1>6
  <2>2. lastComputedL'[s]["READER"] = None
    BY <1>3, <1>7, ModulesAre
  <2>. QED
    BY <2>1, <2>2 DEF None
<1>. QED
  BY <1>4, <1>5, <1>9, <1>10

\* The reader adds the source segments.
LEMMA ReaderStartStep ==
  ASSUME TypesFit, Tracked, ReaderStart
  PROVE  TrackedNow' /\ ContextTypeOK'
<1>1. /\ phase = "start" /\ at = 1 /\ StartNext
      /\ UNCHANGED <<lastComputedL, firstRequiredL, segmentLineCount>>
  BY Types, TurnIs DEF ReaderStart, Turn
<1>2. TrackedNow
  BY <1>1 DEF Tracked
<1>3. /\ 1 \in DOMAIN Pipeline /\ 2 \in DOMAIN Pipeline /\ MapperAt \in DOMAIN Pipeline
      /\ ~IsStarted(1) /\ ~IsStarted(2) /\ ~IsStarted(MapperAt)
      /\ IsStarted(1)' /\ ~IsStarted(2)' /\ ~IsStarted(MapperAt)' /\ phase' = "start"
  <2>1. 1 \in DOMAIN Pipeline /\ 2 \in DOMAIN Pipeline /\ MapperAt \in DOMAIN Pipeline
    BY PipelineIs
  <2>2. ~IsStarted(1) /\ ~IsStarted(2) /\ ~IsStarted(MapperAt)
    BY <1>1, PipelineIs DEF IsStarted, Busy
  <2>. QED
    BY <1>1, <2>1, <2>2, TurnsPass, PipelineIs, SMTT(30)
<1>4. /\ SourceSegments \cap DOMAIN grid = {} /\ T \notin DOMAIN grid
  BY <1>2, <1>3 DEF TrackedNow, Present, HasSegment
<1>5. PICK p \in Products :
        /\ product' = p
        /\ AddSegments([s \in SourceSegments \ DOMAIN grid |->
                          NewGrid(GetSegmentSize(s, p.rows[s]), p.rows[s] - 1)])
  BY DEF ReaderStart
<1> DEFINE new == [s \in SourceSegments |-> NewGrid(GetSegmentSize(s, p.rows[s]), p.rows[s] - 1)]
<1>6. AddSegments(new)
  <2>1. SourceSegments \ DOMAIN grid = SourceSegments
    BY <1>4
  <2>. QED
    BY <1>5, <2>1
<1>7. ASSUME NEW s \in SourceSegments
      PROVE  /\ new[s] \in Grid /\ new[s].minInMemoryL = 0
             /\ new[s].sizeL = GetSegmentSize(s, p.rows[s])
             /\ new[s].maxL = p.rows[s] - 1
             /\ new[s].sizeL \in Nat \ {0} /\ new[s].sizeL - 1 <= new[s].maxL
  <2>1. p.rows[s] \in Nat \ {0} /\ segmentLineCount \in Nat \ {0}
    BY ProductIs, Types
  <2>2. GetSegmentSize(s, p.rows[s]) \in Nat \ {0} /\ GetSegmentSize(s, p.rows[s]) <= p.rows[s]
    BY <2>1 DEF GetSegmentSize, Smaller
  <2>. QED
    BY <2>1, <2>2 DEF NewGrid, Grid
<1> HIDE DEF new
<1>8. DOMAIN new = SourceSegments
  BY DEF new
<1>9. /\ ContextTypeOK'
      /\ DOMAIN grid' = DOMAIN grid \cup SourceSegments
      /\ \A s \in DOMAIN grid : grid'[s] = grid[s]
      /\ \A s \in SourceSegments : grid'[s] = new[s]
  BY <1>1, <1>4, <1>6, <1>7, <1>8, Added, SegmentsAre, Types
<1>10. ASSUME NEW s \in SourceSegments
       PROVE  /\ grid'[s].sizeL = GetSegmentSize(s, product.rows[s])'
              /\ grid'[s].maxL = product'.rows[s] - 1
              /\ grid'[s].minInMemoryL = 0
              /\ MaxInMemoryL(s)' \in Nat /\ MaxInMemoryL(s)' <= grid'[s].maxL
  <2>1. GetSegmentSize(s, product.rows[s])' = GetSegmentSize(s, p.rows[s])
    BY <1>1, <1>5 DEF GetSegmentSize
  <2>. QED
    BY <1>5, <1>7, <1>9, <2>1 DEF MaxInMemoryL
<1>11. T \notin DOMAIN grid' /\ (Map \in DOMAIN grid' <=> Map \in DOMAIN grid)
  BY <1>4, <1>9, SegmentsAre
<1>12. Present'
  BY <1>3, <1>5, <1>9, <1>11 DEF Present, HasSegment
<1>13. ShapesFit'
  BY <1>2, <1>9, <1>10, <1>11 DEF TrackedNow, ShapesFit, HasSegment, NewMap
<1>14. OwnEntries' /\ Fresh' /\ Progress' /\ ReaderInv'
  BY <1>1, <1>3, <1>10, <1>11, StartKeepsFresh
<1>. QED
  BY <1>9, <1>12, <1>13, <1>14 DEF TrackedNow

\* The collocation adds its segment, as long as OLC.
LEMMA ColStartStep ==
  ASSUME TypesFit, Tracked, ColStart
  PROVE  TrackedNow' /\ ContextTypeOK'
<1>1. /\ phase = "start" /\ at = 2 /\ StartNext
      /\ UNCHANGED <<lastComputedL, firstRequiredL, segmentLineCount, product>>
      /\ T \notin DOMAIN grid
      /\ AddSegments([s \in {T} |-> NewGrid(grid["OLC"].sizeL, grid["OLC"].maxL)])
  BY Types, TurnIs DEF ColStart, Turn, dataVars, HasSegment
<1>2. TrackedNow
  BY <1>1 DEF Tracked
<1>3. /\ 1 \in DOMAIN Pipeline /\ 2 \in DOMAIN Pipeline /\ MapperAt \in DOMAIN Pipeline
      /\ IsStarted(1) /\ ~IsStarted(MapperAt)
      /\ IsStarted(1)' /\ IsStarted(2)' /\ ~IsStarted(MapperAt)' /\ phase' = "start"
  <2>1. 1 \in DOMAIN Pipeline /\ 2 \in DOMAIN Pipeline /\ MapperAt \in DOMAIN Pipeline
    BY PipelineIs
  <2>2. IsStarted(1) /\ ~IsStarted(MapperAt)
    BY <1>1, PipelineIs DEF IsStarted, Busy
  <2>. QED
    BY <1>1, <2>1, <2>2, TurnsPass, PipelineIs
<1>4. SourceSegments \subseteq DOMAIN grid /\ product \in Products /\ "OLC" \in DOMAIN grid
  BY <1>2, <1>3, SegmentsAre DEF TrackedNow, Present
<1> DEFINE new == [s \in {T} |-> NewGrid(grid["OLC"].sizeL, grid["OLC"].maxL)]
<1>5. /\ new[T] \in Grid /\ new[T].minInMemoryL = 0
      /\ new[T].sizeL = grid["OLC"].sizeL
      /\ new[T].maxL = grid["OLC"].maxL
      /\ new[T].sizeL \in Nat \ {0} /\ new[T].sizeL - 1 <= new[T].maxL
  <2>1. /\ grid["OLC"].sizeL \in Nat \ {0} /\ grid["OLC"].maxL \in Nat
        /\ MaxInMemoryL("OLC") <= grid["OLC"].maxL
        /\ MaxInMemoryL("OLC") = grid["OLC"].minInMemoryL + grid["OLC"].sizeL - 1
        /\ grid["OLC"].minInMemoryL \in Nat
    BY <1>2, <1>4, Types, WindowType, SegmentsAre DEF TrackedNow, ShapesFit
  <2>. QED
    BY <2>1 DEF NewGrid, Grid
<1>6. DOMAIN new = {T} /\ AddSegments(new)
  BY <1>1
<1> HIDE DEF new
<1>7. /\ ContextTypeOK'
      /\ DOMAIN grid' = DOMAIN grid \cup {T}
      /\ \A s \in DOMAIN grid : grid'[s] = grid[s]
      /\ grid'[T] = new[T]
  <2>1. DOMAIN new \subseteq Segment /\ DOMAIN new \cap DOMAIN grid = {}
    BY <1>1, <1>6, SegmentsAre
  <2>2. \A s \in DOMAIN new : new[s] \in Grid
    BY <1>5, <1>6
  <2>3. /\ ContextTypeOK'
        /\ DOMAIN grid' = DOMAIN grid \cup DOMAIN new
        /\ \A s \in DOMAIN grid : grid'[s] = grid[s]
        /\ \A s \in DOMAIN new : grid'[s] = new[s]
    BY <1>1, <1>6, <2>1, <2>2, Added, Types
  <2>. QED
    BY <1>6, <2>3
<1>8. MaxInMemoryL(T)' \in Nat /\ MaxInMemoryL(T)' <= grid'[T].maxL
  BY <1>5, <1>7 DEF MaxInMemoryL
<1>9. \A s \in DOMAIN grid : MaxInMemoryL(s)' = MaxInMemoryL(s)
  BY <1>7 DEF MaxInMemoryL
<1>10. Present'
  BY <1>1, <1>3, <1>4, <1>7 DEF Present, HasSegment
<1>11. ShapesFit'
  <2>1. SourceSegments \cap DOMAIN grid' = SourceSegments \cap DOMAIN grid
    BY <1>4, <1>7
  <2>2. Map \in DOMAIN grid' => Map \in DOMAIN grid
    BY <1>7, SegmentsAre
  <2>3. /\ \A s \in SourceSegments :
             /\ grid[s].sizeL = GetSegmentSize(s, product.rows[s])
             /\ grid[s].maxL = product.rows[s] - 1
             /\ MaxInMemoryL(s) <= grid[s].maxL
        /\ Map \in DOMAIN grid => grid[Map] = NewMap(Map)
    BY <1>2, <1>4 DEF TrackedNow, ShapesFit, HasSegment
  <2>4. \A s \in SourceSegments :
             /\ grid'[s].sizeL = GetSegmentSize(s, product.rows[s])'
             /\ grid'[s].maxL = product'.rows[s] - 1
             /\ MaxInMemoryL(s)' <= grid'[s].maxL
    BY <1>1, <1>4, <1>7, <1>9, <2>3 DEF GetSegmentSize
  <2>5. grid'["OLC"] = grid["OLC"]
    BY <1>4, <1>7
  <2>6. Map \in DOMAIN grid' => grid'[Map] = NewMap(Map)'
    BY <1>7, <2>2, <2>3 DEF NewMap
  <2>. QED
    BY <1>5, <1>7, <1>8, <2>4, <2>5, <2>6 DEF ShapesFit, HasSegment
<1>12. \A s \in (SourceSegments \cup {T}) \cap DOMAIN grid' :
         grid'[s].minInMemoryL = 0 /\ MaxInMemoryL(s)' \in Nat
  <2>1. \A s \in SourceSegments : grid[s].minInMemoryL = 0 /\ MaxInMemoryL(s) \in Nat
    BY <1>1, <1>2, <1>4, Types, WindowType DEF TrackedNow, Fresh
  <2>. QED
    BY <1>4, <1>5, <1>7, <1>8, <1>9, <2>1
<1>13. OwnEntries' /\ Fresh' /\ Progress' /\ ReaderInv'
  BY <1>1, <1>3, <1>12, StartKeepsFresh
<1>. QED
  BY <1>7, <1>10, <1>11, <1>13 DEF TrackedNow

\* Other modules add target segments only, and the mapper adds the map unless
\* it is there.
LEMMA OtherStartStep ==
  ASSUME TypesFit, Tracked, phase = "start", at \notin {1, 2}, StartNext,
         UNCHANGED <<lastComputedL, firstRequiredL, segmentLineCount, product>>,
         ContextTypeOK',
         DOMAIN grid \subseteq DOMAIN grid',
         \A s \in DOMAIN grid : grid'[s] = grid[s],
         \A s \in SourceSegments \cup {T} : s \in DOMAIN grid' => s \in DOMAIN grid,
         Map \in DOMAIN grid' => Map \in DOMAIN grid \/ grid'[Map] = NewMap(Map),
         at = MapperAt => Map \in DOMAIN grid'
  PROVE  TrackedNow'
<1>1. TrackedNow
  BY DEF Tracked
<1>2. /\ 1 \in DOMAIN Pipeline /\ 2 \in DOMAIN Pipeline /\ MapperAt \in DOMAIN Pipeline
      /\ IsStarted(1) /\ IsStarted(2) /\ IsStarted(1)' /\ IsStarted(2)'
      /\ IsStarted(MapperAt)' => IsStarted(MapperAt) \/ at = MapperAt
  <2>1. 1 \in DOMAIN Pipeline /\ 2 \in DOMAIN Pipeline /\ MapperAt \in DOMAIN Pipeline
    BY PipelineIs
  <2>2. IsStarted(1) /\ IsStarted(2)
    BY Types, PipelineIs DEF IsStarted
  <2>. QED
    BY <2>1, <2>2, TurnsPass
<1>3. \A s \in DOMAIN grid : MaxInMemoryL(s)' = MaxInMemoryL(s)
  BY DEF MaxInMemoryL
<1>4. SourceSegments \subseteq DOMAIN grid /\ T \in DOMAIN grid /\ product \in Products
  BY <1>1, <1>2 DEF TrackedNow, Present, HasSegment
<1>5. Present'
  BY <1>1, <1>2, <1>4 DEF TrackedNow, Present, HasSegment
<1>6. ShapesFit'
  BY <1>1, <1>3, <1>4, SegmentsAre DEF TrackedNow, ShapesFit, HasSegment, NewMap, GetSegmentSize
<1>7. \A s \in SourceSegments \cup {T} : grid'[s].minInMemoryL = 0 /\ MaxInMemoryL(s)' \in Nat
  BY <1>1, <1>3, <1>4, Types, WindowType DEF TrackedNow, Fresh
<1>8. OwnEntries' /\ Fresh' /\ Progress' /\ ReaderInv'
  BY <1>4, <1>7, StartKeepsFresh
<1>. QED
  BY <1>5, <1>6, <1>8 DEF TrackedNow

LEMMA IdleStartStep ==
  ASSUME TypesFit, Tracked, phase = "start", at \notin {1, 2, MapperAt}, StartNext,
         UNCHANGED contextVars, UNCHANGED <<segmentLineCount, product>>
  PROVE  TrackedNow' /\ ContextTypeOK'
<1>1. ContextTypeOK'
  BY Types DEF contextVars, ContextTypeOK
<1>. QED
  BY <1>1, OtherStartStep DEF contextVars

-----------------------------------------------------------------------------
(* Processing. *)

\* A module ends its turn and registers rows, or the context refuses them.
LEMMA RegisterEffect ==
  ASSUME ContextTypeOK, NEW m \in Module, NEW last, NEW first, Register(m, last, first),
         \A s \in DOMAIN last : last[s] \in Int,
         \A s \in DOMAIN first : first[s] \in Int
  PROVE  \/ /\ \E s \in DOMAIN last : IsInvalidRow(s, m, last[s])
            /\ Throw
         \/ /\ ProcessNext
            /\ ContextTypeOK'
            /\ UNCHANGED grid
            /\ \A s \in Segment : \A p \in Module :
                 /\ lastComputedL'[s][p] =
                      IF p = m /\ s \in DOMAIN last THEN EntryOf(last[s]) ELSE lastComputedL[s][p]
                 /\ firstRequiredL'[s][p] =
                      IF p = m /\ s \in DOMAIN first THEN EntryOf(first[s]) ELSE firstRequiredL[s][p]
<1>1. CASE \E s \in DOMAIN last : IsInvalidRow(s, m, last[s])
  BY <1>1 DEF Register
<1>2. CASE \A s \in DOMAIN last : ~IsInvalidRow(s, m, last[s])
  <2>1. /\ lastComputedL' = Registered(lastComputedL, m, last)
        /\ firstRequiredL' = Registered(firstRequiredL, m, first)
        /\ UNCHANGED grid
        /\ ProcessNext
    BY <1>2 DEF Register
  <2>2. /\ lastComputedL \in [Segment -> [Module -> Entry]]
        /\ firstRequiredL \in [Segment -> [Module -> Entry]]
    BY DEF ContextTypeOK
  <2>3. /\ lastComputedL' \in [Segment -> [Module -> Entry]]
        /\ \A s \in Segment : \A p \in Module :
             lastComputedL'[s][p] =
               IF p = m /\ s \in DOMAIN last THEN EntryOf(last[s]) ELSE lastComputedL[s][p]
    BY <2>1, <2>2, Registration
  <2>4. /\ firstRequiredL' \in [Segment -> [Module -> Entry]]
        /\ \A s \in Segment : \A p \in Module :
             firstRequiredL'[s][p] =
               IF p = m /\ s \in DOMAIN first THEN EntryOf(first[s]) ELSE firstRequiredL[s][p]
    BY <2>1, <2>2, Registration
  <2>5. ContextTypeOK'
    BY <2>1, <2>3, <2>4 DEF ContextTypeOK
  <2>. QED
    BY <2>1, <2>3, <2>4, <2>5
<1>. QED
  BY <1>1, <1>2

\* What holds while modules process: the segments are there, and the windows
\* are those of the source product.
LEMMA InAPass ==
  ASSUME TypesFit, TrackedNow, Busy
  PROVE  /\ SourceSegments \cup {T, Map} \subseteq DOMAIN grid
         /\ product \in Products
         /\ grid[Map] = NewMap(Map) /\ grid[Map].minInMemoryL = 0
         /\ grid[Map].maxL = MaxTargetL /\ MaxInMemoryL(Map) = MaxTargetL
         /\ \A s \in SourceSegments \cup {T, Map} :
              /\ s \in Segment
              /\ grid[s].minInMemoryL \in Nat /\ grid[s].sizeL \in Nat \ {0} /\ grid[s].maxL \in Nat
              /\ MaxInMemoryL(s) \in Nat /\ MaxInMemoryL(s) <= grid[s].maxL
              /\ MaxInMemoryL(s) = grid[s].minInMemoryL + grid[s].sizeL - 1
         /\ grid[T].sizeL = grid["OLC"].sizeL /\ grid[T].maxL = grid["OLC"].maxL
         /\ grid[T].sizeL = Smaller(product.rows["OLC"], segmentLineCount)
         /\ grid[T].maxL = product.rows["OLC"] - 1
         /\ Rows(product) = 0..grid[T].maxL
<1>1. IsStarted(1) /\ IsStarted(2) /\ IsStarted(MapperAt)
  BY DEF IsStarted
<1>2. SourceSegments \cup {T, Map} \subseteq DOMAIN grid /\ product \in Products
  BY <1>1 DEF TrackedNow, Present, HasSegment
<1>3. MaxTargetL \in Nat
  BY MappingAssumption
<1>4. /\ grid[Map] = NewMap(Map) /\ grid[Map].minInMemoryL = 0
      /\ grid[Map].maxL = MaxTargetL /\ MaxInMemoryL(Map) = MaxTargetL
  <2>1. grid[Map] = NewGrid(MaxTargetL + 1, MaxTargetL)
    BY <1>2, SegmentsAre DEF TrackedNow, ShapesFit, HasSegment, NewMap
  <2>. QED
    BY <1>3, <2>1, SegmentsAre DEF NewGrid, MaxInMemoryL, NewMap
<1>5. \A s \in SourceSegments \cup {T, Map} :
        /\ s \in Segment
        /\ grid[s].minInMemoryL \in Nat /\ grid[s].sizeL \in Nat \ {0} /\ grid[s].maxL \in Nat
        /\ MaxInMemoryL(s) \in Nat
        /\ MaxInMemoryL(s) = grid[s].minInMemoryL + grid[s].sizeL - 1
  BY <1>2, Types, WindowType
<1>6. \A s \in SourceSegments \cup {T, Map} : MaxInMemoryL(s) <= grid[s].maxL
  BY <1>2, <1>3, <1>4 DEF TrackedNow, ShapesFit, HasSegment
<1>7. /\ grid[T].sizeL = grid["OLC"].sizeL /\ grid[T].maxL = grid["OLC"].maxL
      /\ grid["OLC"].sizeL = GetSegmentSize("OLC", product.rows["OLC"])
      /\ grid["OLC"].maxL = product.rows["OLC"] - 1
  BY <1>2, SegmentsAre DEF TrackedNow, ShapesFit, HasSegment
<1>8. GetSegmentSize("OLC", product.rows["OLC"]) = Smaller(product.rows["OLC"], segmentLineCount)
  BY DEF GetSegmentSize
<1>. QED
  BY <1>2, <1>4, <1>5, <1>6, <1>7, <1>8 DEF Rows

\* A turn that leaves the windows alone, and registers what its module may
\* register; the entries of the SYN grid are treated below.
LEMMA ProcessStep ==
  ASSUME TypesFit, TrackedNow, phase = "process", ProcessNext,
         UNCHANGED <<grid, product, segmentLineCount>>,
         \A m \in Module \ Syn : L(m)' = L(m),
         \A s \in SourceSegments : \A m \in Module \ {"READER"} :
           lastComputedL'[s][m] = lastComputedL[s][m],
         \A m \in Module \ {Mapper, "VGT_WRITER"} : lastComputedL'[Map][m] = lastComputedL[Map][m],
         \A s \in SourceSegments \cup {T} : \A m \in Module \ {"COL", Mapper} :
           firstRequiredL'[s][m] = firstRequiredL[s][m],
         \A s \in SourceSegments \ {"OLC"} : firstRequiredL'[s][Mapper] = firstRequiredL[s][Mapper],
         Pace', ReaderInv'
  PROVE  TrackedNow'
<1>1. /\ Busy /\ Busy' /\ phase' # "start"
      /\ \A i \in DOMAIN Pipeline : IsStarted(i) /\ IsStarted(i)' /\ ~IsFresh(i)'
  BY TurnsPass DEF Busy, IsFresh
<1>2. 1 \in DOMAIN Pipeline /\ 2 \in DOMAIN Pipeline /\ MapperAt \in DOMAIN Pipeline
  BY PipelineIs
<1>3. Present'
  BY <1>1, <1>2 DEF TrackedNow, Present, HasSegment
<1>4. ShapesFit'
  BY DEF TrackedNow, ShapesFit, HasSegment, GetSegmentSize, MaxInMemoryL, NewMap
<1>5. OwnEntries'
  BY DEF TrackedNow, OwnEntries
<1>6. Fresh'
  BY <1>1, <1>2 DEF Fresh
<1>7. Progress'
  BY DEF Progress
<1>. QED
  BY <1>3, <1>4, <1>5, <1>6, <1>7 DEF TrackedNow

\* A turn that registers no rows of the SYN grid and of the source segments.
LEMMA OtherTurn ==
  ASSUME TypesFit, TrackedNow, phase = "process", ProcessNext, at \notin {1, 2, 3, 4},
         at = 6 => MapperAt = 6,
         UNCHANGED <<grid, product, segmentLineCount>>,
         \A s \in SourceSegments \cup {T} : \A m \in Module :
           lastComputedL'[s][m] = lastComputedL[s][m],
         \A m \in Module \ {Mapper, "VGT_WRITER"} : lastComputedL'[Map][m] = lastComputedL[Map][m],
         \A s \in SourceSegments \cup {T} : \A m \in Module \ {Mapper} :
           firstRequiredL'[s][m] = firstRequiredL[s][m],
         \A s \in SourceSegments \ {"OLC"} : firstRequiredL'[s][Mapper] = firstRequiredL[s][Mapper]
  PROVE  TrackedNow'
<1>1. Busy /\ \A i \in DOMAIN Pipeline : TurnOver(i)' <=> (TurnOver(i) \/ i = at)
  BY TurnsPass DEF Busy
<1>2. \A m \in Syn : SynAt(m) \in DOMAIN Pipeline /\ SynAt(m) # at /\ m \in Module
  BY Types, ModulesAre
<1>3. \A m \in Syn : L(m)' = L(m) /\ (TurnOver(SynAt(m))' <=> TurnOver(SynAt(m)))
  BY <1>1, <1>2 DEF L
<1>4. Pace
  BY <1>1 DEF TrackedNow, Progress
<1>5. Pace'
  BY <1>3, <1>4 DEF Pace, MaxInMemoryL
<1>6. ReaderInv'
  <2>1. 1 \in DOMAIN Pipeline /\ "READER" \in Module
    BY PipelineIs, ModulesAre
  <2>. QED
    BY <1>1, <2>1 DEF TrackedNow, ReaderInv, MaxInMemoryL
<1>7. \A m \in Module : L(m)' = L(m)
  BY DEF L
<1>. QED
  BY <1>5, <1>6, <1>7, ProcessStep

\* A turn in which nothing is registered.
LEMMA IdleTurn ==
  ASSUME TypesFit, TrackedNow, phase = "process", ProcessNext, at \notin {1, 2, 3, 4},
         at = 6 => MapperAt = 6, UNCHANGED contextVars, UNCHANGED <<product, segmentLineCount>>
  PROVE  TrackedNow' /\ ContextTypeOK'
<1>1. UNCHANGED <<grid, lastComputedL, firstRequiredL>>
  BY DEF contextVars
<1>2. ContextTypeOK'
  BY <1>1, Types DEF ContextTypeOK
<1>. QED
  BY <1>1, <1>2, OtherTurn

\* The reader reads the windows to their ends.
LEMMA ReaderTurn ==
  ASSUME TypesFit, TrackedNow, ReaderProcess
  PROVE  /\ TrackedNow' /\ ContextTypeOK' /\ phase = "process" /\ ProcessNext /\ at = 1
         /\ UNCHANGED grid
         /\ \A s \in Segment : firstRequiredL'[s] = firstRequiredL[s]
         /\ lastComputedL'[T] = lastComputedL[T] /\ lastComputedL'[Map] = lastComputedL[Map]
<1> DEFINE last == [s \in Unread |-> MaxInMemoryL(s)]
           none == << >>
<1>1. /\ phase = "process" /\ at = 1 /\ Busy
      /\ Register("READER", last, none)
      /\ UNCHANGED <<segmentLineCount, product>>
  BY Types, TurnIs DEF ReaderProcess, Turn, dataVars, Busy
<1>2. Unread \subseteq SourceSegments
  BY DEF Unread
<1>3. ASSUME NEW s \in SourceSegments
      PROVE  /\ MaxInMemoryL(s) \in Nat /\ MaxInMemoryL(s) <= grid[s].maxL
             /\ grid[s].maxL \in Nat
             /\ lastComputedL[s]["READER"] \in Int
             /\ lastComputedL[s]["READER"] <= MaxInMemoryL(s)
             /\ s \notin Unread => lastComputedL[s]["READER"] = MaxInMemoryL(s)
  <2>1. /\ MaxInMemoryL(s) \in Nat /\ MaxInMemoryL(s) <= grid[s].maxL /\ grid[s].maxL \in Nat
        /\ lastComputedL[s]["READER"] \in Int
    BY <1>1, InAPass, Types, ModulesAre
  <2>2. lastComputedL[s]["READER"] <= MaxInMemoryL(s)
    BY <1>1 DEF TrackedNow, ReaderInv
  <2>3. s \notin Unread => lastComputedL[s]["READER"] = MaxInMemoryL(s)
    BY <2>1, <2>2 DEF Unread, HasLastComputedL, GetLastComputedL
  <2>. QED
    BY <2>1, <2>2, <2>3
<1>4. DOMAIN last = Unread /\ DOMAIN none = {} /\ \A s \in Unread : last[s] = MaxInMemoryL(s)
  OBVIOUS
<1> HIDE DEF last, none
<1>5. ~ \E s \in DOMAIN last : IsInvalidRow(s, "READER", last[s])
  BY <1>2, <1>3, <1>4 DEF IsInvalidRow
<1>6. /\ ProcessNext /\ ContextTypeOK' /\ UNCHANGED grid
      /\ \A s \in Segment : \A p \in Module :
           /\ lastComputedL'[s][p] =
                IF p = "READER" /\ s \in DOMAIN last THEN EntryOf(last[s]) ELSE lastComputedL[s][p]
           /\ firstRequiredL'[s][p] =
                IF p = "READER" /\ s \in DOMAIN none THEN EntryOf(none[s]) ELSE firstRequiredL[s][p]
  <2>1. "READER" \in Module /\ ContextTypeOK
    BY ModulesAre, Types
  <2>2. \A s \in DOMAIN last : last[s] \in Int
    BY <1>2, <1>3, <1>4
  <2>. QED
    BY <1>1, <1>4, <1>5, <2>1, <2>2, RegisterEffect
<1>7. \A s \in Segment : \A p \in Module : firstRequiredL'[s][p] = firstRequiredL[s][p]
  BY <1>4, <1>6
<1>8. \A s \in Segment : \A p \in Module :
        p # "READER" \/ s \notin SourceSegments => lastComputedL'[s][p] = lastComputedL[s][p]
  BY <1>2, <1>4, <1>6
<1>9. \A s \in SourceSegments : lastComputedL'[s]["READER"] = MaxInMemoryL(s)
  <2>1. \A s \in SourceSegments : s \in Segment
    BY SegmentsAre
  <2>. QED
    BY <1>3, <1>4, <1>6, <2>1, ModulesAre DEF EntryOf
<1>10. ReaderInv'
  BY <1>3, <1>6, <1>9 DEF ReaderInv, MaxInMemoryL
<1>11. Pace'
  <2>1. \A m \in Syn : SynAt(m) \in DOMAIN Pipeline /\ SynAt(m) # at /\ m \in Module
    BY <1>1, ModulesAre, PipelineIs
  <2>2. \A m \in Syn : L(m)' = L(m) /\ (TurnOver(SynAt(m))' <=> TurnOver(SynAt(m)))
    BY <1>1, <1>6, <1>8, <2>1, TurnsPass, SegmentsAre DEF L
  <2>3. Pace
    BY <1>1 DEF TrackedNow, Progress
  <2>. QED
    BY <1>6, <2>2, <2>3 DEF Pace, MaxInMemoryL
<1>12. /\ \A s \in Segment : firstRequiredL'[s] = firstRequiredL[s]
       /\ lastComputedL'[T] = lastComputedL[T] /\ lastComputedL'[Map] = lastComputedL[Map]
  <2>1. ContextTypeOK
    BY Types
  <2>. QED
    BY <1>6, <1>7, <1>8, <2>1, SegmentsAre DEF ContextTypeOK
<1>13. TrackedNow'
  <2>1. \A m \in Module : L(m)' = L(m)
    BY <1>12 DEF L
  <2>. QED
    BY <1>1, <1>6, <1>8, <1>10, <1>11, <1>12, <2>1, SegmentsAre, ProcessStep
<1>. QED
  BY <1>1, <1>6, <1>12, <1>13

\* Behind the collocation the context lets every module compute to the row of
\* the collocation.
LEMMA Reach ==
  ASSUME TypesFit, TrackedNow, phase = "process", at \in 3..MapperAt
  PROVE  /\ GetLastComputableL(T, Pipeline[at]) = L("COL")
         /\ L("COL") \in Nat /\ L("COL") >= 1 /\ L("COL") <= MaxInMemoryL(T)
         /\ grid[T].minInMemoryL <= L("COL") + 1
         /\ \A m \in Syn : SynAt(m) < at => L(m) = L("COL")
         /\ \A m \in Syn : L(m) <= L("COL")
<1>1. Busy /\ Pace
  BY DEF Busy, TrackedNow, Progress
<1>2. "COL" \in Syn /\ SynAt("COL") = 2 /\ \A m \in Syn : SynAt(m) >= 2
  BY ModulesAre
<1>3. /\ MapperAt \in Int /\ 3..MapperAt \subseteq DOMAIN Pipeline /\ Pipeline[at] \in Module
      /\ TurnOver(2) /\ \A m \in Syn : SynAt(m) < at => TurnOver(SynAt(m))
  BY PipelineIs, SMTT(30) DEF TurnOver, Module, Range
<1>4. /\ T \in Segment /\ T \in DOMAIN grid
      /\ L("COL") \in Int /\ L("COL") >= -1
      /\ MaxInMemoryL(T) \in Nat /\ MaxInMemoryL(T) <= grid[T].maxL
  BY <1>1, InAPass, Types, SegmentsAre, ModulesAre DEF L
<1>5. L("COL") # None /\ L("COL") >= 1 /\ L("COL") <= MaxInMemoryL(T)
      /\ grid[T].minInMemoryL <= L("COL") + 1
  BY <1>1, <1>2, <1>3 DEF Pace
<1>6. \A m \in Syn : SynAt(m) < at => L(m) = L("COL")
  BY <1>1, <1>2, <1>3 DEF Pace
<1>7. \A m \in Syn : L(m) <= L("COL")
  BY <1>1, <1>2 DEF Pace
<1>8. GetLastComputableL(T, Pipeline[at]) = L("COL")
  <2>1. "COL" \in Predecessors(Pipeline[at])
    BY PredecessorsAre
  <2>2. \A p \in Predecessors(Pipeline[at]) : L(p) > 0 => p \in Syn /\ SynAt(p) < at
    <3>1. \A p \in Module \ Syn : L(p) = None
      BY DEF TrackedNow, OwnEntries
    <3>. QED
      BY <3>1, PredecessorsAre DEF None
  <2>3. /\ GetLastComputableL(T, Pipeline[at]) \in Nat
        /\ \A p \in Predecessors(Pipeline[at]) :
             lastComputedL[T][p] > 0 => GetLastComputableL(T, Pipeline[at]) <= lastComputedL[T][p]
        /\ \A x \in Int :
             /\ x <= MaxInMemoryL(T) /\ x <= grid[T].maxL
             /\ \A p \in Predecessors(Pipeline[at]) : lastComputedL[T][p] > 0 => x <= lastComputedL[T][p]
             => x <= GetLastComputableL(T, Pipeline[at])
    BY <1>3, <1>4, Types, LastComputable
  <2>4. GetLastComputableL(T, Pipeline[at]) <= L("COL")
    BY <1>4, <1>5, <2>1, <2>3 DEF L
  <2>5. L("COL") <= GetLastComputableL(T, Pipeline[at])
    <3>1. L("COL") <= MaxInMemoryL(T) /\ L("COL") <= grid[T].maxL
      BY <1>4, <1>5, InAPass, <1>1
    <3>2. \A p \in Predecessors(Pipeline[at]) : lastComputedL[T][p] > 0 => L("COL") <= lastComputedL[T][p]
      BY <1>4, <1>6, <2>2 DEF L
    <3>. QED
      BY <1>4, <2>3, <3>1, <3>2
  <2>. QED
    BY <1>4, <2>3, <2>4, <2>5
<1>. QED
  BY <1>4, <1>5, <1>6, <1>7, <1>8

\* What is left by a turn in which module m registers row x of the SYN grid.
SynTurned(m, x, first) ==
  /\ TrackedNow' /\ ContextTypeOK' /\ ProcessNext /\ UNCHANGED grid
  /\ L(m)' = x /\ \A p \in Module \ {m} : L(p)' = L(p)
  /\ \A s \in Segment \ {T} : lastComputedL'[s] = lastComputedL[s]
  /\ \A s \in Segment : \A p \in Module :
       firstRequiredL'[s][p] =
         IF p = m /\ s \in DOMAIN first THEN EntryOf(first[s]) ELSE firstRequiredL[s][p]

\* A module that registers rows of the SYN grid: the collocation in its reach,
\* the others up to the row of the collocation.
LEMMA SynTurn ==
  ASSUME TypesFit, TrackedNow, phase = "process", NEW m \in Syn, Pipeline[at] = m,
         NEW x \in Nat, L(m) <= x, 1 <= x, x <= MaxInMemoryL(T), m # "COL" => x = L("COL"),
         NEW first, \A s \in DOMAIN first : first[s] \in Int, m # "COL" => DOMAIN first = {},
         NEW last, DOMAIN last = {T}, last[T] = x, Register(m, last, first),
         UNCHANGED <<product, segmentLineCount>>
  PROVE  SynTurned(m, x, first)
<1>. SUFFICES
           /\ TrackedNow' /\ ContextTypeOK' /\ ProcessNext /\ UNCHANGED grid
           /\ L(m)' = x /\ \A p \in Module \ {m} : L(p)' = L(p)
           /\ \A s \in Segment \ {T} : lastComputedL'[s] = lastComputedL[s]
           /\ \A s \in Segment : \A p \in Module :
                firstRequiredL'[s][p] =
                  IF p = m /\ s \in DOMAIN first THEN EntryOf(first[s]) ELSE firstRequiredL[s][p]
  BY DEF SynTurned
<1>1. DOMAIN last = {T} /\ last[T] = x /\ Register(m, last, first)
  OBVIOUS
<1>2. /\ Busy /\ Pace /\ m \in Module /\ T \in Segment /\ ContextTypeOK
      /\ grid[T].maxL \in Nat /\ MaxInMemoryL(T) <= grid[T].maxL /\ MaxInMemoryL(T) \in Nat
      /\ \A p \in Syn : L(p) \in Int /\ L(p) >= -1
  BY InAPass, Types, ModulesAre, SegmentsAre DEF Busy, TrackedNow, Progress, L
<1>3. ~ \E s \in DOMAIN last : IsInvalidRow(s, m, last[s])
  BY <1>1, <1>2 DEF IsInvalidRow, L
<1>4. /\ ProcessNext /\ ContextTypeOK' /\ UNCHANGED grid
      /\ \A s \in Segment : \A p \in Module :
           /\ lastComputedL'[s][p] =
                IF p = m /\ s \in DOMAIN last THEN EntryOf(last[s]) ELSE lastComputedL[s][p]
           /\ firstRequiredL'[s][p] =
                IF p = m /\ s \in DOMAIN first THEN EntryOf(first[s]) ELSE firstRequiredL[s][p]
  <2>1. \A s \in DOMAIN last : last[s] \in Int
    BY <1>1
  <2>. QED
    BY <1>1, <1>2, <1>3, <2>1, RegisterEffect
<1>5. L(m)' = x /\ \A p \in Module \ {m} : L(p)' = L(p)
  BY <1>1, <1>2, <1>4 DEF L, EntryOf
<1>6. \A s \in Segment \ {T} : lastComputedL'[s] = lastComputedL[s]
  BY <1>1, <1>2, <1>4 DEF ContextTypeOK
<1>7. /\ at = SynAt(m) /\ at \in DOMAIN Pipeline
      /\ \A p \in Syn : TurnOver(SynAt(p))' <=> (TurnOver(SynAt(p)) \/ p = m)
      /\ \A p \in Syn : TurnOver(SynAt(p)) <=> SynAt(p) < at
  <2>1. m \in {"COL", "PCL", "VBM", "VAC"}
    BY DEF Syn
  <2>2. at = SynAt(m) /\ at \in DOMAIN Pipeline
    BY <2>1, Types, TurnIs, ModulesAre
  <2>3. \A p \in Syn : SynAt(p) \in DOMAIN Pipeline /\ (SynAt(p) = at => p = m)
    BY <2>2, ModulesAre
  <2>. QED
    BY <1>4, <2>2, <2>3, TurnsPass DEF TurnOver
<1>8. "COL" \in Syn /\ SynAt("COL") = 2 /\ \A p \in Syn : SynAt(p) \in Int /\ SynAt(p) >= 2 /\ (SynAt(p) = 2 => p = "COL")
  BY ModulesAre, PipelineIs
<1>9. Pace'
  <2>1. MaxInMemoryL(T)' = MaxInMemoryL(T)
    BY <1>4 DEF MaxInMemoryL
  <2>2. ASSUME NEW p \in Syn
        PROVE  /\ L(p)' = None => grid'[T].minInMemoryL = 0 /\ ~TurnOver(SynAt(p))'
               /\ L(p)' # None => L(p)' >= 1
               /\ grid'[T].minInMemoryL <= L(p)' + 1
               /\ L(p)' <= MaxInMemoryL(T)'
    <3>1. CASE p = m
      <4>1. grid[T].minInMemoryL <= L(m) + 1 /\ grid[T].minInMemoryL \in Nat /\ L(m) \in Int
        BY <1>2, InAPass DEF Pace
      <4>. QED
        BY <1>4, <1>5, <2>1, <3>1, <4>1 DEF None
    <3>2. CASE p # m
      <4>1. L(p)' = L(p) /\ (TurnOver(SynAt(p))' <=> TurnOver(SynAt(p)))
        BY <1>5, <1>7, <3>2, ModulesAre
      <4>2. /\ L(p) = None => grid[T].minInMemoryL = 0 /\ ~TurnOver(SynAt(p))
            /\ L(p) # None => L(p) >= 1
            /\ grid[T].minInMemoryL <= L(p) + 1
            /\ L(p) <= MaxInMemoryL(T)
        BY <1>2 DEF Pace
      <4>. QED
        BY <1>4, <2>1, <4>1, <4>2
    <3>. QED
      BY <3>1, <3>2
  <2>3. ASSUME NEW p \in Syn, NEW q \in Syn, SynAt(p) <= SynAt(q)
        PROVE  /\ L(q)' <= L(p)'
               /\ TurnOver(SynAt(q))' \/ ~TurnOver(SynAt(p))' => L(q)' = L(p)'
    <3>1. /\ L(q) <= L(p) /\ (TurnOver(SynAt(q)) \/ ~TurnOver(SynAt(p)) => L(q) = L(p))
          /\ L(q) \in Int /\ L(p) \in Int /\ L(q) <= L("COL") /\ L("COL") \in Int
          /\ TurnOver(SynAt(p)) => L("COL") = L(p)
      BY <1>2, <1>8, <2>3 DEF Pace
    <3>2. p \in Module /\ q \in Module
      BY ModulesAre
    <3>3. CASE p # m /\ q # m
      BY <1>5, <1>7, <3>1, <3>2, <3>3
    <3>4. CASE p = m /\ q = m
      BY <1>5, <3>4
    <3>5. CASE p = m /\ q # m
      <4>1. L(q)' = L(q) /\ L(p)' = x /\ TurnOver(SynAt(p))' /\ ~TurnOver(SynAt(q))'
        BY <1>5, <1>7, <1>8, <2>3, <3>2, <3>5
      <4>. QED
        BY <3>1, <3>5, <4>1
    <3>6. CASE p # m /\ q = m
      <4>1. L(p)' = L(p) /\ L(q)' = x /\ m # "COL" /\ TurnOver(SynAt(p))
        <5>1. SynAt(p) < at /\ SynAt(p) >= 2
          BY <1>7, <1>8, <2>3, <3>6, ModulesAre
        <5>. QED
          BY <1>5, <1>7, <1>8, <3>2, <3>6, <5>1
      <4>. QED
        BY <3>1, <4>1
    <3>. QED
      BY <3>3, <3>4, <3>5, <3>6
  <2>. QED
    BY <2>2, <2>3 DEF Pace
<1>10. ReaderInv'
  <2>1. 1 \in DOMAIN Pipeline /\ at # 1 /\ T \notin SourceSegments /\ SourceSegments \subseteq Segment
    BY <1>7, <1>8, PipelineIs, SegmentsAre
  <2>. QED
    BY <1>2, <1>4, <1>6, <2>1, TurnsPass DEF TrackedNow, ReaderInv, MaxInMemoryL
<1>11. TrackedNow'
  <2>1. \A p \in Module \ Syn : L(p)' = L(p)
    BY <1>5
  <2>2. \A s \in SourceSegments \cup {T} : \A p \in Module \ {"COL", Mapper} :
           firstRequiredL'[s][p] = firstRequiredL[s][p]
    BY <1>4, SegmentsAre
  <2>3. \A s \in SourceSegments \ {"OLC"} : firstRequiredL'[s][Mapper] = firstRequiredL[s][Mapper]
    <3>1. Mapper \in Module /\ Mapper # m
      BY ModulesAre
    <3>. QED
      BY <1>4, <3>1, SegmentsAre
  <2>4. /\ \A s \in SourceSegments : \A p \in Module \ {"READER"} :
             lastComputedL'[s][p] = lastComputedL[s][p]
        /\ \A p \in Module \ {Mapper, "VGT_WRITER"} : lastComputedL'[Map][p] = lastComputedL[Map][p]
    BY <1>6, SegmentsAre
  <2>. QED
    BY <1>4, <1>9, <1>10, <2>1, <2>2, <2>3, <2>4, ProcessStep
<1>. QED
  BY <1>4, <1>5, <1>6, <1>11

-----------------------------------------------------------------------------
(* The collocation in a product that it can carry on with.                 *)

\* The number of lines that are collocated from the first window.
NeededOf(p, n) ==
  CHOOSE k \in 2..Smaller(n, p.rows["OLC"]) : Collocates(p, n, k) /\ Maps(p, n, k)

Needed == NeededOf(product, segmentLineCount)

LEMMA Hypothesis ==
  ASSUME LongWindows, product \in Products, segmentLineCount \in LineCounts
  PROVE  /\ Needed \in Nat /\ Needed >= 2
         /\ Needed <= segmentLineCount /\ Needed <= product.rows["OLC"]
         /\ Collocates(product, segmentLineCount, Needed)
         /\ Maps(product, segmentLineCount, Needed)
<1>1. \E k \in 2..Smaller(segmentLineCount, product.rows["OLC"]) :
        Collocates(product, segmentLineCount, k) /\ Maps(product, segmentLineCount, k)
  BY DEF LongWindows
<1>2. /\ Needed \in 2..Smaller(segmentLineCount, product.rows["OLC"])
      /\ Collocates(product, segmentLineCount, Needed)
      /\ Maps(product, segmentLineCount, Needed)
  BY <1>1 DEF Needed, NeededOf
<1>3. segmentLineCount \in Nat /\ product.rows["OLC"] \in Nat
  BY TaskAssumption, ProductIs
<1>. QED
  BY <1>2, <1>3 DEF Smaller

\* The lines of a pass of the collocation.
LEMMA ColReach ==
  ASSUME TypesFit, TrackedNow, phase = "process", at = 2, LongWindows
  PROVE  /\ GetFirstComputableL(T, "COL") = L("COL") + 1
         /\ GetLastComputableL(T, "COL") = MaxInMemoryL(T)
         /\ \A s \in ColSources : GetLastComputableL(s, "COL") = MaxInMemoryL(s)
         /\ L("COL") \in Int /\ L("COL") >= -1 /\ L("COL") <= MaxInMemoryL(T)
         /\ ColLastL \in Nat /\ L("COL") <= ColLastL /\ ColLastL <= MaxInMemoryL(T)
         /\ Needed <= ColLastL + 1
         /\ ColLastL >= 1
         /\ UnreadLines = {} => ColLastL = MaxInMemoryL(T)
         /\ UnreadLines # {} =>
              /\ ColLastL + 1 \in UnreadLines /\ ColLastL + 1 <= MaxInMemoryL(T)
              /\ L("COL") + 1 <= ColLastL + 1
         /\ \A l \in (L("COL") + 1)..ColLastL : l \notin UnreadLines
<1>1. /\ Busy /\ Pace /\ "COL" \in Syn /\ "COL" \in Module /\ "READER" \in Module
      /\ Predecessors("COL") = {"READER"}
      /\ product \in Products /\ segmentLineCount \in LineCounts
      /\ T \in DOMAIN grid /\ T \in Segment
      /\ ContextTypeOK /\ "READER" \notin Syn
  BY InAPass, Types, ModulesAre, SegmentsAre, PredecessorsAre DEF Busy, TrackedNow, Progress, TypesFit, Syn
<1>2. /\ L("COL") \in Int /\ L("COL") >= -1 /\ L("COL") <= MaxInMemoryL(T)
      /\ grid[T].minInMemoryL \in Nat /\ grid[T].minInMemoryL <= L("COL") + 1
      /\ L("COL") = None => grid[T].minInMemoryL = 0
      /\ L("COL") # None => L("COL") >= 1
      /\ MaxInMemoryL(T) \in Nat /\ MaxInMemoryL(T) <= grid[T].maxL /\ grid[T].maxL \in Nat
      /\ grid[T].maxL = product.rows["OLC"] - 1
      /\ grid[T].sizeL = Smaller(product.rows["OLC"], segmentLineCount)
      /\ MaxInMemoryL(T) = grid[T].minInMemoryL + grid[T].sizeL - 1
  BY <1>1, Types, InAPass DEF Pace, L
<1>3. GetFirstComputableL(T, "COL") = L("COL") + 1
  BY <1>2 DEF GetFirstComputableL, HasLastComputedL, Larger, L, None
<1>4. GetLastComputableL(T, "COL") = MaxInMemoryL(T)
  <2>1. /\ GetLastComputableL(T, "COL") \in Nat
        /\ GetLastComputableL(T, "COL") <= MaxInMemoryL(T)
        /\ (\A p \in Predecessors("COL") : lastComputedL[T][p] > 0 => MaxInMemoryL(T) <= lastComputedL[T][p])
             => MaxInMemoryL(T) <= GetLastComputableL(T, "COL")
    BY <1>1, <1>2, LastComputable
  <2>2. lastComputedL[T]["READER"] = None
    BY <1>1 DEF TrackedNow, OwnEntries, L
  <2>. QED
    BY <1>1, <1>2, <2>1, <2>2 DEF None
<1>5. ASSUME NEW s \in ColSources PROVE GetLastComputableL(s, "COL") = MaxInMemoryL(s)
  <2>1. /\ s \in SourceSegments /\ s \in DOMAIN grid
        /\ MaxInMemoryL(s) \in Nat /\ MaxInMemoryL(s) <= grid[s].maxL
    BY <1>1, InAPass, SegmentsAre
  <2>2. /\ GetLastComputableL(s, "COL") \in Nat
        /\ GetLastComputableL(s, "COL") <= MaxInMemoryL(s)
        /\ (\A p \in Predecessors("COL") : lastComputedL[s][p] > 0 => MaxInMemoryL(s) <= lastComputedL[s][p])
             => MaxInMemoryL(s) <= GetLastComputableL(s, "COL")
    BY <1>1, <2>1, LastComputable
  <2>3. TurnOver(1)
    BY DEF TurnOver
  <2>4. lastComputedL[s]["READER"] = MaxInMemoryL(s)
    BY <1>1, <2>1, <2>3 DEF TrackedNow, ReaderInv
  <2>. QED
    BY <1>1, <2>1, <2>2, <2>4
<1>6. /\ Needed \in Nat /\ Needed >= 2 /\ Needed <= segmentLineCount /\ Needed <= product.rows["OLC"]
      /\ Collocates(product, segmentLineCount, Needed)
      /\ segmentLineCount \in Nat \ {0} /\ product.rows["OLC"] \in Nat
  BY <1>1, Hypothesis, Types, ProductIs
<1>7. Needed <= MaxInMemoryL(T) + 1
  BY <1>2, <1>6 DEF Smaller
<1>8. /\ UnreadLines = {l \in (L("COL") + 1)..MaxInMemoryL(T) :
           \E s \in ColSources : \E r \in product.sources[s][l] : r > GetLastComputableL(s, "COL")}
      /\ UnreadLines \subseteq (L("COL") + 1)..MaxInMemoryL(T)
      /\ UnreadLines \in SUBSET Nat
  BY <1>2, <1>3, <1>4 DEF UnreadLines
<1>9. ASSUME NEW l \in UnreadLines PROVE l >= Needed
  <2>1. l \in Nat /\ l \in Rows(product)
    BY <1>2, <1>8, InAPass, <1>1
  <2>2. PICK s \in ColSources : \E r \in product.sources[s][l] : r > GetLastComputableL(s, "COL")
    BY <1>8
  <2>3. PICK r \in product.sources[s][l] : r > MaxInMemoryL(s)
    BY <1>5, <2>2
  <2>4. /\ s \in SourceSegments /\ product.rows[s] \in Nat \ {0} /\ s \in DOMAIN grid
        /\ r \in 0..(product.rows[s] - 1)
    BY <1>1, <2>1, SegmentsAre, ProductIs, InAPass
  <2>5. /\ grid[s].sizeL = GetSegmentSize(s, product.rows[s])
        /\ MaxInMemoryL(s) = grid[s].minInMemoryL + grid[s].sizeL - 1
        /\ grid[s].minInMemoryL \in Nat
    BY <1>1, <2>4, InAPass DEF TrackedNow, ShapesFit
  <2>6. l < Needed => r \in 0..(segmentLineCount - 1)
    BY <1>6, <2>1 DEF Collocates
  <2>. QED
    BY <1>6, <2>1, <2>3, <2>4, <2>5, <2>6 DEF GetSegmentSize, Smaller
<1>10. UnreadLines # {} => Min(UnreadLines) \in UnreadLines /\ \A y \in UnreadLines : Min(UnreadLines) <= y
  BY <1>8, MinIs
<1>11. CASE UnreadLines = {}
  <2>1. ColLastL = MaxInMemoryL(T)
    BY <1>4, <1>11 DEF ColLastL
  <2>. QED
    BY <1>2, <1>3, <1>4, <1>5, <1>6, <1>7, <1>11, <2>1
<1>12. CASE UnreadLines # {}
  <2>1. ColLastL = Min(UnreadLines) - 1
    BY <1>12 DEF ColLastL
  <2>2. /\ Min(UnreadLines) \in Nat /\ Min(UnreadLines) >= Needed
        /\ Min(UnreadLines) >= L("COL") + 1 /\ Min(UnreadLines) <= MaxInMemoryL(T)
        /\ Min(UnreadLines) \in UnreadLines
    <3>1. Min(UnreadLines) \in UnreadLines
      BY <1>10, <1>12
    <3>2. Min(UnreadLines) \in (L("COL") + 1)..MaxInMemoryL(T) /\ Min(UnreadLines) \in Nat
      BY <1>8, <3>1
    <3>. QED
      BY <1>2, <1>9, <3>1, <3>2
  <2>3. \A l \in (L("COL") + 1)..ColLastL : l \notin UnreadLines
    BY <1>2, <1>8, <1>10, <1>12, <2>1, <2>2
  <2>. QED
    BY <1>2, <1>3, <1>4, <1>5, <1>6, <1>12, <2>1, <2>2, <2>3
<1>. QED
  BY <1>11, <1>12

\* The greatest row of an interval.
LEMMA MaxOfInterval ==
  ASSUME NEW a \in Int, NEW b \in Int, a <= b
  PROVE  Max(a..b) = b
<1>1. b \in a..b /\ \A y \in a..b : b >= y
  OBVIOUS
<1>2. \A x \in a..b : (\A y \in a..b : x >= y) => x = b
  BY <1>1
<1>. QED
  BY <1>1, <1>2 DEF Max

\* The requirement of the collocation on the segments it reads.
ColLastLine == Smaller(ColLastL + 1, MaxInMemoryL(T))

LEMMA ColRequirement ==
  ASSUME TypesFit, TrackedNow, phase = "process", at = 2, LongWindows
  PROVE  /\ ColLines = (L("COL") + 1)..ColLastLine
         /\ ColLastLine \in Nat /\ ColLastLine >= ColLastL /\ ColLastLine <= MaxInMemoryL(T)
         /\ ColLines = {} <=> L("COL") = MaxInMemoryL(T)
         /\ ColLines = {} => \A s \in ColSources : ColRequiredL(s, ColLines) = 0
         /\ ColLines # {} =>
              /\ ColLastLine \in Rows(product) /\ ColLastLine \in ColLines
              /\ \A s \in ColSources :
                   /\ ColRequiredL(s, ColLines) \in product.sources[s][ColLastLine] \cup {MaxInMemoryL(s) + 1}
                   /\ \A r \in product.sources[s][ColLastLine] : ColRequiredL(s, ColLines) <= r
                   /\ ColRequiredL(s, ColLines) <= MaxInMemoryL(s) + 1
         /\ \A s \in ColSources : ColRequiredL(s, ColLines) \in Nat
<1>1. /\ GetFirstComputableL(T, "COL") = L("COL") + 1
      /\ GetLastComputableL(T, "COL") = MaxInMemoryL(T)
      /\ L("COL") \in Int /\ L("COL") >= -1 /\ L("COL") <= MaxInMemoryL(T)
      /\ ColLastL \in Nat /\ L("COL") <= ColLastL /\ ColLastL <= MaxInMemoryL(T)
      /\ UnreadLines = {} => ColLastL = MaxInMemoryL(T)
      /\ UnreadLines # {} => ColLastL + 1 <= MaxInMemoryL(T) /\ L("COL") + 1 <= ColLastL + 1
  BY ColReach
<1>2. Busy /\ MaxInMemoryL(T) \in Nat /\ MaxInMemoryL(T) <= grid[T].maxL /\ grid[T].maxL \in Nat
      /\ Rows(product) = 0..grid[T].maxL /\ product \in Products
  BY InAPass DEF Busy
<1>3. ColLines = (L("COL") + 1)..ColLastLine
  BY <1>1 DEF ColLines, ColLastLine
<1>4. /\ ColLastLine \in Nat /\ ColLastLine >= ColLastL /\ ColLastLine <= MaxInMemoryL(T)
      /\ ColLastLine \in {ColLastL, ColLastL + 1}
      /\ ColLastLine \in Rows(product)
  BY <1>1, <1>2 DEF ColLastLine, Smaller
<1>5. ColLines = {} <=> L("COL") = MaxInMemoryL(T)
  BY <1>1, <1>2, <1>3, <1>4 DEF ColLastLine, Smaller
<1>6. CASE ColLines = {}
  BY <1>3, <1>4, <1>5, <1>6 DEF ColRequiredL
<1>7. CASE ColLines # {}
  <2>1. ColLastLine \in ColLines /\ Max(ColLines) = ColLastLine
    BY <1>1, <1>3, <1>4, <1>7, MaxOfInterval
  <2>2. ASSUME NEW s \in ColSources
        PROVE  /\ ColRequiredL(s, ColLines) \in product.sources[s][ColLastLine] \cup {MaxInMemoryL(s) + 1}
               /\ \A r \in product.sources[s][ColLastLine] : ColRequiredL(s, ColLines) <= r
               /\ ColRequiredL(s, ColLines) <= MaxInMemoryL(s) + 1
               /\ ColRequiredL(s, ColLines) \in Nat
    <3> DEFINE rows == product.sources[s][ColLastLine] \cup {MaxInMemoryL(s) + 1}
    <3>1. s \in SourceSegments /\ MaxInMemoryL(s) \in Nat /\ product.rows[s] \in Nat \ {0}
      BY <1>2, InAPass, SegmentsAre, ProductIs
    <3>2. product.sources[s][ColLastLine] \subseteq 0..(product.rows[s] - 1)
      BY <1>2, <1>4, ProductIs
    <3>3. rows \in SUBSET Nat /\ rows # {}
      BY <3>1, <3>2
    <3>4. Min(rows) \in rows /\ \A y \in rows : Min(rows) <= y
      BY <3>3, MinIs
    <3>5. ColRequiredL(s, ColLines) = Min(rows)
      BY <1>7, <2>1 DEF ColRequiredL
    <3>. QED
      BY <3>3, <3>4, <3>5
  <2>. QED
    BY <1>3, <1>4, <1>5, <1>7, <2>1, <2>2
<1>. QED
  BY <1>6, <1>7

\* The turn of the collocation.
LEMMA ColTurn ==
  ASSUME TypesFit, Tracked, LongWindows, ColProcess
  PROVE  /\ TrackedNow /\ phase = "process" /\ at = 2 /\ ~ColThrows
         /\ TrackedNow' /\ ContextTypeOK' /\ ProcessNext /\ UNCHANGED <<grid, product>>
         /\ L("COL")' = ColLastL /\ \A p \in Module \ {"COL"} : L(p)' = L(p)
         /\ \A s \in Segment \ {T} : lastComputedL'[s] = lastComputedL[s]
         /\ \A s \in Segment : \A p \in Module \ {"COL"} : firstRequiredL'[s][p] = firstRequiredL[s][p]
         /\ \A s \in {"SLN", "SLO"} : firstRequiredL'[s]["COL"] = ColRequiredL(s, ColLines)
         /\ \A s \in WithMis({"OLC", T}) :
              firstRequiredL'[s]["COL"] = Smaller(ColRequiredL("OLC", ColLines), ColLastL)
         /\ Compute("COL", ColLines, 0..ColLastL)
<1>1. /\ phase = "process" /\ at = 2 /\ ~ColThrows
      /\ \E lines \in {ColLines}, lastL \in {ColLastL} :
           /\ Register("COL", [s \in {T} |-> lastL],
                [s \in WithMis({"OLC", "SLN", "SLO", T}) |->
                   IF s \in {"SLN", "SLO"} THEN ColRequiredL(s, lines)
                   ELSE Smaller(ColRequiredL("OLC", lines), lastL)])
           /\ Compute("COL", lines, 0..lastL)
      /\ UNCHANGED <<segmentLineCount, product>>
      /\ Pipeline[at] = "COL"
  BY Types, TurnIs DEF ColProcess, Turn
<1>2. TrackedNow
  BY <1>1 DEF Tracked
<1> DEFINE first == [s \in WithMis({"OLC", "SLN", "SLO", T}) |->
                       IF s \in {"SLN", "SLO"} THEN ColRequiredL(s, ColLines)
                       ELSE Smaller(ColRequiredL("OLC", ColLines), ColLastL)]
       last == [s \in {T} |-> ColLastL]
<1>3. Register("COL", last, first) /\ Compute("COL", ColLines, 0..ColLastL)
  BY <1>1
<1>4. /\ DOMAIN first = WithMis({"OLC", "SLN", "SLO", T})
      /\ \A s \in DOMAIN first :
           first[s] = IF s \in {"SLN", "SLO"} THEN ColRequiredL(s, ColLines)
                      ELSE Smaller(ColRequiredL("OLC", ColLines), ColLastL)
      /\ DOMAIN last = {T} /\ last[T] = ColLastL
  OBVIOUS
<1> HIDE DEF first, last
<1>5. /\ ColLastL \in Nat /\ L("COL") <= ColLastL /\ ColLastL <= MaxInMemoryL(T) /\ 1 <= ColLastL
      /\ \A s \in ColSources : ColRequiredL(s, ColLines) \in Nat
  BY <1>1, <1>2, ColReach, ColRequirement
<1>6. ColSources = {"OLC", "SLN", "SLO"} /\ T # "SLN" /\ T # "SLO"
  BY DEF ColSources, T
<1>7. \A s \in DOMAIN first : first[s] \in Nat
  BY <1>4, <1>5, <1>6 DEF Smaller
<1>8. WithMis({"OLC", T}) \subseteq WithMis({"OLC", "SLN", "SLO", T})
      /\ {"SLN", "SLO"} \subseteq WithMis({"OLC", "SLN", "SLO", T})
      /\ WithMis({"OLC", T}) \cap {"SLN", "SLO"} = {}
      /\ WithMis({"OLC", "SLN", "SLO", T}) \subseteq Segment
  BY <1>6, SegmentsAre DEF WithMis
<1>9. "COL" \in Syn /\ "COL" \in Module
  BY ModulesAre
<1>10. /\ TrackedNow' /\ ContextTypeOK' /\ ProcessNext /\ UNCHANGED grid
       /\ L("COL")' = ColLastL /\ \A p \in Module \ {"COL"} : L(p)' = L(p)
       /\ \A s \in Segment \ {T} : lastComputedL'[s] = lastComputedL[s]
       /\ \A s \in Segment : \A p \in Module :
            firstRequiredL'[s][p] =
              IF p = "COL" /\ s \in DOMAIN first THEN EntryOf(first[s]) ELSE firstRequiredL[s][p]
  <2>1. \A s \in DOMAIN first : first[s] \in Int
    BY <1>7
  <2>2. ColLastL \in Nat /\ L("COL") <= ColLastL /\ 1 <= ColLastL /\ ColLastL <= MaxInMemoryL(T)
    BY <1>5
  <2>3. phase = "process" /\ Pipeline[at] = "COL" /\ UNCHANGED <<product, segmentLineCount>>
    BY <1>1
  <2>4. SynTurned("COL", ColLastL, first)
    BY <1>2, <1>3, <1>4, <1>9, <2>1, <2>2, <2>3, SynTurn
  <2>. QED
    BY <2>4 DEF SynTurned
<1>11. \A s \in DOMAIN first : firstRequiredL'[s]["COL"] = first[s]
  <2>. SUFFICES ASSUME NEW s \in DOMAIN first PROVE firstRequiredL'[s]["COL"] = first[s]
    OBVIOUS
  <2>1. s \in Segment /\ first[s] \in Nat
    BY <1>4, <1>7, <1>8
  <2>. QED
    BY <1>9, <1>10, <2>1 DEF EntryOf
<1>12. \A s \in Segment : \A p \in Module \ {"COL"} : firstRequiredL'[s][p] = firstRequiredL[s][p]
  BY <1>10
<1>. QED
  BY <1>1, <1>2, <1>3, <1>4, <1>8, <1>10, <1>11, <1>12

-----------------------------------------------------------------------------
(* The modules behind the collocation. *)

\* The modules that follow the collocation to its row.
LEMMA FollowTurn ==
  ASSUME TypesFit, Tracked, NEW m \in Syn \ {"COL"}, Turn("process", m),
         NEW last, DOMAIN last = {T}, last[T] = GetLastComputableL(T, m),
         NEW first, DOMAIN first = {}, Register(m, last, first),
         UNCHANGED <<product, segmentLineCount>>
  PROVE  /\ TrackedNow /\ phase = "process" /\ at = SynAt(m)
         /\ GetFirstComputableL(T, m) = L(m) + 1 /\ GetLastComputableL(T, m) = L("COL")
         /\ L("COL") \in Nat /\ L(m) \in Int /\ L(m) >= -1 /\ L(m) <= L("COL")
         /\ \A p \in Syn : SynAt(p) < SynAt(m) => L(p) = L("COL")
         /\ TrackedNow' /\ ContextTypeOK' /\ ProcessNext /\ UNCHANGED grid
         /\ L(m)' = L("COL") /\ \A p \in Module \ {m} : L(p)' = L(p)
         /\ \A s \in Segment \ {T} : lastComputedL'[s] = lastComputedL[s]
         /\ \A s \in Segment : \A p \in Module : firstRequiredL'[s][p] = firstRequiredL[s][p]
<1>1. phase = "process" /\ Pipeline[at] = m /\ TrackedNow
  BY DEF Turn, Tracked
<1>2. at = SynAt(m) /\ at \in 3..MapperAt
  <2>1. m \in {"PCL", "VBM", "VAC"}
    BY DEF Syn
  <2>. QED
    BY <1>1, <2>1, Types, TurnIs, ModulesAre, PipelineIs
<1>3. /\ GetLastComputableL(T, m) = L("COL")
      /\ L("COL") \in Nat /\ L("COL") >= 1 /\ L("COL") <= MaxInMemoryL(T)
      /\ \A p \in Syn : SynAt(p) < at => L(p) = L("COL")
      /\ L(m) <= L("COL")
  BY <1>1, <1>2, Reach
<1>4. L(m) \in Int /\ L(m) >= -1
  BY Types, ModulesAre, SegmentsAre DEF L
<1>5. GetFirstComputableL(T, m) = L(m) + 1
  <2>1. Busy /\ Pace
    BY <1>1 DEF Busy, TrackedNow, Progress
  <2>2. /\ grid[T].minInMemoryL \in Nat /\ grid[T].minInMemoryL <= L(m) + 1
        /\ L(m) = None => grid[T].minInMemoryL = 0
        /\ L(m) # None => L(m) >= 1
    BY <1>1, <2>1, InAPass DEF Pace
  <2>. QED
    BY <1>4, <2>2 DEF GetFirstComputableL, HasLastComputedL, Larger, L, None
<1>6. /\ TrackedNow' /\ ContextTypeOK' /\ ProcessNext /\ UNCHANGED grid
      /\ L(m)' = L("COL") /\ \A p \in Module \ {m} : L(p)' = L(p)
      /\ \A s \in Segment \ {T} : lastComputedL'[s] = lastComputedL[s]
      /\ \A s \in Segment : \A p \in Module :
           firstRequiredL'[s][p] =
             IF p = m /\ s \in DOMAIN first THEN EntryOf(first[s]) ELSE firstRequiredL[s][p]
  <2>1. last[T] = L("COL") /\ m \in Syn /\ m # "COL" /\ \A s \in DOMAIN first : first[s] \in Int
    BY <1>3
  <2>2. /\ TypesFit /\ TrackedNow /\ phase = "process" /\ Pipeline[at] = m /\ L("COL") \in Nat
        /\ L(m) <= L("COL") /\ 1 <= L("COL") /\ L("COL") <= MaxInMemoryL(T)
        /\ DOMAIN last = {T} /\ DOMAIN first = {} /\ Register(m, last, first)
        /\ UNCHANGED <<product, segmentLineCount>>
    BY <1>1, <1>3
  <2>3. PICK x \in Nat : x = L("COL")
    BY <2>2
  <2>4. L(m) <= x /\ 1 <= x /\ x <= MaxInMemoryL(T) /\ last[T] = x
    BY <2>1, <2>2, <2>3
  <2>5. m # "COL" => x = L("COL")
    BY <2>3
  <2>6. m # "COL" => DOMAIN first = {}
    BY <2>2
  <2>7. DOMAIN last = {T} /\ last[T] = x /\ Register(m, last, first)
    BY <2>2, <2>4
  <2>8. L(m) <= x /\ 1 <= x /\ x <= MaxInMemoryL(T) /\ (m # "COL" => x = L("COL"))
    BY <2>4, <2>5
  <2>9. /\ TrackedNow' /\ ContextTypeOK' /\ ProcessNext /\ UNCHANGED grid
        /\ L(m)' = x /\ \A p \in Module \ {m} : L(p)' = L(p)
        /\ \A s \in Segment \ {T} : lastComputedL'[s] = lastComputedL[s]
        /\ \A s \in Segment : \A p \in Module :
             firstRequiredL'[s][p] =
               IF p = m /\ s \in DOMAIN first THEN EntryOf(first[s]) ELSE firstRequiredL[s][p]
    <3>1. TypesFit /\ TrackedNow /\ phase = "process" /\ Pipeline[at] = m
          /\ UNCHANGED <<product, segmentLineCount>>
      BY <2>2
    <3>2. SynTurned(m, x, first)
      BY <2>1, <2>6, <2>7, <2>8, <3>1, SynTurn
    <3>. QED
      BY <3>2 DEF SynTurned
  <2>. QED
    BY <2>3, <2>9
<1>. QED
  BY <1>1, <1>2, <1>3, <1>4, <1>5, <1>6

\* The mapper registers rows of the map, none that it has passed.
LEMMA MapperTurn ==
  ASSUME TypesFit, Tracked, Turn("process", Mapper),
         NEW x \in Int, x >= -1, x <= MaxTargetL, MappedL > 0 => MappedL <= x,
         NEW last, DOMAIN last = {Map}, last[Map] = x,
         NEW first, DOMAIN first \subseteq {T, "OLC"}, \A s \in DOMAIN first : first[s] \in Int,
         Register(Mapper, last, first), UNCHANGED <<product, segmentLineCount>>
  PROVE  /\ TrackedNow' /\ ContextTypeOK' /\ ProcessNext /\ UNCHANGED grid
         /\ MappedL' = x
         /\ \A s \in Segment \ {Map} : lastComputedL'[s] = lastComputedL[s]
         /\ \A s \in Segment : \A p \in Module :
              firstRequiredL'[s][p] =
                IF p = Mapper /\ s \in DOMAIN first THEN EntryOf(first[s]) ELSE firstRequiredL[s][p]
<1>1. /\ phase = "process" /\ at = MapperAt /\ TrackedNow /\ Busy
      /\ Mapper \in Module /\ ContextTypeOK
      /\ MapperAt \in {6, 7}
  BY Types, TurnIs, ModulesAre DEF Turn, Tracked, Busy
<1>2. grid[Map].maxL = MaxTargetL /\ MaxTargetL \in Nat /\ MappedL \in Int /\ Map \in Segment
  BY <1>1, InAPass, Types, SegmentsAre, MappingAssumption DEF MappedL
<1>3. ~ \E s \in DOMAIN last : IsInvalidRow(s, Mapper, last[s])
  BY <1>2 DEF IsInvalidRow, HasLastComputedL, MappedL
<1>4. /\ ProcessNext /\ ContextTypeOK' /\ UNCHANGED grid
      /\ \A s \in Segment : \A p \in Module :
           /\ lastComputedL'[s][p] =
                IF p = Mapper /\ s \in DOMAIN last THEN EntryOf(last[s]) ELSE lastComputedL[s][p]
           /\ firstRequiredL'[s][p] =
                IF p = Mapper /\ s \in DOMAIN first THEN EntryOf(first[s]) ELSE firstRequiredL[s][p]
  <2>1. \A s \in DOMAIN last : last[s] \in Int
    OBVIOUS
  <2>. QED
    BY <1>1, <1>3, <2>1, RegisterEffect
<1>5. MappedL' = x
  <2>1. EntryOf(x) = x
    BY DEF EntryOf, None
  <2>. QED
    BY <1>1, <1>2, <1>4, <2>1 DEF MappedL
<1>6. \A s \in Segment \ {Map} : lastComputedL'[s] = lastComputedL[s]
  BY <1>1, <1>4 DEF ContextTypeOK
<1>7. TrackedNow'
  <2>1. at \notin {1, 2, 3, 4} /\ (at = 6 => MapperAt = 6)
    BY <1>1
  <2>2. \A s \in SourceSegments \cup {T} : \A p \in Module : lastComputedL'[s][p] = lastComputedL[s][p]
    BY <1>6, SegmentsAre
  <2>3. \A p \in Module \ {Mapper, "VGT_WRITER"} : lastComputedL'[Map][p] = lastComputedL[Map][p]
    BY <1>2, <1>4
  <2>4. /\ \A s \in SourceSegments \cup {T} : \A p \in Module \ {Mapper} :
             firstRequiredL'[s][p] = firstRequiredL[s][p]
        /\ \A s \in SourceSegments \ {"OLC"} : firstRequiredL'[s][Mapper] = firstRequiredL[s][Mapper]
    BY <1>1, <1>4, SegmentsAre
  <2>. QED
    BY <1>1, <1>4, <2>1, <2>2, <2>3, <2>4, OtherTurn
<1>. QED
  BY <1>4, <1>5, <1>6, <1>7

\* The writer writes the segments of the map as a whole.
LEMMA WriterTurn ==
  ASSUME TypesFit, Tracked, Turn("process", "VGT_WRITER"),
         NEW last, DOMAIN last \subseteq DOMAIN grid \ (SourceSegments \cup {T}),
         \A s \in DOMAIN last : last[s] = grid[s].maxL,
         NEW first, DOMAIN first = {}, Register("VGT_WRITER", last, first),
         UNCHANGED <<product, segmentLineCount>>
  PROVE  /\ phase = "process" /\ at = MapperAt + 1 /\ TrackedNow
         /\ \/ Throw
            \/ /\ TrackedNow' /\ ContextTypeOK' /\ ProcessNext /\ UNCHANGED grid
               /\ \A s \in SourceSegments \cup {T} : lastComputedL'[s] = lastComputedL[s]
               /\ MappedL' = MappedL
               /\ \A s \in Segment : firstRequiredL'[s] = firstRequiredL[s]
<1>1. /\ phase = "process" /\ at = MapperAt + 1 /\ TrackedNow /\ Busy
      /\ "VGT_WRITER" \in Module /\ ContextTypeOK /\ Mapper \in Module /\ Mapper # "VGT_WRITER"
      /\ MapperAt \in {6, 7}
  BY Types, TurnIs, ModulesAre, MappingAssumption DEF Turn, Tracked, Busy
<1>2. \A s \in DOMAIN last : last[s] \in Int
  BY <1>1, WindowType
<1>3. \A s \in DOMAIN first : first[s] \in Int
  OBVIOUS
<1>4. CASE Throw
  BY <1>1, <1>4
<1>5. CASE /\ ProcessNext /\ ContextTypeOK' /\ UNCHANGED grid
           /\ \A s \in Segment : \A p \in Module :
                /\ lastComputedL'[s][p] =
                     IF p = "VGT_WRITER" /\ s \in DOMAIN last THEN EntryOf(last[s]) ELSE lastComputedL[s][p]
                /\ firstRequiredL'[s][p] =
                     IF p = "VGT_WRITER" /\ s \in DOMAIN first THEN EntryOf(first[s]) ELSE firstRequiredL[s][p]
  <2>1. \A s \in SourceSegments \cup {T} : lastComputedL'[s] = lastComputedL[s]
    BY <1>1, <1>5, SegmentsAre DEF ContextTypeOK
  <2>2. MappedL' = MappedL
    BY <1>1, <1>5, SegmentsAre DEF MappedL
  <2>3. \A s \in Segment : firstRequiredL'[s] = firstRequiredL[s]
    BY <1>1, <1>5 DEF ContextTypeOK
  <2>4. TrackedNow'
    <3>1. at \notin {1, 2, 3, 4} /\ (at = 6 => MapperAt = 6)
      BY <1>1
    <3>2. \A p \in Module \ {Mapper, "VGT_WRITER"} : lastComputedL'[Map][p] = lastComputedL[Map][p]
      BY <1>5, SegmentsAre
    <3>3. /\ \A s \in SourceSegments \cup {T} : \A p \in Module \ {Mapper} :
               firstRequiredL'[s][p] = firstRequiredL[s][p]
          /\ \A s \in SourceSegments \ {"OLC"} : firstRequiredL'[s][Mapper] = firstRequiredL[s][Mapper]
      BY <2>3, SegmentsAre
    <3>. QED
      BY <1>1, <1>5, <2>1, <3>1, <3>2, <3>3, OtherTurn
  <2>. QED
    BY <1>1, <1>5, <2>1, <2>2, <2>3, <2>4
<1>. QED
  BY <1>1, <1>2, <1>3, <1>4, <1>5, RegisterEffect

-----------------------------------------------------------------------------
(* Sliding the windows, and stopping modules. *)

\* The windows slide; nothing is computed.
LEMMA MoveStep ==
  ASSUME TypesFit, Tracked, MoveSegmentsForward, UNCHANGED <<product, segmentLineCount>>
  PROVE  /\ TrackedNow /\ phase = "move" /\ Busy
         /\ TrackedNow' /\ ContextTypeOK'
         /\ UNCHANGED <<lastComputedL, firstRequiredL, source>>
         /\ DOMAIN grid' = DOMAIN grid /\ \A s \in DOMAIN grid : grid'[s] = MovedGrid(s)
         /\ \/ phase' = "stop" /\ at' = MapperAt + 2
            \/ phase' = "process" /\ at' = 1
         /\ \A i \in DOMAIN Pipeline : TurnOver(i) /\ ~TurnOver(i)'
<1>1. /\ phase = "move" /\ UNCHANGED <<lastComputedL, firstRequiredL, source>>
      /\ grid' = [s \in DOMAIN grid |-> MovedGrid(s)]
      /\ \/ phase' = "stop" /\ at' = MapperAt + 2
         \/ phase' = "process" /\ at' = 1
  BY PipelineIs DEF MoveSegmentsForward
<1>2. TrackedNow /\ Busy /\ ContextTypeOK
  BY <1>1, Types DEF Tracked, Busy
<1>3. DOMAIN grid' = DOMAIN grid /\ \A s \in DOMAIN grid : grid'[s] = MovedGrid(s)
  BY <1>1
<1>4. ASSUME NEW s \in DOMAIN grid
      PROVE  /\ grid'[s] \in Grid
             /\ grid'[s].sizeL = grid[s].sizeL /\ grid'[s].maxL = grid[s].maxL
             /\ grid'[s].minInMemoryL \in Nat /\ grid'[s].minInMemoryL >= grid[s].minInMemoryL
             /\ \/ grid'[s].minInMemoryL = grid[s].minInMemoryL
                \/ grid'[s].minInMemoryL <= grid[s].maxL - grid[s].sizeL + 1
             /\ MaxInMemoryL(s)' = grid'[s].minInMemoryL + grid[s].sizeL - 1
             /\ MaxInMemoryL(s)' >= MaxInMemoryL(s)
             /\ MaxInMemoryL(s) <= grid[s].maxL => MaxInMemoryL(s)' <= grid[s].maxL
             /\ grid[s].sizeL \in Nat \ {0} /\ grid[s].maxL \in Nat /\ grid[s].minInMemoryL \in Nat
             /\ MaxInMemoryL(s) \in Nat /\ grid[s] \in Grid
  <2>1. /\ MovedGrid(s).sizeL = grid[s].sizeL
        /\ MovedGrid(s).maxL = grid[s].maxL
        /\ ForwardL(s) \in Int
        /\ ForwardL(s) <= grid[s].maxL - grid[s].sizeL + 1
        /\ MovedGrid(s).minInMemoryL \in Nat
        /\ MovedGrid(s).minInMemoryL >= grid[s].minInMemoryL
        /\ MovedGrid(s).minInMemoryL \in {grid[s].minInMemoryL, ForwardL(s)}
    BY <1>2, MovedWindow
  <2>2. /\ grid[s].sizeL \in Nat \ {0} /\ grid[s].maxL \in Nat /\ grid[s].minInMemoryL \in Nat
        /\ MaxInMemoryL(s) = grid[s].minInMemoryL + grid[s].sizeL - 1
        /\ grid[s] \in Grid /\ MaxInMemoryL(s) \in Nat
    BY <1>2, WindowType
  <2>3. grid'[s] = MovedGrid(s)
    BY <1>3
  <2>4. MaxInMemoryL(s)' = grid'[s].minInMemoryL + grid'[s].sizeL - 1
    BY DEF MaxInMemoryL
  <2>5. grid'[s] \in Grid
    <3>1. grid'[s] = [grid[s] EXCEPT !.minInMemoryL = grid'[s].minInMemoryL]
      BY <2>2, <2>3 DEF MovedGrid, Grid
    <3>2. grid'[s].minInMemoryL \in Nat
      BY <2>1, <2>3
    <3>. QED
      BY <2>2, <3>1, <3>2 DEF Grid
  <2>. QED
    BY <2>1, <2>2, <2>3, <2>4, <2>5
<1>5. ContextTypeOK'
  <2>1. DOMAIN grid \subseteq Segment
    BY <1>2 DEF ContextTypeOK
  <2>2. grid' \in [DOMAIN grid' -> Grid]
    BY <1>1, <1>3, <1>4
  <2>. QED
    BY <1>1, <1>2, <1>3, <2>1, <2>2 DEF ContextTypeOK
<1>6. \A i \in DOMAIN Pipeline : /\ TurnOver(i) /\ ~TurnOver(i)' /\ IsStarted(i) /\ IsStarted(i)'
                                 /\ ~IsFresh(i)'
  BY <1>1, PipelineIs DEF TurnOver, IsStarted, IsFresh, Busy
<1>7. 1 \in DOMAIN Pipeline /\ 2 \in DOMAIN Pipeline /\ MapperAt \in DOMAIN Pipeline
  BY PipelineIs
<1>8. Present'
  BY <1>2, <1>3, <1>6, <1>7 DEF TrackedNow, Present, HasSegment
<1>9. SourceSegments \cup {T, Map} \subseteq DOMAIN grid
  BY <1>2, InAPass
<1>10. ShapesFit'
  <2>1. \A s \in SourceSegments :
          /\ grid'[s].sizeL = GetSegmentSize(s, product.rows[s])'
          /\ grid'[s].maxL = product'.rows[s] - 1
          /\ MaxInMemoryL(s)' <= grid'[s].maxL
    BY <1>2, <1>4, <1>9 DEF TrackedNow, ShapesFit, GetSegmentSize
  <2>2. /\ grid'[T].sizeL = grid'["OLC"].sizeL
        /\ grid'[T].maxL = grid'["OLC"].maxL
        /\ MaxInMemoryL(T)' <= grid'[T].maxL
    <3>1. "OLC" \in DOMAIN grid /\ T \in DOMAIN grid
      BY <1>9, SegmentsAre
    <3>2. grid[T].sizeL = grid["OLC"].sizeL /\ grid[T].maxL = grid["OLC"].maxL /\ MaxInMemoryL(T) <= grid[T].maxL
      BY <1>2, <3>1 DEF TrackedNow, ShapesFit, HasSegment
    <3>. QED
      BY <1>4, <3>1, <3>2
  <2>3. grid'[Map] = NewMap(Map)'
    <3>1. grid[Map] = NewMap(Map) /\ NewMap(Map)' = NewMap(Map)
          /\ grid[Map].minInMemoryL = 0 /\ grid[Map].maxL = MaxTargetL
          /\ grid[Map].sizeL = MaxTargetL + 1 /\ MaxTargetL \in Nat
      BY <1>2, InAPass, MappingAssumption, SegmentsAre DEF NewMap, NewGrid
    <3>2. grid'[Map].minInMemoryL = 0
      BY <1>4, <1>9, <3>1
    <3>3. grid'[Map] \in Grid /\ grid[Map] \in Grid
          /\ grid'[Map].sizeL = grid[Map].sizeL /\ grid'[Map].maxL = grid[Map].maxL
      BY <1>4, <1>9
    <3>4. grid'[Map] = grid[Map]
      BY <3>1, <3>2, <3>3 DEF Grid
    <3>. QED
      BY <3>1, <3>4
  <2>. QED
    BY <2>1, <2>2, <2>3 DEF ShapesFit
<1>11. OwnEntries'
  BY <1>1, <1>2 DEF TrackedNow, OwnEntries, L
<1>12. Fresh'
  BY <1>1, <1>6, <1>7 DEF Fresh
<1>13. Progress'
  <2>1. Pace
    BY <1>2 DEF TrackedNow, Progress
  <2>2. \A m \in Syn : /\ SynAt(m) \in DOMAIN Pipeline /\ m \in Module /\ L(m)' = L(m)
                       /\ L(m) \in Int /\ L(m) >= -1
    BY <1>1, Types, ModulesAre, SegmentsAre DEF L
  <2>3. ASSUME NEW m \in Syn PROVE L(m) >= 1 /\ L(m) # None /\ grid'[T].minInMemoryL <= L(m) + 1
    <3>1. L(m) # None /\ L(m) >= 1 /\ grid[T].minInMemoryL <= L(m) + 1
      BY <1>6, <2>1, <2>2 DEF Pace
    <3>2. CommonlyComputedL(T) \in Nat /\ CommonlyComputedL(T) <= L(m)
      BY <1>2, <1>9, <2>2, <3>1, ForwardRows DEF L
    <3>3. /\ ForwardL(T) \in Int /\ ForwardL(T) <= CommonlyComputedL(T) + 1
          /\ MovedGrid(T).minInMemoryL \in {grid[T].minInMemoryL, ForwardL(T)}
      BY <1>2, <1>9, MovedWindow
    <3>. QED
      BY <1>3, <1>9, <2>2, <3>1, <3>2, <3>3
  <2>4. \A m \in Syn : L(m) <= MaxInMemoryL(T)'
    <3>1. MaxInMemoryL(T)' >= MaxInMemoryL(T) /\ MaxInMemoryL(T) \in Nat /\ MaxInMemoryL(T)' \in Int
      BY <1>4, <1>9
    <3>. QED
      BY <2>1, <2>2, <3>1 DEF Pace
  <2>5. \A m, p \in Syn : SynAt(m) <= SynAt(p) => L(p) = L(m)
    BY <1>6, <2>1, <2>2 DEF Pace
  <2>6. \A m, p \in Syn : SynAt(m) <= SynAt(p) =>
          L(p)' <= L(m)' /\ (TurnOver(SynAt(p))' \/ ~TurnOver(SynAt(m))' => L(p)' = L(m)')
    BY <2>2, <2>5
  <2>. QED
    BY <2>2, <2>3, <2>4, <2>6 DEF Progress, Pace
<1>14. ReaderInv'
  <2>. SUFFICES ASSUME NEW s \in SourceSegments PROVE lastComputedL'[s]["READER"] <= MaxInMemoryL(s)'
    BY <1>6, <1>7 DEF ReaderInv
  <2>1. /\ lastComputedL[s]["READER"] <= MaxInMemoryL(s) /\ lastComputedL[s]["READER"] \in Int
        /\ MaxInMemoryL(s) \in Nat /\ MaxInMemoryL(s)' >= MaxInMemoryL(s)
        /\ MaxInMemoryL(s)' \in Int
    BY <1>2, <1>4, <1>9, Types, SegmentsAre, ModulesAre DEF TrackedNow, ReaderInv
  <2>. QED
    BY <1>1, <2>1
<1>. QED
  BY <1>1, <1>2, <1>3, <1>5, <1>6, <1>8, <1>10, <1>11, <1>12, <1>13, <1>14 DEF TrackedNow

\* A module is stopped: the reader removes the source segments, the collocation
\* its own, and the mapper forgets how far it got.
LEMMA StopStep ==
  ASSUME TypesFit, Tracked, phase = "stop", StopNext, ContextTypeOK',
         UNCHANGED <<product, segmentLineCount>>,
         DOMAIN grid' \subseteq DOMAIN grid, \A s \in DOMAIN grid' : grid'[s] = grid[s],
         SourceSegments \cap DOMAIN grid' = IF at = 1 THEN {} ELSE SourceSegments \cap DOMAIN grid,
         T \in DOMAIN grid' <=> T \in DOMAIN grid /\ at # 2,
         at # MapperAt /\ Map \in DOMAIN grid => Map \in DOMAIN grid',
         \A s \in SourceSegments :
           IF at = 1 THEN lastComputedL'[s] = NoEntries /\ firstRequiredL'[s] = NoEntries
           ELSE lastComputedL'[s] = lastComputedL[s] /\ firstRequiredL'[s] = firstRequiredL[s],
         IF at = 2 THEN lastComputedL'[T] = NoEntries /\ firstRequiredL'[T] = NoEntries
         ELSE lastComputedL'[T] = lastComputedL[T] /\ firstRequiredL'[T] = firstRequiredL[T],
         \A m \in Module \ {Mapper, "VGT_WRITER"} : lastComputedL'[Map][m] = None,
         MappedL' = IF at = MapperAt THEN None ELSE MappedL
  PROVE  TrackedNow'
<1>1. TrackedNow /\ 1 \in DOMAIN Pipeline /\ 2 \in DOMAIN Pipeline /\ MapperAt \in DOMAIN Pipeline
      /\ MapperAt \in {6, 7} /\ at \in Int /\ at >= 1
  BY PipelineIs, Types DEF Tracked
<1>2. /\ ~Busy' /\ phase' \in {"start", "stop", "done"}
      /\ phase' # "stop" <=> at = 1
      /\ \A i \in DOMAIN Pipeline : IsStarted(i) <=> at >= i
      /\ \A i \in DOMAIN Pipeline : IsStarted(i)' <=> (IsStarted(i) /\ i # at)
      /\ \A i \in DOMAIN Pipeline : IsFresh(i)' <=> (~IsStarted(i) \/ i = at \/ at = 1)
  BY <1>1, TurnsPass DEF IsStarted, Busy
<1>3. Present'
  BY <1>1, <1>2 DEF TrackedNow, Present, HasSegment
<1>4. ShapesFit'
  <2>1. \A s \in SourceSegments \cap DOMAIN grid' :
          /\ grid'[s].sizeL = GetSegmentSize(s, product.rows[s])'
          /\ grid'[s].maxL = product'.rows[s] - 1
          /\ MaxInMemoryL(s)' <= grid'[s].maxL
    BY <1>1 DEF TrackedNow, ShapesFit, GetSegmentSize, MaxInMemoryL
  <2>2. T \in DOMAIN grid' =>
          /\ grid'[T].sizeL = grid'["OLC"].sizeL
          /\ grid'[T].maxL = grid'["OLC"].maxL
          /\ MaxInMemoryL(T)' <= grid'[T].maxL
    <3>. SUFFICES ASSUME T \in DOMAIN grid'
                  PROVE  /\ grid'[T].sizeL = grid'["OLC"].sizeL
                         /\ grid'[T].maxL = grid'["OLC"].maxL
                         /\ MaxInMemoryL(T)' <= grid'[T].maxL
      OBVIOUS
    <3>1. T \in DOMAIN grid /\ IsStarted(2)
      BY <1>1 DEF TrackedNow, Present, HasSegment
    <3>2. at # 1 /\ IsStarted(1)
      BY <1>1, <1>2, <3>1
    <3>3. "OLC" \in DOMAIN grid /\ "OLC" \in DOMAIN grid'
      BY <1>1, <3>2, SegmentsAre DEF TrackedNow, Present
    <3>. QED
      BY <1>1, <3>1, <3>3 DEF TrackedNow, ShapesFit, HasSegment, MaxInMemoryL
  <2>3. Map \in DOMAIN grid' => grid'[Map] = NewMap(Map)'
    BY <1>1 DEF TrackedNow, ShapesFit, HasSegment, NewMap
  <2>. QED
    BY <2>1, <2>2, <2>3 DEF ShapesFit, HasSegment
<1>5. \A m \in Module : NoEntries[m] = None
  BY DEF NoEntries
<1>6. OwnEntries'
  <2>1. /\ \A m \in Module \ Syn : L(m)' = None
        /\ \A m \in Module \ {"COL", Mapper} : firstRequiredL'[T][m] = None
    BY <1>1, <1>5 DEF TrackedNow, OwnEntries, L
  <2>2. \A s \in SourceSegments :
          /\ \A m \in Module \ {"READER"} : lastComputedL'[s][m] = None
          /\ \A m \in Module \ {"COL", Mapper} : firstRequiredL'[s][m] = None
          /\ s # "OLC" => firstRequiredL'[s][Mapper] = None
    <3>. SUFFICES ASSUME NEW s \in SourceSegments
                  PROVE  /\ \A m \in Module \ {"READER"} : lastComputedL'[s][m] = None
                         /\ \A m \in Module \ {"COL", Mapper} : firstRequiredL'[s][m] = None
                         /\ s # "OLC" => firstRequiredL'[s][Mapper] = None
      OBVIOUS
    <3>1. CASE at = 1
      <4>1. lastComputedL'[s] = NoEntries /\ firstRequiredL'[s] = NoEntries /\ Mapper \in Module
        BY <3>1, ModulesAre
      <4>. QED
        BY <1>5, <4>1
    <3>2. CASE at # 1
      <4>1. lastComputedL'[s] = lastComputedL[s] /\ firstRequiredL'[s] = firstRequiredL[s]
        BY <3>2
      <4>2. OwnEntries
        BY <1>1 DEF TrackedNow
      <4>. QED
        BY <4>1, <4>2 DEF OwnEntries
    <3>. QED
      BY <3>1, <3>2
  <2>. QED
    BY <2>1, <2>2 DEF OwnEntries
<1>7. Fresh'
  <2>1. IsFresh(1)' => \A s \in SourceSegments : lastComputedL'[s] = NoEntries /\ firstRequiredL'[s] = NoEntries
    BY <1>1, <1>2 DEF TrackedNow, Fresh, IsFresh
  <2>2. IsFresh(2)' => lastComputedL'[T] = NoEntries /\ firstRequiredL'[T] = NoEntries
    BY <1>1, <1>2 DEF TrackedNow, Fresh, IsFresh
  <2>3. IsFresh(MapperAt)' => MappedL' = None
    BY <1>1, <1>2 DEF TrackedNow, Fresh, IsFresh
  <2>4. phase' = "start" => (SourceSegments \cup {T}) \cap DOMAIN grid' = {}
    <3>1. phase' = "start" => at = 1
      BY <1>2
    <3>2. at = 1 => ~IsStarted(2)
      BY <1>1, <1>2
    <3>. QED
      BY <1>1, <3>1, <3>2 DEF TrackedNow, Present, HasSegment
  <2>. QED
    BY <2>1, <2>2, <2>3, <2>4 DEF Fresh
<1>8. Progress' /\ ReaderInv'
  BY <1>2 DEF Progress, ReaderInv
<1>. QED
  BY <1>3, <1>4, <1>6, <1>7, <1>8 DEF TrackedNow

-----------------------------------------------------------------------------
(* Final rows. *)

\* What a module computes replaces what it had computed before.
LEMMA Computed ==
  ASSUME final \in [Module -> SUBSET Nat], NEW m \in Module, NEW lines, NEW good, good \subseteq Nat,
         Compute(m, lines, good)
  PROVE  /\ final' \in [Module -> SUBSET Nat]
         /\ final'[m] = (final[m] \ lines) \cup (lines \cap good)
         /\ \A p \in Module \ {m} : final'[p] = final[p]
BY DEF Compute

\* Nothing is computed, and nothing is registered.
LEMMA FinalStays ==
  ASSUME RegisteredAreFinal(Syn), UNCHANGED final,
         HasSegment(T)' => HasSegment(T) /\ lastComputedL'[T] = lastComputedL[T]
  PROVE  RegisteredAreFinal(Syn)'
BY DEF RegisteredAreFinal

\* A new segment has no entries.
LEMMA FinalAtFirst ==
  ASSUME HasSegment(T)' => lastComputedL'[T] = NoEntries
  PROVE  RegisteredAreFinal(Syn)'
<1>1. \A m \in Syn : NoEntries[m] = None
  BY ModulesAre DEF NoEntries
<1>2. 0..None = {}
  BY DEF None
<1>. QED
  BY <1>1, <1>2 DEF RegisteredAreFinal

\* While modules are started nothing is registered.
LEMMA FinalStart ==
  ASSUME TypesFit, Tracked, phase = "start", UNCHANGED lastComputedL
  PROVE  RegisteredAreFinal(Syn)'
<1>1. Fresh /\ 2 \in DOMAIN Pipeline
  BY PipelineIs DEF Tracked, TrackedNow
<1>2. lastComputedL[T] = NoEntries
  BY <1>1 DEF Fresh, IsFresh
<1>. QED
  BY <1>2, FinalAtFirst

\* The collocation computes the rows it registers.
LEMMA FinalCol ==
  ASSUME TypesFit, Tracked, LongWindows, ColProcess, RegisteredAreFinal(Syn)
  PROVE  RegisteredAreFinal(Syn)' /\ final' \in [Module -> SUBSET Nat]
<1>1. /\ TrackedNow /\ phase = "process" /\ at = 2 /\ UNCHANGED grid
      /\ L("COL")' = ColLastL /\ \A p \in Module \ {"COL"} : L(p)' = L(p)
      /\ Compute("COL", ColLines, 0..ColLastL)
  BY ColTurn
<1>2. /\ ColLines = (L("COL") + 1)..ColLastLine
      /\ ColLastLine \in Nat /\ ColLastLine >= ColLastL /\ ColLastL \in Nat
      /\ L("COL") \in Int /\ L("COL") >= -1
  BY <1>1, ColReach, ColRequirement
<1>3. final \in [Module -> SUBSET Nat] /\ "COL" \in Module /\ Syn \subseteq Module /\ "COL" \in Syn
  BY ModulesAre DEF TypesFit
<1>4. /\ final' \in [Module -> SUBSET Nat]
      /\ final'["COL"] = (final["COL"] \ ColLines) \cup (ColLines \cap (0..ColLastL))
      /\ \A p \in Module \ {"COL"} : final'[p] = final[p]
  <2>1. 0..ColLastL \subseteq Nat
    BY <1>2
  <2>. QED
    BY <1>1, <1>3, <2>1, Computed
<1>5. T \in DOMAIN grid
  BY <1>1, InAPass DEF Busy
<1>6. \A m \in Syn : 0..L(m) \subseteq final[m]
  BY <1>5 DEF RegisteredAreFinal, HasSegment, L
<1>7. 0..L("COL")' \subseteq final'["COL"]
  <2>. SUFFICES ASSUME NEW r \in 0..ColLastL PROVE r \in final'["COL"]
    BY <1>1
  <2>1. CASE r <= L("COL")
    BY <1>2, <1>3, <1>4, <1>6, <2>1
  <2>2. CASE r > L("COL")
    BY <1>2, <1>4, <2>2
  <2>. QED
    BY <1>2, <2>1, <2>2
<1>8. \A m \in Syn \ {"COL"} : 0..L(m)' \subseteq final'[m]
  BY <1>1, <1>3, <1>4, <1>6
<1>. QED
  BY <1>4, <1>7, <1>8 DEF RegisteredAreFinal, L

\* The others compute them from rows that are final.
LEMMA FinalFollows ==
  ASSUME TypesFit, TrackedNow, phase = "process", RegisteredAreFinal(Syn), NEW m \in Syn,
         UNCHANGED grid, NEW x \in Nat, L(m) \in Int, L(m) >= -1,
         L(m)' = x, \A p \in Module \ {m} : L(p)' = L(p),
         NEW good, good \subseteq Nat, (L(m) + 1)..x \subseteq good,
         Compute(m, (L(m) + 1)..x, good)
  PROVE  RegisteredAreFinal(Syn)' /\ final' \in [Module -> SUBSET Nat]
<1>1. final \in [Module -> SUBSET Nat] /\ m \in Module /\ Syn \subseteq Module
  BY ModulesAre DEF TypesFit
<1>2. /\ final' \in [Module -> SUBSET Nat]
      /\ final'[m] = (final[m] \ ((L(m) + 1)..x)) \cup (((L(m) + 1)..x) \cap good)
      /\ \A p \in Module \ {m} : final'[p] = final[p]
  BY <1>1, Computed
<1>3. T \in DOMAIN grid
  BY InAPass DEF Busy
<1>4. \A p \in Syn : 0..L(p) \subseteq final[p]
  BY <1>3 DEF RegisteredAreFinal, HasSegment, L
<1>5. 0..L(m)' \subseteq final'[m]
  <2>. SUFFICES ASSUME NEW r \in 0..x PROVE r \in final'[m]
    OBVIOUS
  <2>1. CASE r <= L(m)
    BY <1>2, <1>4, <2>1
  <2>2. CASE r > L(m)
    BY <1>2, <2>2
  <2>. QED
    BY <2>1, <2>2
<1>6. \A p \in Syn \ {m} : 0..L(p)' \subseteq final'[p]
  BY <1>1, <1>2, <1>4
<1>. QED
  BY <1>2, <1>5, <1>6 DEF RegisteredAreFinal, L

\* The turn of a module that follows the collocation.
LEMMA FollowStep ==
  ASSUME TypesFit, Tracked, RegisteredAreFinal(Syn), NEW m \in Syn \ {"COL"}, Turn("process", m),
         Register(m, [s \in {T} |-> GetLastComputableL(T, m)], << >>),
         UNCHANGED <<product, segmentLineCount>>,
         NEW good, good \subseteq Nat, (L(m) + 1)..L("COL") \subseteq good,
         Compute(m, ComputableLines(m), good)
  PROVE  /\ TrackedNow /\ phase = "process" /\ at = SynAt(m)
         /\ TrackedNow' /\ ContextTypeOK' /\ ProcessNext /\ UNCHANGED grid
         /\ RegisteredAreFinal(Syn)' /\ final' \in [Module -> SUBSET Nat]
         /\ \A p \in Syn : L(p)' \in Int /\ L(p)' >= L(p)
         /\ L("COL")' = L("COL")
         /\ \A s \in Segment \ {T} : lastComputedL'[s] = lastComputedL[s]
         /\ \A s \in Segment : \A p \in Module : firstRequiredL'[s][p] = firstRequiredL[s][p]
<1> DEFINE last == [s \in {T} |-> GetLastComputableL(T, m)]
           none == << >>
<1>1. /\ DOMAIN last = {T} /\ last[T] = GetLastComputableL(T, m) /\ DOMAIN none = {}
      /\ Register(m, last, none)
  OBVIOUS
<1> HIDE DEF last, none
<1>2. /\ TrackedNow /\ phase = "process" /\ at = SynAt(m)
      /\ GetFirstComputableL(T, m) = L(m) + 1 /\ GetLastComputableL(T, m) = L("COL")
      /\ L("COL") \in Nat /\ L(m) \in Int /\ L(m) >= -1 /\ L(m) <= L("COL")
      /\ TrackedNow' /\ ContextTypeOK' /\ ProcessNext /\ UNCHANGED grid
      /\ L(m)' = L("COL") /\ \A p \in Module \ {m} : L(p)' = L(p)
      /\ \A s \in Segment \ {T} : lastComputedL'[s] = lastComputedL[s]
      /\ \A s \in Segment : \A p \in Module : firstRequiredL'[s][p] = firstRequiredL[s][p]
  BY <1>1, FollowTurn, ZenonT(60)
<1>3. PICK x \in Nat : x = L("COL")
  BY <1>2
<1>4. ComputableLines(m) = (L(m) + 1)..x
  BY <1>2, <1>3 DEF ComputableLines
<1>5. Compute(m, (L(m) + 1)..x, good) /\ (L(m) + 1)..x \subseteq good /\ L(m)' = x
  BY <1>2, <1>3, <1>4
<1>6. RegisteredAreFinal(Syn)' /\ final' \in [Module -> SUBSET Nat]
  BY <1>2, <1>5, FinalFollows
<1>7. \A p \in Syn : L(p)' \in Int /\ L(p)' >= L(p)
  <2>1. \A p \in Syn : p \in Module /\ L(p) \in Int
    BY Types, ModulesAre, SegmentsAre DEF L
  <2>. QED
    BY <1>2, <2>1
<1>8. L("COL")' = L("COL")
  BY <1>2, ModulesAre
<1>. QED
  BY <1>2, <1>6, <1>7, <1>8

\* The classification of pixels and the mapping of bands.
LEMMA PclVbmStep ==
  ASSUME TypesFit, Tracked, RegisteredAreFinal(Syn), PclProcess \/ VbmProcess
  PROVE  /\ TrackedNow /\ phase = "process" /\ at \in {3, 4} /\ UNCHANGED <<product, source>>
         /\ TrackedNow' /\ ContextTypeOK' /\ ProcessNext /\ UNCHANGED grid
         /\ RegisteredAreFinal(Syn)' /\ final' \in [Module -> SUBSET Nat]
         /\ \A p \in Syn : L(p)' \in Int /\ L(p)' >= L(p)
         /\ L("COL")' = L("COL")
         /\ \A s \in Segment \ {T} : lastComputedL'[s] = lastComputedL[s]
         /\ \A s \in Segment : \A p \in Module : firstRequiredL'[s][p] = firstRequiredL[s][p]
<1>1. {"COL", "PCL", "VBM"} \subseteq Syn /\ SynAt("PCL") = 3 /\ SynAt("VBM") = 4 /\ SynAt("COL") = 2
      /\ Syn \subseteq Module /\ final \in [Module -> SUBSET Nat]
  BY ModulesAre DEF TypesFit
<1>2. ASSUME NEW m \in {"PCL", "VBM"}, Turn("process", m)
      PROVE  /\ \A p \in Syn : 0..L(p) \subseteq final[p]
             /\ \A p \in Syn : SynAt(p) < SynAt(m) => L(p) = L("COL")
             /\ L("COL") \in Nat /\ L(m) \in Int /\ L(m) >= -1
  <2>1. phase = "process" /\ Pipeline[at] = m /\ TrackedNow
    BY <1>2 DEF Turn, Tracked
  <2>2. at = SynAt(m) /\ at \in 3..MapperAt
    BY <2>1, <1>1, Types, TurnIs, PipelineIs
  <2>3. L("COL") \in Nat /\ \A p \in Syn : SynAt(p) < at => L(p) = L("COL")
    BY <2>1, <2>2, Reach
  <2>4. T \in DOMAIN grid
    BY <2>1, InAPass DEF Busy
  <2>5. \A p \in Syn : 0..L(p) \subseteq final[p]
    BY <2>4 DEF RegisteredAreFinal, HasSegment, L
  <2>. QED
    BY <1>1, <2>2, <2>3, <2>5, Types, SegmentsAre DEF L
<1>3. CASE PclProcess
  <2>1. /\ Turn("process", "PCL")
        /\ Register("PCL", [s \in {T} |-> GetLastComputableL(T, "PCL")], << >>)
        /\ UNCHANGED <<product, segmentLineCount>>
        /\ Compute("PCL", ComputableLines("PCL"), final["COL"])
    BY <1>3 DEF PclProcess
  <2>2. (L("PCL") + 1)..L("COL") \subseteq final["COL"] /\ final["COL"] \subseteq Nat
    BY <1>1, <1>2, <2>1
  <2>3. "PCL" \in Syn \ {"COL"}
    BY <1>1
  <2>4. /\ TrackedNow /\ phase = "process" /\ at = SynAt("PCL")
        /\ TrackedNow' /\ ContextTypeOK' /\ ProcessNext /\ UNCHANGED grid
        /\ RegisteredAreFinal(Syn)' /\ final' \in [Module -> SUBSET Nat]
        /\ \A p \in Syn : L(p)' \in Int /\ L(p)' >= L(p)
        /\ L("COL")' = L("COL")
        /\ \A s \in Segment \ {T} : lastComputedL'[s] = lastComputedL[s]
        /\ \A s \in Segment : \A p \in Module : firstRequiredL'[s][p] = firstRequiredL[s][p]
    BY <2>1, <2>2, <2>3, FollowStep, ZenonT(60)
  <2>. QED
    BY <1>1, <2>1, <2>4 DEF ProcessNext
<1>4. CASE VbmProcess
  <2>1. /\ Turn("process", "VBM")
        /\ Register("VBM", [s \in {T} |-> GetLastComputableL(T, "VBM")], << >>)
        /\ UNCHANGED <<product, segmentLineCount>>
        /\ Compute("VBM", ComputableLines("VBM"), final["PCL"])
    BY <1>4 DEF VbmProcess
  <2>2. (L("VBM") + 1)..L("COL") \subseteq final["PCL"] /\ final["PCL"] \subseteq Nat
    BY <1>1, <1>2, <2>1
  <2>3. "VBM" \in Syn \ {"COL"}
    BY <1>1
  <2>4. /\ TrackedNow /\ phase = "process" /\ at = SynAt("VBM")
        /\ TrackedNow' /\ ContextTypeOK' /\ ProcessNext /\ UNCHANGED grid
        /\ RegisteredAreFinal(Syn)' /\ final' \in [Module -> SUBSET Nat]
        /\ \A p \in Syn : L(p)' \in Int /\ L(p)' >= L(p)
        /\ L("COL")' = L("COL")
        /\ \A s \in Segment \ {T} : lastComputedL'[s] = lastComputedL[s]
        /\ \A s \in Segment : \A p \in Module : firstRequiredL'[s][p] = firstRequiredL[s][p]
    BY <2>1, <2>2, <2>3, FollowStep, ZenonT(60)
  <2>. QED
    BY <1>1, <2>1, <2>4 DEF ProcessNext
<1>. QED
  BY <1>3, <1>4

\* The flags of the rows that are good, at the place behind the flagging.
Flagged(rows) == phase = "process" /\ at = 6 => rows \subseteq final["VFL"]

LEMMA FlagStep ==
  ASSUME TypesFit, Tracked, RegisteredAreFinal(Syn), NEW good, good \subseteq Nat, FlagAgain(good)
  PROVE  /\ TrackedNow /\ phase = "process" /\ at = 5 /\ UNCHANGED <<product, source, contextVars>>
         /\ TrackedNow' /\ ContextTypeOK' /\ ProcessNext
         /\ RegisteredAreFinal(Syn)' /\ final' \in [Module -> SUBSET Nat]
         /\ (grid[T].minInMemoryL..L("COL")) \cap good \subseteq final'["VFL"]
         /\ \A p \in Module \ {"VFL"} : final'[p] = final[p]
<1>1. /\ phase = "process" /\ at = 5 /\ Pipeline[at] = "VFL" /\ UNCHANGED contextVars
      /\ Compute("VFL", ComputableLines("VFL"), good) /\ ProcessNext
      /\ UNCHANGED <<product, segmentLineCount, source>>
  BY Types, TurnIs DEF FlagAgain, Turn, ProcessNext
<1>2. TrackedNow
  BY <1>1 DEF Tracked
<1>3. TrackedNow' /\ ContextTypeOK'
  BY <1>1, <1>2, IdleTurn
<1>4. "VFL" \in Module /\ "VFL" \notin Syn /\ Syn \subseteq Module /\ at \in 3..MapperAt
      /\ final \in [Module -> SUBSET Nat]
  BY <1>1, ModulesAre, PipelineIs DEF TypesFit, Syn
<1>5. /\ final' \in [Module -> SUBSET Nat]
      /\ final'["VFL"] = (final["VFL"] \ ComputableLines("VFL")) \cup (ComputableLines("VFL") \cap good)
      /\ \A p \in Module \ {"VFL"} : final'[p] = final[p]
  BY <1>1, <1>4, Computed
<1>6. ComputableLines("VFL") = grid[T].minInMemoryL..L("COL")
  <2>1. L("VFL") = None
    BY <1>2, <1>4 DEF TrackedNow, OwnEntries
  <2>2. GetFirstComputableL(T, "VFL") = grid[T].minInMemoryL
    BY <2>1 DEF GetFirstComputableL, HasLastComputedL, L, None
  <2>3. GetLastComputableL(T, "VFL") = L("COL")
    BY <1>1, <1>2, <1>4, Reach
  <2>. QED
    BY <2>2, <2>3 DEF ComputableLines
<1>7. RegisteredAreFinal(Syn)'
  BY <1>1, <1>4, <1>5 DEF RegisteredAreFinal, HasSegment, contextVars
<1>. QED
  BY <1>1, <1>2, <1>3, <1>5, <1>6, <1>7

-----------------------------------------------------------------------------
(* How far the map is filled. *)

\* The source rows of the rows of the map that are done are computed, and those
\* of the other rows are still in memory or ahead: the next window begins with
\* or before them.  With the last source row the map is done.  The first pass
\* collocates the lines that the hypothesis speaks of.
MapInv ==
  Busy =>
    /\ MappedL <= MaxTargetL
    /\ \A l \in 0..MappedL : \A r \in product.found[l] : \A m \in Syn : r <= L(m)
    /\ \A l \in (MappedL + 1)..MaxTargetL : \A r \in product.found[l] :
         /\ grid[T].minInMemoryL <= r
         /\ TurnOver(MapperAt) =>
              r > MaxInMemoryL(T) \/ (0 < Asked /\ Asked <= r) \/ r = grid[T].maxL
    /\ TurnOver(MapperAt) /\ L("COL") = grid[T].maxL => MappedL = MaxTargetL
    /\ L("COL") # None => Needed <= L("COL") + 1

\* The numbers that the lemmas below are about.
LEMMA RowsType ==
  ASSUME TypesFit, TrackedNow, Busy
  PROVE  /\ \A m \in Syn : L(m) \in Int /\ L(m) >= -1
         /\ "COL" \in Syn
         /\ MappedL \in Int /\ MappedL >= -1 /\ Asked \in Int /\ Asked >= -1
         /\ grid[T].minInMemoryL \in Nat /\ MaxInMemoryL(T) \in Nat /\ grid[T].maxL \in Nat
         /\ grid[T].sizeL \in Nat \ {0} /\ MaxInMemoryL(T) = grid[T].minInMemoryL + grid[T].sizeL - 1
         /\ MaxInMemoryL(T) <= grid[T].maxL
         /\ MaxTargetL \in Nat /\ Margin \in Nat
         /\ \A l \in 0..MaxTargetL :
              /\ product.found[l] \subseteq 0..grid[T].maxL
              /\ product.found[l] \in SUBSET Nat
         /\ T \in DOMAIN grid /\ ContextTypeOK
<1>1. \A m \in Syn : m \in Module /\ L(m) \in Int /\ L(m) >= -1
  BY Types, ModulesAre, SegmentsAre DEF L
<1>2. /\ MappedL \in Int /\ MappedL >= -1 /\ Asked \in Int /\ Asked >= -1 /\ "COL" \in Syn
  BY Types, ModulesAre, SegmentsAre DEF MappedL, Asked
<1>3. product \in Products /\ Rows(product) = 0..grid[T].maxL /\ T \in DOMAIN grid
  BY InAPass
<1>4. product.found \in [0..MaxTargetL -> SUBSET (0..grid[T].maxL)]
  BY <1>3, MapProductsAssumption
<1>5. \A l \in 0..MaxTargetL : product.found[l] \subseteq 0..grid[T].maxL
  BY <1>4
<1>. QED
  BY <1>1, <1>2, <1>3, <1>5, InAPass, MappingAssumption, Types

\* Nothing is mapped before the first pass.
LEMMA MapStart ==
  ASSUME TypesFit, Tracked, phase = "start", StartNext, TrackedNow', TypesFit',
         UNCHANGED lastComputedL
  PROVE  MapInv'
<1>. SUFFICES ASSUME Busy' PROVE MapInv'
  BY DEF MapInv
<1>1. Fresh /\ MapperAt \in DOMAIN Pipeline /\ 2 \in DOMAIN Pipeline
  BY PipelineIs DEF Tracked, TrackedNow
<1>2. MappedL' = None /\ L("COL")' = None
  BY <1>1, ModulesAre DEF Fresh, IsFresh, MappedL, L, NoEntries
<1>3. phase' = "process" /\ ~TurnOver(MapperAt)'
  BY <1>1, TurnsPass DEF Busy, StartNext
<1>4. Fresh' /\ T \in DOMAIN grid' /\ grid'[T].minInMemoryL = 0
  <2>1. Busy' => Pace'
    BY DEF TrackedNow, Progress
  <2>2. grid'[T].minInMemoryL = 0
    BY <1>2, <2>1, ModulesAre DEF Pace
  <2>3. IsStarted(2)'
    BY DEF IsStarted
  <2>. QED
    BY <2>2, <2>3 DEF TrackedNow, Present, HasSegment
<1>5. \A l \in 0..MaxTargetL : product'.found[l] \in SUBSET Nat
  <2>1. product' \in Products
    BY <1>1 DEF TrackedNow, Present, IsStarted
  <2>2. PICK p \in Products : p = product'
    BY <2>1
  <2>3. p.rows["OLC"] \in Nat \ {0} /\ p.found \in [0..MaxTargetL -> SUBSET Rows(p)]
    BY ProductIs, MapProductsAssumption
  <2>4. \A l \in 0..MaxTargetL : p.found[l] \in SUBSET (0..(p.rows["OLC"] - 1))
    BY <2>3 DEF Rows
  <2>. QED
    BY <2>2, <2>4
<1>. QED
  BY <1>2, <1>3, <1>4, <1>5, MappingAssumption DEF MapInv, None

\* Turns of other modules: the rows they compute can only grow.
LEMMA MapStays ==
  ASSUME TypesFit, TrackedNow, MapInv, phase = "process", ProcessNext, at # MapperAt,
         UNCHANGED <<grid, product, segmentLineCount>>, MappedL' = MappedL, Asked' = Asked,
         \A m \in Syn : L(m)' \in Int /\ L(m)' >= L(m),
         at # 2 => L("COL")' = L("COL"), at = 2 => Needed <= L("COL")' + 1
  PROVE  MapInv'
<1>1. /\ Busy /\ Busy' /\ MapperAt \in DOMAIN Pipeline /\ 2 \in DOMAIN Pipeline
      /\ TurnOver(MapperAt)' <=> TurnOver(MapperAt)
  BY TurnsPass, PipelineIs DEF Busy
<1>2. TurnOver(MapperAt) => at # 2
  BY <1>1, PipelineIs DEF TurnOver
<1>3. Needed' = Needed
  BY DEF Needed
<1>4. MaxInMemoryL(T)' = MaxInMemoryL(T)
  BY DEF MaxInMemoryL
<1>5. /\ MappedL <= MaxTargetL
      /\ \A l \in 0..MappedL : \A r \in product.found[l] : \A m \in Syn : r <= L(m)
      /\ \A l \in (MappedL + 1)..MaxTargetL : \A r \in product.found[l] :
         /\ grid[T].minInMemoryL <= r
         /\ TurnOver(MapperAt) =>
              r > MaxInMemoryL(T) \/ (0 < Asked /\ Asked <= r) \/ r = grid[T].maxL
      /\ TurnOver(MapperAt) /\ L("COL") = grid[T].maxL => MappedL = MaxTargetL
      /\ L("COL") # None => Needed <= L("COL") + 1
  BY <1>1 DEF MapInv
<1>6. /\ \A m \in Syn : L(m) \in Int /\ L(m) >= -1
      /\ MappedL \in Int /\ MaxTargetL \in Nat
      /\ \A l \in 0..MaxTargetL : product.found[l] \in SUBSET Nat
  BY <1>1, RowsType
<1>7. \A l \in 0..MappedL : \A r \in product.found[l] : \A m \in Syn : r <= L(m)'
  <2>. SUFFICES ASSUME NEW l \in 0..MappedL, NEW r \in product.found[l], NEW m \in Syn PROVE r <= L(m)'
    OBVIOUS
  <2>1. r \in Nat /\ r <= L(m) /\ L(m) \in Int /\ L(m)' \in Int /\ L(m)' >= L(m)
    BY <1>5, <1>6
  <2>. QED
    BY <2>1
<1>8. L("COL")' # None => Needed <= L("COL")' + 1
  BY <1>5
<1>9. TurnOver(MapperAt) /\ L("COL")' = grid[T].maxL => MappedL = MaxTargetL
  BY <1>2, <1>5
<1>10. MapInv' = (/\ MappedL' <= MaxTargetL
                  /\ \A l \in 0..MappedL' : \A r \in product'.found[l] : \A m \in Syn : r <= L(m)'
                  /\ \A l \in (MappedL' + 1)..MaxTargetL : \A r \in product'.found[l] :
                     /\ grid'[T].minInMemoryL <= r
                     /\ TurnOver(MapperAt)' =>
                          r > MaxInMemoryL(T)' \/ (0 < Asked' /\ Asked' <= r) \/ r = grid'[T].maxL
                  /\ TurnOver(MapperAt)' /\ L("COL")' = grid'[T].maxL => MappedL' = MaxTargetL
                  /\ L("COL")' # None => Needed' <= L("COL")' + 1)
  BY <1>1 DEF MapInv
<1>. QED
  BY <1>1, <1>3, <1>4, <1>5, <1>7, <1>8, <1>9, <1>10

\* The window slides to a row that the unfinished rows of the map leave free.
LEMMA MapMove ==
  ASSUME TypesFit, Tracked, MapInv, MoveSegmentsForward, UNCHANGED <<product, segmentLineCount>>
  PROVE  /\ MapInv'
         /\ phase' = "stop" => MappedL = MaxTargetL
<1>1. /\ TrackedNow /\ phase = "move" /\ Busy /\ MapperAt \in DOMAIN Pipeline
      /\ UNCHANGED <<lastComputedL, firstRequiredL>>
      /\ DOMAIN grid' = DOMAIN grid /\ \A s \in DOMAIN grid : grid'[s] = MovedGrid(s)
      /\ \A i \in DOMAIN Pipeline : TurnOver(i) /\ ~TurnOver(i)'
      /\ TrackedNow' /\ ContextTypeOK'
  BY MoveStep, PipelineIs
<1>2. /\ MappedL <= MaxTargetL
      /\ \A l \in 0..MappedL : \A r \in product.found[l] : \A m \in Syn : r <= L(m)
      /\ \A l \in (MappedL + 1)..MaxTargetL : \A r \in product.found[l] :
         /\ grid[T].minInMemoryL <= r
         /\ r > MaxInMemoryL(T) \/ (0 < Asked /\ Asked <= r) \/ r = grid[T].maxL
      /\ L("COL") = grid[T].maxL => MappedL = MaxTargetL
      /\ L("COL") # None => Needed <= L("COL") + 1
  BY <1>1 DEF MapInv
<1>3. /\ \A m \in Syn : L(m) \in Int /\ L(m) >= -1
      /\ "COL" \in Syn /\ Syn \subseteq Module
      /\ MappedL \in Int /\ Asked \in Int /\ MaxTargetL \in Nat /\ MappedL >= -1
      /\ grid[T].minInMemoryL \in Nat /\ MaxInMemoryL(T) \in Nat /\ grid[T].maxL \in Nat
      /\ grid[T].sizeL \in Nat \ {0} /\ MaxInMemoryL(T) <= grid[T].maxL
      /\ MaxInMemoryL(T) = grid[T].minInMemoryL + grid[T].sizeL - 1
      /\ \A l \in 0..MaxTargetL : product.found[l] \in SUBSET Nat
      /\ T \in DOMAIN grid /\ ContextTypeOK
  BY <1>1, RowsType, ModulesAre
<1>4. /\ ForwardL(T) \in Int
      /\ ForwardL(T) <= MaxInMemoryL(T) + 1
      /\ ForwardL(T) <= grid[T].maxL
      /\ Asked > 0 => ForwardL(T) <= Asked
      /\ grid'[T].minInMemoryL \in {grid[T].minInMemoryL, ForwardL(T)}
      /\ grid'[T].maxL = grid[T].maxL
  <2>1. /\ ForwardL(T) \in Int
        /\ ForwardL(T) <= CommonlyComputedL(T) + 1
        /\ ForwardL(T) <= GetFirstRequiredL(T)
        /\ ForwardL(T) <= grid[T].maxL - grid[T].sizeL + 1
        /\ MovedGrid(T).minInMemoryL \in {grid[T].minInMemoryL, ForwardL(T)}
        /\ MovedGrid(T).maxL = grid[T].maxL
    BY <1>3, MovedWindow
  <2>2. /\ CommonlyComputedL(T) \in Nat /\ CommonlyComputedL(T) <= MaxInMemoryL(T)
        /\ GetFirstRequiredL(T) \in Nat
        /\ \A m \in Module : firstRequiredL[T][m] > 0 => GetFirstRequiredL(T) <= firstRequiredL[T][m]
    BY <1>3, ForwardRows
  <2>3. Asked > 0 => GetFirstRequiredL(T) <= Asked
    BY <2>2, ModulesAre DEF Asked
  <2>. QED
    BY <1>1, <1>3, <2>1, <2>2, <2>3
<1>5. Needed' = Needed /\ MappedL' = MappedL /\ Asked' = Asked /\ \A m \in Syn : L(m)' = L(m)
  BY <1>1 DEF Needed, MappedL, Asked, L
<1>6. \A l \in (MappedL + 1)..MaxTargetL : \A r \in product.found[l] : grid'[T].minInMemoryL <= r
  <2>. SUFFICES ASSUME NEW l \in (MappedL + 1)..MaxTargetL, NEW r \in product.found[l]
                PROVE  grid'[T].minInMemoryL <= r
    OBVIOUS
  <2>1. r \in Nat
    BY <1>3
  <2>2. /\ grid[T].minInMemoryL <= r
        /\ r > MaxInMemoryL(T) \/ (0 < Asked /\ Asked <= r) \/ r = grid[T].maxL
    BY <1>2
  <2>. QED
    BY <1>3, <1>4, <2>1, <2>2
<1>7. MapInv'
  <2>1. ~TurnOver(MapperAt)'
    BY <1>1
  <2>. QED
    BY <1>2, <1>3, <1>5, <1>6, <2>1 DEF MapInv
<1>8. ASSUME phase' = "stop" PROVE MappedL = MaxTargetL
  <2>1. IsCompleted([s \in DOMAIN grid |-> MovedGrid(s)])
    BY <1>8 DEF MoveSegmentsForward
  <2>2. \A m \in Module : lastComputedL[T][m] # None => lastComputedL[T][m] >= grid[T].maxL
    <3>1. MovedGrid(T).maxL = grid[T].maxL
      BY <1>3, MovedWindow
    <3>. QED
      BY <1>3, <2>1, <3>1 DEF IsCompleted
  <2>3. L("COL") # None /\ L("COL") <= MaxInMemoryL(T)
    <3>1. 2 \in DOMAIN Pipeline /\ SynAt("COL") = 2
      BY PipelineIs, ModulesAre
    <3>. QED
      BY <1>1, <1>3, <3>1 DEF TrackedNow, Progress, Pace
  <2>. QED
    BY <1>2, <1>3, <2>2, <2>3 DEF L
<1>. QED
  BY <1>7, <1>8

\* What the mapper sees when it is its turn.
LEMMA MapperSees ==
  ASSUME TypesFit, Tracked, MapInv, Turn("process", Mapper)
  PROVE  /\ TrackedNow /\ phase = "process" /\ at = MapperAt /\ Busy
         /\ LastTargetL = MaxTargetL
         /\ FirstTargetL = IF MappedL > 0 THEN MappedL + 1 ELSE 0
         /\ LastSourceL = L("COL") /\ L("COL") \in Nat /\ L("COL") <= MaxInMemoryL(T)
         /\ \A m \in Syn : L(m) = L("COL")
         /\ Needed <= L("COL") + 1
         /\ \A l \in 0..MappedL : \A r \in product.found[l] : r <= L("COL")
         /\ \A l \in (MappedL + 1)..MaxTargetL : \A r \in product.found[l] : grid[T].minInMemoryL <= r
         /\ MappedL <= MaxTargetL
<1>1. /\ TrackedNow /\ phase = "process" /\ at = MapperAt /\ Busy /\ Pipeline[at] = Mapper
      /\ at \in 3..MapperAt /\ Mapper \in Module /\ MapperAt \in {6, 7}
  BY Types, TurnIs, PipelineIs, ModulesAre DEF Turn, Tracked, Busy
<1>2. /\ LastSourceL = L("COL") /\ L("COL") \in Nat /\ L("COL") <= MaxInMemoryL(T)
      /\ \A m \in Syn : SynAt(m) < at => L(m) = L("COL")
  BY <1>1, Reach DEF LastSourceL
<1>3. \A m \in Syn : L(m) = L("COL")
  BY <1>1, <1>2, ModulesAre
<1>4. /\ MappedL \in Int /\ MappedL >= -1 /\ MaxTargetL \in Nat /\ ContextTypeOK /\ "COL" \in Syn
  BY <1>1, RowsType
<1>5. /\ Map \in DOMAIN grid /\ grid[Map].minInMemoryL = 0 /\ grid[Map].maxL = MaxTargetL
      /\ MaxInMemoryL(Map) = MaxTargetL
  BY <1>1, InAPass
<1>6. FirstTargetL = IF MappedL > 0 THEN MappedL + 1 ELSE 0
  BY <1>4, <1>5 DEF FirstTargetL, GetFirstComputableL, HasLastComputedL, Larger, MappedL
<1>7. LastTargetL = MaxTargetL
  <2>1. \A p \in Predecessors(Mapper) : lastComputedL[Map][p] = None
    BY <1>1, PredecessorsAre DEF TrackedNow, OwnEntries
  <2>2. /\ GetLastComputableL(Map, Mapper) \in Nat
        /\ GetLastComputableL(Map, Mapper) <= MaxInMemoryL(Map)
        /\ (\A p \in Predecessors(Mapper) : lastComputedL[Map][p] > 0 => MaxTargetL <= lastComputedL[Map][p])
             => MaxTargetL <= GetLastComputableL(Map, Mapper)
    BY <1>1, <1>4, <1>5, LastComputable
  <2>. QED
    BY <1>4, <1>5, <2>1, <2>2 DEF LastTargetL, None
<1>8. /\ Needed <= L("COL") + 1
      /\ \A l \in 0..MappedL : \A r \in product.found[l] : r <= L("COL")
      /\ \A l \in (MappedL + 1)..MaxTargetL : \A r \in product.found[l] : grid[T].minInMemoryL <= r
      /\ MappedL <= MaxTargetL
  <2>1. L("COL") # None
    BY <1>2 DEF None
  <2>. QED
    BY <1>1, <1>4, <2>1 DEF MapInv
<1>. QED
  BY <1>1, <1>2, <1>3, <1>6, <1>7, <1>8

\* Behind the map there is nothing left for it.
LEMMA MapCompletesStep ==
  ASSUME TypesFit, Tracked, MapInv, LongWindows, MapCompletes
  PROVE  /\ TrackedNow /\ phase = "process" /\ at = MapperAt /\ Busy
         /\ TrackedNow' /\ ContextTypeOK' /\ ProcessNext /\ UNCHANGED <<grid, product, source>>
         /\ \A s \in Segment \ {Map} : lastComputedL'[s] = lastComputedL[s]
         /\ \A s \in Segment : \A p \in Module : firstRequiredL'[s][p] = firstRequiredL[s][p]
         /\ MapInv' /\ MappedL' = MaxTargetL
         /\ \A l \in (MappedL + 1)..MaxTargetL : product.found[l] = {}
<1>1. /\ Turn("process", Mapper) /\ IsNorthOfSource
      /\ Register(Mapper, [s \in {Map} |-> LastTargetL], << >>)
      /\ UNCHANGED <<product, segmentLineCount, final>>
  BY DEF MapCompletes, dataVars
<1>2. /\ TrackedNow /\ phase = "process" /\ at = MapperAt /\ Busy
      /\ LastTargetL = MaxTargetL
      /\ L("COL") \in Nat /\ L("COL") <= MaxInMemoryL(T)
      /\ \A m \in Syn : L(m) = L("COL")
      /\ Needed <= L("COL") + 1
      /\ \A l \in 0..MappedL : \A r \in product.found[l] : r <= L("COL")
      /\ \A l \in (MappedL + 1)..MaxTargetL : \A r \in product.found[l] : grid[T].minInMemoryL <= r
      /\ MappedL <= MaxTargetL
  BY <1>1, MapperSees
<1>3. /\ MappedL \in Int /\ MappedL >= -1 /\ MaxTargetL \in Nat /\ Margin \in Nat
      /\ grid[T].minInMemoryL \in Nat /\ MaxInMemoryL(T) \in Nat /\ grid[T].maxL \in Nat
      /\ grid[T].sizeL \in Nat \ {0} /\ MaxInMemoryL(T) <= grid[T].maxL
      /\ MaxInMemoryL(T) = grid[T].minInMemoryL + grid[T].sizeL - 1
      /\ \A l \in 0..MaxTargetL : product.found[l] \subseteq 0..grid[T].maxL
  BY <1>2, RowsType
<1>4. /\ product \in Products /\ segmentLineCount \in LineCounts /\ Rows(product) = 0..grid[T].maxL
  BY <1>2, InAPass DEF TypesFit
<1>5. /\ \A q, r \in Rows(product) : q < r => product.north[q] <= product.north[r]
      /\ \A l \in 0..MaxTargetL : \A r \in product.found[l] : product.north[r] <= 10 * l + Margin
      /\ \A r \in Rows(product) : product.north[r] \in Int
  BY <1>4, Hypothesis, MapProductsAssumption DEF Maps
<1>6. \A l \in (MappedL + 1)..MaxTargetL : product.found[l] = {}
  <2>. SUFFICES ASSUME NEW l \in (MappedL + 1)..MaxTargetL, NEW r \in product.found[l] PROVE FALSE
    OBVIOUS
  <2>1. l \in 0..MaxTargetL /\ r \in 0..grid[T].maxL /\ grid[T].minInMemoryL <= r /\ r \in Rows(product)
    BY <1>2, <1>3, <1>4
  <2>2. product.north[r] <= 10 * l + Margin /\ product.north[r] \in Int
    BY <1>5, <2>1
  <2>3. \A q \in grid[T].minInMemoryL..MaxInMemoryL(T) : product.north[q] > 10 * MaxTargetL + Margin
    BY <1>1, <1>2 DEF IsNorthOfSource, InMemory
  <2>4. CASE r <= MaxInMemoryL(T)
    BY <1>3, <2>1, <2>2, <2>3, <2>4
  <2>5. CASE r > MaxInMemoryL(T)
    <3>1. MaxInMemoryL(T) \in Rows(product) /\ MaxInMemoryL(T) \in grid[T].minInMemoryL..MaxInMemoryL(T)
      BY <1>3, <1>4
    <3>2. product.north[MaxInMemoryL(T)] <= product.north[r] /\ product.north[MaxInMemoryL(T)] \in Int
      BY <1>5, <2>1, <2>5, <3>1
    <3>3. product.north[MaxInMemoryL(T)] > 10 * MaxTargetL + Margin
      BY <2>3, <3>1
    <3>. QED
      BY <1>3, <2>1, <2>2, <3>2, <3>3
  <2>. QED
    BY <1>3, <2>1, <2>4, <2>5
<1> DEFINE last == [s \in {Map} |-> LastTargetL]
           none == << >>
<1>7. DOMAIN last = {Map} /\ last[Map] = MaxTargetL /\ DOMAIN none = {} /\ Register(Mapper, last, none)
  BY <1>1, <1>2
<1> HIDE DEF last, none
<1>8. /\ TrackedNow' /\ ContextTypeOK' /\ ProcessNext /\ UNCHANGED grid
      /\ MappedL' = MaxTargetL
      /\ \A s \in Segment \ {Map} : lastComputedL'[s] = lastComputedL[s]
      /\ \A s \in Segment : \A p \in Module :
           firstRequiredL'[s][p] =
             IF p = Mapper /\ s \in DOMAIN none THEN EntryOf(none[s]) ELSE firstRequiredL[s][p]
  <2>1. MaxTargetL \in Int /\ MaxTargetL >= -1 /\ MaxTargetL <= MaxTargetL
        /\ (MappedL > 0 => MappedL <= MaxTargetL)
    BY <1>2, <1>3
  <2>2. DOMAIN none \subseteq {T, "OLC"} /\ \A s \in DOMAIN none : none[s] \in Int
    BY <1>7
  <2>3. DOMAIN last = {Map} /\ last[Map] = MaxTargetL /\ Register(Mapper, last, none)
        /\ Turn("process", Mapper) /\ UNCHANGED <<product, segmentLineCount>>
    BY <1>1, <1>7
  <2>. QED
    BY <2>1, <2>2, <2>3, MapperTurn, ZenonT(60)
<1>9. \A m \in Syn : L(m)' = L(m)
  BY <1>8, SegmentsAre DEF L
<1>10. MapInv'
  <2>1. Needed' = Needed
    BY <1>1 DEF Needed
  <2>2. \A l \in 0..MaxTargetL : \A r \in product.found[l] : r <= L("COL")
    BY <1>2, <1>3, <1>6
  <2>3. \A m \in Syn : L(m)' = L("COL")
    BY <1>2, <1>9
  <2>4. L("COL")' = L("COL")
    BY <1>9, ModulesAre
  <2>5. (MaxTargetL + 1)..MaxTargetL = {}
    BY <1>3
  <2>. QED
    BY <1>1, <1>2, <1>3, <1>8, <2>1, <2>2, <2>3, <2>4, <2>5 DEF MapInv
<1>. QED
  BY <1>1, <1>2, <1>6, <1>7, <1>8, <1>10 DEF ProcessNext

\* Before the map there is nothing for it in memory.
LEMMA MapWaitsStep ==
  ASSUME TypesFit, Tracked, MapInv, LongWindows, MapWaits
  PROVE  /\ TrackedNow /\ phase = "process" /\ at = MapperAt /\ Busy
         /\ TrackedNow' /\ ContextTypeOK' /\ ProcessNext
         /\ UNCHANGED <<contextVars, product, source>>
         /\ MapInv' /\ L("COL") < grid[T].maxL
<1>1. /\ Turn("process", Mapper) /\ IsSouthOfSource /\ ProcessNext
      /\ UNCHANGED <<contextVars, product, segmentLineCount, final, source>>
  BY DEF MapWaits, dataVars, ProcessNext
<1>2. /\ TrackedNow /\ phase = "process" /\ at = MapperAt /\ Busy
      /\ FirstTargetL = IF MappedL > 0 THEN MappedL + 1 ELSE 0
      /\ LastSourceL = L("COL") /\ L("COL") \in Nat /\ L("COL") <= MaxInMemoryL(T)
      /\ \A m \in Syn : L(m) = L("COL")
      /\ Needed <= L("COL") + 1
      /\ \A l \in 0..MappedL : \A r \in product.found[l] : r <= L("COL")
      /\ \A l \in (MappedL + 1)..MaxTargetL : \A r \in product.found[l] : grid[T].minInMemoryL <= r
      /\ MappedL <= MaxTargetL
  BY <1>1, MapperSees
<1>3. /\ MappedL \in Int /\ MappedL >= -1 /\ MaxTargetL \in Nat /\ Margin \in Nat
      /\ grid[T].minInMemoryL \in Nat /\ MaxInMemoryL(T) \in Nat /\ grid[T].maxL \in Nat
      /\ \A l \in 0..MaxTargetL : product.found[l] \subseteq 0..grid[T].maxL
  BY <1>2, RowsType
<1>4. /\ product \in Products /\ segmentLineCount \in LineCounts /\ Rows(product) = 0..grid[T].maxL
      /\ grid[T].maxL = product.rows["OLC"] - 1
  BY <1>2, InAPass DEF TypesFit
<1>5. /\ \A l \in 0..MaxTargetL : \A r \in product.found[l] :
           product.south[r] >= 10 * l - Margin \/ r = grid[T].maxL
      /\ \A r \in Rows(product) : product.south[r] \in Int
  BY <1>4, Hypothesis, MapProductsAssumption DEF Maps
<1>6. /\ TrackedNow' /\ ContextTypeOK'
  <2>1. at \notin {1, 2, 3, 4} /\ (at = 6 => MapperAt = 6)
    BY <1>2, PipelineIs
  <2>. QED
    BY <1>1, <1>2, <2>1, IdleTurn
<1>7. /\ L("COL") < grid[T].maxL
      /\ \A r \in grid[T].minInMemoryL..MaxInMemoryL(T) : product.south[r] < 10 * FirstTargetL - Margin
  BY <1>1, <1>2 DEF IsSouthOfSource, InMemory
<1>8. ASSUME NEW l \in (MappedL + 1)..MaxTargetL, NEW r \in product.found[l]
      PROVE  r > MaxInMemoryL(T) \/ r = grid[T].maxL
  <2>1. l \in 0..MaxTargetL /\ r \in Rows(product) /\ grid[T].minInMemoryL <= r /\ r \in Nat
    BY <1>2, <1>3, <1>4
  <2>2. product.south[r] >= 10 * l - Margin \/ r = grid[T].maxL
    BY <1>5, <2>1
  <2>3. FirstTargetL \in Int /\ FirstTargetL <= l
    BY <1>2, <1>3
  <2>4. product.south[r] \in Int
    BY <1>5, <2>1
  <2>. QED
    BY <1>3, <1>7, <2>1, <2>2, <2>3, <2>4
<1>9. MapInv'
  <2>1. Needed' = Needed /\ MappedL' = MappedL /\ grid' = grid /\ (\A m \in Syn : L(m)' = L(m))
        /\ product' = product /\ MaxInMemoryL(T)' = MaxInMemoryL(T)
    BY <1>1 DEF Needed, MappedL, L, contextVars, MaxInMemoryL
  <2>2. L("COL")' = L("COL") /\ L("COL")' # grid'[T].maxL
    BY <1>2, <1>3, <1>7, <2>1, ModulesAre
  <2>3. \A l \in 0..MappedL : \A r \in product.found[l] : \A m \in Syn : r <= L(m)'
    BY <1>2, <2>1
  <2>. QED
    BY <1>2, <1>8, <2>1, <2>2, <2>3 DEF MapInv
<1>. QED
  BY <1>1, <1>2, <1>6, <1>7, <1>9

\* The rows of the map that are filled in a turn, and what the first unfinished
\* row requires: the rows after it begin no earlier.
LEMMA MapReach ==
  ASSUME TypesFit, Tracked, MapInv, LongWindows, Turn("process", Mapper)
  PROVE  /\ MappedLastL \in Int /\ MappedL <= MappedLastL /\ MappedLastL <= MaxTargetL
         /\ MappedLastL >= -1
         /\ MapLines \subseteq 0..MaxTargetL
         /\ (MappedL + 1)..MappedLastL \subseteq MapLines
         /\ \A l \in 0..MappedLastL : \A r \in product.found[l] : r <= L("COL")
         /\ MapRequiredL \in Nat
         /\ MappedLastL < MaxTargetL =>
              /\ MapRequiredL > 0
              /\ MapRequiredL \in product.found[MappedLastL + 1] \cup {MaxInMemoryL(T) + 1}
              /\ \E r \in product.found[MappedLastL + 1] : r > L("COL")
              /\ \A l \in (MappedLastL + 1)..MaxTargetL : \A r \in product.found[l] : MapRequiredL <= r
         /\ L("COL") = grid[T].maxL => MappedLastL = MaxTargetL
<1>1. /\ TrackedNow /\ phase = "process" /\ at = MapperAt /\ Busy
      /\ LastTargetL = MaxTargetL
      /\ FirstTargetL = IF MappedL > 0 THEN MappedL + 1 ELSE 0
      /\ LastSourceL = L("COL") /\ L("COL") \in Nat /\ L("COL") <= MaxInMemoryL(T)
      /\ Needed <= L("COL") + 1
      /\ \A l \in 0..MappedL : \A r \in product.found[l] : r <= L("COL")
      /\ MappedL <= MaxTargetL
  BY MapperSees
<1>2. /\ MappedL \in Int /\ MappedL >= -1 /\ MaxTargetL \in Nat
      /\ MaxInMemoryL(T) \in Nat /\ grid[T].maxL \in Nat
      /\ \A l \in 0..MaxTargetL :
           product.found[l] \subseteq 0..grid[T].maxL /\ product.found[l] \in SUBSET Nat
  BY <1>1, RowsType
<1>3. /\ product \in Products /\ segmentLineCount \in LineCounts
  BY <1>1, InAPass DEF TypesFit
<1>4. /\ \A l \in 0..MaxTargetL : \A r \in product.found[l] :
           /\ \A q \in product.found[l] : q = 0 => r < Needed
           /\ r >= Needed =>
                \A j \in (l + 1)..MaxTargetL : \A q \in product.found[j] :
                  \E o \in product.found[l] : o <= q
      /\ Needed \in Nat
  BY <1>3, Hypothesis DEF Maps
<1>5. FirstTargetL \in Nat /\ FirstTargetL <= MappedL + 1
  BY <1>1, <1>2
<1>6. UnfinishedRows = {l \in FirstTargetL..MaxTargetL : \E r \in product.found[l] : r > L("COL")}
  BY <1>1 DEF UnfinishedRows
<1>7. MapLines = FirstTargetL..Smaller(MappedLastL + 1, MaxTargetL)
  BY <1>1 DEF MapLines
<1>8. ASSUME MapLines # {}, NEW it \in 0..MaxTargetL, MapLines = FirstTargetL..it
      PROVE  /\ MapRequiredL \in product.found[it] \cup {MaxInMemoryL(T) + 1}
             /\ \A r \in product.found[it] : MapRequiredL <= r
             /\ MapRequiredL \in Nat
  <2>1. Max(MapLines) = it
    BY <1>5, <1>8, MaxOfInterval
  <2>2. MapRequiredL = Min(product.found[it] \cup {MaxInMemoryL(T) + 1})
    BY <1>8, <2>1 DEF MapRequiredL
  <2>3. product.found[it] \cup {MaxInMemoryL(T) + 1} \in SUBSET Nat
    BY <1>2
  <2>4. /\ MapRequiredL \in product.found[it] \cup {MaxInMemoryL(T) + 1}
        /\ \A r \in product.found[it] \cup {MaxInMemoryL(T) + 1} : MapRequiredL <= r
    BY <2>2, <2>3, MinIs
  <2>. QED
    BY <2>3, <2>4
<1>9. CASE UnfinishedRows = {}
  <2>1. MappedLastL = MaxTargetL
    BY <1>1, <1>9 DEF MappedLastL
  <2>2. MapLines = FirstTargetL..MaxTargetL
    BY <1>2, <1>7, <2>1 DEF Smaller
  <2>3. (MappedL + 1)..MappedLastL \subseteq MapLines /\ MapLines \subseteq 0..MaxTargetL
    BY <1>2, <1>5, <2>1, <2>2
  <2>4. \A l \in 0..MaxTargetL : \A r \in product.found[l] : r <= L("COL")
    <3>. SUFFICES ASSUME NEW l \in 0..MaxTargetL, NEW r \in product.found[l] PROVE r <= L("COL")
      OBVIOUS
    <3>1. CASE l <= MappedL
      BY <1>1, <1>2, <3>1
    <3>2. CASE l > MappedL
      <4>1. l \in FirstTargetL..MaxTargetL
        BY <1>2, <1>5, <3>2
      <4>2. ~(r > L("COL"))
        BY <1>6, <1>9, <4>1
      <4>3. r \in Nat
        BY <1>2
      <4>. QED
        BY <1>1, <4>2, <4>3
    <3>. QED
      BY <1>2, <3>1, <3>2
  <2>5. MapRequiredL \in Nat
    <3>1. CASE MapLines = {}
      BY <3>1 DEF MapRequiredL
    <3>2. CASE MapLines # {}
      BY <1>2, <1>8, <2>2, <3>2
    <3>. QED
      BY <3>1, <3>2
  <2>. QED
    BY <1>1, <1>2, <2>1, <2>3, <2>4, <2>5
<1>10. CASE UnfinishedRows # {}
  <2> DEFINE it == Min(UnfinishedRows)
  <2>1. it \in UnfinishedRows /\ \A y \in UnfinishedRows : it <= y
    <3>1. UnfinishedRows \in SUBSET Nat
      BY <1>2, <1>5, <1>6
    <3>. QED
      BY <1>10, <3>1, MinIs
  <2>2. /\ it \in FirstTargetL..MaxTargetL
        /\ \E r \in product.found[it] : r > L("COL")
    BY <1>6, <2>1
  <2>3. MappedLastL = it - 1
    BY <1>10 DEF MappedLastL
  <2> HIDE DEF it
  <2>4. it > MappedL /\ it \in 0..MaxTargetL
    <3>1. ~(it <= MappedL)
      <4>. SUFFICES ASSUME it <= MappedL PROVE FALSE
        OBVIOUS
      <4>1. it \in 0..MappedL /\ it \in 0..MaxTargetL
        BY <1>1, <1>2, <1>5, <2>2
      <4>2. PICK r \in product.found[it] : r > L("COL")
        BY <2>2
      <4>3. r \in Nat /\ r <= L("COL")
        BY <1>1, <1>2, <4>1
      <4>. QED
        BY <1>1, <4>2, <4>3
    <3>. QED
      BY <1>2, <1>5, <2>2, <3>1
  <2>5. MapLines = FirstTargetL..it
    BY <1>2, <1>7, <2>3, <2>4 DEF Smaller
  <2>6. /\ MapRequiredL \in product.found[it] \cup {MaxInMemoryL(T) + 1}
        /\ \A r \in product.found[it] : MapRequiredL <= r
        /\ MapRequiredL \in Nat
    <3>1. MapLines # {}
      BY <1>5, <2>2, <2>5
    <3>. QED
      BY <1>8, <2>4, <2>5, <3>1
  <2>7. PICK last \in product.found[it] : last > L("COL")
    BY <2>2
  <2>8. last >= Needed /\ last \in Nat
    BY <1>1, <1>2, <1>4, <2>4, <2>7
  <2>9. MapRequiredL > 0
    <3>1. 0 \notin product.found[it]
      BY <1>4, <2>4, <2>8
    <3>. QED
      BY <1>2, <2>6, <3>1
  <2>10. \A l \in it..MaxTargetL : \A r \in product.found[l] : MapRequiredL <= r
    <3>. SUFFICES ASSUME NEW l \in it..MaxTargetL, NEW r \in product.found[l] PROVE MapRequiredL <= r
      OBVIOUS
    <3>1. l \in 0..MaxTargetL /\ r \in Nat
      BY <1>2, <2>4
    <3>2. CASE l = it
      BY <2>6, <3>2
    <3>3. CASE l # it
      <4>1. l \in (it + 1)..MaxTargetL
        BY <2>4, <3>3
      <4>2. PICK o \in product.found[it] : o <= r
        BY <1>4, <2>4, <2>8, <4>1
      <4>3. o \in Nat
        BY <1>2, <2>4
      <4>. QED
        BY <2>6, <3>1, <4>2, <4>3
    <3>. QED
      BY <3>2, <3>3
  <2>11. \A l \in 0..MappedLastL : \A r \in product.found[l] : r <= L("COL")
    <3>. SUFFICES ASSUME NEW l \in 0..MappedLastL, NEW r \in product.found[l] PROVE r <= L("COL")
      OBVIOUS
    <3>1. l < it /\ l \in 0..MaxTargetL /\ r \in Nat
      BY <1>2, <2>3, <2>4
    <3>2. CASE l <= MappedL
      BY <1>1, <1>2, <3>1, <3>2
    <3>3. CASE l > MappedL
      <4>1. l \in FirstTargetL..MaxTargetL /\ l \notin UnfinishedRows
        BY <1>2, <1>5, <2>1, <2>4, <3>1, <3>3
      <4>2. ~(r > L("COL"))
        BY <1>6, <4>1
      <4>. QED
        BY <1>1, <3>1, <4>2
    <3>. QED
      BY <1>2, <3>1, <3>2, <3>3
  <2>12. L("COL") # grid[T].maxL
    BY <1>1, <1>2, <2>4, <2>7
  <2>13. /\ MapLines \subseteq 0..MaxTargetL
         /\ (MappedL + 1)..MappedLastL \subseteq MapLines
    BY <1>2, <1>5, <2>3, <2>4, <2>5
  <2>14. /\ MappedLastL \in Int /\ MappedL <= MappedLastL /\ MappedLastL <= MaxTargetL
         /\ MappedLastL >= -1 /\ MappedLastL + 1 = it
    BY <1>2, <2>3, <2>4
  <2>. QED
    BY <2>2, <2>6, <2>9, <2>10, <2>11, <2>12, <2>13, <2>14
<1>. QED
  BY <1>9, <1>10

\* The mapper carries rows over.
LEMMA MapsStep ==
  ASSUME TypesFit, Tracked, MapInv, LongWindows, Turn("process", Mapper), RegisterMapped,
         UNCHANGED <<product, segmentLineCount>>
  PROVE  /\ TrackedNow /\ phase = "process" /\ at = MapperAt /\ Busy
         /\ TrackedNow' /\ ContextTypeOK' /\ ProcessNext /\ UNCHANGED <<grid, source>>
         /\ \A s \in Segment \ {Map} : lastComputedL'[s] = lastComputedL[s]
         /\ \A s \in Segment : \A p \in Module :
              firstRequiredL'[s][p] =
                IF p = Mapper /\ s \in {T, "OLC"} THEN MapRequiredL ELSE firstRequiredL[s][p]
         /\ MapInv' /\ MappedL' = MappedLastL
<1>1. /\ TrackedNow /\ phase = "process" /\ at = MapperAt /\ Busy
      /\ L("COL") \in Nat
      /\ \A m \in Syn : L(m) = L("COL")
      /\ Needed <= L("COL") + 1
      /\ \A l \in (MappedL + 1)..MaxTargetL : \A r \in product.found[l] : grid[T].minInMemoryL <= r
  BY MapperSees
<1>2. /\ MappedLastL \in Int /\ MappedL <= MappedLastL /\ MappedLastL <= MaxTargetL
      /\ MappedLastL >= -1
      /\ \A l \in 0..MappedLastL : \A r \in product.found[l] : r <= L("COL")
      /\ MapRequiredL \in Nat
      /\ MappedLastL < MaxTargetL =>
           /\ MapRequiredL > 0
           /\ \A l \in (MappedLastL + 1)..MaxTargetL : \A r \in product.found[l] : MapRequiredL <= r
      /\ L("COL") = grid[T].maxL => MappedLastL = MaxTargetL
  BY MapReach
<1>3. MappedL \in Int /\ MappedL >= -1 /\ MaxTargetL \in Nat
  BY <1>1, RowsType
<1> DEFINE last == [s \in {Map} |-> MappedLastL]
           first == [s \in {T, "OLC"} |-> MapRequiredL]
<1>4. /\ DOMAIN last = {Map} /\ last[Map] = MappedLastL
      /\ DOMAIN first = {T, "OLC"} /\ \A s \in DOMAIN first : first[s] = MapRequiredL
      /\ Register(Mapper, last, first)
  BY DEF RegisterMapped
<1> HIDE DEF last, first
<1>5. PICK x \in Int : x = MappedLastL
  BY <1>2
<1>6. /\ TrackedNow' /\ ContextTypeOK' /\ ProcessNext /\ UNCHANGED grid
      /\ MappedL' = x
      /\ \A s \in Segment \ {Map} : lastComputedL'[s] = lastComputedL[s]
      /\ \A s \in Segment : \A p \in Module :
           firstRequiredL'[s][p] =
             IF p = Mapper /\ s \in DOMAIN first THEN EntryOf(first[s]) ELSE firstRequiredL[s][p]
  <2>1. x >= -1 /\ x <= MaxTargetL /\ (MappedL > 0 => MappedL <= x) /\ last[Map] = x
    BY <1>2, <1>4, <1>5
  <2>2. DOMAIN first \subseteq {T, "OLC"} /\ \A s \in DOMAIN first : first[s] \in Int
    BY <1>2, <1>4
  <2>. QED
    BY <1>4, <2>1, <2>2, MapperTurn, ZenonT(60)
<1>7. \A s \in Segment : \A p \in Module :
        firstRequiredL'[s][p] =
          IF p = Mapper /\ s \in {T, "OLC"} THEN MapRequiredL ELSE firstRequiredL[s][p]
  <2>1. \A s \in {T, "OLC"} : EntryOf(first[s]) = MapRequiredL
    BY <1>2, <1>4 DEF EntryOf
  <2>. QED
    BY <1>4, <1>6, <2>1
<1>8. MapInv'
  <2>1. Needed' = Needed /\ MaxInMemoryL(T)' = MaxInMemoryL(T)
    BY <1>6 DEF Needed, MaxInMemoryL
  <2>2. \A m \in Syn : L(m)' = L("COL")
    BY <1>1, <1>6, SegmentsAre DEF L
  <2>3. L("COL")' = L("COL")
    BY <2>2, ModulesAre
  <2>4. Asked' = MapRequiredL
    BY <1>7, ModulesAre, SegmentsAre DEF Asked
  <2>5. MappedL' = MappedLastL
    BY <1>5, <1>6
  <2>6. ASSUME NEW l \in (MappedLastL + 1)..MaxTargetL, NEW r \in product.found[l]
        PROVE  grid[T].minInMemoryL <= r /\ 0 < MapRequiredL /\ MapRequiredL <= r
    BY <1>1, <1>2, <1>3
  <2>. QED
    BY <1>1, <1>2, <1>6, <2>1, <2>2, <2>3, <2>4, <2>5, <2>6 DEF MapInv
<1>. QED
  BY <1>1, <1>5, <1>6, <1>7, <1>8 DEF ProcessNext

-----------------------------------------------------------------------------
(* The parts together, and the steps that the tasks have in common. *)

Basics == TypesFit /\ Tracked /\ RegisteredAreFinal(Syn) /\ MapInv

\* The kinds of steps besides those of the mapper and the writer, and the end
\* of a pass.
Starting ==
  /\ phase = "start" /\ StartNext /\ UNCHANGED lastComputedL
  /\ DOMAIN grid \subseteq DOMAIN grid'
  /\ at # MapperAt + 1 => UNCHANGED file

Passing ==
  /\ phase = "process" /\ ProcessNext /\ at \notin {MapperAt, MapperAt + 1}
  /\ UNCHANGED <<grid, product, source, file>> /\ MappedL' = MappedL

Stopping ==
  /\ phase = "stop" /\ StopNext /\ UNCHANGED <<product, file>>
  /\ DOMAIN grid \ (SourceSegments \cup {T}) \subseteq DOMAIN grid'

Ending == UNCHANGED source /\ (phase' = "failed" \/ (phase = "done" /\ phase' = "done"))

LEMMA TypesOfStep ==
  ASSUME TypesFit, ContextTypeOK', UNCHANGED segmentLineCount, final' \in [Module -> SUBSET Nat],
         \/ phase = "process" /\ ProcessNext
         \/ phase = "start" /\ StartNext
         \/ phase = "stop" /\ StopNext
         \/ Throw
         \/ MoveSegmentsForward
         \/ UNCHANGED controlVars
  PROVE  TypesFit'
<1>1. ControlTypeOK'
  BY ControlTypes
<1>. QED
  BY <1>1 DEF TypesFit, ProcessorTypeOK, ControlTypeOK

LEMMA StartingKeeps ==
  ASSUME Basics, phase = "start", StartNext, UNCHANGED <<lastComputedL, segmentLineCount, final>>,
         TrackedNow', ContextTypeOK'
  PROVE  Basics'
<1>1. TypesFit /\ Tracked
  BY DEF Basics
<1>2. TypesFit'
  BY <1>1, TypesOfStep DEF TypesFit
<1>3. Tracked'
  BY DEF Tracked
<1>4. RegisteredAreFinal(Syn)'
  BY <1>1, FinalStart
<1>5. MapInv'
  BY <1>1, <1>2, MapStart
<1>. QED
  BY <1>2, <1>3, <1>4, <1>5 DEF Basics

LEMMA PassingKeeps ==
  ASSUME Basics, phase = "process", ProcessNext, at # MapperAt,
         UNCHANGED <<grid, product, segmentLineCount>>, TrackedNow', ContextTypeOK',
         final' \in [Module -> SUBSET Nat], RegisteredAreFinal(Syn)',
         MappedL' = MappedL, Asked' = Asked,
         \A m \in Syn : L(m)' \in Int /\ L(m)' >= L(m),
         at # 2 => L("COL")' = L("COL"), at = 2 => Needed <= L("COL")' + 1
  PROVE  Basics'
<1>1. TypesFit /\ TrackedNow /\ MapInv
  BY DEF Basics, Tracked
<1>2. TypesFit'
  BY <1>1, TypesOfStep
<1>3. Tracked'
  BY DEF Tracked
<1>4. MapInv'
  BY <1>1, MapStays
<1>. QED
  BY <1>2, <1>3, <1>4 DEF Basics

LEMMA StoppingKeeps ==
  ASSUME Basics, phase = "stop", StopNext, UNCHANGED segmentLineCount, TrackedNow', ContextTypeOK',
         final' \in [Module -> SUBSET Nat], RegisteredAreFinal(Syn)'
  PROVE  Basics'
<1>1. TypesFit /\ TrackedNow
  BY DEF Basics, Tracked
<1>2. TypesFit'
  BY <1>1, TypesOfStep
<1>3. Tracked'
  BY DEF Tracked
<1>4. MapInv'
  BY <1>1, TurnsPass DEF MapInv
<1>. QED
  BY <1>2, <1>3, <1>4 DEF Basics

\* A failure changes nothing but the control, and the program is at its end.
LEMMA EndingKeeps ==
  ASSUME Basics, UNCHANGED <<contextVars, product, segmentLineCount, final>>, Throw \/ Exited
  PROVE  Basics' /\ Ending
<1>1. TypesFit /\ Tracked /\ RegisteredAreFinal(Syn)
  BY DEF Basics
<1>2. /\ phase' = "failed" \/ (phase = "done" /\ phase' = "done")
      /\ UNCHANGED source
  BY DEF Throw, Exited, controlVars
<1>3. ContextTypeOK'
  BY <1>1, Types DEF ContextTypeOK, contextVars
<1>4. TypesFit'
  <2>1. Throw \/ UNCHANGED controlVars
    BY DEF Exited
  <2>. QED
    BY <1>1, <1>3, <2>1, TypesOfStep DEF TypesFit
<1>5. MapInv'
  BY <1>2 DEF MapInv, Busy
<1>6. RegisteredAreFinal(Syn)'
  BY <1>1, FinalStays DEF contextVars, HasSegment
<1>7. Tracked'
  <2>1. CASE phase' = "failed"
    BY <2>1 DEF Tracked
  <2>2. CASE phase = "done" /\ phase' = "done"
    <3>1. at' = at /\ TrackedNow /\ phase' = phase
      BY <1>1, <2>2 DEF Tracked, Exited, controlVars, Throw
    <3>2. /\ (IsStarted(1)' <=> IsStarted(1)) /\ (IsStarted(2)' <=> IsStarted(2))
          /\ (IsStarted(MapperAt)' <=> IsStarted(MapperAt))
          /\ ~Busy'
      BY <2>2, <3>1 DEF IsStarted, Busy
    <3>3. Present'
      BY <3>1, <3>2 DEF TrackedNow, Present, HasSegment, contextVars
    <3>4. ShapesFit'
      BY <3>1 DEF TrackedNow, ShapesFit, HasSegment, contextVars, GetSegmentSize, MaxInMemoryL, NewMap
    <3>5. OwnEntries'
      BY <3>1 DEF TrackedNow, OwnEntries, L, contextVars
    <3>6. Fresh'
      BY <3>1, <3>2 DEF TrackedNow, Fresh, IsFresh, contextVars, MappedL
    <3>7. Progress' /\ ReaderInv'
      BY <3>2 DEF Progress, ReaderInv
    <3>. QED
      BY <3>3, <3>4, <3>5, <3>6, <3>7 DEF Tracked, TrackedNow
  <2>. QED
    BY <1>2, <2>1, <2>2
<1>. QED
  BY <1>2, <1>4, <1>5, <1>6, <1>7 DEF Basics, Ending

TaskStart ==
  \/ ReaderStart \/ ColStart \/ WriterStart("VGT_WRITER")
  \/ \E m \in {"PCL", "VBM", "VFL", "VAC", "MANIFEST"} : IdleStart(m)

LEMMA TaskStartStep ==
  ASSUME Basics, TaskStart
  PROVE  Basics' /\ Starting /\ at # MapperAt
<1>1. TypesFit /\ Tracked /\ MapperAt \in {6, 7}
  BY Types DEF Basics
<1>2. phase = "start" /\ StartNext
  BY DEF TaskStart, ReaderStart, ColStart, WriterStart, IdleStart, Turn
<1>3. UNCHANGED <<lastComputedL, segmentLineCount, final>>
  BY DEF TaskStart, ReaderStart, ColStart, WriterStart, IdleStart, contextVars, dataVars
<1>4. CASE ReaderStart
  <2>1. TrackedNow' /\ ContextTypeOK'
    BY <1>1, <1>4, ReaderStartStep
  <2>2. DOMAIN grid \subseteq DOMAIN grid' /\ UNCHANGED file
    BY <1>4 DEF ReaderStart, AddSegments
  <2>3. at # MapperAt
    BY <1>1, <1>4, Types, TurnIs DEF ReaderStart, Turn
  <2>. QED
    BY <1>2, <1>3, <2>1, <2>2, <2>3, StartingKeeps DEF Starting
<1>5. CASE ColStart
  <2>1. TrackedNow' /\ ContextTypeOK'
    BY <1>1, <1>5, ColStartStep
  <2>2. DOMAIN grid \subseteq DOMAIN grid' /\ UNCHANGED file
    BY <1>5 DEF ColStart, AddSegments, dataVars
  <2>3. at # MapperAt
    BY <1>1, <1>5, Types, TurnIs DEF ColStart, Turn
  <2>. QED
    BY <1>2, <1>3, <2>1, <2>2, <2>3, StartingKeeps DEF Starting
<1>6. CASE WriterStart("VGT_WRITER") \/ \E m \in {"PCL", "VBM", "VFL", "VAC", "MANIFEST"} : IdleStart(m)
  <2>1. /\ UNCHANGED contextVars /\ UNCHANGED <<segmentLineCount, product>>
        /\ Pipeline[at] \in {"VGT_WRITER", "PCL", "VBM", "VFL", "VAC", "MANIFEST"}
        /\ Pipeline[at] # "VGT_WRITER" => UNCHANGED file
    BY <1>6 DEF WriterStart, IdleStart, Turn, dataVars
  <2>2. at \notin {1, 2, MapperAt} /\ (at # MapperAt + 1 => Pipeline[at] # "VGT_WRITER")
    BY <1>1, <2>1, Types, TurnIs, MappingAssumption
  <2>3. TrackedNow' /\ ContextTypeOK'
    BY <1>1, <1>2, <2>1, <2>2, IdleStartStep
  <2>4. DOMAIN grid \subseteq DOMAIN grid'
    BY <2>1 DEF contextVars
  <2>. QED
    BY <1>2, <1>3, <2>1, <2>2, <2>3, <2>4, StartingKeeps DEF Starting
<1>. QED
  BY <1>4, <1>5, <1>6 DEF TaskStart

TaskProcess == ReaderProcess \/ ColProcess \/ PclProcess \/ VbmProcess \/ IdleProcess("MANIFEST")

LEMMA TaskProcessStep ==
  ASSUME Basics, LongWindows, TaskProcess
  PROVE  Basics' /\ Passing
<1>1. TypesFit /\ Tracked /\ RegisteredAreFinal(Syn) /\ MapInv /\ MapperAt \in {6, 7}
      /\ final \in [Module -> SUBSET Nat]
  BY Types DEF Basics, TypesFit
<1>2. UNCHANGED <<product, segmentLineCount, file>>
  BY DEF TaskProcess, ReaderProcess, ColProcess, PclProcess, VbmProcess, IdleProcess, dataVars
<1>3. /\ \A m \in Syn : m \in Module /\ L(m) \in Int /\ L(m) >= -1
      /\ "COL" \in Syn /\ T \in Segment /\ Map \in Segment /\ Map # T /\ Mapper \in Module
      /\ Mapper # "COL"
  BY <1>1, Types, ModulesAre, SegmentsAre DEF L
<1>4. CASE ReaderProcess
  <2>1. /\ TrackedNow' /\ ContextTypeOK' /\ phase = "process" /\ ProcessNext /\ at = 1
        /\ UNCHANGED grid
        /\ \A s \in Segment : firstRequiredL'[s] = firstRequiredL[s]
        /\ lastComputedL'[T] = lastComputedL[T] /\ lastComputedL'[Map] = lastComputedL[Map]
    BY <1>1, <1>4, ReaderTurn DEF Tracked, ReaderProcess, Turn
  <2>2. UNCHANGED final
    BY <1>4 DEF ReaderProcess, dataVars
  <2>3. RegisteredAreFinal(Syn)'
    BY <1>1, <2>1, <2>2, FinalStays DEF HasSegment
  <2>4. MappedL' = MappedL /\ Asked' = Asked /\ \A m \in Syn : L(m)' = L(m)
    BY <1>3, <2>1 DEF MappedL, Asked, L
  <2>5. UNCHANGED source
    BY <2>1 DEF ProcessNext
  <2>. QED
    BY <1>1, <1>2, <1>3, <2>1, <2>2, <2>3, <2>4, <2>5, PassingKeeps DEF Passing
<1>5. CASE ColProcess
  <2>1. /\ TrackedNow /\ phase = "process" /\ at = 2
        /\ TrackedNow' /\ ContextTypeOK' /\ ProcessNext /\ UNCHANGED <<grid, product>>
        /\ L("COL")' = ColLastL /\ \A p \in Module \ {"COL"} : L(p)' = L(p)
        /\ \A s \in Segment \ {T} : lastComputedL'[s] = lastComputedL[s]
        /\ \A s \in Segment : \A p \in Module \ {"COL"} : firstRequiredL'[s][p] = firstRequiredL[s][p]
    BY <1>1, <1>5, ColTurn
  <2>2. ColLastL \in Nat /\ L("COL") <= ColLastL /\ Needed <= ColLastL + 1
    BY <1>1, <2>1, ColReach
  <2>3. RegisteredAreFinal(Syn)' /\ final' \in [Module -> SUBSET Nat]
    BY <1>1, <1>5, FinalCol
  <2>4. MappedL' = MappedL /\ Asked' = Asked
    BY <1>3, <2>1 DEF MappedL, Asked
  <2>5. \A m \in Syn : L(m)' \in Int /\ L(m)' >= L(m)
    BY <1>3, <2>1, <2>2
  <2>6. UNCHANGED source /\ Needed <= L("COL")' + 1
    BY <2>1, <2>2 DEF ProcessNext
  <2>. QED
    BY <1>1, <1>2, <2>1, <2>3, <2>4, <2>5, <2>6, PassingKeeps DEF Passing
<1>6. CASE PclProcess \/ VbmProcess
  <2>1. /\ TrackedNow /\ phase = "process" /\ at \in {3, 4} /\ UNCHANGED <<product, source>>
        /\ TrackedNow' /\ ContextTypeOK' /\ ProcessNext /\ UNCHANGED grid
        /\ RegisteredAreFinal(Syn)' /\ final' \in [Module -> SUBSET Nat]
        /\ \A p \in Syn : L(p)' \in Int /\ L(p)' >= L(p)
        /\ L("COL")' = L("COL")
        /\ \A s \in Segment \ {T} : lastComputedL'[s] = lastComputedL[s]
        /\ \A s \in Segment : \A p \in Module : firstRequiredL'[s][p] = firstRequiredL[s][p]
    BY <1>1, <1>6, PclVbmStep
  <2>2. MappedL' = MappedL /\ Asked' = Asked
    BY <1>3, <2>1 DEF MappedL, Asked
  <2>. QED
    BY <1>1, <1>2, <2>1, <2>2, PassingKeeps DEF Passing
<1>7. CASE IdleProcess("MANIFEST")
  <2>1. /\ phase = "process" /\ at = MapperAt + 2 /\ ProcessNext
        /\ UNCHANGED contextVars /\ UNCHANGED final
    BY <1>1, <1>7, Types, TurnIs DEF IdleProcess, Turn, dataVars
  <2>2. TrackedNow
    BY <1>1, <2>1 DEF Tracked
  <2>3. TrackedNow' /\ ContextTypeOK'
    BY <1>1, <1>2, <2>1, <2>2, IdleTurn
  <2>4. RegisteredAreFinal(Syn)'
    BY <1>1, <2>1, FinalStays DEF HasSegment, contextVars
  <2>5. MappedL' = MappedL /\ Asked' = Asked /\ \A m \in Syn : L(m)' = L(m)
    BY <2>1 DEF MappedL, Asked, L, contextVars
  <2>6. UNCHANGED <<grid, source>>
    BY <2>1 DEF ProcessNext, contextVars
  <2>. QED
    BY <1>1, <1>2, <1>3, <2>1, <2>3, <2>4, <2>5, <2>6, PassingKeeps DEF Passing
<1>. QED
  BY <1>4, <1>5, <1>6, <1>7 DEF TaskProcess

TaskStop ==
  \/ ManifestStop \/ WriterStop("VGT_WRITER") \/ ColStop \/ ReaderStop
  \/ \E m \in {"VAC", "VFL", "VBM", "PCL"} : IdleStop(m)

\* What is left of the context when segments are removed.
LEMMA Removed ==
  ASSUME ContextTypeOK, NEW ids \in SUBSET Segment, RemoveSegments(ids)
  PROVE  /\ ContextTypeOK'
         /\ DOMAIN grid' = DOMAIN grid \ ids
         /\ \A s \in DOMAIN grid' : grid'[s] = grid[s]
         /\ \A s \in ids : lastComputedL'[s] = NoEntries /\ firstRequiredL'[s] = NoEntries
         /\ \A s \in Segment \ ids :
              lastComputedL'[s] = lastComputedL[s] /\ firstRequiredL'[s] = firstRequiredL[s]
<1>1. NoEntries \in [Module -> Entry]
  BY DEF NoEntries, Entry
<1>2. \A s \in DOMAIN grid : grid[s] \in Grid
  BY DEF ContextTypeOK
<1>3. grid' \in [DOMAIN grid' -> Grid] /\ DOMAIN grid' \subseteq Segment
  BY <1>2 DEF RemoveSegments, ContextTypeOK
<1>4. /\ lastComputedL' \in [Segment -> [Module -> Entry]]
      /\ firstRequiredL' \in [Segment -> [Module -> Entry]]
  BY <1>1 DEF RemoveSegments, ContextTypeOK
<1>. QED
  BY <1>3, <1>4 DEF RemoveSegments, ContextTypeOK

LEMMA TaskStopStep ==
  ASSUME Basics, TaskStop
  PROVE  Basics' /\ Stopping
<1>1. TypesFit /\ Tracked /\ RegisteredAreFinal(Syn) /\ ContextTypeOK /\ MapperAt \in {6, 7}
      /\ final \in [Module -> SUBSET Nat]
  BY Types DEF Basics, TypesFit
<1>2. /\ phase = "stop" /\ StopNext
      /\ UNCHANGED <<product, segmentLineCount, file>>
  BY DEF TaskStop, ManifestStop, WriterStop, ColStop, ReaderStop, IdleStop, dataVars, Turn
<1>3. TrackedNow /\ 2 \in DOMAIN Pipeline /\ SourceSegments \subseteq Segment /\ T \in Segment
      /\ T \notin SourceSegments /\ Map \notin SourceSegments /\ Map # T /\ Map \in Segment
  BY <1>1, <1>2, PipelineIs, SegmentsAre DEF Tracked
<1>4. \A m \in Module \ {Mapper, "VGT_WRITER"} : lastComputedL[Map][m] = None
  BY <1>3 DEF TrackedNow, OwnEntries
<1>5. CASE ReaderStop
  <2>1. at = 1 /\ RemoveSegments(SourceSegments) /\ final' = NothingFinal
    BY <1>1, <1>5, Types, TurnIs DEF ReaderStop, Turn
  <2>2. /\ ContextTypeOK'
        /\ DOMAIN grid' = DOMAIN grid \ SourceSegments
        /\ \A s \in DOMAIN grid' : grid'[s] = grid[s]
        /\ \A s \in SourceSegments : lastComputedL'[s] = NoEntries /\ firstRequiredL'[s] = NoEntries
        /\ \A s \in Segment \ SourceSegments :
             lastComputedL'[s] = lastComputedL[s] /\ firstRequiredL'[s] = firstRequiredL[s]
    BY <1>1, <1>3, <2>1, Removed
  <2>3. final' \in [Module -> SUBSET Nat]
    BY <2>1 DEF NothingFinal
  <2>4. T \notin DOMAIN grid
    BY <1>2, <1>3, <2>1 DEF TrackedNow, Present, IsStarted, HasSegment, Busy
  <2>5. RegisteredAreFinal(Syn)'
    BY <2>2, <2>4 DEF RegisteredAreFinal, HasSegment
  <2>6. TrackedNow'
    <3>1. /\ SourceSegments \cap DOMAIN grid' = {}
          /\ (T \in DOMAIN grid' <=> T \in DOMAIN grid /\ at # 2)
          /\ (Map \in DOMAIN grid => Map \in DOMAIN grid')
          /\ DOMAIN grid' \subseteq DOMAIN grid
      BY <1>3, <2>1, <2>2, <2>4
    <3>2. lastComputedL'[T] = lastComputedL[T] /\ firstRequiredL'[T] = firstRequiredL[T]
          /\ MappedL' = MappedL
          /\ \A m \in Module \ {Mapper, "VGT_WRITER"} : lastComputedL'[Map][m] = None
      BY <1>3, <1>4, <2>2 DEF MappedL
    <3>. QED
      BY <1>1, <1>2, <2>1, <2>2, <3>1, <3>2, StopStep
  <2>. QED
    BY <1>2, <2>2, <2>3, <2>5, <2>6, StoppingKeeps DEF Stopping
<1>6. CASE ColStop
  <2>1. at = 2 /\ RemoveSegments({T}) /\ final' = final
    BY <1>1, <1>6, Types, TurnIs DEF ColStop, Turn, dataVars
  <2>2. /\ ContextTypeOK'
        /\ DOMAIN grid' = DOMAIN grid \ {T}
        /\ \A s \in DOMAIN grid' : grid'[s] = grid[s]
        /\ \A s \in {T} : lastComputedL'[s] = NoEntries /\ firstRequiredL'[s] = NoEntries
        /\ \A s \in Segment \ {T} :
             lastComputedL'[s] = lastComputedL[s] /\ firstRequiredL'[s] = firstRequiredL[s]
    <3>1. {T} \in SUBSET Segment /\ ContextTypeOK /\ RemoveSegments({T})
      BY <1>1, <1>3, <2>1
    <3>. QED
      BY <3>1, Removed, ZenonT(60)
  <2>3. RegisteredAreFinal(Syn)'
    BY <2>2 DEF RegisteredAreFinal, HasSegment
  <2>4. TrackedNow'
    <3>1. /\ SourceSegments \cap DOMAIN grid' = SourceSegments \cap DOMAIN grid
          /\ (T \in DOMAIN grid' <=> T \in DOMAIN grid /\ at # 2)
          /\ (Map \in DOMAIN grid => Map \in DOMAIN grid')
          /\ DOMAIN grid' \subseteq DOMAIN grid
      BY <1>3, <2>1, <2>2
    <3>2. /\ \A s \in SourceSegments :
               lastComputedL'[s] = lastComputedL[s] /\ firstRequiredL'[s] = firstRequiredL[s]
          /\ MappedL' = MappedL
          /\ \A m \in Module \ {Mapper, "VGT_WRITER"} : lastComputedL'[Map][m] = None
      BY <1>3, <1>4, <2>2 DEF MappedL
    <3>3. /\ at = 2 /\ 2 # MapperAt
          /\ lastComputedL'[T] = NoEntries /\ firstRequiredL'[T] = NoEntries
      BY <1>1, <2>1, <2>2
    <3>. QED
      BY <1>1, <1>2, <2>2, <3>1, <3>2, <3>3, StopStep
  <2>. QED
    BY <1>1, <1>2, <2>1, <2>2, <2>3, <2>4, StoppingKeeps DEF Stopping
<1>7. CASE ManifestStop \/ WriterStop("VGT_WRITER") \/ \E m \in {"VAC", "VFL", "VBM", "PCL"} : IdleStop(m)
  <2>1. /\ UNCHANGED contextVars /\ UNCHANGED final
        /\ Pipeline[at] \in {"VGT_WRITER", "PCL", "VBM", "VFL", "VAC", "MANIFEST"}
    BY <1>7 DEF ManifestStop, WriterStop, IdleStop, Turn, dataVars
  <2>2. at \notin {1, 2, MapperAt}
    BY <1>1, <2>1, Types, TurnIs, MappingAssumption
  <2>3. ContextTypeOK' /\ UNCHANGED <<grid, lastComputedL, firstRequiredL>>
    BY <1>1, <2>1 DEF ContextTypeOK, contextVars
  <2>4. RegisteredAreFinal(Syn)'
    BY <1>1, <2>1, <2>3, FinalStays DEF HasSegment
  <2>5. TrackedNow'
    BY <1>1, <1>2, <1>4, <2>2, <2>3, StopStep DEF MappedL
  <2>. QED
    BY <1>1, <1>2, <2>1, <2>3, <2>4, <2>5, StoppingKeeps DEF Stopping
<1>. QED
  BY <1>5, <1>6, <1>7 DEF TaskStop

\* The windows slide, and the map is done when the modules are to be stopped.
LEMMA TaskMoveStep ==
  ASSUME Basics, MoveSegmentsForward, UNCHANGED dataVars
  PROVE  /\ Basics' /\ phase = "move"
         /\ MappedL' = MappedL /\ UNCHANGED <<product, source, file>>
         /\ DOMAIN grid' = DOMAIN grid
         /\ \A i \in DOMAIN Pipeline : TurnOver(i) /\ ~TurnOver(i)'
         /\ \/ phase' = "stop" /\ MappedL = MaxTargetL
            \/ phase' = "process"
<1>1. /\ TypesFit /\ Tracked /\ RegisteredAreFinal(Syn) /\ MapInv
      /\ UNCHANGED <<product, segmentLineCount, final, file>>
  BY DEF Basics, dataVars
<1>2. /\ TrackedNow /\ phase = "move" /\ Busy
      /\ TrackedNow' /\ ContextTypeOK'
      /\ UNCHANGED <<lastComputedL, firstRequiredL, source>>
      /\ DOMAIN grid' = DOMAIN grid
      /\ \/ phase' = "stop"
         \/ phase' = "process"
      /\ \A i \in DOMAIN Pipeline : TurnOver(i) /\ ~TurnOver(i)'
  BY <1>1, MoveStep
<1>3. MapInv' /\ (phase' = "stop" => MappedL = MaxTargetL)
  BY <1>1, MapMove
<1>4. TypesFit'
  BY <1>1, <1>2, TypesOfStep DEF TypesFit
<1>5. RegisteredAreFinal(Syn)'
  BY <1>1, <1>2, FinalStays DEF HasSegment
<1>. QED
  BY <1>1, <1>2, <1>3, <1>4, <1>5 DEF Basics, Tracked, MappedL

\* The turns behind the mapping of bands.
LEMMA FlagKeeps ==
  ASSUME Basics, NEW good, good \subseteq Nat, FlagAgain(good)
  PROVE  /\ Basics' /\ Passing /\ at = 5
         /\ (grid[T].minInMemoryL..L("COL")) \cap good \subseteq final'["VFL"]
         /\ \A m \in Syn : L(m)' = L(m)
<1>1. TypesFit /\ Tracked /\ RegisteredAreFinal(Syn) /\ MapperAt \in {6, 7}
  BY Types DEF Basics
<1>2. /\ TrackedNow /\ phase = "process" /\ at = 5 /\ UNCHANGED <<product, source, contextVars>>
      /\ TrackedNow' /\ ContextTypeOK' /\ ProcessNext
      /\ RegisteredAreFinal(Syn)' /\ final' \in [Module -> SUBSET Nat]
      /\ (grid[T].minInMemoryL..L("COL")) \cap good \subseteq final'["VFL"]
  BY <1>1, FlagStep
<1>3. UNCHANGED <<grid, segmentLineCount, file>>
  BY <1>2 DEF contextVars, FlagAgain
<1>4. MappedL' = MappedL /\ Asked' = Asked /\ \A m \in Syn : L(m)' = L(m)
  BY <1>2 DEF MappedL, Asked, L, contextVars
<1>5. /\ "COL" \in Syn /\ L("COL")' = L("COL")
      /\ \A m \in Syn : L(m)' \in Int /\ L(m)' >= L(m)
  <2>1. \A m \in Syn : L(m) \in Int
    BY <1>1, Types, ModulesAre, SegmentsAre DEF L
  <2>. QED
    BY <1>4, <2>1, ModulesAre
<1>6. Basics'
  BY <1>1, <1>2, <1>3, <1>4, <1>5, PassingKeeps
<1>. QED
  BY <1>1, <1>2, <1>3, <1>4, <1>6 DEF Passing

LEMMA MapperKeeps ==
  ASSUME Basics, LongWindows,
         \/ MapCompletes
         \/ MapWaits
         \/ Turn("process", Mapper) /\ RegisterMapped /\ UNCHANGED dataVars
  PROVE  /\ Basics' /\ phase = "process" /\ at = MapperAt /\ ProcessNext /\ Busy
         /\ UNCHANGED <<grid, product, source, file, final>>
         /\ MapCompletes =>
              /\ MappedL' = MaxTargetL
              /\ \A l \in (MappedL + 1)..MaxTargetL : product.found[l] = {}
         /\ MapWaits => MappedL' = MappedL
         /\ RegisterMapped => MappedL' = MappedLastL
<1>1. TypesFit /\ Tracked /\ RegisteredAreFinal(Syn) /\ MapInv /\ UNCHANGED dataVars
      /\ Turn("process", Mapper)
  BY DEF Basics, MapCompletes, MapWaits
<1>2. MapCompletes =>
        /\ TrackedNow /\ phase = "process" /\ at = MapperAt /\ Busy
        /\ TrackedNow' /\ ContextTypeOK' /\ ProcessNext /\ UNCHANGED <<grid, source>>
        /\ MapInv' /\ lastComputedL'[T] = lastComputedL[T]
        /\ MappedL' = MaxTargetL
        /\ \A l \in (MappedL + 1)..MaxTargetL : product.found[l] = {}
  BY <1>1, MapCompletesStep, SegmentsAre
<1>3. MapWaits =>
        /\ TrackedNow /\ phase = "process" /\ at = MapperAt /\ Busy
        /\ TrackedNow' /\ ContextTypeOK' /\ ProcessNext /\ UNCHANGED <<grid, source>>
        /\ MapInv' /\ lastComputedL'[T] = lastComputedL[T]
        /\ MappedL' = MappedL
  BY <1>1, MapWaitsStep DEF contextVars, MappedL
<1>4. RegisterMapped =>
        /\ TrackedNow /\ phase = "process" /\ at = MapperAt /\ Busy
        /\ TrackedNow' /\ ContextTypeOK' /\ ProcessNext /\ UNCHANGED <<grid, source>>
        /\ MapInv' /\ lastComputedL'[T] = lastComputedL[T]
        /\ MappedL' = MappedLastL
  BY <1>1, MapsStep, SegmentsAre DEF dataVars
<1>5. /\ TrackedNow /\ phase = "process" /\ at = MapperAt /\ Busy
      /\ TrackedNow' /\ ContextTypeOK' /\ ProcessNext /\ UNCHANGED <<grid, source>>
      /\ MapInv' /\ lastComputedL'[T] = lastComputedL[T]
  BY <1>2, <1>3, <1>4
<1>6. TypesFit'
  BY <1>1, <1>5, TypesOfStep DEF TypesFit, dataVars
<1>7. RegisteredAreFinal(Syn)'
  BY <1>1, <1>5, FinalStays DEF HasSegment, dataVars
<1>. QED
  BY <1>1, <1>2, <1>3, <1>4, <1>5, <1>6, <1>7 DEF Basics, Tracked, dataVars

LEMMA WriterKeeps ==
  ASSUME Basics, NEW segments, segments \subseteq DOMAIN grid \ (SourceSegments \cup {T}),
         NEW content, VgtWriterProcess(segments, content)
  PROVE  /\ Basics' /\ phase = "process" /\ at = MapperAt + 1 /\ file' = content
         /\ UNCHANGED <<product, source, grid>>
         /\ \/ phase' = "failed"
            \/ ProcessNext /\ MappedL' = MappedL
<1>1. TypesFit /\ Tracked /\ RegisteredAreFinal(Syn) /\ MapInv /\ MapperAt \in {6, 7}
  BY Types DEF Basics
<1>2. /\ Turn("process", "VGT_WRITER")
      /\ Register("VGT_WRITER", [s \in segments |-> grid[s].maxL], << >>)
      /\ file' = content
      /\ UNCHANGED <<product, segmentLineCount, final>>
  BY DEF VgtWriterProcess
<1> DEFINE last == [s \in segments |-> grid[s].maxL]
           none == << >>
<1>3. /\ DOMAIN last = segments /\ \A s \in DOMAIN last : last[s] = grid[s].maxL
      /\ DOMAIN none = {} /\ Register("VGT_WRITER", last, none)
  BY <1>2
<1> HIDE DEF last, none
<1>4. /\ phase = "process" /\ at = MapperAt + 1 /\ TrackedNow
      /\ \/ Throw
         \/ /\ TrackedNow' /\ ContextTypeOK' /\ ProcessNext /\ UNCHANGED grid
            /\ \A s \in SourceSegments \cup {T} : lastComputedL'[s] = lastComputedL[s]
            /\ MappedL' = MappedL
            /\ \A s \in Segment : firstRequiredL'[s] = firstRequiredL[s]
  <2>1. DOMAIN last \subseteq DOMAIN grid \ (SourceSegments \cup {T})
    BY <1>3
  <2>2. UNCHANGED <<product, segmentLineCount>>
    BY <1>2
  <2>. QED
    BY <1>1, <1>2, <1>3, <2>1, <2>2, WriterTurn, ZenonT(60)
<1>5. CASE Throw
  <2>1. UNCHANGED contextVars /\ phase' = "failed" /\ UNCHANGED <<source, grid>>
    BY <1>5 DEF Throw, contextVars
  <2>2. Basics'
    BY <1>2, <1>5, <2>1, EndingKeeps
  <2>. QED
    BY <1>2, <1>4, <2>1, <2>2
<1>6. CASE /\ TrackedNow' /\ ContextTypeOK' /\ ProcessNext /\ UNCHANGED grid
           /\ \A s \in SourceSegments \cup {T} : lastComputedL'[s] = lastComputedL[s]
           /\ MappedL' = MappedL
           /\ \A s \in Segment : firstRequiredL'[s] = firstRequiredL[s]
  <2>1. /\ \A m \in Syn : L(m) \in Int /\ L(m)' = L(m)
        /\ Asked' = Asked /\ "COL" \in Syn
    BY <1>1, <1>6, Types, ModulesAre, SegmentsAre DEF L, Asked
  <2>2. RegisteredAreFinal(Syn)' /\ final' \in [Module -> SUBSET Nat]
    BY <1>1, <1>2, <1>6, FinalStays DEF HasSegment, TypesFit
  <2>3. UNCHANGED source
    BY <1>6 DEF ProcessNext
  <2>4. Basics'
    BY <1>1, <1>2, <1>4, <1>6, <2>1, <2>2, PassingKeeps
  <2>. QED
    BY <1>2, <1>4, <1>6, <2>3, <2>4
<1>. QED
  BY <1>4, <1>5, <1>6

\* The program starts with nothing.
LEMMA TaskInitBasics ==
  ASSUME TaskInit
  PROVE  Basics
<1>1. /\ grid = [s \in {} |-> NewGrid(1, 0)]
      /\ lastComputedL = [s \in Segment |-> NoEntries]
      /\ firstRequiredL = [s \in Segment |-> NoEntries]
      /\ phase = "start" /\ at = 1 /\ source = 1 /\ exitCode = Running
      /\ segmentLineCount \in LineCounts /\ final = NothingFinal
  BY DEF TaskInit, ProcessorInit, ContextInit
<1>2. NoEntries \in [Module -> Entry] /\ \A m \in Module : NoEntries[m] = None
  BY DEF NoEntries, Entry
<1>3. DOMAIN grid = {} /\ grid \in [DOMAIN grid -> Grid]
  BY <1>1
<1>4. ContextTypeOK
  BY <1>1, <1>2, <1>3 DEF ContextTypeOK
<1>5. TypesFit
  <2>1. final \in [Module -> SUBSET Nat]
    BY <1>1 DEF NothingFinal
  <2>2. source \in 1..Sources
    BY <1>1, SourcesAssumption
  <2>. QED
    BY <1>1, <1>4, <2>1, <2>2, PipelineIs DEF TypesFit, ProcessorTypeOK, Phase
<1>6. ~Busy /\ ~IsStarted(1) /\ ~IsStarted(2) /\ ~IsStarted(MapperAt)
  BY <1>1, PipelineIs DEF Busy, IsStarted
<1>7. Present /\ ShapesFit
  BY <1>3, <1>6 DEF Present, ShapesFit, HasSegment
<1>8. OwnEntries /\ Fresh
  BY <1>1, <1>2, <1>3, SegmentsAre, ModulesAre DEF OwnEntries, Fresh, L, MappedL
<1>9. Progress /\ ReaderInv /\ MapInv
  BY <1>6 DEF Progress, ReaderInv, MapInv
<1>10. RegisteredAreFinal(Syn)
  BY <1>3 DEF RegisteredAreFinal, HasSegment
<1>. QED
  BY <1>5, <1>7, <1>8, <1>9, <1>10 DEF Basics, Tracked, TrackedNow

\* Nothing happens.
LEMMA BasicsStay ==
  ASSUME Basics, UNCHANGED <<contextVars, controlVars, dataVars>>
  PROVE  Basics'
<1>1. /\ UNCHANGED <<grid, lastComputedL, firstRequiredL>> /\ UNCHANGED <<phase, at, source>>
      /\ UNCHANGED <<segmentLineCount, product, final>>
      /\ UNCHANGED contextVars /\ UNCHANGED controlVars
  BY DEF contextVars, controlVars, dataVars
<1>2. /\ \A i \in DOMAIN Pipeline : IsStarted(i)' <=> IsStarted(i)
      /\ \A i \in DOMAIN Pipeline : IsFresh(i)' <=> IsFresh(i)
      /\ \A i \in DOMAIN Pipeline : TurnOver(i)' <=> TurnOver(i)
      /\ Busy' <=> Busy
  BY <1>1 DEF IsStarted, IsFresh, TurnOver, Busy
<1>3. 1 \in DOMAIN Pipeline /\ 2 \in DOMAIN Pipeline /\ MapperAt \in DOMAIN Pipeline
  BY PipelineIs
<1>4. \A m \in Module : L(m)' = L(m)
  BY <1>1 DEF L
<1>5. MappedL' = MappedL /\ Asked' = Asked /\ Needed' = Needed
  BY <1>1 DEF MappedL, Asked, Needed
<1>6. TypesFit'
  BY <1>1, Types, TypesOfStep DEF Basics, TypesFit, ContextTypeOK
<1>7. RegisteredAreFinal(Syn)'
  BY <1>1 DEF Basics, RegisteredAreFinal, HasSegment
<1>8. MapInv'
  BY <1>1, <1>2, <1>3, <1>4, <1>5, ModulesAre DEF Basics, MapInv, MaxInMemoryL
<1>9. Tracked'
  <2>. SUFFICES ASSUME phase # "failed", TrackedNow PROVE TrackedNow'
    BY <1>1 DEF Basics, Tracked
  <2>1. Present' /\ ShapesFit' /\ OwnEntries'
    BY <1>1, <1>2, <1>3 DEF TrackedNow, Present, ShapesFit, OwnEntries, HasSegment, L,
                            GetSegmentSize, MaxInMemoryL, NewMap
  <2>2. Fresh' /\ ReaderInv'
    BY <1>1, <1>2, <1>3, <1>5 DEF TrackedNow, Fresh, ReaderInv, MaxInMemoryL
  <2>3. Progress'
    BY <1>1, <1>2, <1>4, ModulesAre DEF TrackedNow, Progress, Pace, MaxInMemoryL
  <2>. QED
    BY <2>1, <2>2, <2>3 DEF TrackedNow
<1>. QED
  BY <1>6, <1>7, <1>8, <1>9 DEF Basics

-----------------------------------------------------------------------------
(* No row is read that has left memory, but at the edges of the map. *)

\* The window is collocated as a whole, but not the whole product.
Collocated == L("COL") = MaxInMemoryL(T) /\ MaxInMemoryL(T) < grid[T].maxL

\* The mapper has required the first row of the window in an earlier pass, but
\* waits: the window will not slide any more and nothing is left to collocate.
Stalled ==
  /\ Collocated
  /\ 0 < Asked /\ Asked = grid[T].minInMemoryL
  /\ \A r \in InMemory : product.south[r] < 10 * FirstTargetL - Margin

\* The rows of the lines that have not been collocated have not left memory.
RowsAhead ==
  \A s \in ColSources : \A l \in Rows(product) : \A r \in product.sources[s][l] :
    l > L("COL") => grid[s].minInMemoryL <= r

\* The collocation requires these rows, after its turn and as long as there are
\* lines left, and of OLC and what slides with it one that it has collocated.
RowsAreRequired ==
  TurnOver(2) /\ L("COL") < grid[T].maxL =>
    /\ \A s \in ColSources :
         /\ firstRequiredL[s]["COL"] > 0
         /\ \A l \in Rows(product) : \A r \in product.sources[s][l] :
              l > L("COL") => firstRequiredL[s]["COL"] <= r
    /\ \A s \in WithMis({"OLC", T}) :
         /\ firstRequiredL[s]["COL"] = firstRequiredL[T]["COL"]
         /\ firstRequiredL[s]["COL"] > 0
         /\ firstRequiredL[s]["COL"] <= L("COL")

\* The windows of OLC and of the collocated rows slide together.  That of the
\* misregistration, of which the mapper requires nothing, may be ahead, but not
\* of the lines left to collocate.
WindowsFit ==
  /\ grid["OLC"].minInMemoryL = grid[T].minInMemoryL
  /\ firstRequiredL["OLC"][Mapper] = Asked
  /\ 0 < Asked => grid[T].minInMemoryL <= Asked
  /\ grid["OLC_MIS"].sizeL > 1 =>
       /\ grid[T].minInMemoryL <= grid["OLC_MIS"].minInMemoryL
       /\ grid["OLC_MIS"].minInMemoryL <= L("COL") + 1

\* When the window is collocated as a whole it slides at the end of the pass.
WindowMoves ==
  Collocated =>
    /\ TurnOver(2)
    /\ grid[T].minInMemoryL < firstRequiredL[T]["COL"]
    /\ TurnOver(MapperAt) /\ 0 < Asked => grid[T].minInMemoryL < Asked

\* As long as there are rows of the map left.
WindowInv ==
  Busy /\ MappedL < MaxTargetL =>
    Stalled \/ (RowsAhead /\ RowsAreRequired /\ WindowsFit /\ WindowMoves)

\* The numbers that the windows consist of.
LEMMA WindowTypes ==
  ASSUME TypesFit, TrackedNow, Busy
  PROVE  /\ \A s \in ColSources \cup {"OLC_MIS", T} :
              /\ s \in DOMAIN grid /\ s \in Segment /\ ContextTypeOK
              /\ grid[s].minInMemoryL \in Nat /\ grid[s].sizeL \in Nat \ {0} /\ grid[s].maxL \in Nat
              /\ MaxInMemoryL(s) = grid[s].minInMemoryL + grid[s].sizeL - 1
              /\ MaxInMemoryL(s) \in Nat /\ MaxInMemoryL(s) <= grid[s].maxL
              /\ \A m \in Module : firstRequiredL[s][m] \in Int /\ firstRequiredL[s][m] >= -1
         /\ grid["OLC"].sizeL = grid[T].sizeL /\ grid["OLC"].maxL = grid[T].maxL
         /\ L("COL") \in Int /\ L("COL") >= -1 /\ L("COL") <= MaxInMemoryL(T)
         /\ grid[T].minInMemoryL <= L("COL") + 1
         /\ MappedL \in Int /\ MappedL >= -1 /\ Asked \in Int
         /\ "COL" \in Module /\ Mapper \in Module /\ Mapper # "COL"
         /\ ColSources = {"OLC", "SLN", "SLO"}
<1>1. ColSources \cup {"OLC_MIS", T} \subseteq SourceSegments \cup {T, Map}
  BY SegmentsAre
<1>2. \A s \in ColSources \cup {"OLC_MIS", T} : s \in DOMAIN grid /\ s \in Segment
  BY <1>1, InAPass
<1>3. "COL" \in Syn /\ "COL" \in Module /\ Mapper \in Module /\ Mapper # "COL"
  BY ModulesAre
<1>4. Pace
  BY DEF TrackedNow, Progress
<1>. QED
  BY <1>1, <1>2, <1>3, <1>4, InAPass, Types, RowsType DEF Pace, ColSources

\* What the hypothesis says of the collocation.
LEMMA CollocationIs ==
  ASSUME TypesFit, TrackedNow, Busy, LongWindows
  PROVE  /\ Rows(product) = 0..grid[T].maxL
         /\ Needed \in Nat /\ Needed >= 2 /\ grid[T].sizeL >= Needed
         /\ MaxInMemoryL(T) < grid[T].maxL => grid[T].sizeL = segmentLineCount
         /\ segmentLineCount \in Nat
         /\ \A s \in ColSources : \A l \in Rows(product) : product.sources[s][l] \subseteq Nat
         /\ \A s \in ColSources : \A l \in Rows(product) : l + 1 >= Needed =>
              /\ 0 \notin product.sources[s][l]
              /\ \A j \in Rows(product) : \A r \in product.sources[s][j] :
                   l < j => \E q \in product.sources[s][l] : q <= r
         /\ \A l \in Rows(product) : \A r \in product.sources["OLC"][l] : l - r < segmentLineCount - 1
         /\ grid["OLC_MIS"].sizeL > 1 =>
              grid["OLC_MIS"].sizeL = grid[T].sizeL /\ grid["OLC_MIS"].maxL = grid[T].maxL
<1>1. /\ product \in Products /\ Rows(product) = 0..grid[T].maxL
      /\ grid[T].sizeL = Smaller(product.rows["OLC"], segmentLineCount)
      /\ grid[T].maxL = product.rows["OLC"] - 1
      /\ grid[T].minInMemoryL \in Nat /\ MaxInMemoryL(T) = grid[T].minInMemoryL + grid[T].sizeL - 1
      /\ segmentLineCount \in LineCounts /\ segmentLineCount \in Nat
  BY InAPass, Types DEF TypesFit
<1>2. /\ Needed \in Nat /\ Needed >= 2
      /\ Needed <= segmentLineCount /\ Needed <= product.rows["OLC"]
      /\ Collocates(product, segmentLineCount, Needed)
  BY <1>1, Hypothesis
<1>3. /\ \A s \in SourceSegments : product.rows[s] \in Nat \ {0}
      /\ product.rows["OLC"] \in Nat \ {0}
      /\ \A s \in ColSources : \A l \in Rows(product) : product.sources[s][l] \subseteq 0..(product.rows[s] - 1)
  BY <1>1, ProductIs
<1>4. MaxInMemoryL(T) < grid[T].maxL => grid[T].sizeL = segmentLineCount
  BY <1>1, <1>3 DEF Smaller
<1>5. ASSUME grid["OLC_MIS"].sizeL > 1
      PROVE  grid["OLC_MIS"].sizeL = grid[T].sizeL /\ grid["OLC_MIS"].maxL = grid[T].maxL
  <2>1. /\ grid["OLC_MIS"].sizeL = GetSegmentSize("OLC_MIS", product.rows["OLC_MIS"])
        /\ grid["OLC_MIS"].maxL = product.rows["OLC_MIS"] - 1
    BY InAPass, SegmentsAre DEF TrackedNow, ShapesFit
  <2>2. grid["OLC_MIS"].sizeL = Smaller(product.rows["OLC_MIS"], segmentLineCount)
    BY <2>1 DEF GetSegmentSize
  <2>3. product.rows["OLC_MIS"] \in {1, product.rows["OLC"]}
    BY <1>2 DEF Collocates
  <2>4. product.rows["OLC_MIS"] # 1
    BY <1>1, <1>5, <2>2 DEF Smaller
  <2>. QED
    BY <1>1, <2>1, <2>2, <2>3, <2>4
<1>. QED
  BY <1>1, <1>2, <1>3, <1>4, <1>5 DEF Collocates, Smaller

\* The parts of the invariant, as long as there are rows of the map left.
LEMMA NothingLost ==
  ASSUME WindowInv, Busy, MappedL < MaxTargetL, ~Stalled
  PROVE  RowsAhead /\ RowsAreRequired /\ WindowsFit /\ WindowMoves
BY DEF WindowInv

\* The collocation finds every row it reads in memory.
LEMMA ColFinds ==
  ASSUME Basics, LongWindows, WindowInv, Turn("process", "COL"), MappedL < MaxTargetL
  PROVE  ~ColThrows
<1>1. /\ TypesFit /\ TrackedNow /\ phase = "process" /\ at = 2 /\ Busy
  BY Types, TurnIs DEF Basics, Tracked, Turn, Busy
<1>2. /\ ColLines = (L("COL") + 1)..ColLastLine
      /\ ColLastLine \in Nat /\ ColLastLine <= MaxInMemoryL(T)
      /\ ColLines = {} <=> L("COL") = MaxInMemoryL(T)
  BY <1>1, LongWindows, ColRequirement
<1>3. CASE Stalled
  BY <1>2, <1>3 DEF Stalled, Collocated, ColThrows
<1>4. CASE ~Stalled
  <2>1. RowsAhead /\ WindowsFit
    BY <1>1, <1>4, NothingLost
  <2>2. ASSUME NEW l \in ColLines
        PROVE  /\ l \in Rows(product) /\ l > L("COL")
               /\ grid[T].minInMemoryL <= l /\ l <= MaxInMemoryL(T) /\ l \in Nat
    <3>1. /\ l \in (L("COL") + 1)..ColLastLine /\ L("COL") \in Int /\ L("COL") >= -1
          /\ grid[T].minInMemoryL <= L("COL") + 1 /\ grid[T].minInMemoryL \in Nat
          /\ MaxInMemoryL(T) <= grid[T].maxL /\ MaxInMemoryL(T) \in Nat /\ grid[T].maxL \in Nat
      BY <1>1, <1>2, <2>2, WindowTypes
    <3>2. Rows(product) = 0..grid[T].maxL
      BY <1>1, CollocationIs, LongWindows
    <3>. QED
      BY <1>2, <3>1, <3>2
  <2>3. ASSUME NEW l \in ColLines PROVE IsInMemory("OLC", l)
    BY <1>1, <2>1, <2>2, <2>3, WindowTypes DEF WindowsFit, IsInMemory, ColSources
  <2>4. ASSUME NEW l \in ColLines, grid["OLC_MIS"].sizeL > 1 PROVE IsInMemory("OLC_MIS", l)
    <3>1. /\ grid["OLC_MIS"].sizeL = grid[T].sizeL
          /\ grid["OLC_MIS"].minInMemoryL \in Nat /\ grid[T].minInMemoryL \in Nat /\ grid[T].sizeL \in Nat
          /\ MaxInMemoryL("OLC_MIS") = grid["OLC_MIS"].minInMemoryL + grid["OLC_MIS"].sizeL - 1
          /\ MaxInMemoryL(T) = grid[T].minInMemoryL + grid[T].sizeL - 1
          /\ L("COL") \in Int
      BY <1>1, <2>4, WindowTypes, CollocationIs, LongWindows
    <3>2. /\ grid[T].minInMemoryL <= grid["OLC_MIS"].minInMemoryL
          /\ grid["OLC_MIS"].minInMemoryL <= L("COL") + 1
      BY <2>1, <2>4 DEF WindowsFit
    <3>. QED
      BY <2>2, <3>1, <3>2 DEF IsInMemory
  <2>5. ASSUME NEW l \in ColLines, NEW s \in ColSources, NEW r \in product.sources[s][l]
        PROVE  ~(r < grid[s].minInMemoryL)
    <3>1. grid[s].minInMemoryL <= r
      BY <2>1, <2>2 DEF RowsAhead
    <3>2. r \in Nat /\ grid[s].minInMemoryL \in Nat
      BY <1>1, <2>2, WindowTypes, CollocationIs, LongWindows
    <3>. QED
      BY <3>1, <3>2
  <2>. QED
    BY <2>3, <2>4, <2>5 DEF ColThrows
<1>. QED
  BY <1>3, <1>4

\* What the collocation requires of a source, if lines are left: no row 0, no
\* row that a line left needs is given up.
LEMMA ColRequires ==
  ASSUME TypesFit, TrackedNow, phase = "process", at = 2, Busy, LongWindows, ~Collocated,
         ColLastL < grid[T].maxL, NEW s \in ColSources
  PROVE  /\ ColRequiredL(s, ColLines) \in Nat /\ ColRequiredL(s, ColLines) > 0
         /\ \A l \in Rows(product) : \A r \in product.sources[s][l] :
              l > ColLastL => ColRequiredL(s, ColLines) <= r
         /\ ColLastLine \in Rows(product)
         /\ ColRequiredL(s, ColLines) \in product.sources[s][ColLastLine] \cup {MaxInMemoryL(s) + 1}
<1>1. /\ ColLastL \in Nat /\ L("COL") <= ColLastL /\ ColLastL <= MaxInMemoryL(T)
      /\ Needed <= ColLastL + 1
  BY LongWindows, ColReach
<1>2. /\ ColLastLine \in Nat /\ ColLastLine >= ColLastL /\ ColLastLine <= MaxInMemoryL(T)
      /\ ColLines = {} <=> L("COL") = MaxInMemoryL(T)
      /\ ColLines # {} =>
           /\ ColLastLine \in Rows(product)
           /\ ColRequiredL(s, ColLines) \in product.sources[s][ColLastLine] \cup {MaxInMemoryL(s) + 1}
           /\ \A r \in product.sources[s][ColLastLine] : ColRequiredL(s, ColLines) <= r
      /\ ColRequiredL(s, ColLines) \in Nat
  BY LongWindows, ColRequirement
<1>3. /\ MaxInMemoryL(T) \in Nat /\ MaxInMemoryL(T) <= grid[T].maxL /\ grid[T].maxL \in Nat
      /\ MaxInMemoryL(s) \in Nat /\ L("COL") \in Int
  BY WindowTypes
<1>4. /\ Rows(product) = 0..grid[T].maxL /\ Needed \in Nat
      /\ \A l \in Rows(product) : product.sources[s][l] \subseteq Nat
      /\ \A l \in Rows(product) : l + 1 >= Needed =>
           /\ 0 \notin product.sources[s][l]
           /\ \A j \in Rows(product) : \A r \in product.sources[s][j] :
                l < j => \E q \in product.sources[s][l] : q <= r
  BY CollocationIs, LongWindows
<1>5. ColLines # {}
  <2>1. L("COL") # MaxInMemoryL(T)
    BY <1>1, <1>3 DEF Collocated
  <2>. QED
    BY <1>2, <2>1
<1>6. ColLastLine + 1 >= Needed /\ ColLastLine \in Rows(product)
  BY <1>1, <1>2, <1>4, <1>5
<1>7. ColLastLine <= ColLastL + 1
  BY <1>1, <1>3 DEF ColLastLine, Smaller
<1>8. ASSUME NEW l \in Rows(product), NEW r \in product.sources[s][l], l > ColLastL
      PROVE  ColRequiredL(s, ColLines) <= r
  <2>1. l \in Nat /\ r \in Nat
    BY <1>4
  <2>2. CASE l = ColLastLine
    BY <1>2, <1>5, <2>2
  <2>3. CASE l # ColLastLine
    <3>1. ColLastLine < l
      BY <1>1, <1>2, <1>7, <1>8, <2>1, <2>3
    <3>2. PICK q \in product.sources[s][ColLastLine] : q <= r
      BY <1>4, <1>6, <3>1
    <3>3. ColRequiredL(s, ColLines) <= q /\ q \in Nat
      BY <1>2, <1>4, <1>5, <1>6
    <3>. QED
      BY <1>2, <2>1, <3>2, <3>3
  <2>. QED
    BY <2>2, <2>3
<1>9. ColRequiredL(s, ColLines) > 0
  BY <1>2, <1>3, <1>4, <1>5, <1>6
<1>. QED
  BY <1>2, <1>5, <1>8, <1>9

\* When the whole window has been collocated, the collocation does not require
\* its first row.
LEMMA ColReleases ==
  ASSUME TypesFit, TrackedNow, phase = "process", at = 2, Busy, LongWindows, ~Collocated,
         ColLastL = MaxInMemoryL(T), MaxInMemoryL(T) < grid[T].maxL,
         grid["OLC"].minInMemoryL = grid[T].minInMemoryL
  PROVE  Smaller(ColRequiredL("OLC", ColLines), ColLastL) > grid[T].minInMemoryL
<1>1. /\ grid[T].sizeL = segmentLineCount /\ grid[T].sizeL >= 2
      /\ \A l \in Rows(product) : product.sources["OLC"][l] \subseteq Nat
      /\ \A l \in Rows(product) : \A r \in product.sources["OLC"][l] : l - r < segmentLineCount - 1
  <2>1. "OLC" \in ColSources /\ grid[T].sizeL \in Nat
    BY WindowTypes
  <2>2. Needed \in Nat /\ Needed >= 2 /\ grid[T].sizeL >= Needed
    BY CollocationIs, LongWindows
  <2>. QED
    BY <2>1, <2>2, CollocationIs, LongWindows
<1>2. /\ grid[T].minInMemoryL \in Nat /\ grid[T].sizeL \in Nat
      /\ MaxInMemoryL(T) = grid[T].minInMemoryL + grid[T].sizeL - 1
      /\ MaxInMemoryL("OLC") = grid["OLC"].minInMemoryL + grid["OLC"].sizeL - 1
      /\ grid["OLC"].sizeL = grid[T].sizeL
      /\ MaxInMemoryL(T) \in Nat /\ grid[T].maxL \in Nat
  BY WindowTypes
<1>3. ColLastLine = MaxInMemoryL(T)
  BY <1>2 DEF ColLastLine, Smaller
<1>4. /\ ColRequiredL("OLC", ColLines) \in Nat
      /\ ColLastLine \in Rows(product)
      /\ ColRequiredL("OLC", ColLines) \in product.sources["OLC"][ColLastLine] \cup {MaxInMemoryL("OLC") + 1}
  BY LongWindows, ColRequires DEF ColSources
<1>5. ColRequiredL("OLC", ColLines) > grid[T].minInMemoryL
  <2>1. CASE ColRequiredL("OLC", ColLines) = MaxInMemoryL("OLC") + 1
    BY <1>1, <1>2, <2>1
  <2>2. CASE ColRequiredL("OLC", ColLines) \in product.sources["OLC"][ColLastLine]
    <3>1. ColLastLine - ColRequiredL("OLC", ColLines) < segmentLineCount - 1
      BY <1>1, <1>4, <2>2
    <3>. QED
      BY <1>1, <1>2, <1>3, <1>4, <3>1
  <2>. QED
    BY <1>4, <2>1, <2>2
<1>. QED
  BY <1>1, <1>2, <1>5 DEF Smaller

\* The collocation requires the rows that it will need.
LEMMA ColWindows ==
  ASSUME Basics, LongWindows, WindowInv, ColProcess
  PROVE  WindowInv'
<1>1. /\ TypesFit /\ Tracked /\ TrackedNow /\ phase = "process" /\ at = 2 /\ Busy
      /\ TrackedNow' /\ ContextTypeOK' /\ ProcessNext /\ UNCHANGED <<grid, product>>
      /\ L("COL")' = ColLastL /\ \A p \in Module \ {"COL"} : L(p)' = L(p)
      /\ \A s \in Segment \ {T} : lastComputedL'[s] = lastComputedL[s]
      /\ \A s \in Segment : \A p \in Module \ {"COL"} : firstRequiredL'[s][p] = firstRequiredL[s][p]
      /\ \A s \in {"SLN", "SLO"} : firstRequiredL'[s]["COL"] = ColRequiredL(s, ColLines)
      /\ \A s \in WithMis({"OLC", T}) :
           firstRequiredL'[s]["COL"] = Smaller(ColRequiredL("OLC", ColLines), ColLastL)
  BY LongWindows, ColTurn DEF Basics, Busy
<1>2. /\ MappedL' = MappedL /\ Asked' = Asked
      /\ firstRequiredL'["OLC"][Mapper] = firstRequiredL["OLC"][Mapper]
  <2>1. Map \in Segment \ {T} /\ T \in Segment /\ "OLC" \in Segment /\ Mapper \in Module \ {"COL"}
    BY <1>1, SegmentsAre, WindowTypes
  <2>. QED
    BY <1>1, <2>1 DEF MappedL, Asked
<1>. SUFFICES ASSUME MappedL < MaxTargetL
              PROVE  (Stalled \/ (RowsAhead /\ RowsAreRequired /\ WindowsFit /\ WindowMoves))'
  BY <1>2 DEF WindowInv
<1>3. /\ ColLastL \in Nat /\ L("COL") <= ColLastL /\ ColLastL <= MaxInMemoryL(T) /\ ColLastL >= 1
      /\ L("COL") \in Int
  BY <1>1, LongWindows, ColReach, WindowTypes
<1>4. CASE Stalled
  <2>1. L("COL")' = L("COL")
    BY <1>1, <1>3, <1>4, WindowTypes DEF Stalled, Collocated
  <2>2. lastComputedL'[Map] = lastComputedL[Map]
    BY <1>1, SegmentsAre
  <2>. QED
    BY <1>1, <1>2, <1>4, <2>1, <2>2
       DEF Stalled, Collocated, MaxInMemoryL, InMemory, FirstTargetL, GetFirstComputableL, HasLastComputedL
<1>5. CASE ~Stalled
  <2>1. RowsAhead /\ RowsAreRequired /\ WindowsFit /\ WindowMoves
    BY <1>1, <1>5, NothingLost
  <2>2. ~Collocated
    BY <1>1, <2>1 DEF WindowMoves, TurnOver
  <2>3. /\ TurnOver(2)' /\ (TurnOver(MapperAt)' => TurnOver(MapperAt)) /\ ~TurnOver(MapperAt)
    <3>1. 2 \in DOMAIN Pipeline /\ MapperAt \in DOMAIN Pipeline /\ MapperAt \in {6, 7}
      BY PipelineIs
    <3>2. \A i \in DOMAIN Pipeline : TurnOver(i)' <=> (TurnOver(i) \/ i = at)
      BY <1>1, TurnsPass
    <3>. QED
      BY <1>1, <3>1, <3>2 DEF TurnOver
  <2>4. \A l \in Rows(product) : l \in Nat
    BY <1>1, CollocationIs, LongWindows
  <2>5. RowsAhead'
    BY <1>1, <1>3, <2>1, <2>4 DEF RowsAhead, Rows
  <2>6. T \in WithMis({"OLC", T}) /\ "OLC" \in WithMis({"OLC", T}) /\ "OLC" \in ColSources
        /\ WithMis({"OLC", T})' = WithMis({"OLC", T})
    BY <1>1 DEF WithMis, ColSources
  <2>7. RowsAreRequired'
    <3>. SUFFICES ASSUME ColLastL < grid[T].maxL
                  PROVE  /\ \A s \in ColSources :
                              /\ firstRequiredL'[s]["COL"] > 0
                              /\ \A l \in Rows(product) : \A r \in product.sources[s][l] :
                                   l > ColLastL => firstRequiredL'[s]["COL"] <= r
                         /\ \A s \in WithMis({"OLC", T}) :
                              /\ firstRequiredL'[s]["COL"] = firstRequiredL'[T]["COL"]
                              /\ firstRequiredL'[s]["COL"] > 0
                              /\ firstRequiredL'[s]["COL"] <= ColLastL
      BY <1>1, <2>6 DEF RowsAreRequired, Rows
    <3>1. ASSUME NEW s \in ColSources
          PROVE  /\ ColRequiredL(s, ColLines) \in Nat /\ ColRequiredL(s, ColLines) > 0
                 /\ \A l \in Rows(product) : \A r \in product.sources[s][l] :
                      l > ColLastL => ColRequiredL(s, ColLines) <= r
      BY <1>1, <2>2, LongWindows, ColRequires
    <3> DEFINE x == Smaller(ColRequiredL("OLC", ColLines), ColLastL)
    <3>2. x \in Nat /\ x > 0 /\ x <= ColLastL /\ x <= ColRequiredL("OLC", ColLines)
      BY <1>3, <2>6, <3>1 DEF Smaller
    <3>3. \A s \in WithMis({"OLC", T}) : firstRequiredL'[s]["COL"] = x
      BY <1>1
    <3> HIDE DEF x
    <3>4. ASSUME NEW s \in ColSources
          PROVE  /\ firstRequiredL'[s]["COL"] \in Nat /\ firstRequiredL'[s]["COL"] > 0
                 /\ firstRequiredL'[s]["COL"] <= ColRequiredL(s, ColLines)
      BY <1>1, <2>6, <3>1, <3>2, <3>3 DEF ColSources
    <3>5. ASSUME NEW s \in ColSources, NEW l \in Rows(product), NEW r \in product.sources[s][l], l > ColLastL
          PROVE  firstRequiredL'[s]["COL"] <= r
      <4>1. r \in Nat
        BY <1>1, CollocationIs, LongWindows
      <4>2. ColRequiredL(s, ColLines) <= r /\ ColRequiredL(s, ColLines) \in Nat
        BY <3>1, <3>5
      <4>. QED
        BY <3>4, <4>1, <4>2
    <3>. QED
      BY <2>6, <3>2, <3>3, <3>4, <3>5
  <2>8. WindowsFit'
    <3>1. grid["OLC_MIS"].minInMemoryL \in Nat
      BY <1>1, WindowTypes
    <3>. QED
      BY <1>1, <1>2, <1>3, <2>1, <3>1 DEF WindowsFit
  <2>9. WindowMoves'
    <3>1. Collocated' => ColLastL = MaxInMemoryL(T) /\ MaxInMemoryL(T) < grid[T].maxL
      BY <1>1 DEF Collocated, MaxInMemoryL
    <3>2. Collocated' => grid[T].minInMemoryL < firstRequiredL'[T]["COL"]
      BY <1>1, <2>1, <2>2, <2>6, <3>1, LongWindows, ColReleases DEF WindowsFit
    <3>. QED
      BY <1>1, <2>3, <3>2 DEF WindowMoves
  <2>. QED
    BY <2>5, <2>7, <2>8, <2>9
<1>. QED
  BY <1>4, <1>5

\* The first row of the map to compute.
LEMMA FirstTargetIs ==
  ASSUME TypesFit, TrackedNow, Busy
  PROVE  FirstTargetL = IF MappedL > 0 THEN Larger(0, MappedL + 1) ELSE 0
BY InAPass DEF FirstTargetL, GetFirstComputableL, HasLastComputedL, MappedL

\* A step that touches nothing the invariant is about, but for the turn.
LEMMA PartsKept ==
  ASSUME UNCHANGED <<grid, product>>, MappedL' = MappedL, L("COL")' = L("COL"),
         \A s \in Segment : \A m \in Module : firstRequiredL'[s][m] = firstRequiredL[s][m]
  PROVE  /\ Collocated' <=> Collocated
         /\ Stalled' <=> Stalled
         /\ RowsAhead' <=> RowsAhead
         /\ (TurnOver(2)' => TurnOver(2)) => (RowsAreRequired => RowsAreRequired')
         /\ WindowsFit' <=> WindowsFit
<1>1. /\ Asked' = Asked /\ firstRequiredL'["OLC"][Mapper] = firstRequiredL["OLC"][Mapper]
      /\ \A s \in WithMis({"OLC", T}) \cup ColSources : firstRequiredL'[s]["COL"] = firstRequiredL[s]["COL"]
      /\ WithMis({"OLC", T})' = WithMis({"OLC", T}) /\ Rows(product)' = Rows(product)
      /\ firstRequiredL'[T]["COL"] = firstRequiredL[T]["COL"]
  <2>1. WithMis({"OLC", T}) \cup ColSources \cup {T, "OLC"} \subseteq Segment /\ {"COL", Mapper} \subseteq Module
    BY SegmentsAre, ModulesAre DEF WithMis
  <2>. QED
    BY <2>1 DEF Asked, WithMis, Rows
<1>2. /\ MaxInMemoryL(T)' = MaxInMemoryL(T) /\ InMemory' = InMemory /\ FirstTargetL' = FirstTargetL
  BY DEF MaxInMemoryL, InMemory, FirstTargetL, GetFirstComputableL, HasLastComputedL, MappedL
<1>3. Collocated' <=> Collocated
  BY <1>2 DEF Collocated
<1>4. Stalled' <=> Stalled
  BY <1>1, <1>2, <1>3 DEF Stalled
<1>5. RowsAhead' <=> RowsAhead
  BY <1>1 DEF RowsAhead
<1>6. (TurnOver(2)' => TurnOver(2)) => (RowsAreRequired => RowsAreRequired')
  BY <1>1 DEF RowsAreRequired
<1>7. WindowsFit' <=> WindowsFit
  BY <1>1 DEF WindowsFit
<1>. QED
  BY <1>3, <1>4, <1>5, <1>6, <1>7

\* The turns of the modules that neither collocate nor map.
LEMMA WindowsKept ==
  ASSUME TypesFit, phase = "process", ProcessNext, at \notin {2, MapperAt}, WindowInv,
         UNCHANGED <<grid, product>>, MappedL' = MappedL, L("COL")' = L("COL"),
         \A s \in Segment : \A m \in Module : firstRequiredL'[s][m] = firstRequiredL[s][m]
  PROVE  WindowInv'
<1>1. Busy /\ (TurnOver(2)' <=> TurnOver(2)) /\ (TurnOver(MapperAt)' <=> TurnOver(MapperAt))
  BY TurnsPass, PipelineIs DEF Busy
<1>2. /\ Collocated' <=> Collocated
      /\ Stalled' <=> Stalled
      /\ RowsAhead' <=> RowsAhead
      /\ RowsAreRequired => RowsAreRequired'
      /\ WindowsFit' <=> WindowsFit
  BY <1>1, PartsKept
<1>3. Asked' = Asked /\ firstRequiredL'[T]["COL"] = firstRequiredL[T]["COL"]
  BY SegmentsAre, ModulesAre DEF Asked
<1>4. WindowMoves => WindowMoves'
  BY <1>1, <1>2, <1>3 DEF WindowMoves
<1>. QED
  BY <1>1, <1>2, <1>4 DEF WindowInv

\* When the mapper waits for a row it has required before, the window may be
\* stalled.
LEMMA WaitingWindows ==
  ASSUME Basics, LongWindows, WindowInv, MapWaits
  PROVE  WindowInv'
<1>1. /\ TypesFit /\ TrackedNow /\ phase = "process" /\ at = MapperAt /\ Busy /\ ProcessNext
      /\ UNCHANGED <<contextVars, product>> /\ IsSouthOfSource
  BY LongWindows, MapWaitsStep DEF Basics, MapWaits
<1>2. /\ MappedL' = MappedL /\ L("COL")' = L("COL") /\ Asked' = Asked
      /\ firstRequiredL'[T]["COL"] = firstRequiredL[T]["COL"]
      /\ UNCHANGED <<grid, product>>
      /\ \A s \in Segment : \A m \in Module : firstRequiredL'[s][m] = firstRequiredL[s][m]
  BY <1>1 DEF contextVars, MappedL, L, Asked
<1>3. TurnOver(2)
  BY <1>1, Types DEF TurnOver
<1>4. /\ Collocated' <=> Collocated
      /\ Stalled' <=> Stalled
      /\ RowsAhead' <=> RowsAhead
      /\ RowsAreRequired => RowsAreRequired'
      /\ WindowsFit' <=> WindowsFit
  BY <1>2, <1>3, PartsKept
<1>5. TurnOver(2)'
  BY <1>1, <1>3, TurnsPass, PipelineIs
<1>6. ASSUME WindowsFit, WindowMoves, ~Stalled PROVE WindowMoves'
  <2>. SUFFICES ASSUME Collocated, 0 < Asked PROVE grid[T].minInMemoryL < Asked
    BY <1>2, <1>4, <1>5, <1>6 DEF WindowMoves
  <2>1. Asked # grid[T].minInMemoryL
    BY <1>1, <1>6 DEF Stalled, IsSouthOfSource
  <2>2. grid[T].minInMemoryL <= Asked /\ Asked \in Int /\ grid[T].minInMemoryL \in Nat
    BY <1>1, <1>6, WindowTypes DEF WindowsFit
  <2>. QED
    BY <2>1, <2>2
<1>. QED
  BY <1>1, <1>2, <1>4, <1>6 DEF WindowInv

\* What the mapper requires, if rows of the map are left: not the first row of a
\* window that is collocated as a whole, since a source row ahead of it belongs
\* to the same row of the map.
LEMMA MapReleases ==
  ASSUME TypesFit, Tracked, MapInv, LongWindows, Turn("process", Mapper), MappedLastL < MaxTargetL
  PROVE  /\ MapRequiredL \in Nat /\ MapRequiredL >= grid[T].minInMemoryL
         /\ Collocated => MapRequiredL > grid[T].minInMemoryL
<1>1. /\ TrackedNow /\ Busy
      /\ \A l \in (MappedL + 1)..MaxTargetL : \A r \in product.found[l] : grid[T].minInMemoryL <= r
  BY MapperSees
<1> DEFINE k == MappedLastL + 1
<1>2. /\ MappedLastL \in Int /\ MappedL <= MappedLastL /\ MappedLastL >= -1
      /\ MapRequiredL \in Nat
      /\ MapRequiredL \in product.found[k] \cup {MaxInMemoryL(T) + 1}
      /\ \E r \in product.found[k] : r > L("COL")
  BY LongWindows, MapReach
<1>3. /\ grid[T].minInMemoryL \in Nat /\ grid[T].sizeL \in Nat \ {0} /\ MaxInMemoryL(T) \in Nat
      /\ MaxInMemoryL(T) = grid[T].minInMemoryL + grid[T].sizeL - 1
      /\ MappedL \in Int /\ MappedL >= -1 /\ MaxTargetL \in Nat
      /\ \A l \in 0..MaxTargetL : product.found[l] \in SUBSET Nat
  BY <1>1, RowsType
<1>4. k \in 0..MaxTargetL /\ k \in (MappedL + 1)..MaxTargetL
  BY <1>2, <1>3
<1> HIDE DEF k
<1>5. MapRequiredL >= grid[T].minInMemoryL
  BY <1>1, <1>2, <1>3, <1>4
<1>6. ASSUME Collocated PROVE MapRequiredL > grid[T].minInMemoryL
  <2>1. grid[T].sizeL = segmentLineCount /\ segmentLineCount \in Nat /\ L("COL") = MaxInMemoryL(T)
    BY <1>1, <1>6, CollocationIs, LongWindows DEF Collocated
  <2>2. CASE MapRequiredL = MaxInMemoryL(T) + 1
    BY <1>3, <2>2
  <2>3. CASE MapRequiredL \in product.found[k]
    <3>1. PICK r \in product.found[k] : r > L("COL")
      BY <1>2
    <3>2. Maps(product, segmentLineCount, Needed)
      BY <1>1, InAPass, Hypothesis, LongWindows DEF TypesFit
    <3>3. r - MapRequiredL < segmentLineCount
      BY <1>4, <2>3, <3>2 DEF Maps
    <3>4. r \in Nat
      BY <1>3, <1>4
    <3>. QED
      BY <1>2, <1>3, <2>1, <3>1, <3>3, <3>4
  <2>. QED
    BY <1>2, <2>2, <2>3
<1>. QED
  BY <1>2, <1>5, <1>6

\* The mapper does not map when the window is stalled.
LEMMA MappingWindows ==
  ASSUME Basics, LongWindows, WindowInv, MayMap, RegisterMapped, UNCHANGED dataVars
  PROVE  WindowInv'
<1>1. /\ TypesFit /\ Tracked /\ MapInv /\ Turn("process", Mapper) /\ ~IsSouthOfSource
      /\ UNCHANGED <<product, segmentLineCount>>
  BY DEF Basics, MayMap, dataVars
<1>2. /\ TrackedNow /\ phase = "process" /\ at = MapperAt /\ Busy
      /\ ProcessNext /\ UNCHANGED grid
      /\ \A s \in Segment \ {Map} : lastComputedL'[s] = lastComputedL[s]
      /\ \A s \in Segment : \A p \in Module :
           firstRequiredL'[s][p] =
             IF p = Mapper /\ s \in {T, "OLC"} THEN MapRequiredL ELSE firstRequiredL[s][p]
      /\ MappedL' = MappedLastL
  BY <1>1, LongWindows, MapsStep
<1>. SUFFICES ASSUME MappedLastL < MaxTargetL
              PROVE  (RowsAhead /\ RowsAreRequired /\ WindowsFit /\ WindowMoves)'
  BY <1>2 DEF WindowInv
<1>3. MappedL < MaxTargetL
  <2>1. MappedLastL \in Int /\ MappedL <= MappedLastL /\ MappedL \in Int /\ MaxTargetL \in Nat
    BY <1>1, <1>2, LongWindows, MapReach, RowsType
  <2>. QED
    BY <2>1
<1>4. ~Stalled
  <2>. SUFFICES ASSUME Stalled PROVE IsSouthOfSource
    BY <1>1
  <2>1. LastSourceL = L("COL")
    BY <1>1, MapperSees
  <2>. QED
    BY <2>1 DEF Stalled, Collocated, IsSouthOfSource
<1>5. RowsAhead /\ RowsAreRequired /\ WindowsFit /\ WindowMoves
  BY <1>2, <1>3, <1>4, NothingLost
<1>6. /\ Asked' = MapRequiredL /\ firstRequiredL'["OLC"][Mapper] = MapRequiredL
      /\ \A s \in WithMis({"OLC", T}) \cup ColSources : firstRequiredL'[s]["COL"] = firstRequiredL[s]["COL"]
      /\ WithMis({"OLC", T})' = WithMis({"OLC", T}) /\ Rows(product)' = Rows(product)
      /\ firstRequiredL'[T]["COL"] = firstRequiredL[T]["COL"]
      /\ L("COL")' = L("COL") /\ MaxInMemoryL(T)' = MaxInMemoryL(T)
  <2>1. /\ WithMis({"OLC", T}) \cup ColSources \cup {T, "OLC"} \subseteq Segment
        /\ {"COL", Mapper} \subseteq Module /\ Mapper # "COL" /\ T \in Segment \ {Map}
    BY SegmentsAre, ModulesAre DEF WithMis
  <2>. QED
    BY <1>1, <1>2, <2>1 DEF Asked, WithMis, Rows, L, MaxInMemoryL
<1>7. TurnOver(2) /\ TurnOver(2)'
  <2>1. TurnOver(2)
    BY <1>1, <1>2, Types DEF TurnOver
  <2>. QED
    BY <1>1, <1>2, <2>1, TurnsPass, PipelineIs
<1>8. RowsAhead' /\ RowsAreRequired'
  <2>1. UNCHANGED <<grid, product>> /\ (L("COL") < grid[T].maxL)' = (L("COL") < grid[T].maxL)
    BY <1>1, <1>2, <1>6
  <2>2. RowsAhead'
    BY <1>5, <1>6, <2>1 DEF RowsAhead
  <2>3. RowsAreRequired'
    BY <1>5, <1>6, <1>7, <2>1 DEF RowsAreRequired
  <2>. QED
    BY <2>2, <2>3
<1>9. /\ MapRequiredL \in Nat /\ MapRequiredL >= grid[T].minInMemoryL
      /\ Collocated => MapRequiredL > grid[T].minInMemoryL
      /\ grid[T].minInMemoryL \in Nat
  BY <1>1, <1>2, LongWindows, MapReleases, WindowTypes
<1>10. WindowsFit'
  BY <1>2, <1>5, <1>6, <1>9 DEF WindowsFit
<1>11. WindowMoves'
  BY <1>2, <1>5, <1>6, <1>7, <1>9 DEF WindowMoves, Collocated
<1>. QED
  BY <1>8, <1>10, <1>11

\* What is computed and required at the end of a pass, as long as there are
\* rows of the map left.
LEMMA EndOfPass ==
  ASSUME TypesFit, TrackedNow, MapInv, phase = "move", Busy, MappedL < MaxTargetL
  PROVE  /\ L("COL") \in Nat /\ L("COL") >= 1 /\ L("COL") < grid[T].maxL
         /\ \A m \in Module : lastComputedL[T][m] # None => lastComputedL[T][m] = L("COL")
         /\ \A s \in SourceSegments : \A m \in Module :
              lastComputedL[s][m] # None => lastComputedL[s][m] = MaxInMemoryL(s)
         /\ CommonlyComputedL(T) = L("COL")
         /\ \A s \in SourceSegments : CommonlyComputedL(s) = MaxInMemoryL(s)
<1>1. \A i \in DOMAIN Pipeline : TurnOver(i)
  BY DEF TurnOver
<1>2. /\ "COL" \in Syn /\ SynAt("COL") = 2 /\ 2 \in DOMAIN Pipeline /\ 1 \in DOMAIN Pipeline
      /\ MapperAt \in DOMAIN Pipeline
      /\ \A m \in Syn : m \in Module /\ SynAt(m) \in DOMAIN Pipeline /\ SynAt("COL") <= SynAt(m)
  BY ModulesAre, PipelineIs
<1>3. Pace
  BY DEF TrackedNow, Progress
<1>4. /\ L("COL") \in Int /\ L("COL") # None /\ L("COL") >= 1 /\ L("COL") <= MaxInMemoryL(T)
      /\ \A m \in Syn : L(m) = L("COL")
  BY <1>1, <1>2, <1>3, RowsType DEF Pace
<1>5. L("COL") # grid[T].maxL /\ MappedL \in Int /\ MaxTargetL \in Nat
      /\ MaxInMemoryL(T) \in Nat /\ MaxInMemoryL(T) <= grid[T].maxL /\ grid[T].maxL \in Nat
  BY <1>1, <1>2, RowsType DEF MapInv
<1>6. \A m \in Module : lastComputedL[T][m] # None => lastComputedL[T][m] = L("COL")
  BY <1>4 DEF TrackedNow, OwnEntries, L
<1>7. \A s \in SourceSegments : \A m \in Module :
        lastComputedL[s][m] # None => lastComputedL[s][m] = MaxInMemoryL(s)
  BY <1>1, <1>2 DEF TrackedNow, OwnEntries, ReaderInv
<1>8. SourceSegments \cup {T} \subseteq DOMAIN grid /\ ContextTypeOK
  BY InAPass, Types
<1>9. CommonlyComputedL(T) = L("COL")
  <2>1. /\ CommonlyComputedL(T) \in Nat /\ CommonlyComputedL(T) <= L("COL")
        /\ \/ CommonlyComputedL(T) = MaxInMemoryL(T)
           \/ CommonlyComputedL(T) = L("COL")
    BY <1>2, <1>4, <1>6, <1>8, ForwardRows DEF L
  <2>. QED
    BY <1>4, <1>5, <2>1
<1>10. \A s \in SourceSegments : CommonlyComputedL(s) = MaxInMemoryL(s)
  BY <1>7, <1>8, ForwardRows
<1>. QED
  BY <1>4, <1>5, <1>6, <1>7, <1>9, <1>10

\* The row that T and OLC slide to is the first that the collocation or the
\* mapper requires, and that the misregistration slides to is not before it.
LEMMA WindowsSlide ==
  ASSUME TypesFit, TrackedNow, MapInv, LongWindows, phase = "move", Busy, MappedL < MaxTargetL,
         RowsAreRequired, WindowsFit
  PROVE  /\ ForwardL("OLC") = ForwardL(T)
         /\ ForwardL(T) \in Int
         /\ 0 < Asked => ForwardL(T) <= Asked
         /\ \A s \in ColSources :
              ForwardL(s) \in Int /\ ForwardL(s) <= firstRequiredL[s]["COL"]
         /\ grid["OLC_MIS"].sizeL > 1 =>
              /\ ForwardL("OLC_MIS") \in Int
              /\ ForwardL(T) <= ForwardL("OLC_MIS") /\ ForwardL("OLC_MIS") <= L("COL")
         /\ WindowMoves /\ Collocated => ForwardL(T) > grid[T].minInMemoryL
<1> DEFINE f == firstRequiredL[T]["COL"]
<1>1. /\ L("COL") \in Nat /\ L("COL") >= 1 /\ L("COL") < grid[T].maxL
      /\ CommonlyComputedL(T) = L("COL")
      /\ \A s \in SourceSegments : CommonlyComputedL(s) = MaxInMemoryL(s)
  BY EndOfPass
<1>2. TurnOver(2)
  BY DEF TurnOver
<1>3. /\ \A s \in ColSources : firstRequiredL[s]["COL"] > 0
      /\ \A s \in WithMis({"OLC", T}) :
           firstRequiredL[s]["COL"] = f /\ f > 0 /\ f <= L("COL")
  BY <1>1, <1>2 DEF RowsAreRequired
<1>4. /\ "OLC" \in WithMis({"OLC", T}) /\ T \in WithMis({"OLC", T})
      /\ grid["OLC_MIS"].sizeL > 1 => "OLC_MIS" \in WithMis({"OLC", T})
      /\ ColSources \cup {"OLC", "OLC_MIS"} \subseteq SourceSegments
  BY SegmentsAre DEF WithMis
<1>5. /\ \A s \in ColSources \cup {"OLC", "OLC_MIS", T} :
           /\ s \in DOMAIN grid /\ ContextTypeOK
           /\ grid[s].minInMemoryL \in Nat /\ grid[s].sizeL \in Nat \ {0} /\ grid[s].maxL \in Nat
           /\ MaxInMemoryL(s) = grid[s].minInMemoryL + grid[s].sizeL - 1
           /\ MaxInMemoryL(s) \in Nat /\ MaxInMemoryL(s) <= grid[s].maxL
           /\ \A m \in Module : firstRequiredL[s][m] \in Int
      /\ grid["OLC"].sizeL = grid[T].sizeL /\ grid["OLC"].maxL = grid[T].maxL
      /\ L("COL") <= MaxInMemoryL(T) /\ Asked \in Int
      /\ "COL" \in Module /\ Mapper \in Module
      /\ grid["OLC_MIS"].sizeL > 1 =>
           grid["OLC_MIS"].sizeL = grid[T].sizeL /\ grid["OLC_MIS"].maxL = grid[T].maxL
  BY WindowTypes, CollocationIs, LongWindows DEF ColSources
<1>6. /\ grid["OLC"].minInMemoryL = grid[T].minInMemoryL
      /\ MaxInMemoryL("OLC") = MaxInMemoryL(T)
      /\ firstRequiredL["OLC"][Mapper] = Asked
      /\ grid["OLC_MIS"].sizeL > 1 =>
           /\ grid[T].minInMemoryL <= grid["OLC_MIS"].minInMemoryL
           /\ MaxInMemoryL(T) <= MaxInMemoryL("OLC_MIS")
  BY <1>5 DEF WindowsFit
<1>7. /\ f \in Int /\ f > 0 /\ f <= L("COL") /\ firstRequiredL["OLC"]["COL"] = f
      /\ grid["OLC_MIS"].sizeL > 1 => firstRequiredL["OLC_MIS"]["COL"] = f
  BY <1>3, <1>4, <1>5
\* Who requires rows.
<1>8. /\ \A s \in {"OLC", T} : \A m \in Module : firstRequiredL[s][m] > 0 => m \in {"COL", Mapper}
      /\ \A m \in Module : firstRequiredL["OLC_MIS"][m] > 0 => m = "COL"
      /\ firstRequiredL[T][Mapper] = Asked
  BY <1>4, SegmentsAre DEF TrackedNow, OwnEntries, None, Asked
<1>9. ASSUME NEW s \in {"OLC", T}
      PROVE  /\ GetFirstRequiredL(s) \in Nat
             /\ GetFirstRequiredL(s) <= Smaller(MaxInMemoryL(T) + 1, grid[T].maxL)
             /\ GetFirstRequiredL(s) <= f
             /\ Asked > 0 => GetFirstRequiredL(s) <= Asked
             /\ \/ GetFirstRequiredL(s) = Smaller(MaxInMemoryL(T) + 1, grid[T].maxL)
                \/ GetFirstRequiredL(s) = f
                \/ Asked > 0 /\ GetFirstRequiredL(s) = Asked
  <2>1. /\ MaxInMemoryL(s) = MaxInMemoryL(T) /\ grid[s].maxL = grid[T].maxL
        /\ firstRequiredL[s]["COL"] = f /\ firstRequiredL[s][Mapper] = Asked
        /\ s \in DOMAIN grid /\ ContextTypeOK
    BY <1>5, <1>6, <1>7, <1>8
  <2>2. /\ GetFirstRequiredL(s) \in Nat
        /\ GetFirstRequiredL(s) <= Smaller(MaxInMemoryL(s) + 1, grid[s].maxL)
        /\ \A m \in Module : firstRequiredL[s][m] > 0 => GetFirstRequiredL(s) <= firstRequiredL[s][m]
        /\ \/ GetFirstRequiredL(s) = Smaller(MaxInMemoryL(s) + 1, grid[s].maxL)
           \/ \E m \in Module : firstRequiredL[s][m] > 0 /\ GetFirstRequiredL(s) = firstRequiredL[s][m]
    BY <2>1, ForwardRows
  <2>. QED
    BY <1>5, <1>7, <1>8, <2>1, <2>2
<1>10. ASSUME grid["OLC_MIS"].sizeL > 1
       PROVE  /\ GetFirstRequiredL("OLC_MIS") \in Nat
              /\ GetFirstRequiredL("OLC_MIS") <= f
              /\ \/ GetFirstRequiredL("OLC_MIS") = Smaller(MaxInMemoryL("OLC_MIS") + 1, grid[T].maxL)
                 \/ GetFirstRequiredL("OLC_MIS") = f
  <2>1. /\ grid["OLC_MIS"].maxL = grid[T].maxL
        /\ firstRequiredL["OLC_MIS"]["COL"] = f
        /\ "OLC_MIS" \in DOMAIN grid /\ ContextTypeOK
    BY <1>5, <1>7, <1>10
  <2>2. /\ GetFirstRequiredL("OLC_MIS") \in Nat
        /\ \A m \in Module : firstRequiredL["OLC_MIS"][m] > 0 =>
             GetFirstRequiredL("OLC_MIS") <= firstRequiredL["OLC_MIS"][m]
        /\ \/ GetFirstRequiredL("OLC_MIS") =
                 Smaller(MaxInMemoryL("OLC_MIS") + 1, grid["OLC_MIS"].maxL)
           \/ \E m \in Module : firstRequiredL["OLC_MIS"][m] > 0
                /\ GetFirstRequiredL("OLC_MIS") = firstRequiredL["OLC_MIS"][m]
    BY <2>1, ForwardRows
  <2>. QED
    BY <1>5, <1>7, <1>8, <2>1, <2>2
<1>11. \A s \in ColSources :
         /\ GetFirstRequiredL(s) \in Nat /\ GetFirstRequiredL(s) <= firstRequiredL[s]["COL"]
  BY <1>3, <1>5, ForwardRows
<1> HIDE DEF f
<1>12. GetFirstRequiredL("OLC") = GetFirstRequiredL(T)
  BY <1>5, <1>7, <1>9 DEF Smaller
<1>13. ForwardL(T) = Smaller(GetFirstRequiredL(T), grid[T].maxL - grid[T].sizeL + 1)
       /\ ForwardL("OLC") = ForwardL(T)
  <2>1. /\ Smaller(L("COL") + 1, GetFirstRequiredL(T)) = GetFirstRequiredL(T)
        /\ Smaller(MaxInMemoryL("OLC") + 1, GetFirstRequiredL("OLC")) = GetFirstRequiredL(T)
    BY <1>1, <1>5, <1>6, <1>7, <1>9, <1>12 DEF Smaller
  <2>2. CommonlyComputedL(T) = L("COL") /\ CommonlyComputedL("OLC") = MaxInMemoryL("OLC")
    BY <1>1, <1>4
  <2>. QED
    BY <1>5, <2>1, <2>2 DEF ForwardL
<1>14. ASSUME grid["OLC_MIS"].sizeL > 1
       PROVE  /\ ForwardL("OLC_MIS") \in Int
              /\ ForwardL(T) <= ForwardL("OLC_MIS") /\ ForwardL("OLC_MIS") <= L("COL")
  <2>1. CommonlyComputedL("OLC_MIS") = MaxInMemoryL("OLC_MIS")
    BY <1>1, <1>4
  <2>2. GetFirstRequiredL(T) <= GetFirstRequiredL("OLC_MIS")
    BY <1>5, <1>6, <1>7, <1>9, <1>10, <1>14 DEF Smaller
  <2>3. ForwardL("OLC_MIS") =
          Smaller(Smaller(MaxInMemoryL("OLC_MIS") + 1, GetFirstRequiredL("OLC_MIS")),
                  grid[T].maxL - grid[T].sizeL + 1)
    BY <1>5, <1>14, <2>1 DEF ForwardL
  <2>. QED
    BY <1>1, <1>5, <1>6, <1>7, <1>9, <1>10, <1>13, <1>14, <2>2, <2>3 DEF Smaller
<1>15. \A s \in ColSources : ForwardL(s) \in Int /\ ForwardL(s) <= firstRequiredL[s]["COL"]
  <2>1. \A s \in ColSources : ForwardL(s) \in Int /\ ForwardL(s) <= GetFirstRequiredL(s)
    BY <1>5, MovedWindow
  <2>. QED
    BY <1>5, <1>11, <2>1
<1>16. ForwardL(T) \in Int /\ (0 < Asked => ForwardL(T) <= Asked)
  BY <1>5, <1>9, <1>13 DEF Smaller
<1>17. ASSUME WindowMoves, Collocated PROVE ForwardL(T) > grid[T].minInMemoryL
  <2>1. /\ L("COL") = MaxInMemoryL(T) /\ MaxInMemoryL(T) < grid[T].maxL
        /\ grid[T].minInMemoryL < f
        /\ 0 < Asked => grid[T].minInMemoryL < Asked
    BY <1>17 DEF WindowMoves, Collocated, TurnOver, f
  <2>2. GetFirstRequiredL(T) > grid[T].minInMemoryL
    BY <1>5, <1>7, <1>9, <2>1 DEF Smaller
  <2>. QED
    BY <1>5, <1>9, <1>13, <2>1, <2>2 DEF Smaller
<1>. QED
  BY <1>13, <1>14, <1>15, <1>16, <1>17

\* The windows slide together, behind no row that is still to be read.
LEMMA MoveWindows ==
  ASSUME Basics, LongWindows, WindowInv, MoveSegmentsForward, UNCHANGED dataVars
  PROVE  WindowInv'
<1>1. /\ TypesFit /\ MapInv /\ TrackedNow /\ phase = "move" /\ Busy
      /\ TypesFit' /\ TrackedNow' /\ UNCHANGED <<lastComputedL, firstRequiredL, product>>
      /\ DOMAIN grid' = DOMAIN grid /\ \A s \in DOMAIN grid : grid'[s] = MovedGrid(s)
      /\ \A i \in DOMAIN Pipeline : ~TurnOver(i)'
  <2>1. UNCHANGED <<product, segmentLineCount>>
    BY DEF dataVars
  <2>2. /\ TypesFit /\ Tracked /\ MapInv /\ TypesFit'
    BY TaskMoveStep DEF Basics
  <2>. QED
    BY <2>1, <2>2, MoveStep
<1>. SUFFICES ASSUME Busy', MappedL < MaxTargetL
              PROVE  (Stalled \/ (RowsAhead /\ RowsAreRequired /\ WindowsFit /\ WindowMoves))'
  BY <1>1 DEF WindowInv, MappedL
<1>2. \A s \in ColSources \cup {"OLC_MIS", T} :
        /\ s \in DOMAIN grid /\ ContextTypeOK
        /\ grid[s].minInMemoryL \in Nat /\ grid[s].sizeL \in Nat \ {0} /\ grid[s].maxL \in Nat
        /\ MaxInMemoryL(s) = grid[s].minInMemoryL + grid[s].sizeL - 1
        /\ MaxInMemoryL(s) \in Nat /\ MaxInMemoryL(s) <= grid[s].maxL
  BY <1>1, WindowTypes
<1>3. \A s \in ColSources \cup {"OLC_MIS", T} :
        /\ grid'[s].sizeL = grid[s].sizeL /\ grid'[s].maxL = grid[s].maxL
        /\ grid'[s].minInMemoryL = Larger(grid[s].minInMemoryL, ForwardL(s))
        /\ grid'[s].minInMemoryL \in Nat
        /\ grid'[s].minInMemoryL >= grid[s].minInMemoryL
        /\ grid'[s].minInMemoryL \in {grid[s].minInMemoryL, ForwardL(s)}
        /\ MaxInMemoryL(s)' = grid'[s].minInMemoryL + grid[s].sizeL - 1
  BY <1>1, <1>2, MovedWindow DEF MaxInMemoryL
<1>4. /\ L("COL")' = L("COL") /\ Asked' = Asked /\ MappedL' = MappedL
      /\ firstRequiredL'["OLC"][Mapper] = firstRequiredL["OLC"][Mapper]
      /\ Asked \in Int /\ L("COL") \in Int
  BY <1>1, WindowTypes DEF L, Asked, MappedL
<1>5. T \in ColSources \cup {"OLC_MIS", T} /\ "OLC" \in ColSources
  BY SegmentsAre
<1>6. CASE Stalled
  <2>1. ForwardL(T) \in Int /\ ForwardL(T) <= grid[T].minInMemoryL
    <3>1. /\ ForwardL(T) \in Int /\ ForwardL(T) <= GetFirstRequiredL(T)
          /\ GetFirstRequiredL(T) \in Nat
          /\ \A m \in Module : firstRequiredL[T][m] > 0 => GetFirstRequiredL(T) <= firstRequiredL[T][m]
      BY <1>2, <1>5, MovedWindow, ForwardRows
    <3>2. firstRequiredL[T][Mapper] > 0 /\ firstRequiredL[T][Mapper] = grid[T].minInMemoryL
      BY <1>4, <1>6 DEF Stalled, Asked
    <3>. QED
      BY <1>2, <1>5, <3>1, <3>2, ModulesAre
  <2>2. grid'[T].minInMemoryL = grid[T].minInMemoryL /\ MaxInMemoryL(T)' = MaxInMemoryL(T)
    BY <1>2, <1>3, <1>5, <2>1 DEF Larger
  <2>3. FirstTargetL' = FirstTargetL
    <3>1. Map \in DOMAIN grid /\ grid[Map] = NewMap(Map)
      BY <1>1, InAPass
    <3>2. grid'[Map] = NewMap(Map)
      BY <1>1, <3>1 DEF TrackedNow, ShapesFit, HasSegment
    <3>. QED
      BY <1>1, <3>1, <3>2 DEF FirstTargetL, GetFirstComputableL, HasLastComputedL
  <2>4. InMemory' = InMemory /\ grid'[T].maxL = grid[T].maxL
    BY <1>3, <1>5, <2>2 DEF InMemory
  <2>. QED
    BY <1>1, <1>4, <1>6, <2>2, <2>3, <2>4 DEF Stalled, Collocated
<1>7. CASE ~Stalled
  <2>1. RowsAhead /\ RowsAreRequired /\ WindowsFit /\ WindowMoves
    BY <1>1, <1>7, NothingLost
  <2>2. /\ ForwardL("OLC") = ForwardL(T)
        /\ ForwardL(T) \in Int
        /\ 0 < Asked => ForwardL(T) <= Asked
        /\ \A s \in ColSources :
             ForwardL(s) \in Int /\ ForwardL(s) <= firstRequiredL[s]["COL"]
        /\ grid["OLC_MIS"].sizeL > 1 =>
             /\ ForwardL("OLC_MIS") \in Int
             /\ ForwardL(T) <= ForwardL("OLC_MIS") /\ ForwardL("OLC_MIS") <= L("COL")
        /\ WindowMoves /\ Collocated => ForwardL(T) > grid[T].minInMemoryL
    BY <1>1, <2>1, LongWindows, WindowsSlide
  <2>3. ~TurnOver(2)'
    BY <1>1, PipelineIs
  <2>4. RowsAhead'
    <3>. SUFFICES ASSUME NEW s \in ColSources, NEW l \in Rows(product), NEW r \in product.sources[s][l],
                         l > L("COL")
                  PROVE  grid'[s].minInMemoryL <= r
      BY <1>1, <1>4 DEF RowsAhead, Rows
    <3>1. grid[s].minInMemoryL <= r
      BY <2>1 DEF RowsAhead
    <3>2. firstRequiredL[s]["COL"] <= r
      <4>1. TurnOver(2) /\ L("COL") < grid[T].maxL
        BY <1>1, EndOfPass DEF TurnOver
      <4>. QED
        BY <2>1, <4>1 DEF RowsAreRequired
    <3>3. r \in Nat /\ firstRequiredL[s]["COL"] \in Int
      BY <1>1, CollocationIs, WindowTypes, LongWindows
    <3>. QED
      BY <1>3, <2>2, <3>1, <3>2, <3>3
  <2>5. RowsAreRequired'
    BY <2>3 DEF RowsAreRequired
  <2>6. WindowsFit'
    <3>1. grid'["OLC"].minInMemoryL = grid'[T].minInMemoryL
      BY <1>3, <1>5, <2>1, <2>2 DEF WindowsFit
    <3>2. 0 < Asked => grid'[T].minInMemoryL <= Asked
      BY <1>3, <1>5, <2>1, <2>2 DEF WindowsFit
    <3>3. ASSUME grid["OLC_MIS"].sizeL > 1
          PROVE  /\ grid'[T].minInMemoryL <= grid'["OLC_MIS"].minInMemoryL
                 /\ grid'["OLC_MIS"].minInMemoryL <= L("COL") + 1
      <4>1. /\ grid[T].minInMemoryL <= grid["OLC_MIS"].minInMemoryL
            /\ grid["OLC_MIS"].minInMemoryL <= L("COL") + 1
        BY <2>1, <3>3 DEF WindowsFit
      <4>. QED
        BY <1>2, <1>3, <1>4, <1>5, <2>2, <3>3, <4>1 DEF Larger
    <3>. QED
      BY <1>3, <1>4, <2>1, <3>1, <3>2, <3>3 DEF WindowsFit
  <2>7. WindowMoves'
    <3>. SUFFICES ASSUME Collocated' PROVE FALSE
      BY DEF WindowMoves
    <3>1. /\ L("COL") = grid'[T].minInMemoryL + grid[T].sizeL - 1
          /\ grid'[T].minInMemoryL + grid[T].sizeL - 1 < grid[T].maxL
      BY <1>3, <1>4, <1>5 DEF Collocated
    <3>2. L("COL") <= MaxInMemoryL(T)
      BY <1>1, WindowTypes
    <3>3. grid'[T].minInMemoryL = grid[T].minInMemoryL
      BY <1>2, <1>3, <1>4, <1>5, <3>1, <3>2
    <3>4. Collocated
      BY <1>2, <1>5, <3>1, <3>3 DEF Collocated
    <3>5. ForwardL(T) > grid[T].minInMemoryL
      BY <2>1, <2>2, <3>4
    <3>. QED
      BY <1>2, <1>3, <1>5, <2>2, <3>3, <3>5 DEF Larger
  <2>. QED
    BY <2>4, <2>5, <2>6, <2>7
<1>. QED
  BY <1>6, <1>7

\* The first pass begins with windows at row 0.
LEMMA StartWindows ==
  ASSUME Basics, Basics', phase = "start", StartNext,
         at = MapperAt + 2 => UNCHANGED <<contextVars, product>>
  PROVE  WindowInv'
<1>1. /\ TypesFit /\ TrackedNow /\ TypesFit'
      /\ phase' \in {"start", "process"} /\ (Busy' => at = MapperAt + 2)
      /\ ~TurnOver(2)'
  <2>1. TypesFit /\ TrackedNow /\ TypesFit' /\ 2 \in DOMAIN Pipeline
    BY PipelineIs DEF Basics, Tracked
  <2>. QED
    BY <2>1, TurnsPass
<1>. SUFFICES ASSUME Busy' PROVE (RowsAhead /\ RowsAreRequired /\ WindowsFit /\ WindowMoves)'
  BY DEF WindowInv
<1>2. UNCHANGED <<grid, lastComputedL, firstRequiredL, product>>
  BY <1>1 DEF contextVars
<1>3. /\ SourceSegments \cup {T} \subseteq DOMAIN grid
      /\ product \in Products
      /\ MaxInMemoryL(T) \in Nat
  <2>1. IsStarted(1) /\ IsStarted(2)
    BY <1>1, PipelineIs DEF IsStarted
  <2>2. SourceSegments \cup {T} \subseteq DOMAIN grid /\ product \in Products
    BY <1>1, <2>1 DEF TrackedNow, Present, HasSegment
  <2>. QED
    BY <1>1, <2>2, Types, WindowType
<1>4. /\ lastComputedL[T] = NoEntries /\ firstRequiredL[T] = NoEntries
      /\ \A s \in SourceSegments : firstRequiredL[s] = NoEntries
      /\ \A s \in SourceSegments \cup {T} : grid[s].minInMemoryL = 0
  BY <1>1, <1>2, <1>3 DEF TrackedNow, Fresh, IsFresh
<1>5. L("COL")' = -1 /\ Asked' = -1 /\ firstRequiredL'["OLC"][Mapper] = -1
  <2>1. "COL" \in Module /\ Mapper \in Module /\ "OLC" \in SourceSegments
    BY ModulesAre, SegmentsAre
  <2>2. NoEntries["COL"] = -1 /\ NoEntries[Mapper] = -1
    BY <2>1 DEF NoEntries, None
  <2>3. /\ lastComputedL'[T] = NoEntries /\ firstRequiredL'[T] = NoEntries
        /\ firstRequiredL'["OLC"] = NoEntries
    BY <1>2, <1>4, <2>1
  <2>. QED
    BY <2>2, <2>3 DEF L, Asked
<1>6. RowsAhead'
  <2>1. \A s \in ColSources : \A l \in Rows(product) : product.sources[s][l] \subseteq Nat
    BY <1>3, ProductIs
  <2>2. \A s \in ColSources : grid'[s].minInMemoryL = 0
    BY <1>2, <1>4, SegmentsAre
  <2>. QED
    BY <1>2, <2>1, <2>2 DEF RowsAhead, Rows
<1>7. RowsAreRequired'
  BY <1>1 DEF RowsAreRequired
<1>8. WindowsFit'
  BY <1>2, <1>4, <1>5, SegmentsAre DEF WindowsFit
<1>9. WindowMoves'
  <2>1. MaxInMemoryL(T)' = MaxInMemoryL(T)
    BY <1>2 DEF MaxInMemoryL
  <2>. QED
    BY <1>3, <1>5, <2>1 DEF WindowMoves, Collocated
<1>. QED
  BY <1>6, <1>7, <1>8, <1>9

\* A turn that registers nothing.
LEMMA IdleWindows ==
  ASSUME TypesFit, WindowInv, phase = "process", ProcessNext, at \notin {2, MapperAt},
         UNCHANGED <<contextVars, product>>
  PROVE  WindowInv'
<1>1. /\ UNCHANGED <<grid, product>> /\ MappedL' = MappedL /\ L("COL")' = L("COL")
      /\ \A s \in Segment : \A m \in Module : firstRequiredL'[s][m] = firstRequiredL[s][m]
  BY DEF contextVars, MappedL, L
<1>. QED
  BY <1>1, WindowsKept

\* The turns of the modules before the mapper that both tasks have, and of the
\* last module.
LEMMA TaskWindows ==
  ASSUME Basics, LongWindows, WindowInv, TaskProcess
  PROVE  WindowInv'
<1>1. TypesFit /\ Tracked /\ RegisteredAreFinal(Syn) /\ at \in DOMAIN Pipeline /\ MapperAt \in {6, 7}
  BY Types DEF Basics
<1>2. CASE ReaderProcess
  <2>1. /\ phase = "process" /\ ProcessNext /\ at = 1 /\ UNCHANGED <<grid, product>>
        /\ \A s \in Segment : firstRequiredL'[s] = firstRequiredL[s]
        /\ lastComputedL'[T] = lastComputedL[T] /\ lastComputedL'[Map] = lastComputedL[Map]
    BY <1>1, <1>2, ReaderTurn DEF ReaderProcess, dataVars, Tracked, Turn
  <2>. QED
    BY <1>1, <2>1, WindowsKept DEF MappedL, L
<1>3. CASE ColProcess
  BY <1>3, LongWindows, ColWindows
<1>4. CASE PclProcess \/ VbmProcess
  <2>1. Map \in Segment \ {T}
    BY SegmentsAre
  <2>. QED
    BY <1>1, <1>4, <2>1, PclVbmStep, WindowsKept DEF MappedL
<1>5. CASE IdleProcess("MANIFEST")
  BY <1>1, <1>5, TurnIs, IdleWindows DEF IdleProcess, Turn, dataVars
<1>. QED
  BY <1>2, <1>3, <1>4, <1>5 DEF TaskProcess

\* The turn of the writer, which registers rows of the map.
LEMMA WriterWindows ==
  ASSUME Basics, WindowInv, NEW segments, segments \subseteq DOMAIN grid \ (SourceSegments \cup {T}),
         NEW content, VgtWriterProcess(segments, content)
  PROVE  WindowInv'
<1>1. /\ TypesFit /\ Tracked /\ Turn("process", "VGT_WRITER")
      /\ Register("VGT_WRITER", [s \in segments |-> grid[s].maxL], << >>)
      /\ UNCHANGED <<product, segmentLineCount>> /\ MapperAt \in {6, 7}
  BY Types DEF Basics, VgtWriterProcess
<1>2. /\ phase = "process" /\ at = MapperAt + 1
      /\ \/ Throw
         \/ /\ ProcessNext /\ UNCHANGED grid
            /\ \A s \in SourceSegments \cup {T} : lastComputedL'[s] = lastComputedL[s]
            /\ MappedL' = MappedL
            /\ \A s \in Segment : firstRequiredL'[s] = firstRequiredL[s]
  BY <1>1, WriterTurn
<1>3. CASE Throw
  BY <1>3 DEF Throw, WindowInv, Busy
<1>4. CASE ~Throw
  BY <1>1, <1>2, <1>4, WindowsKept DEF L
<1>. QED
  BY <1>3, <1>4

\* The turns of the mapper.
LEMMA MapperWindows ==
  ASSUME Basics, LongWindows, WindowInv,
         \/ MapCompletes
         \/ MapWaits
         \/ MayMap /\ RegisterMapped /\ UNCHANGED dataVars
  PROVE  WindowInv'
<1>1. CASE MapCompletes
  <2>1. MappedL' = MaxTargetL /\ MaxTargetL \in Nat
    BY <1>1, LongWindows, MapCompletesStep, MappingAssumption DEF Basics
  <2>. QED
    BY <2>1 DEF WindowInv
<1>. QED
  BY <1>1, LongWindows, WaitingWindows, MappingWindows

\* Starting a module.
LEMMA StartingWindows ==
  ASSUME Basics, Basics', TaskStart \/ (Starting /\ at = MapperAt)
  PROVE  WindowInv'
<1>1. phase = "start" /\ StartNext
  BY DEF TaskStart, ReaderStart, ColStart, WriterStart, IdleStart, Turn, Starting
<1>2. at = MapperAt + 2 => UNCHANGED <<contextVars, product>>
  <2>1. at = MapperAt + 2 => Pipeline[at] = "MANIFEST" /\ MapperAt \in Int
    BY PipelineIs
  <2>. QED
    BY <2>1 DEF TaskStart, ReaderStart, ColStart, WriterStart, IdleStart, Turn, dataVars
<1>. QED
  BY <1>1, <1>2, StartWindows

\* Outside the passes nothing is said of the windows.
LEMMA EndWindows ==
  ASSUME TypesFit, (phase = "stop" /\ StopNext) \/ Throw \/ Exited
  PROVE  WindowInv'
<1>1. ~Busy'
  BY TurnsPass DEF Throw, Exited, controlVars, Busy
<1>. QED
  BY <1>1 DEF WindowInv

\* Nothing happens.
LEMMA WindowsStay ==
  ASSUME WindowInv, UNCHANGED <<contextVars, controlVars, dataVars>>
  PROVE  WindowInv'
<1>1. UNCHANGED <<grid, product, phase, at, lastComputedL, firstRequiredL>>
  BY DEF contextVars, controlVars, dataVars
<1>2. /\ MappedL' = MappedL /\ L("COL")' = L("COL") /\ Asked' = Asked
      /\ \A i \in {2, MapperAt} : TurnOver(i)' <=> TurnOver(i)
      /\ Busy' <=> Busy
  BY <1>1 DEF MappedL, L, Asked, TurnOver, Busy
<1>3. /\ Collocated' <=> Collocated
      /\ Stalled' <=> Stalled
      /\ RowsAhead' <=> RowsAhead
      /\ RowsAreRequired => RowsAreRequired'
      /\ WindowsFit' <=> WindowsFit
  BY <1>1, <1>2, PartsKept
<1>4. WindowMoves => WindowMoves'
  BY <1>1, <1>2, <1>3 DEF WindowMoves
<1>. QED
  BY <1>2, <1>3, <1>4 DEF WindowInv

\* As long as rows of the map are left, every row that is read is in memory.
LEMMA WhatMayThrow ==
  ASSUME Basics, LongWindows, WindowInv,
         NEW rows, \A l \in MapLines : rows[l] \subseteq ComputedRows(l)
  PROVE  ThrowsAtTheEdgesOnly(ColIsFaulty \/ (MayMap /\ MapThrows(rows)))
<1>1. TypesFit /\ Tracked /\ MapInv /\ at \in DOMAIN Pipeline
  BY Types DEF Basics
<1>2. CASE Turn("start", "COL") /\ HasSegment(T)
  <2>1. phase = "start" /\ at = 2 /\ TrackedNow
    BY <1>1, <1>2, TurnIs DEF Turn, Tracked
  <2>2. IsStarted(2)
    BY <1>2, <2>1 DEF TrackedNow, Present
  <2>. QED
    BY <2>1, <2>2 DEF IsStarted, Busy
<1>3. CASE Turn("process", "COL") /\ ColThrows
  <2>1. Busy /\ TrackedNow
    BY <1>1, <1>3 DEF Turn, Busy, Tracked
  <2>2. MappedL \in Int /\ MaxTargetL \in Nat /\ MappedL <= MaxTargetL
    BY <1>1, <2>1, RowsType DEF MapInv
  <2>3. ~(MappedL < MaxTargetL)
    BY <1>3, LongWindows, ColFinds
  <2>4. MappedL = MaxTargetL
    BY <2>2, <2>3
  <2>. QED
    BY <1>3, <2>4 DEF ThrowsAtTheEdgesOnly, MappedL
<1>4. CASE MayMap /\ MapThrows(rows)
  <2>1. Turn("process", Mapper)
    BY <1>4 DEF MayMap
  <2>2. PICK l \in MapLines : \E r \in rows[l] : ~IsInMemory(T, r)
    BY <1>4 DEF MapThrows
  <2>3. PICK r \in product.found[l] : r <= LastSourceL /\ ~IsInMemory(T, r)
    BY <2>2 DEF ComputedRows
  <2>4. /\ TrackedNow /\ Busy /\ FirstTargetL = IF MappedL > 0 THEN MappedL + 1 ELSE 0
        /\ LastSourceL = L("COL") /\ L("COL") \in Nat /\ L("COL") <= MaxInMemoryL(T)
        /\ \A k \in (MappedL + 1)..MaxTargetL : \A q \in product.found[k] : grid[T].minInMemoryL <= q
    BY <1>1, <2>1, MapperSees
  <2>5. /\ MappedL \in Int /\ MappedL >= -1 /\ MaxInMemoryL(T) \in Nat /\ MaxTargetL \in Nat
        /\ \A k \in 0..MaxTargetL : product.found[k] \in SUBSET Nat
    BY <1>1, <2>4, RowsType
  <2>6. l \in 0..MaxTargetL /\ l >= FirstTargetL
    <3>1. MapLines \subseteq 0..MaxTargetL
      BY <1>1, <2>1, LongWindows, MapReach
    <3>. QED
      BY <2>2, <3>1 DEF MapLines
  <2>7. MappedL = 0
    <3>. SUFFICES ASSUME MappedL # 0 PROVE FALSE
      OBVIOUS
    <3>1. l \in (MappedL + 1)..MaxTargetL
      BY <2>4, <2>5, <2>6
    <3>2. grid[T].minInMemoryL <= r /\ r <= MaxInMemoryL(T)
      BY <2>3, <2>4, <2>5, <2>6, <3>1
    <3>. QED
      BY <2>3, <3>2 DEF IsInMemory
  <2>. QED
    BY <2>1, <2>7 DEF ThrowsAtTheEdgesOnly, MappedL
<1>. QED
  BY <1>2, <1>3, <1>4 DEF ThrowsAtTheEdgesOnly, ColIsFaulty
=============================================================================
