----------------------------- MODULE VgtsProofs -----------------------------
(***************************************************************************)
(* The VGT-S task on products that its windows can hold (LongWindows):     *)
(* rows are registered when they are final only, the map in the target     *)
(* files is complete when the modules are stopped, and rows that have left *)
(* memory are asked for at the edges of the map only.                      *)
(***************************************************************************)
EXTENDS Vgts, MappingProofs

\* The pipeline of the task.
LEMMA VgtsPipelineIs ==
  /\ Mapper = "VCO" /\ MapperAt = 7 /\ Pipeline[7] = "VCO"
  /\ Pipeline[5] = "VFL" /\ Pipeline[6] = "VAC"
  /\ "VAC" \in Syn /\ "VAC" \in Module /\ SynAt("VAC") = 6
  /\ Syn = {"COL", "PCL", "VBM", "VAC"}
<1>1. Mapper = "VCO" /\ Len(Pipeline) = 9
  BY VgtsAssumption DEF VgtsPipeline
<1>2. MapperAt = 7
  BY <1>1 DEF MapperAt
<1>. QED
  BY <1>1, <1>2, PipelineIs, ModulesAre

\* What the map and the files hold: all that was found for the rows that are
\* done, in the files as soon as they are written in a pass.
Composition ==
  /\ IsStarted(MapperAt) => Coord \in DOMAIN grid
  /\ Busy => \A l \in 0..MappedL : \A r \in product.found[l] \cap product.inTime :
               <<l, source, r>> \in composed
  /\ Busy /\ TurnOver(MapperAt + 1) => file = composed
  /\ phase = "stop" => Wanted \subseteq composed /\ file = composed

IInv == Basics /\ Composition /\ Flagged((L("VAC") + 1)..L("COL"))

\* Only the flagging is followed by the place at which flags matter.
LEMMA FlagsDoNotMatter ==
  ASSUME TypesFit,
         \/ Starting
         \/ phase = "process" /\ ProcessNext /\ at # 5
         \/ Stopping
         \/ Ending
         \/ MoveSegmentsForward
  PROVE  ~(phase' = "process" /\ at' = 6)
BY Types DEF Starting, StartNext, ProcessNext, Stopping, StopNext, Ending, MoveSegmentsForward

\* The steps that compose nothing.
LEMMA CompositionKept ==
  ASSUME Basics, Basics', Composition, UNCHANGED composed,
         \/ Starting /\ (at = MapperAt => Coord \in DOMAIN grid')
         \/ Passing
         \/ Stopping
         \/ Ending
  PROVE  Composition'
<1>1. TypesFit /\ Tracked /\ Tracked'
  BY DEF Basics
<1>2. MapperAt \in DOMAIN Pipeline /\ (MapperAt + 1) \in DOMAIN Pipeline /\ MapperAt = 7
  BY PipelineIs, VgtsPipelineIs
<1>3. CASE Starting /\ (at = MapperAt => Coord \in DOMAIN grid')
  <2>1. /\ phase' \in {"start", "process"}
        /\ IsStarted(MapperAt)' => IsStarted(MapperAt) \/ at = MapperAt
        /\ ~TurnOver(MapperAt + 1)'
    BY <1>1, <1>2, <1>3, TurnsPass DEF Starting
  <2>2. MappedL' = None
    <3>1. Fresh /\ IsFresh(MapperAt) /\ lastComputedL' = lastComputedL
      BY <1>1, <1>3 DEF Starting, Tracked, TrackedNow, IsFresh
    <3>. QED
      BY <3>1 DEF Fresh, MappedL
  <2>3. 0..MappedL' = {}
    BY <2>2 DEF None
  <2>. QED
    BY <1>3, <2>1, <2>3 DEF Composition, Starting
<1>4. CASE Passing
  <2>1. /\ Busy /\ Busy' /\ IsStarted(MapperAt) /\ phase' # "stop"
        /\ TurnOver(MapperAt + 1)' => TurnOver(MapperAt + 1)
    BY <1>1, <1>2, <1>4, TurnsPass DEF Passing, Busy
  <2>2. UNCHANGED <<grid, product, source, file>> /\ MappedL' = MappedL
    BY <1>4 DEF Passing
  <2>. QED
    BY <2>1, <2>2 DEF Composition
<1>5. CASE Stopping
  <2>1. /\ phase = "stop" /\ ~Busy' /\ (IsStarted(MapperAt)' => IsStarted(MapperAt))
        /\ phase' = "stop" => source' = source
    BY <1>1, <1>2, <1>5, TurnsPass DEF Stopping, StopNext
  <2>2. Coord \in DOMAIN grid => Coord \in DOMAIN grid'
    BY <1>5, SegmentsAre DEF Stopping
  <2>3. UNCHANGED <<product, file>>
    BY <1>5 DEF Stopping
  <2>4. phase' = "stop" => Wanted' = Wanted
    BY <2>1, <2>3 DEF Wanted, Found
  <2>. QED
    BY <2>1, <2>2, <2>3, <2>4 DEF Composition
<1>6. CASE Ending
  <2>1. ~Busy' /\ phase' # "stop" /\ ~IsStarted(MapperAt)'
    BY <1>6 DEF Ending, Busy, IsStarted
  <2>. QED
    BY <2>1 DEF Composition
<1>. QED
  BY <1>3, <1>4, <1>5, <1>6

\* The end of a pass: the map is composed and written if it is done.
LEMMA CompositionMoves ==
  ASSUME Basics, Composition, MoveSegmentsForward, UNCHANGED dataVars, UNCHANGED composed
  PROVE  Basics' /\ Composition'
<1>1. /\ Basics' /\ phase = "move"
      /\ MappedL' = MappedL /\ UNCHANGED <<product, source, file>>
      /\ DOMAIN grid' = DOMAIN grid
      /\ \A i \in DOMAIN Pipeline : TurnOver(i) /\ ~TurnOver(i)'
      /\ \/ phase' = "stop" /\ MappedL = MaxTargetL
         \/ phase' = "process"
  BY TaskMoveStep
<1>2. MapperAt + 1 \in DOMAIN Pipeline
  BY PipelineIs
<1>3. Busy /\ IsStarted(MapperAt) /\ TurnOver(MapperAt + 1) /\ ~TurnOver(MapperAt + 1)'
  BY <1>1, <1>2 DEF Busy, IsStarted
<1>4. file = composed /\ Coord \in DOMAIN grid
      /\ \A l \in 0..MappedL : \A r \in product.found[l] \cap product.inTime :
           <<l, source, r>> \in composed
  BY <1>3 DEF Composition
<1>5. phase' = "stop" => Wanted' \subseteq composed'
  <2>. SUFFICES ASSUME phase' = "stop", NEW c \in Wanted' PROVE c \in composed
    OBVIOUS
  <2>1. MappedL = MaxTargetL
    BY <1>1
  <2>2. c \in Found(product) /\ c[3] \in product.inTime
    BY <1>1 DEF Wanted, Found
  <2>3. PICK l \in 0..MaxTargetL : \E r \in product.found[l] : c = <<l, source, r>>
    BY <2>2 DEF Found
  <2>4. PICK r \in product.found[l] : c = <<l, source, r>>
    BY <2>3
  <2>5. c[3] = r
    BY <2>4
  <2>. QED
    BY <1>4, <2>1, <2>2, <2>4, <2>5
<1>. QED
  BY <1>1, <1>3, <1>4, <1>5 DEF Composition

-----------------------------------------------------------------------------
(* The steps of the mapper and the writer. *)

\* The map and its coordinates are added unless they are there.
LEMMA VcoStartStep ==
  ASSUME Basics, VcoStart
  PROVE  Basics' /\ Starting /\ Coord \in DOMAIN grid'
<1>1. /\ TypesFit /\ Tracked /\ ContextTypeOK /\ phase = "start" /\ StartNext
      /\ AddSegments([s \in {Map, Coord} \ DOMAIN grid |-> NewMap(s)])
      /\ UNCHANGED <<lastComputedL, firstRequiredL, segmentLineCount, product, final, file>>
      /\ at = MapperAt
  BY Types, TurnIs, VgtsPipelineIs DEF Basics, VcoStart, Turn, dataVars
<1> DEFINE new == [s \in {Map, Coord} \ DOMAIN grid |-> NewMap(s)]
<1>2. /\ DOMAIN new = {Map, Coord} \ DOMAIN grid /\ AddSegments(new)
      /\ \A s \in DOMAIN new : new[s] = NewMap(s)
  BY <1>1
<1>3. \A s \in {Map, Coord} : NewMap(s) \in Grid
  BY MappingAssumption DEF NewMap, NewGrid, Grid
<1> HIDE DEF new
<1>4. /\ ContextTypeOK'
      /\ DOMAIN grid' = DOMAIN grid \cup {Map, Coord}
      /\ \A s \in DOMAIN grid : grid'[s] = grid[s]
      /\ Map \in DOMAIN grid \/ grid'[Map] = NewMap(Map)
  <2>1. DOMAIN new \subseteq Segment /\ DOMAIN new \cap DOMAIN grid = {}
    BY <1>2, SegmentsAre
  <2>2. \A s \in DOMAIN new : new[s] \in Grid
    BY <1>2, <1>3
  <2>3. /\ ContextTypeOK'
        /\ DOMAIN grid' = DOMAIN grid \cup DOMAIN new
        /\ \A s \in DOMAIN grid : grid'[s] = grid[s]
        /\ \A s \in DOMAIN new : grid'[s] = new[s]
    BY <1>1, <1>2, <2>1, <2>2, Added
  <2>. QED
    BY <1>2, <2>3
<1>5. at \notin {1, 2} /\ MapperAt \notin {1, 2}
  BY <1>1, VgtsPipelineIs
<1>6. TrackedNow'
  <2>1. \A s \in SourceSegments \cup {T} : s \in DOMAIN grid' => s \in DOMAIN grid
    BY <1>4, SegmentsAre
  <2>. QED
    BY <1>1, <1>4, <1>5, <2>1, OtherStartStep
<1>7. Basics'
  BY <1>1, <1>4, <1>6, StartingKeeps
<1>. QED
  BY <1>1, <1>4, <1>7 DEF Starting

\* The map stays, its progress does not.
LEMMA VcoStopStep ==
  ASSUME Basics, VcoStop
  PROVE  Basics' /\ Stopping
<1>1. /\ TypesFit /\ Tracked /\ RegisteredAreFinal(Syn) /\ ContextTypeOK
      /\ final \in [Module -> SUBSET Nat]
      /\ phase = "stop" /\ StopNext
      /\ lastComputedL' = [lastComputedL EXCEPT ![Map]["VCO"] = None]
      /\ UNCHANGED <<grid, firstRequiredL, segmentLineCount, product, final, file>>
      /\ at = MapperAt
  BY Types, TurnIs, VgtsPipelineIs DEF Basics, VcoStop, Turn, dataVars, TypesFit
<1>2. TrackedNow
  BY <1>1 DEF Tracked
<1>3. ContextTypeOK'
  BY <1>1 DEF ContextTypeOK, Entry
<1>4. /\ \A s \in Segment \ {Map} : lastComputedL'[s] = lastComputedL[s]
      /\ MappedL' = None
      /\ \A m \in Module \ {Mapper} : lastComputedL'[Map][m] = lastComputedL[Map][m]
  BY <1>1, SegmentsAre, VgtsPipelineIs, ModulesAre DEF MappedL, ContextTypeOK
<1>5. at \notin {1, 2} /\ T \in Segment \ {Map} /\ SourceSegments \subseteq Segment \ {Map}
  BY <1>1, VgtsPipelineIs, SegmentsAre
<1>6. TrackedNow'
  <2>1. \A m \in Module \ {Mapper, "VGT_WRITER"} : lastComputedL'[Map][m] = None
    BY <1>2, <1>4 DEF TrackedNow, OwnEntries
  <2>. QED
    BY <1>1, <1>3, <1>4, <1>5, <2>1, StopStep
<1>7. RegisteredAreFinal(Syn)'
  BY <1>1, <1>4, <1>5, FinalStays DEF HasSegment
<1>8. Basics'
  BY <1>1, <1>3, <1>6, <1>7, StoppingKeeps
<1>. QED
  BY <1>1, <1>8 DEF Stopping

\* The flags of the rows that the atmospheric correction takes next are those
\* of final reflectances, since it has not corrected them.
LEMMA VflStep ==
  ASSUME Basics, VflProcess
  PROVE  Basics' /\ Passing /\ Flagged((L("VAC") + 1)..L("COL"))'
<1>1. FlagAgain(final["VBM"] \ CorrectedRows) /\ TypesFit /\ Tracked /\ RegisteredAreFinal(Syn)
  BY DEF VflProcess, Basics
<1> DEFINE good == final["VBM"] \ CorrectedRows
<1>2. good \subseteq Nat
  BY <1>1, ModulesAre DEF TypesFit
<1>3. FlagAgain(good)
  BY <1>1
<1>4. /\ Basics' /\ Passing /\ at = 5
      /\ (grid[T].minInMemoryL..L("COL")) \cap good \subseteq final'["VFL"]
      /\ \A m \in Syn : L(m)' = L(m)
  BY <1>2, <1>3, FlagKeeps, ZenonT(60)
<1>5. TrackedNow /\ phase = "process" /\ Busy
  BY <1>1, <1>4 DEF Passing, Tracked, Busy
<1>6. /\ L("VBM") = L("COL") /\ L("COL") \in Nat /\ L("VAC") \in Int /\ L("VAC") >= -1
      /\ grid[T].minInMemoryL <= L("VAC") + 1 /\ grid[T].minInMemoryL \in Nat
      /\ T \in DOMAIN grid
  <2>1. at \in 3..MapperAt /\ SynAt("VBM") = 4 /\ "VBM" \in Syn /\ "VAC" \in Syn
    BY <1>4, VgtsPipelineIs, ModulesAre
  <2>2. Pace
    BY <1>5 DEF TrackedNow, Progress
  <2>. QED
    BY <1>1, <1>4, <1>5, <2>1, <2>2, Reach, RowsType DEF Pace
<1>7. 0..L("COL") \subseteq final["VBM"]
  BY <1>1, <1>6, ModulesAre DEF RegisteredAreFinal, HasSegment, L
<1>8. (L("VAC") + 1)..L("COL") \subseteq final'["VFL"]
  <2>. SUFFICES ASSUME NEW r \in (L("VAC") + 1)..L("COL") PROVE r \in final'["VFL"]
    OBVIOUS
  <2>1. r \in 0..L("COL") /\ r \in grid[T].minInMemoryL..L("COL")
    BY <1>6
  <2>2. r \notin CorrectedRows
    BY <1>6 DEF CorrectedRows, L
  <2>. QED
    BY <1>4, <1>7, <2>1, <2>2
<1>9. L("VAC")' = L("VAC") /\ L("COL")' = L("COL")
  BY <1>4, ModulesAre, VgtsPipelineIs
<1>. QED
  BY <1>4, <1>8, <1>9 DEF Flagged

\* The atmospheric correction takes flagged rows.
LEMMA VacStep ==
  ASSUME Basics, Flagged((L("VAC") + 1)..L("COL")), VacProcess
  PROVE  Basics' /\ Passing /\ at # 5
<1>1. /\ TypesFit /\ Tracked /\ RegisteredAreFinal(Syn) /\ "VAC" \in Syn \ {"COL"}
      /\ Turn("process", "VAC")
      /\ Register("VAC", [s \in {T} |-> GetLastComputableL(T, "VAC")], << >>)
      /\ UNCHANGED <<product, segmentLineCount, file>>
      /\ Compute("VAC", ComputableLines("VAC"), final["VFL"])
  BY VgtsPipelineIs DEF Basics, VacProcess
<1>2. phase = "process" /\ at = 6
  BY <1>1, Types, TurnIs, VgtsPipelineIs DEF Turn
<1>3. final["VFL"] \subseteq Nat /\ (L("VAC") + 1)..L("COL") \subseteq final["VFL"]
  BY <1>1, <1>2, ModulesAre DEF Flagged, TypesFit
<1>4. /\ TrackedNow /\ phase = "process" /\ at = SynAt("VAC")
      /\ TrackedNow' /\ ContextTypeOK' /\ ProcessNext /\ UNCHANGED grid
      /\ RegisteredAreFinal(Syn)' /\ final' \in [Module -> SUBSET Nat]
      /\ \A p \in Syn : L(p)' \in Int /\ L(p)' >= L(p)
      /\ L("COL")' = L("COL")
      /\ \A s \in Segment \ {T} : lastComputedL'[s] = lastComputedL[s]
      /\ \A s \in Segment : \A p \in Module : firstRequiredL'[s][p] = firstRequiredL[s][p]
  <2>1. UNCHANGED <<product, segmentLineCount>>
    BY <1>1
  <2>. QED
    BY <1>1, <1>3, <2>1, FollowStep, ZenonT(60)
<1>5. MappedL' = MappedL /\ Asked' = Asked /\ UNCHANGED source
  BY <1>4, SegmentsAre, ModulesAre DEF MappedL, Asked, ProcessNext
<1>6. at \notin {2, MapperAt, MapperAt + 1}
  BY <1>2, VgtsPipelineIs
<1>7. Basics'
  BY <1>1, <1>2, <1>4, <1>5, <1>6, PassingKeeps
<1>. QED
  BY <1>1, <1>2, <1>4, <1>5, <1>6, <1>7 DEF Passing

\* What is composed of the rows that become done, from corrected rows.
LEMMA VcoStep ==
  ASSUME Basics, LongWindows, Composition,
         \/ (MapCompletes \/ MapWaits) /\ UNCHANGED composed
         \/ VcoComposes
  PROVE  Basics' /\ Composition' /\ phase = "process" /\ at = MapperAt /\ ProcessNext
<1>1. /\ Basics' /\ phase = "process" /\ at = MapperAt /\ ProcessNext /\ Busy
      /\ UNCHANGED <<grid, product, source, file, final>>
      /\ MapCompletes =>
           /\ MappedL' = MaxTargetL
           /\ \A l \in (MappedL + 1)..MaxTargetL : product.found[l] = {}
      /\ MapWaits => MappedL' = MappedL
      /\ RegisterMapped => MappedL' = MappedLastL
  <2>1. \/ MapCompletes
        \/ MapWaits
        \/ Turn("process", Mapper) /\ RegisterMapped /\ UNCHANGED dataVars
    BY DEF VcoComposes, MayMap
  <2>. QED
    BY <2>1, MapperKeeps
<1>2. /\ TypesFit /\ Tracked /\ RegisteredAreFinal(Syn) /\ MapInv /\ TrackedNow
      /\ Turn("process", Mapper) /\ MapperAt = 7
  BY <1>1, VgtsPipelineIs DEF Basics, Tracked, Turn
<1>3. /\ Busy' /\ IsStarted(MapperAt) /\ IsStarted(MapperAt)' /\ phase' # "stop"
      /\ ~TurnOver(MapperAt + 1)'
  <2>1. MapperAt \in DOMAIN Pipeline /\ MapperAt + 1 \in DOMAIN Pipeline
    BY PipelineIs
  <2>2. ~TurnOver(MapperAt + 1)
    BY <1>1, <1>2 DEF TurnOver
  <2>. QED
    BY <1>1, <1>2, <2>1, <2>2, TurnsPass DEF Busy
<1>4. composed \subseteq composed'
  BY DEF VcoComposes
<1>5. \A l \in 0..MappedL' : \A r \in product.found[l] \cap product.inTime :
        <<l, source, r>> \in composed'
  <2>. SUFFICES ASSUME NEW l \in 0..MappedL', NEW r \in product.found[l] \cap product.inTime
                PROVE  <<l, source, r>> \in composed'
    OBVIOUS
  <2>0. MappedL \in Int /\ MappedL >= -1 /\ MaxTargetL \in Nat
    BY <1>1, <1>2, RowsType
  <2>1. CASE l <= MappedL
    BY <1>1, <1>4, <2>0, <2>1 DEF Composition
  <2>2. CASE ~(l <= MappedL) /\ MapCompletes
    BY <1>1, <2>0, <2>2
  <2>3. CASE ~(l <= MappedL) /\ MapWaits
    BY <1>1, <2>0, <2>3
  <2>4. CASE ~(l <= MappedL) /\ VcoComposes
    <3>1. MappedL' = MappedLastL
      BY <1>1, <2>4 DEF VcoComposes
    <3>2. /\ MappedLastL \in Int /\ MapLines \subseteq 0..MaxTargetL
          /\ (MappedL + 1)..MappedLastL \subseteq MapLines
          /\ \A k \in 0..MappedLastL : \A q \in product.found[k] : q <= L("COL")
      BY <1>2, LongWindows, MapReach
    <3>3. l \in MapLines /\ r <= L("COL") /\ r \in product.found[l] /\ r \in product.inTime
      BY <2>0, <2>4, <3>1, <3>2
    <3>4. LastSourceL = L("COL") /\ L("VAC") = L("COL")
      BY <1>1, <1>2, Reach, VgtsPipelineIs, PipelineIs DEF LastSourceL
    <3>5. r \in ComparedRows(l)
      BY <3>3, <3>4 DEF ComparedRows, ComputedRows
    <3>6. r \in final["VAC"]
      <4>1. T \in DOMAIN grid /\ r \in Nat /\ L("COL") \in Int
        <5>1. l \in 0..MaxTargetL
          BY <3>2, <3>3
        <5>. QED
          BY <1>1, <1>2, <3>3, <5>1, RowsType
      <4>2. 0..L("VAC") \subseteq final["VAC"]
        BY <1>2, <4>1, VgtsPipelineIs DEF RegisteredAreFinal, HasSegment, L
      <4>. QED
        BY <3>3, <3>4, <4>1, <4>2
    <3>7. <<l, source, r>>[3] = r
      OBVIOUS
    <3>8. <<l, source, r>> \in UNION {{<<k, source, q>> : q \in ComparedRows(k)} : k \in MapLines}
      BY <3>3, <3>5
    <3>. QED
      BY <2>4, <3>6, <3>7, <3>8 DEF VcoComposes
  <2>. QED
    BY <2>1, <2>2, <2>3, <2>4
<1>. QED
  BY <1>1, <1>3, <1>5 DEF Composition

\* The files receive the map as it is, the map and its coordinates being there.
LEMMA WriterStep ==
  ASSUME Basics, Composition, VgtWriterProcess({Map, Coord}, composed)
  PROVE  /\ Basics' /\ Composition' /\ phase = "process" /\ at = MapperAt + 1
         /\ phase' = "failed" \/ ProcessNext
<1>1. /\ TypesFit /\ Tracked /\ phase = "process" /\ Pipeline[at] = "VGT_WRITER"
      /\ UNCHANGED composed /\ MapperAt + 1 \in DOMAIN Pipeline
  BY PipelineIs DEF Basics, VgtWriterProcess, Turn
<1>2. Busy /\ TrackedNow /\ IsStarted(MapperAt)
  BY <1>1 DEF Busy, IsStarted, Tracked
<1> DEFINE segments == {Map, Coord}
<1>3. segments \subseteq DOMAIN grid \ (SourceSegments \cup {T})
  BY <1>1, <1>2, InAPass, SegmentsAre DEF Composition
<1>4. VgtWriterProcess(segments, composed)
  OBVIOUS
<1> HIDE DEF segments
<1>5. /\ Basics' /\ phase = "process" /\ at = MapperAt + 1 /\ file' = composed
      /\ UNCHANGED <<product, source, grid>>
      /\ \/ phase' = "failed"
         \/ ProcessNext /\ MappedL' = MappedL
  BY <1>3, <1>4, WriterKeeps, ZenonT(60)
<1>6. CASE phase' = "failed"
  <2>1. ~Busy' /\ phase' # "stop" /\ ~IsStarted(MapperAt)'
    BY <1>6 DEF Busy, IsStarted
  <2>. QED
    BY <1>5, <1>6, <2>1 DEF Composition
<1>7. CASE ProcessNext /\ MappedL' = MappedL
  <2>1. Busy' /\ phase' # "stop"
    BY <1>1, <1>7, TurnsPass DEF Busy
  <2>. QED
    BY <1>1, <1>2, <1>5, <1>7, <2>1 DEF Composition
<1>. QED
  BY <1>5, <1>6, <1>7

-----------------------------------------------------------------------------
\* The invariant is inductive, if the windows hold what the products need.
THEOREM VgtsInductive ==
  ASSUME LongWindows
  PROVE  Spec => []IInv
<1>1. Init => IInv
  <2>. SUFFICES ASSUME Init PROVE IInv
    OBVIOUS
  <2>1. Basics /\ phase = "start" /\ at = 1
    BY TaskInitBasics DEF Init, TaskInit, ProcessorInit
  <2>2. ~Busy /\ ~IsStarted(MapperAt)
    BY <2>1, VgtsPipelineIs DEF Busy, IsStarted
  <2>. QED
    BY <2>1, <2>2 DEF IInv, Composition, Flagged
<1>2. IInv /\ [Next]_vars => IInv'
  <2>. SUFFICES ASSUME IInv, [Next]_vars PROVE IInv'
    OBVIOUS
  <2>0. Basics /\ Composition /\ Flagged((L("VAC") + 1)..L("COL")) /\ TypesFit
        /\ MapperAt = 7
    BY VgtsPipelineIs DEF IInv, Basics
  <2>1. CASE TaskStart /\ UNCHANGED composed
    <3>1. Basics' /\ Starting /\ at # MapperAt
      BY <2>0, <2>1, TaskStartStep
    <3>. QED
      BY <2>0, <2>1, <3>1, CompositionKept, FlagsDoNotMatter DEF IInv, Flagged
  <2>2. CASE TaskProcess /\ UNCHANGED composed
    <3>1. Basics' /\ Passing
      BY <2>0, <2>2, TaskProcessStep
    <3>2. phase = "process" /\ ProcessNext /\ at # 5
      <4>1. at \in DOMAIN Pipeline
        BY <2>0, Types
      <4>2. Pipeline[at] # "VFL"
        BY <2>2 DEF TaskProcess, ReaderProcess, ColProcess, PclProcess, VbmProcess, IdleProcess, Turn
      <4>. QED
        BY <3>1, <4>1, <4>2, TurnIs DEF Passing
    <3>. QED
      BY <2>0, <2>2, <3>1, <3>2, CompositionKept, FlagsDoNotMatter DEF IInv, Flagged
  <2>3. CASE MoveSegmentsForward /\ UNCHANGED dataVars /\ UNCHANGED composed
    BY <2>0, <2>3, CompositionMoves, FlagsDoNotMatter DEF IInv, Flagged
  <2>4. CASE TaskStop /\ UNCHANGED composed
    <3>1. Basics' /\ Stopping
      BY <2>0, <2>4, TaskStopStep
    <3>. QED
      BY <2>0, <2>4, <3>1, CompositionKept, FlagsDoNotMatter DEF IInv, Flagged
  <2>5. CASE (IOError \/ (Exited /\ UNCHANGED dataVars) \/ RuntimeError) /\ UNCHANGED composed
    <3>1. UNCHANGED <<contextVars, product, segmentLineCount, final>> /\ (Throw \/ Exited)
      BY <2>5 DEF IOError, RuntimeError, Throw, Exited, dataVars
    <3>2. Basics' /\ Ending
      BY <2>0, <3>1, EndingKeeps
    <3>. QED
      BY <2>0, <2>5, <3>2, CompositionKept, FlagsDoNotMatter DEF IInv, Flagged
  <2>6. CASE VcoStart
    <3>1. Basics' /\ Starting /\ Coord \in DOMAIN grid' /\ UNCHANGED composed
      BY <2>0, <2>6, VcoStartStep DEF VcoStart
    <3>. QED
      BY <2>0, <3>1, CompositionKept, FlagsDoNotMatter DEF IInv, Flagged
  <2>7. CASE VflProcess
    <3>1. Basics' /\ Passing /\ Flagged((L("VAC") + 1)..L("COL"))' /\ UNCHANGED composed
      BY <2>0, <2>7, VflStep DEF VflProcess, FlagAgain
    <3>. QED
      BY <2>0, <3>1, CompositionKept DEF IInv
  <2>8. CASE VacProcess
    <3>1. Basics' /\ Passing /\ at # 5 /\ UNCHANGED composed
      BY <2>0, <2>8, VacStep DEF VacProcess
    <3>. QED
      BY <2>0, <3>1, CompositionKept, FlagsDoNotMatter DEF IInv, Flagged, Passing
  <2>9. CASE MapCompletes \/ MapWaits \/ VcoComposes
    <3>1. Basics' /\ Composition' /\ phase = "process" /\ at = MapperAt /\ ProcessNext
      BY <2>0, <2>9, VcoStep DEF MapCompletes, MapWaits
    <3>. QED
      BY <2>0, <3>1, FlagsDoNotMatter DEF IInv, Flagged
  <2>10. CASE VgtWriterProcess({Map, Coord}, composed)
    <3>1. /\ Basics' /\ Composition' /\ phase = "process" /\ at = MapperAt + 1
          /\ phase' = "failed" \/ ProcessNext
      BY <2>0, <2>10, WriterStep
    <3>. QED
      BY <2>0, <3>1, FlagsDoNotMatter DEF IInv, Flagged
  <2>11. CASE VcoStop
    <3>1. Basics' /\ Stopping /\ UNCHANGED composed
      BY <2>0, <2>11, VcoStopStep DEF VcoStop
    <3>. QED
      BY <2>0, <3>1, CompositionKept, FlagsDoNotMatter DEF IInv, Flagged
  <2>12. CASE UNCHANGED vars
    <3>1. /\ UNCHANGED <<contextVars, controlVars, dataVars>> /\ UNCHANGED composed
          /\ UNCHANGED <<grid, lastComputedL, phase, at, source, product, final, file>>
      BY <2>12 DEF vars, contextVars, controlVars, dataVars
    <3>2. Basics'
      BY <2>0, <3>1, BasicsStay
    <3>3. Composition'
      BY <2>0, <3>1 DEF Composition, IsStarted, Busy, MappedL, TurnOver, Wanted, Found
    <3>4. Flagged((L("VAC") + 1)..L("COL"))'
      BY <2>0, <3>1 DEF Flagged, L
    <3>. QED
      BY <3>2, <3>3, <3>4 DEF IInv
  <2>. QED
    BY <2>1, <2>2, <2>3, <2>4, <2>5, <2>6, <2>7, <2>8, <2>9, <2>10, <2>11, <2>12
       DEF Next, Common, TaskStart, TaskProcess, TaskStop, VbmProcess, RuntimeError
<1>. QED
  BY <1>1, <1>2, PTL DEF Spec

\* What the modules register has been computed from final rows
\* (modules/Col, Pcl, Vbm, Vac with Context::getLastComputableL), as long as
\* the windows hold what the products need.
THEOREM VgtsRegistersFinalRows ==
  ASSUME LongWindows
  PROVE  Spec => []RegisteredRowsAreFinal
<1>1. IInv => RegisteredRowsAreFinal
  BY VgtsPipelineIs DEF IInv, Basics, RegisteredRowsAreFinal
<1>2. Spec => []IInv
  BY LongWindows, VgtsInductive
<1>. QED
  BY <1>1, <1>2, PTL

\* However many windows a source product takes, and however many products
\* there are, the files hold a complete composite at the end of each
\* (modules/Vco.cpp, modules/VgtWriter.cpp), as long as the windows hold what
\* the products need.
THEOREM VgtsComposesAll ==
  ASSUME LongWindows
  PROVE  Spec => []CompositeIsComplete
<1>1. IInv => CompositeIsComplete
  BY DEF IInv, Composition, CompositeIsComplete
<1>2. Spec => []IInv
  BY LongWindows, VgtsInductive
<1>. QED
  BY <1>1, <1>2, PTL

-----------------------------------------------------------------------------
(* No row is read that has left memory. *)

\* The correction for the atmosphere registers rows of the SYN grid.
LEMMA VacWindows ==
  ASSUME IInv, WindowInv, VacProcess
  PROVE  WindowInv'
<1>1. /\ TypesFit /\ Tracked /\ RegisteredAreFinal(Syn) /\ MapperAt = 7
      /\ Flagged((L("VAC") + 1)..L("COL"))
  BY VgtsPipelineIs DEF IInv, Basics
<1>2. /\ "VAC" \in Syn \ {"COL"} /\ SynAt("VAC") = 6 /\ Turn("process", "VAC")
      /\ Register("VAC", [s \in {T} |-> GetLastComputableL(T, "VAC")], << >>)
      /\ UNCHANGED <<product, segmentLineCount>>
      /\ Compute("VAC", ComputableLines("VAC"), final["VFL"])
  BY VgtsPipelineIs DEF VacProcess
<1>3. final["VFL"] \subseteq Nat /\ (L("VAC") + 1)..L("COL") \subseteq final["VFL"]
  <2>1. phase = "process" /\ at = 6
    BY <1>1, <1>2, Types, TurnIs DEF Turn
  <2>. QED
    BY <1>1, <2>1, ModulesAre DEF Flagged, TypesFit
<1>4. /\ phase = "process" /\ at = SynAt("VAC") /\ ProcessNext /\ UNCHANGED grid
      /\ L("COL")' = L("COL")
      /\ \A s \in Segment \ {T} : lastComputedL'[s] = lastComputedL[s]
      /\ \A s \in Segment : \A p \in Module : firstRequiredL'[s][p] = firstRequiredL[s][p]
  BY <1>1, <1>2, <1>3, FollowStep, ZenonT(60)
<1>5. MappedL' = MappedL
  BY <1>4, SegmentsAre DEF MappedL
<1>. QED
  BY <1>1, <1>2, <1>4, <1>5, WindowsKept

\* Every step keeps the windows where they are needed.
LEMMA StepWindows ==
  ASSUME IInv, IInv', WindowInv, LongWindows, [Next]_vars
  PROVE  WindowInv'
<1>1. Basics /\ Basics' /\ TypesFit /\ Composition /\ at \in DOMAIN Pipeline /\ MapperAt = 7
  BY Types, VgtsPipelineIs DEF IInv, Basics
<1>2. CASE TaskStart
  BY <1>1, <1>2, StartingWindows
<1>3. CASE VcoStart
  <2>1. Starting /\ at = MapperAt
    BY <1>1, <1>3, VcoStartStep, TurnIs, VgtsPipelineIs DEF VcoStart, Turn
  <2>. QED
    BY <1>1, <2>1, StartingWindows
<1>4. CASE TaskProcess
  BY <1>1, <1>4, LongWindows, TaskWindows
<1>5. CASE VflProcess
  BY <1>1, <1>5, TurnIs, IdleWindows DEF VflProcess, FlagAgain, Turn
<1>6. CASE VacProcess
  BY <1>6, VacWindows
<1>7. CASE MapCompletes \/ MapWaits \/ VcoComposes
  BY <1>1, <1>7, LongWindows, MapperWindows DEF VcoComposes
<1>8. CASE VgtWriterProcess({Map, Coord}, composed)
  <2>1. phase = "process" /\ Busy /\ IsStarted(MapperAt) /\ TrackedNow
    BY <1>1, <1>8 DEF VgtWriterProcess, Turn, Busy, IsStarted, Basics, Tracked
  <2> DEFINE segments == {Map, Coord}
  <2>2. /\ segments \subseteq DOMAIN grid \ (SourceSegments \cup {T})
        /\ VgtWriterProcess(segments, composed)
    BY <1>1, <1>8, <2>1, InAPass, SegmentsAre DEF Composition
  <2> HIDE DEF segments
  <2>. QED
    BY <1>1, <2>2, WriterWindows, ZenonT(60)
<1>9. CASE MoveSegmentsForward /\ UNCHANGED dataVars
  BY <1>1, <1>9, LongWindows, MoveWindows
<1>10. CASE TaskStop \/ VcoStop
  <2>1. phase = "stop" /\ StopNext
    BY <1>10 DEF TaskStop, VcoStop, ReaderStop, ColStop, WriterStop, ManifestStop, IdleStop, Turn
  <2>. QED
    BY <1>1, <2>1, EndWindows
<1>11. CASE IOError \/ RuntimeError \/ Exited
  BY <1>1, <1>11, EndWindows DEF IOError, RuntimeError
<1>12. CASE UNCHANGED vars
  <2>1. UNCHANGED <<contextVars, controlVars, dataVars>>
    BY <1>12 DEF vars
  <2>. QED
    BY <2>1, WindowsStay
<1>. QED
  BY <1>2, <1>3, <1>4, <1>5, <1>6, <1>7, <1>8, <1>9, <1>10, <1>11, <1>12
     DEF Next, Common, TaskStart, TaskProcess, TaskStop

\* A row that has left memory is read at the edges of the map only: when row 0
\* of the map is begun a second time (modules/Vco.cpp), and by the collocation
\* (modules/Col.cpp) when the map is done before the source product, as long as
\* the windows hold what the products need.
THEOREM VgtsThrowsAtTheEdges ==
  ASSUME LongWindows
  PROVE  Spec => []OnlyTheEdgesThrow
<1>1. Init => WindowInv
  BY DEF Init, TaskInit, ProcessorInit, WindowInv, Busy
<1>2. IInv /\ IInv' /\ WindowInv /\ [Next]_vars => WindowInv'
  BY LongWindows, StepWindows
<1>3. IInv /\ WindowInv => OnlyTheEdgesThrow
  <2>. SUFFICES ASSUME IInv, WindowInv PROVE OnlyTheEdgesThrow
    OBVIOUS
  <2> DEFINE rows == [l \in MapLines |-> ComparedRows(l)]
  <2>1. \A l \in MapLines : rows[l] \subseteq ComputedRows(l)
    BY DEF ComparedRows
  <2>2. OnlyTheEdgesThrow <=> ThrowsAtTheEdgesOnly(ColIsFaulty \/ (MayMap /\ MapThrows(rows)))
    BY DEF OnlyTheEdgesThrow, IsFaulty
  <2> HIDE DEF rows
  <2>3. Basics
    BY DEF IInv
  <2>. QED
    BY LongWindows, <2>1, <2>2, <2>3, WhatMayThrow
<1>4. Spec => []IInv
  BY LongWindows, VgtsInductive
<1>. QED
  BY <1>1, <1>2, <1>3, <1>4, PTL DEF Spec
=============================================================================
