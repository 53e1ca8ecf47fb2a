----------------------------- MODULE VgtpProofs -----------------------------
(***************************************************************************)
(* The VGT-P task on products that its windows can hold (LongWindows): the *)
(* target files are complete when the modules are stopped, a second source *)
(* product never replaces them, and rows that have left memory are asked   *)
(* for at the edges of the map only.                                       *)
(***************************************************************************)
EXTENDS Vgtp, MappingProofs

\* The pipeline of the task.
LEMMA VgtpPipelineIs ==
  /\ Mapper = "VPR" /\ MapperAt = 6 /\ Pipeline[6] = "VPR" /\ Pipeline[5] = "VFL"
  /\ TargetSegments \subseteq Segment
  /\ TargetSegments \cap (SourceSegments \cup {T}) = {}
  /\ Map \in TargetSegments /\ Coord \in TargetSegments /\ Map # Coord
<1>1. Mapper = "VPR" /\ Len(Pipeline) = 8 /\ TargetSegments \subseteq Segment
  BY VgtpAssumption DEF VgtpPipeline
<1>2. MapperAt = 6
  BY <1>1 DEF MapperAt
<1>3. TargetSegments \cap (SourceSegments \cup {T}) = {} /\ Map # Coord
  BY DEF TargetSegments, SourceSegments, T, Map, Coord, MapTp, CoordTp
<1>. QED
  BY <1>1, <1>2, <1>3, PipelineIs DEF TargetSegments

\* Row j of the map of tie points is row Subsampling * j of the map.
LEMMA TiePointRow ==
  ASSUME NEW j \in 0..(MaxTargetL \div Subsampling)
  PROVE  /\ j \in Nat
         /\ Subsampling * j \in 0..MaxTargetL
         /\ (Subsampling * j) % Subsampling = 0
         /\ (Subsampling * j) \div Subsampling = j
<1>1. Subsampling \in Nat \ {0} /\ MaxTargetL \in Nat
  BY SubsamplingAssumption, MappingAssumption
<1>2. PICK q \in Int : q = MaxTargetL \div Subsampling
  BY <1>1
<1>3. Subsampling * q <= MaxTargetL /\ q >= 0
  BY <1>1, <1>2
<1>4. j \in Nat /\ j <= q
  BY <1>2, <1>3
<1>5. Subsampling * j <= Subsampling * q /\ Subsampling * j >= 0 /\ Subsampling * j \in Int
  BY <1>1, <1>2, <1>4
<1>6. (Subsampling * j) % Subsampling = 0 /\ (Subsampling * j) \div Subsampling = j
  BY <1>1, <1>4
<1>. QED
  BY <1>1, <1>2, <1>3, <1>4, <1>5, <1>6

\* What the map of tie points holds of the rows that are done.
TiePointsComposed ==
  \A j \in 0..(MaxTargetL \div Subsampling) : Subsampling * j <= MappedL =>
    \A r \in product.foundTp[Subsampling * j] : <<j, source, r>> \in composedTp

\* The maps and the files hold what was found for the rows that are done, in
\* the files as soon as they are written in a pass.
Projection ==
  /\ IsStarted(MapperAt) => TargetSegments \subseteq DOMAIN grid
  /\ Busy => \A l \in 0..MappedL : \A r \in product.found[l] : <<l, source, r>> \in composed
  /\ Busy => TiePointsComposed
  /\ Busy /\ TurnOver(MapperAt + 1) => file = Written
  /\ phase = "stop" => Found(product) \cup FoundTp(product) \subseteq file

\* What is left in the context after the first source product keeps the second
\* one from being mapped.
Leftover ==
  /\ source = 1 \/ phase \in {"start", "failed"}
  /\ phase = "stop" => Coord \in DOMAIN grid
  /\ source # 1 =>
       /\ source = 2
       /\ phase = "start" => at <= MapperAt /\ Coord \in DOMAIN grid
       /\ AllAreMapped => \E c \in file : c[2] = 1

IInv == Basics /\ Projection /\ Leftover /\ Flagged(grid[T].minInMemoryL..L("COL"))

\* Only the flagging is followed by the place at which flags matter.
LEMMA FlagsDoNotMatter ==
  ASSUME TypesFit,
         \/ Starting
         \/ phase = "process" /\ ProcessNext /\ at # 5
         \/ Stopping
         \/ Ending
         \/ MoveSegmentsForward
  PROVE  ~(phase' = "process" /\ at' = 6)
BY Types DEF Starting, StartNext, ProcessNext, Stopping, StopNext, Ending, MoveSegmentsForward

\* The steps that project nothing.
LEMMA ProjectionKept ==
  ASSUME Basics, Basics', Projection, UNCHANGED <<composed, composedTp>>,
         \/ Starting /\ (at = MapperAt => TargetSegments \subseteq DOMAIN grid')
         \/ Passing
         \/ Stopping
         \/ Ending
  PROVE  Projection'
<1>1. TypesFit /\ Tracked /\ Tracked'
  BY DEF Basics
<1>2. MapperAt \in DOMAIN Pipeline /\ (MapperAt + 1) \in DOMAIN Pipeline /\ MapperAt = 6
  BY PipelineIs, VgtpPipelineIs
<1>3. CASE Starting /\ (at = MapperAt => TargetSegments \subseteq DOMAIN grid')
  <2>1. /\ phase' \in {"start", "process"}
        /\ IsStarted(MapperAt)' => IsStarted(MapperAt) \/ at = MapperAt
        /\ ~TurnOver(MapperAt + 1)'
    BY <1>1, <1>2, <1>3, TurnsPass DEF Starting
  <2>2. MappedL' = None
    <3>1. Fresh /\ IsFresh(MapperAt) /\ lastComputedL' = lastComputedL
      BY <1>1, <1>3 DEF Starting, Tracked, TrackedNow, IsFresh
    <3>. QED
      BY <3>1 DEF Fresh, MappedL
  <2>3. 0..MappedL' = {}
    BY <2>2 DEF None
  <2>4. TiePointsComposed'
    BY <2>2, TiePointRow DEF TiePointsComposed, None
  <2>. QED
    BY <1>3, <2>1, <2>3, <2>4 DEF Projection, Starting
<1>4. CASE Passing
  <2>1. /\ Busy /\ Busy' /\ IsStarted(MapperAt) /\ phase' # "stop"
        /\ TurnOver(MapperAt + 1)' => TurnOver(MapperAt + 1)
    BY <1>1, <1>2, <1>4, TurnsPass DEF Passing, Busy
  <2>2. UNCHANGED <<grid, product, source, file>> /\ MappedL' = MappedL
    BY <1>4 DEF Passing
  <2>3. Written' = Written /\ (TiePointsComposed => TiePointsComposed')
    BY <2>2 DEF Written, TiePointsComposed
  <2>. QED
    BY <2>1, <2>2, <2>3 DEF Projection
<1>5. CASE Stopping
  <2>1. /\ phase = "stop" /\ ~Busy' /\ (IsStarted(MapperAt)' => IsStarted(MapperAt))
        /\ phase' = "stop" => source' = source
    BY <1>1, <1>2, <1>5, TurnsPass DEF Stopping, StopNext
  <2>2. TargetSegments \subseteq DOMAIN grid => TargetSegments \subseteq DOMAIN grid'
    BY <1>5, VgtpPipelineIs DEF Stopping
  <2>3. UNCHANGED <<product, file>>
    BY <1>5 DEF Stopping
  <2>4. phase' = "stop" => Found(product)' = Found(product) /\ FoundTp(product)' = FoundTp(product)
    BY <2>1, <2>3 DEF Found, FoundTp
  <2>. QED
    BY <2>1, <2>2, <2>3, <2>4 DEF Projection
<1>6. CASE Ending
  <2>1. ~Busy' /\ phase' # "stop" /\ ~IsStarted(MapperAt)'
    BY <1>6 DEF Ending, Busy, IsStarted
  <2>. QED
    BY <2>1 DEF Projection
<1>. QED
  BY <1>3, <1>4, <1>5, <1>6

LEMMA LeftoverKept ==
  ASSUME Basics, Projection, Leftover,
         \/ Starting /\ (at = MapperAt => Coord \notin DOMAIN grid)
         \/ Passing
         \/ Stopping
         \/ Ending /\ UNCHANGED file
  PROVE  Leftover'
<1>1. /\ TypesFit /\ Tracked /\ MapperAt = 6 /\ 1 \in DOMAIN Pipeline
      /\ at \in Nat /\ Len(Pipeline) = 8 /\ source \in Int /\ at >= 1
  BY Types, PipelineIs, VgtpPipelineIs DEF Basics, TypesFit, ProcessorTypeOK
<1>2. CASE Starting /\ (at = MapperAt => Coord \notin DOMAIN grid)
  <2>1. phase = "start" /\ StartNext /\ source' = source /\ DOMAIN grid \subseteq DOMAIN grid'
    BY <1>2 DEF Starting, StartNext
  <2>2. source # 1 => at < MapperAt /\ file' = file /\ phase' = "start" /\ at' = at + 1
    BY <1>1, <1>2, <2>1 DEF Leftover, Starting, StartNext
  <2>3. phase' # "stop"
    BY <2>1 DEF StartNext
  <2>4. source # 1 => at' <= MapperAt /\ Coord \in DOMAIN grid'
    BY <1>1, <2>1, <2>2 DEF Leftover
  <2>. QED
    BY <2>1, <2>2, <2>3, <2>4 DEF Leftover
<1>3. CASE Passing
  BY <1>3 DEF Passing, ProcessNext, Leftover
<1>4. CASE Stopping
  <2>1. /\ phase = "stop" /\ source = 1 /\ Coord \in DOMAIN grid' /\ UNCHANGED <<product, file>>
    BY <1>4, SegmentsAre DEF Stopping, Leftover
  <2>2. AllAreMapped => \E c \in file : c[2] = 1
    <3>. SUFFICES ASSUME AllAreMapped PROVE \E c \in file : c[2] = 1
      OBVIOUS
    <3>1. product \in Products
      BY <1>1, <2>1 DEF Tracked, TrackedNow, Present, IsStarted
    <3>2. PICK l \in 0..MaxTargetL : product.found[l] # {}
      BY <3>1 DEF AllAreMapped
    <3>3. PICK r \in product.found[l] : TRUE
      BY <3>2
    <3>4. <<l, source, r>> \in Found(product)
      BY <3>3 DEF Found
    <3>5. <<l, source, r>> \in file /\ <<l, source, r>>[2] = 1
      BY <2>1, <3>4 DEF Projection
    <3>. QED
      BY <3>5
  <2>3. \/ phase' = "stop" /\ source' = 1
        \/ phase' = "start" /\ source' = 2 /\ at' = at /\ at = 1
        \/ phase' = "done" /\ source' = 1
    BY <1>4, <2>1 DEF Stopping, StopNext
  <2>. QED
    BY <1>1, <2>1, <2>2, <2>3 DEF Leftover
<1>5. CASE Ending /\ UNCHANGED file
  BY <1>5 DEF Ending, Leftover
<1>. QED
  BY <1>2, <1>3, <1>4, <1>5

\* The end of a pass: both maps are complete and written if the map is done.
LEMMA ProjectionMoves ==
  ASSUME Basics, Projection, Leftover, MoveSegmentsForward, UNCHANGED dataVars,
         UNCHANGED <<composed, composedTp>>
  PROVE  Basics' /\ Projection' /\ Leftover'
<1>1. /\ Basics' /\ phase = "move"
      /\ MappedL' = MappedL /\ UNCHANGED <<product, source, file>>
      /\ DOMAIN grid' = DOMAIN grid
      /\ \A i \in DOMAIN Pipeline : TurnOver(i) /\ ~TurnOver(i)'
      /\ \/ phase' = "stop" /\ MappedL = MaxTargetL
         \/ phase' = "process"
  BY TaskMoveStep
<1>2. MapperAt + 1 \in DOMAIN Pipeline
  BY PipelineIs
<1>3. Busy /\ IsStarted(MapperAt) /\ TurnOver(MapperAt + 1) /\ ~TurnOver(MapperAt + 1)'
  BY <1>1, <1>2 DEF Busy, IsStarted
<1>4. file = Written /\ TargetSegments \subseteq DOMAIN grid /\ TiePointsComposed
      /\ \A l \in 0..MappedL : \A r \in product.found[l] : <<l, source, r>> \in composed
  BY <1>3 DEF Projection
<1>5. TiePointsComposed'
  BY <1>1, <1>4 DEF TiePointsComposed
<1>6. ASSUME phase' = "stop" PROVE Found(product) \cup FoundTp(product) \subseteq file
  <2>1. MappedL = MaxTargetL
    BY <1>1, <1>6
  <2>2. Found(product) \subseteq Written
    <3>. SUFFICES ASSUME NEW l \in 0..MaxTargetL, NEW r \in product.found[l]
                  PROVE  <<l, source, r>> \in Written
      BY DEF Found
    <3>. QED
      BY <1>4, <2>1 DEF Written
  <2>3. FoundTp(product) \subseteq Written
    <3>. SUFFICES ASSUME NEW j \in 0..(MaxTargetL \div Subsampling),
                         NEW r \in product.foundTp[Subsampling * j]
                  PROVE  <<TpRow(j), source, r>> \in Written
      BY DEF FoundTp
    <3>1. Subsampling * j <= MappedL
      BY <2>1, TiePointRow, MappingAssumption
    <3>2. <<j, source, r>> \in composedTp
      BY <1>4, <3>1 DEF TiePointsComposed
    <3>3. <<j, source, r>>[1] = j /\ <<j, source, r>>[2] = source /\ <<j, source, r>>[3] = r
      OBVIOUS
    <3>. QED
      BY <3>2, <3>3 DEF Written
  <2>. QED
    BY <1>4, <2>2, <2>3
<1>7. Found(product)' = Found(product) /\ FoundTp(product)' = FoundTp(product)
  BY <1>1 DEF Found, FoundTp
<1>8. Projection'
  BY <1>1, <1>3, <1>4, <1>5, <1>6, <1>7 DEF Projection
<1>9. Leftover'
  BY <1>1, <1>4, VgtpPipelineIs DEF Leftover
<1>. QED
  BY <1>1, <1>8, <1>9

-----------------------------------------------------------------------------
(* The steps of the mapper and the writer. *)

\* The maps are added, if there are none.
LEMMA VprStartStep ==
  ASSUME Basics, VprStart
  PROVE  Basics' /\ Starting /\ TargetSegments \subseteq DOMAIN grid' /\ Coord \notin DOMAIN grid
<1>1. /\ TypesFit /\ Tracked /\ ContextTypeOK /\ phase = "start" /\ StartNext
      /\ AddSegments([s \in TargetSegments |-> NewTarget(s)])
      /\ DOMAIN grid \cap TargetSegments = {}
      /\ UNCHANGED <<lastComputedL, firstRequiredL, segmentLineCount, product, final, file>>
      /\ at = MapperAt
  BY Types, TurnIs, VgtpPipelineIs DEF Basics, VprStart, VprRefuses, Turn, dataVars
<1> DEFINE new == [s \in TargetSegments |-> NewTarget(s)]
<1>2. /\ DOMAIN new = TargetSegments /\ AddSegments(new)
      /\ \A s \in DOMAIN new : new[s] = NewTarget(s)
  BY <1>1
<1>3. \A s \in TargetSegments : NewTarget(s) \in Grid
  <2>1. MaxTargetL \div Subsampling \in Nat /\ MaxTargetL \in Nat
    BY SubsamplingAssumption, MappingAssumption
  <2>2. \A s \in Segment : NewMap(s) \in Grid
    BY <2>1 DEF NewMap, NewGrid, Grid
  <2>3. NewGrid((MaxTargetL \div Subsampling) + 1, MaxTargetL \div Subsampling) \in Grid
    BY <2>1 DEF NewGrid, Grid
  <2>. QED
    BY <2>2, <2>3, SegmentsAre, VgtpPipelineIs DEF NewTarget
<1> HIDE DEF new
<1>4. /\ ContextTypeOK'
      /\ DOMAIN grid' = DOMAIN grid \cup TargetSegments
      /\ \A s \in DOMAIN grid : grid'[s] = grid[s]
      /\ grid'[Map] = NewMap(Map)
  <2>1. DOMAIN new \subseteq Segment /\ DOMAIN new \cap DOMAIN grid = {}
    BY <1>1, <1>2, VgtpPipelineIs
  <2>2. \A s \in DOMAIN new : new[s] \in Grid
    BY <1>2, <1>3
  <2>3. /\ ContextTypeOK'
        /\ DOMAIN grid' = DOMAIN grid \cup DOMAIN new
        /\ \A s \in DOMAIN grid : grid'[s] = grid[s]
        /\ \A s \in DOMAIN new : grid'[s] = new[s]
    BY <1>1, <1>2, <2>1, <2>2, Added
  <2>4. NewTarget(Map) = NewMap(Map)
    BY DEF NewTarget, Map, CoordTp, MapTp
  <2>. QED
    BY <1>2, <2>3, <2>4, VgtpPipelineIs
<1>5. at \notin {1, 2} /\ MapperAt \notin {1, 2}
  BY <1>1, VgtpPipelineIs
<1>6. TrackedNow'
  <2>1. \A s \in SourceSegments \cup {T} : s \in DOMAIN grid' => s \in DOMAIN grid
    BY <1>4, VgtpPipelineIs
  <2>2. Map \in DOMAIN grid'
    BY <1>4, VgtpPipelineIs
  <2>. QED
    BY <1>1, <1>4, <1>5, <2>1, <2>2, OtherStartStep
<1>7. Basics'
  BY <1>1, <1>4, <1>6, StartingKeeps
<1>. QED
  BY <1>1, <1>4, <1>7, VgtpPipelineIs DEF Starting

\* The map is removed, and what belongs to it stays.
LEMMA VprStopStep ==
  ASSUME Basics, Projection, Leftover, VprStop
  PROVE  Basics' /\ Projection' /\ Leftover' /\ phase' = "stop"
<1>1. /\ TypesFit /\ Tracked /\ RegisteredAreFinal(Syn) /\ ContextTypeOK
      /\ final \in [Module -> SUBSET Nat]
      /\ phase = "stop" /\ StopNext /\ RemoveSegments({Map})
      /\ UNCHANGED <<segmentLineCount, product, final, file>>
      /\ at = MapperAt /\ MapperAt = 6
  BY Types, TurnIs, VgtpPipelineIs DEF Basics, VprStop, Turn, dataVars, TypesFit
<1>2. TrackedNow
  BY <1>1 DEF Tracked
<1>3. /\ ContextTypeOK'
      /\ DOMAIN grid' = DOMAIN grid \ {Map}
      /\ \A s \in DOMAIN grid' : grid'[s] = grid[s]
      /\ \A s \in {Map} : lastComputedL'[s] = NoEntries /\ firstRequiredL'[s] = NoEntries
      /\ \A s \in Segment \ {Map} :
           lastComputedL'[s] = lastComputedL[s] /\ firstRequiredL'[s] = firstRequiredL[s]
  <2>1. {Map} \in SUBSET Segment
    BY SegmentsAre
  <2>. QED
    BY <1>1, <2>1, Removed, ZenonT(60)
<1>4. at \notin {1, 2} /\ T \in Segment \ {Map} /\ SourceSegments \subseteq Segment \ {Map}
  BY <1>1, SegmentsAre
<1>5. /\ MappedL' = None
      /\ \A m \in Module \ {Mapper, "VGT_WRITER"} : lastComputedL'[Map][m] = None
  BY <1>3, ModulesAre DEF MappedL, NoEntries
<1>6. TrackedNow'
  <2>1. /\ DOMAIN grid' \subseteq DOMAIN grid
        /\ SourceSegments \cap DOMAIN grid' = SourceSegments \cap DOMAIN grid
        /\ (T \in DOMAIN grid' <=> T \in DOMAIN grid /\ at # 2)
    BY <1>3, <1>4, SegmentsAre
  <2>. QED
    BY <1>1, <1>3, <1>4, <1>5, <2>1, StopStep
<1>7. RegisteredAreFinal(Syn)'
  BY <1>1, <1>3, <1>4, FinalStays DEF HasSegment
<1>8. Basics'
  BY <1>1, <1>3, <1>6, <1>7, StoppingKeeps
<1>9. phase' = "stop" /\ at' = 5 /\ UNCHANGED source
  BY <1>1 DEF StopNext
<1>10. Projection'
  <2>1. ~Busy' /\ ~IsStarted(MapperAt)'
    BY <1>1, <1>9 DEF Busy, IsStarted
  <2>2. Found(product)' = Found(product) /\ FoundTp(product)' = FoundTp(product)
    BY <1>1, <1>9 DEF Found, FoundTp
  <2>. QED
    BY <1>1, <2>1, <2>2 DEF Projection
<1>11. Leftover'
  BY <1>1, <1>3, <1>9, SegmentsAre DEF Leftover
<1>. QED
  BY <1>8, <1>9, <1>10, <1>11

\* All rows in memory that are mapped have flags, since their reflectances are
\* final and are flagged in every pass.
LEMMA VflStep ==
  ASSUME Basics, VflProcess
  PROVE  Basics' /\ Passing /\ Flagged(grid[T].minInMemoryL..L("COL"))'
<1>1. FlagAgain(final["VBM"]) /\ TypesFit /\ Tracked /\ RegisteredAreFinal(Syn)
  BY DEF VflProcess, Basics
<1>2. final["VBM"] \subseteq Nat
  BY <1>1, ModulesAre DEF TypesFit
<1>3. /\ Basics' /\ Passing /\ at = 5
      /\ (grid[T].minInMemoryL..L("COL")) \cap final["VBM"] \subseteq final'["VFL"]
      /\ \A m \in Syn : L(m)' = L(m)
  BY <1>1, <1>2, FlagKeeps
<1>4. TrackedNow /\ phase = "process" /\ Busy
  BY <1>1, <1>3 DEF Passing, Tracked, Busy
<1>5. L("VBM") = L("COL") /\ grid[T].minInMemoryL \in Nat /\ T \in DOMAIN grid /\ L("COL") \in Nat
  <2>1. at \in 3..MapperAt /\ SynAt("VBM") = 4 /\ "VBM" \in Syn
    BY <1>3, VgtpPipelineIs, ModulesAre
  <2>. QED
    BY <1>1, <1>3, <1>4, <2>1, Reach, RowsType
<1>6. 0..L("COL") \subseteq final["VBM"]
  BY <1>1, <1>5, ModulesAre DEF RegisteredAreFinal, HasSegment, L
<1>7. grid[T].minInMemoryL..L("COL") \subseteq 0..L("COL")
  BY <1>5
<1>8. grid[T].minInMemoryL..L("COL") \subseteq final'["VFL"]
  BY <1>3, <1>6, <1>7
<1>9. L("COL")' = L("COL") /\ UNCHANGED grid
  BY <1>3, ModulesAre DEF Passing
<1>. QED
  BY <1>3, <1>8, <1>9 DEF Flagged

\* What is projected of the rows that become done.
LEMMA VprStep ==
  ASSUME Basics, LongWindows, Projection, Flagged(grid[T].minInMemoryL..L("COL")),
         \/ (MapCompletes \/ MapWaits) /\ UNCHANGED <<composed, composedTp>>
         \/ VprProjects
  PROVE  Basics' /\ Projection' /\ phase = "process" /\ at = MapperAt /\ ProcessNext
         /\ UNCHANGED <<grid, source, file>>
<1>1. /\ Basics' /\ phase = "process" /\ at = MapperAt /\ ProcessNext /\ Busy
      /\ UNCHANGED <<grid, product, source, file, final>>
      /\ MapCompletes =>
           /\ MappedL' = MaxTargetL
           /\ \A l \in (MappedL + 1)..MaxTargetL : product.found[l] = {}
      /\ MapWaits => MappedL' = MappedL
      /\ RegisterMapped => MappedL' = MappedLastL
  <2>1. \/ MapCompletes
        \/ MapWaits
        \/ Turn("process", Mapper) /\ RegisterMapped /\ UNCHANGED dataVars
    BY DEF VprProjects, MayMap
  <2>. QED
    BY <2>1, MapperKeeps
<1>2. /\ TypesFit /\ Tracked /\ RegisteredAreFinal(Syn) /\ MapInv /\ TrackedNow
      /\ Turn("process", Mapper) /\ MapperAt = 6
  BY <1>1, VgtpPipelineIs DEF Basics, Tracked, Turn
<1>3. /\ Busy' /\ IsStarted(MapperAt) /\ IsStarted(MapperAt)' /\ phase' # "stop"
      /\ ~TurnOver(MapperAt + 1)'
  <2>1. MapperAt \in DOMAIN Pipeline /\ MapperAt + 1 \in DOMAIN Pipeline
    BY PipelineIs
  <2>2. ~TurnOver(MapperAt + 1)
    BY <1>1, <1>2 DEF TurnOver
  <2>. QED
    BY <1>1, <1>2, <2>1, <2>2, TurnsPass DEF Busy
<1>4. composed \subseteq composed' /\ composedTp \subseteq composedTp'
  BY DEF VprProjects
<1>5. /\ MappedL \in Int /\ MappedL >= -1 /\ MaxTargetL \in Nat /\ L("COL") \in Nat
      /\ grid[T].minInMemoryL \in Nat /\ T \in DOMAIN grid
      /\ LastSourceL = L("COL") /\ L("VBM") = L("COL")
      /\ \A l \in 0..MaxTargetL : product.found[l] \in SUBSET Nat
  <2>1. at \in 3..MapperAt /\ Pipeline[at] = Mapper /\ SynAt("VBM") = 4 /\ "VBM" \in Syn
    BY <1>1, <1>2, PipelineIs, ModulesAre
  <2>2. LastSourceL = L("COL") /\ L("VBM") = L("COL") /\ L("COL") \in Nat
    BY <1>1, <1>2, <2>1, Reach DEF LastSourceL
  <2>. QED
    BY <1>1, <1>2, <2>2, RowsType
<1>6. ASSUME VprProjects, NEW l \in (MappedL + 1)..MappedL', NEW r \in product.found[l]
      PROVE  /\ l \in MapLines /\ r \in ComputedRows(l) /\ r <= LastSourceL
             /\ r \in final["VFL"] /\ r \in final["VBM"]
  <2>1. MappedL' = MappedLastL
    BY <1>1, <1>6 DEF VprProjects
  <2>2. /\ MappedLastL \in Int /\ MapLines \subseteq 0..MaxTargetL
        /\ (MappedL + 1)..MappedLastL \subseteq MapLines
        /\ \A k \in 0..MappedLastL : \A q \in product.found[k] : q <= L("COL")
    BY <1>2, LongWindows, MapReach
  <2>3. l \in MapLines /\ l \in 0..MaxTargetL /\ l \in 0..MappedLastL
    BY <1>5, <2>1, <2>2
  <2>4. r \in Nat /\ r <= L("COL") /\ r \in ComputedRows(l)
    BY <1>5, <2>2, <2>3 DEF ComputedRows
  <2>5. grid[T].minInMemoryL <= r
    BY <1>6, <2>3, <2>4 DEF VprProjects, MapThrows, IsInMemory
  <2>6. r \in final["VFL"]
    BY <1>1, <1>2, <1>5, <2>4, <2>5 DEF Flagged
  <2>7. r \in final["VBM"]
    <3>1. 0..L("VBM") \subseteq final["VBM"]
      BY <1>2, <1>5, ModulesAre DEF RegisteredAreFinal, HasSegment, L
    <3>. QED
      BY <1>5, <2>4, <3>1
  <2>. QED
    BY <1>5, <2>3, <2>4, <2>6, <2>7
<1>7. \A l \in 0..MappedL' : \A r \in product.found[l] : <<l, source, r>> \in composed'
  <2>. SUFFICES ASSUME NEW l \in 0..MappedL', NEW r \in product.found[l]
                PROVE  <<l, source, r>> \in composed'
    OBVIOUS
  <2>1. CASE l <= MappedL
    BY <1>1, <1>4, <1>5, <2>1 DEF Projection
  <2>2. CASE ~(l <= MappedL) /\ MapCompletes
    BY <1>1, <1>5, <2>2
  <2>3. CASE ~(l <= MappedL) /\ MapWaits
    BY <1>1, <1>5, <2>3
  <2>4. CASE ~(l <= MappedL) /\ VprProjects
    <3>1. l \in (MappedL + 1)..MappedL'
      BY <1>5, <2>4
    <3>2. l \in MapLines /\ r \in ComputedRows(l) /\ r \in final["VFL"]
      BY <1>6, <2>4, <3>1
    <3>3. <<l, source, r>>[3] = r
      OBVIOUS
    <3>4. <<l, source, r>> \in UNION {{<<k, source, q>> : q \in ComputedRows(k)} : k \in MapLines}
      BY <3>2
    <3>. QED
      BY <2>4, <3>2, <3>3, <3>4 DEF VprProjects
  <2>. QED
    BY <2>1, <2>2, <2>3, <2>4
<1>8. TiePointsComposed'
  <2>. SUFFICES ASSUME NEW j \in 0..(MaxTargetL \div Subsampling), Subsampling * j <= MappedL',
                       NEW r \in product.foundTp[Subsampling * j]
                PROVE  <<j, source, r>> \in composedTp'
    BY <1>1 DEF TiePointsComposed
  <2>1. PICK l \in 0..MaxTargetL :
          l = Subsampling * j /\ l % Subsampling = 0 /\ l \div Subsampling = j
    BY TiePointRow
  <2>2. r \in product.foundTp[l] /\ r \in product.found[l]
    <3>1. product \in Products
      BY <1>1, <1>2, InAPass
    <3>. QED
      BY <2>1, <3>1, TiePointProducts
  <2>3. CASE l <= MappedL
    BY <1>1, <1>4, <2>1, <2>3 DEF Projection, TiePointsComposed
  <2>4. CASE ~(l <= MappedL) /\ MapCompletes
    BY <1>1, <1>5, <2>1, <2>2, <2>4
  <2>5. CASE ~(l <= MappedL) /\ MapWaits
    BY <1>1, <1>5, <2>1, <2>5
  <2>6. CASE ~(l <= MappedL) /\ VprProjects
    <3>0. l <= MappedL' /\ MappedL' \in Int
      <4>1. MappedL' = MappedLastL /\ MappedLastL \in Int
        BY <1>1, <1>2, <2>6, LongWindows, MapReach DEF VprProjects
      <4>. QED
        BY <2>1, <4>1
    <3>1. l \in (MappedL + 1)..MappedL'
      BY <1>5, <2>6, <3>0
    <3>2. l \in MapLines /\ r <= LastSourceL /\ r \in final["VBM"]
      BY <1>6, <2>2, <2>6, <3>1
    <3>3. r \in TiePointRows(l)
      BY <2>1, <2>2, <3>2 DEF TiePointRows
    <3>4. <<l \div Subsampling, source, r>> \in
            UNION {{<<k \div Subsampling, source, q>> : q \in TiePointRows(k)} : k \in MapLines}
      BY <3>2, <3>3
    <3>5. <<l \div Subsampling, source, r>>[3] = r
      OBVIOUS
    <3>6. <<l \div Subsampling, source, r>> \in composedTp'
      BY <2>6, <3>2, <3>4, <3>5 DEF VprProjects
    <3>. QED
      BY <2>1, <3>6
  <2>. QED
    BY <2>3, <2>4, <2>5, <2>6
<1>. QED
  BY <1>1, <1>3, <1>7, <1>8 DEF Projection

\* The files receive the maps as they are.
LEMMA WriterStep ==
  ASSUME Basics, Projection, VgtWriterProcess(TargetSegments, Written), UNCHANGED composedTp
  PROVE  /\ Basics' /\ Projection' /\ phase = "process" /\ at = MapperAt + 1
         /\ phase' = "failed" \/ ProcessNext
         /\ UNCHANGED source
<1>1. /\ TypesFit /\ Tracked /\ phase = "process"
      /\ UNCHANGED composed /\ MapperAt + 1 \in DOMAIN Pipeline
  BY PipelineIs DEF Basics, VgtWriterProcess, Turn
<1>2. Busy /\ IsStarted(MapperAt)
  BY <1>1 DEF Busy, IsStarted
<1>3. TargetSegments \subseteq DOMAIN grid \ (SourceSegments \cup {T})
  BY <1>2, VgtpPipelineIs DEF Projection
<1> DEFINE content == Written
<1>4. VgtWriterProcess(TargetSegments, content) /\ content = Written
  OBVIOUS
<1> HIDE DEF content
<1>5. /\ Basics' /\ phase = "process" /\ at = MapperAt + 1 /\ file' = content
      /\ UNCHANGED <<product, source, grid>>
      /\ \/ phase' = "failed"
         \/ ProcessNext /\ MappedL' = MappedL
  BY <1>3, <1>4, WriterKeeps, ZenonT(60)
<1>6. file' = Written'
  BY <1>1, <1>4, <1>5 DEF Written
<1>7. CASE phase' = "failed"
  <2>1. ~Busy' /\ phase' # "stop" /\ ~IsStarted(MapperAt)'
    BY <1>7 DEF Busy, IsStarted
  <2>. QED
    BY <1>5, <1>7, <2>1 DEF Projection
<1>8. CASE ProcessNext /\ MappedL' = MappedL
  <2>1. Busy' /\ phase' # "stop"
    BY <1>1, <1>8, TurnsPass DEF Busy
  <2>2. TiePointsComposed'
    BY <1>2, <1>5, <1>8 DEF Projection, TiePointsComposed
  <2>. QED
    BY <1>1, <1>2, <1>5, <1>6, <1>8, <2>1, <2>2 DEF Projection
<1>. QED
  BY <1>5, <1>7, <1>8

-----------------------------------------------------------------------------
\* The invariant is inductive, if the windows hold what the products need.
THEOREM VgtpInductive ==
  ASSUME LongWindows
  PROVE  Spec => []IInv
<1>1. Init => IInv
  <2>. SUFFICES ASSUME Init PROVE IInv
    OBVIOUS
  <2>1. Basics /\ phase = "start" /\ at = 1 /\ source = 1
    BY TaskInitBasics DEF Init, TaskInit, ProcessorInit
  <2>2. ~Busy /\ ~IsStarted(MapperAt)
    BY <2>1, VgtpPipelineIs DEF Busy, IsStarted
  <2>. QED
    BY <2>1, <2>2 DEF IInv, Projection, Leftover, Flagged
<1>2. IInv /\ [Next]_vars => IInv'
  <2>. SUFFICES ASSUME IInv, [Next]_vars PROVE IInv'
    OBVIOUS
  <2>0. Basics /\ Projection /\ Leftover /\ Flagged(grid[T].minInMemoryL..L("COL")) /\ TypesFit
        /\ MapperAt = 6
    BY VgtpPipelineIs DEF IInv, Basics
  <2> DEFINE same == UNCHANGED <<composed, composedTp>>
  <2>1. CASE TaskStart /\ same
    <3>1. Basics' /\ Starting /\ at # MapperAt
      BY <2>0, <2>1, TaskStartStep
    <3>2. Projection' /\ Leftover'
      BY <2>0, <2>1, <3>1, ProjectionKept, LeftoverKept
    <3>. QED
      BY <2>0, <3>1, <3>2, FlagsDoNotMatter DEF IInv, Flagged
  <2>2. CASE TaskProcess /\ same
    <3>1. Basics' /\ Passing
      BY <2>0, <2>2, TaskProcessStep
    <3>2. phase = "process" /\ ProcessNext /\ at # 5
      <4>1. at \in DOMAIN Pipeline
        BY <2>0, Types
      <4>2. Pipeline[at] # "VFL"
        BY <2>2 DEF TaskProcess, ReaderProcess, ColProcess, PclProcess, VbmProcess, IdleProcess, Turn
      <4>. QED
        BY <3>1, <4>1, <4>2, TurnIs DEF Passing
    <3>3. Projection' /\ Leftover'
      BY <2>0, <2>2, <3>1, ProjectionKept, LeftoverKept
    <3>. QED
      BY <2>0, <3>1, <3>2, <3>3, FlagsDoNotMatter DEF IInv, Flagged
  <2>3. CASE MoveSegmentsForward /\ UNCHANGED dataVars /\ same
    BY <2>0, <2>3, ProjectionMoves, FlagsDoNotMatter DEF IInv, Flagged
  <2>4. CASE TaskStop /\ same
    <3>1. Basics' /\ Stopping
      BY <2>0, <2>4, TaskStopStep
    <3>2. Projection' /\ Leftover'
      BY <2>0, <2>4, <3>1, ProjectionKept, LeftoverKept
    <3>. QED
      BY <2>0, <3>1, <3>2, FlagsDoNotMatter DEF IInv, Flagged
  <2>5. CASE (IOError \/ (Exited /\ UNCHANGED dataVars) \/ RuntimeError) /\ same
    <3>1. /\ UNCHANGED <<contextVars, product, segmentLineCount, final>> /\ (Throw \/ Exited)
          /\ UNCHANGED file
      BY <2>5 DEF IOError, RuntimeError, Throw, Exited, dataVars
    <3>2. Basics' /\ Ending
      BY <2>0, <3>1, EndingKeeps
    <3>3. Projection' /\ Leftover'
      BY <2>0, <2>5, <3>1, <3>2, ProjectionKept, LeftoverKept
    <3>. QED
      BY <2>0, <3>2, <3>3, FlagsDoNotMatter DEF IInv, Flagged
  <2>6. CASE VprStart
    <3>1. /\ Basics' /\ Starting /\ TargetSegments \subseteq DOMAIN grid' /\ Coord \notin DOMAIN grid
          /\ same
      BY <2>0, <2>6, VprStartStep DEF VprStart
    <3>2. Projection' /\ Leftover'
      BY <2>0, <3>1, ProjectionKept, LeftoverKept
    <3>. QED
      BY <2>0, <3>1, <3>2, FlagsDoNotMatter DEF IInv, Flagged
  <2>7. CASE VflProcess /\ UNCHANGED composedTp
    <3>1. Basics' /\ Passing /\ Flagged(grid[T].minInMemoryL..L("COL"))' /\ same
      BY <2>0, <2>7, VflStep DEF VflProcess, FlagAgain
    <3>2. Projection' /\ Leftover'
      BY <2>0, <3>1, ProjectionKept, LeftoverKept
    <3>. QED
      BY <3>1, <3>2 DEF IInv
  <2>8. CASE ((MapCompletes \/ MapWaits) /\ UNCHANGED composedTp) \/ VprProjects
    <3>1. /\ Basics' /\ Projection' /\ phase = "process" /\ at = MapperAt /\ ProcessNext
          /\ UNCHANGED <<grid, source, file>>
      BY <2>0, <2>8, VprStep DEF MapCompletes, MapWaits
    <3>2. Leftover'
      BY <2>0, <3>1 DEF Leftover, ProcessNext
    <3>. QED
      BY <2>0, <3>1, <3>2, FlagsDoNotMatter DEF IInv, Flagged
  <2>9. CASE VgtWriterProcess(TargetSegments, Written) /\ UNCHANGED composedTp
    <3>1. /\ Basics' /\ Projection' /\ phase = "process" /\ at = MapperAt + 1
          /\ phase' = "failed" \/ ProcessNext
          /\ UNCHANGED source
      BY <2>0, <2>9, WriterStep
    <3>2. Leftover'
      BY <2>0, <3>1 DEF Leftover, ProcessNext
    <3>. QED
      BY <2>0, <3>1, <3>2, FlagsDoNotMatter DEF IInv, Flagged
  <2>10. CASE VprStop
    BY <2>0, <2>10, VprStopStep DEF IInv, Flagged
  <2>11. CASE UNCHANGED vars
    <3>1. /\ UNCHANGED <<contextVars, controlVars, dataVars>> /\ UNCHANGED <<composed, composedTp>>
          /\ UNCHANGED <<grid, lastComputedL, phase, at, source, product, final, file>>
      BY <2>11 DEF vars, contextVars, controlVars, dataVars
    <3>2. Basics'
      BY <2>0, <3>1, BasicsStay
    <3>3. Projection'
      BY <2>0, <3>1 DEF Projection, IsStarted, Busy, MappedL, TurnOver, Found, FoundTp,
                        TiePointsComposed, Written
    <3>4. Leftover' /\ Flagged(grid[T].minInMemoryL..L("COL"))'
      BY <2>0, <3>1 DEF Leftover, Flagged, L
    <3>. QED
      BY <3>2, <3>3, <3>4 DEF IInv
  <2>. QED
    BY <2>1, <2>2, <2>3, <2>4, <2>5, <2>6, <2>7, <2>8, <2>9, <2>10, <2>11
       DEF Next, Common, TaskStart, TaskProcess, TaskStop, VbmProcess, RuntimeError
<1>. QED
  BY <1>1, <1>2, PTL DEF Spec

\* However many windows the source product takes, the files hold both maps at
\* its end (modules/Vpr.cpp, modules/VgtWriter.cpp), as long as the windows
\* hold what the product needs.
THEOREM VgtpProjectsAll ==
  ASSUME LongWindows
  PROVE  Spec => []ProjectionIsComplete
<1>1. IInv => ProjectionIsComplete
  BY DEF IInv, Projection, ProjectionIsComplete, Turn
<1>2. Spec => []IInv
  BY LongWindows, VgtpInductive
<1>. QED
  BY <1>1, <1>2, PTL

\* However many source products the job order names, the projection of the
\* first is not replaced (modules/Vpr.cpp, Vpr::start and Vpr::stop), as long
\* as the windows hold what the products need and no product misses the map.
THEOREM VgtpKeepsItsProjection ==
  ASSUME LongWindows, AllAreMapped
  PROVE  Spec => []NoProjectionIsLost
<1>1. IInv => NoProjectionIsLost
  <2>. SUFFICES ASSUME IInv, NEW s \in 1..(source - 1) PROVE \E c \in file : c[2] = s
    BY DEF NoProjectionIsLost
  <2>1. source \in Nat
    BY DEF IInv, Basics, TypesFit, ProcessorTypeOK
  <2>2. source # 1
    BY <2>1
  <2>3. source = 2 /\ \E c \in file : c[2] = 1
    BY <2>2, AllAreMapped DEF IInv, Leftover
  <2>4. s = 1
    BY <2>1, <2>3
  <2>. QED
    BY <2>3, <2>4
<1>2. Spec => []IInv
  BY LongWindows, VgtpInductive
<1>. QED
  BY <1>1, <1>2, PTL

-----------------------------------------------------------------------------
(* No row is read that has left memory. *)

\* Nothing is in the way of the first source product.
FirstIsFree ==
  source = 1 /\ phase = "start" /\ at <= MapperAt => DOMAIN grid \cap TargetSegments = {}

LEMMA FirstStaysFree ==
  ASSUME IInv, FirstIsFree, [Next]_vars
  PROVE  FirstIsFree'
<1>1. /\ TypesFit /\ at \in DOMAIN Pipeline /\ at \in Nat /\ MapperAt = 6 /\ Len(Pipeline) = 8
      /\ source \in Nat /\ source >= 1
  BY Types, PipelineIs, VgtpPipelineIs DEF IInv, Basics, TypesFit, ProcessorTypeOK
<1>. SUFFICES ASSUME source' = 1, phase' = "start", at' <= MapperAt
              PROVE  DOMAIN grid' \cap TargetSegments = {}
  BY DEF FirstIsFree
<1>2. CASE phase = "start" /\ StartNext
  <2>1. source = 1 /\ at < MapperAt /\ DOMAIN grid \cap TargetSegments = {}
    BY <1>1, <1>2 DEF StartNext, FirstIsFree
  <2>2. CASE TaskStart
    <3>1. DOMAIN grid' \subseteq DOMAIN grid \cup SourceSegments \cup {T}
      BY <2>2 DEF TaskStart, ReaderStart, ColStart, WriterStart, IdleStart, AddSegments, contextVars
    <3>. QED
      BY <2>1, <3>1, VgtpPipelineIs
  <2>3. CASE VprStart
    BY <1>1, <2>1, <2>3, TurnIs, VgtpPipelineIs DEF VprStart, Turn
  <2>4. CASE UNCHANGED vars
    BY <2>1, <2>4 DEF vars, contextVars
  <2>5. TaskStart \/ VprStart \/ UNCHANGED vars
    BY <1>2 DEF Next, Common, TaskStart, ReaderProcess, ColProcess, PclProcess, VbmProcess,
                VflProcess, FlagAgain, IdleProcess, MapCompletes, MapWaits, VprProjects, MayMap,
                VgtWriterProcess, MoveSegmentsForward, ManifestStop, WriterStop, ColStop,
                ReaderStop, IdleStop, VprStop, IOError, RuntimeError, Throw, Exited, Turn
  <2>. QED
    BY <2>2, <2>3, <2>4, <2>5
<1>3. CASE phase = "stop" /\ StopNext
  BY <1>1, <1>3 DEF StopNext
<1>4. CASE UNCHANGED vars
  BY <1>4 DEF vars, contextVars, controlVars, FirstIsFree
<1>5. ~(phase = "process" /\ (ProcessNext \/ Throw)) /\ ~MoveSegmentsForward /\ ~Throw /\ ~Exited
  BY DEF ProcessNext, MoveSegmentsForward, Throw, Exited, controlVars
<1>. QED
  BY <1>2, <1>3, <1>4, <1>5
     DEF Next, Common, ReaderStart, ColStart, WriterStart, IdleStart, VprStart, ReaderProcess,
         ColProcess, PclProcess, VbmProcess, VflProcess, FlagAgain, IdleProcess, MapCompletes,
         MapWaits, VprProjects, MayMap, RegisterMapped, VgtWriterProcess, Register, ManifestStop,
         WriterStop, ColStop, ReaderStop, IdleStop, VprStop, IOError, RuntimeError, Turn

\* Every step keeps the windows where they are needed.
LEMMA StepWindows ==
  ASSUME IInv, IInv', WindowInv, LongWindows, [Next]_vars
  PROVE  WindowInv'
<1>1. Basics /\ Basics' /\ TypesFit /\ Projection /\ at \in DOMAIN Pipeline /\ MapperAt = 6
  BY Types, VgtpPipelineIs DEF IInv, Basics
<1>2. CASE TaskStart
  BY <1>1, <1>2, StartingWindows
<1>3. CASE VprStart
  <2>1. Starting /\ at = MapperAt
    BY <1>1, <1>3, VprStartStep, TurnIs, VgtpPipelineIs DEF VprStart, Turn
  <2>. QED
    BY <1>1, <2>1, StartingWindows
<1>4. CASE TaskProcess
  BY <1>1, <1>4, LongWindows, TaskWindows
<1>5. CASE VflProcess
  BY <1>1, <1>5, TurnIs, IdleWindows DEF VflProcess, FlagAgain, Turn
<1>6. CASE MapCompletes \/ MapWaits \/ VprProjects
  BY <1>1, <1>6, LongWindows, MapperWindows DEF VprProjects
<1>7. CASE VgtWriterProcess(TargetSegments, Written)
  <2>1. phase = "process" /\ IsStarted(MapperAt)
    BY <1>7 DEF VgtWriterProcess, Turn, Busy, IsStarted
  <2> DEFINE content == Written
  <2>2. /\ TargetSegments \subseteq DOMAIN grid \ (SourceSegments \cup {T})
        /\ VgtWriterProcess(TargetSegments, content)
    BY <1>1, <1>7, <2>1, VgtpPipelineIs DEF Projection
  <2> HIDE DEF content
  <2>. QED
    BY <1>1, <2>2, WriterWindows, ZenonT(60)
<1>8. CASE MoveSegmentsForward /\ UNCHANGED dataVars
  BY <1>1, <1>8, LongWindows, MoveWindows
<1>9. CASE TaskStop \/ VprStop
  <2>1. phase = "stop" /\ StopNext
    BY <1>9 DEF TaskStop, VprStop, ReaderStop, ColStop, WriterStop, ManifestStop, IdleStop, Turn
  <2>. QED
    BY <1>1, <2>1, EndWindows
<1>10. CASE IOError \/ RuntimeError \/ Exited
  BY <1>1, <1>10, EndWindows DEF IOError, RuntimeError
<1>11. CASE UNCHANGED vars
  <2>1. UNCHANGED <<contextVars, controlVars, dataVars>>
    BY <1>11 DEF vars
  <2>. QED
    BY <2>1, WindowsStay
<1>. QED
  BY <1>2, <1>3, <1>4, <1>5, <1>6, <1>7, <1>8, <1>9, <1>10, <1>11
     DEF Next, Common, TaskStart, TaskProcess, TaskStop

\* A row that has left memory is read at the edges of the map only: when row 0
\* of the map is begun a second time (modules/Vpr.cpp), and by the collocation
\* (modules/Col.cpp) when the map is done before the source product.  The
\* program fails otherwise only when Vpr::start finds what Vpr::stop has left
\* of the first source product.  This holds as long as the windows hold what
\* the products need.
THEOREM VgtpThrowsAtTheEdges ==
  ASSUME LongWindows
  PROVE  Spec => []OnlyTheEdgesThrow
<1>1. Init => WindowInv /\ FirstIsFree
  <2>1. Init => ~Busy /\ DOMAIN grid = {}
    BY DEF Init, TaskInit, ProcessorInit, ContextInit, Busy
  <2>. QED
    BY <2>1 DEF WindowInv, FirstIsFree
<1>2. IInv /\ IInv' /\ WindowInv /\ FirstIsFree /\ [Next]_vars => WindowInv' /\ FirstIsFree'
  BY LongWindows, StepWindows, FirstStaysFree
<1>3. IInv /\ WindowInv /\ FirstIsFree => OnlyTheEdgesThrow
  <2>. SUFFICES ASSUME IInv, WindowInv, FirstIsFree PROVE OnlyTheEdgesThrow
    OBVIOUS
  <2> DEFINE rows == [l \in MapLines |-> ComputedRows(l)]
  <2>1. \A l \in MapLines : rows[l] \subseteq ComputedRows(l)
    OBVIOUS
  <2>2. Turn("start", "VPR") /\ VprRefuses => source = 2
    <3>1. Turn("start", "VPR") => phase = "start" /\ at = MapperAt
      BY Types, TurnIs, VgtpPipelineIs DEF IInv, Basics, Turn
    <3>2. MapperAt \in Int
      BY VgtpPipelineIs
    <3>. QED
      BY <3>1, <3>2 DEF FirstIsFree, VprRefuses, IInv, Leftover
  <2>3. ThrowsAtTheEdgesOnly(ColIsFaulty \/ (MayMap /\ MapThrows(rows))) => OnlyTheEdgesThrow
    BY <2>2 DEF OnlyTheEdgesThrow, ThrowsAtTheEdgesOnly, IsFaulty
  <2> HIDE DEF rows
  <2>4. Basics
    BY DEF IInv
  <2>. QED
    BY LongWindows, <2>1, <2>3, <2>4, WhatMayThrow
<1>4. Spec => []IInv
  BY LongWindows, VgtpInductive
<1>. QED
  BY <1>1, <1>2, <1>3, <1>4, PTL DEF Spec
=============================================================================
