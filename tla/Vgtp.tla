-------------------------------- MODULE Vgtp --------------------------------
(***************************************************************************)
(* The VGT-P task (tasks/vgtp): after the mapping to VGT bands and the     *)
(* flagging the source product is projected onto a map and onto a map of   *)
(* tie points, which takes every eighth row and column of the former.      *)
(* There is no atmospheric correction and nothing to compare with.         *)
(***************************************************************************)
EXTENDS Mapping

CONSTANT Subsampling   \* 8: the distance of two tie points on the map

ASSUME SubsamplingAssumption == Subsampling \in Nat \ {0}

VARIABLE
  composedTp   \* what the map of tie points holds

vars == <<contextVars, controlVars, dataVars, composed, composedTp>>

VgtpPipeline == <<"READER", "COL", "PCL", "VBM", "VFL", "VPR", "VGT_WRITER", "MANIFEST">>

\* The coordinates of the tie points are four segments of one line as well.
MapTp   == "VGT_TP"
CoordTp == "COORD_TP"

TargetSegments == {Map, Coord, MapTp, CoordTp}

VgtpSegment == SourceSegments \cup {T} \cup TargetSegments

ASSUME VgtpAssumption ==
  Mapper = "VPR" /\ Pipeline = VgtpPipeline /\ TargetSegments \subseteq Segment

\* A pixel of the map of tie points is a pixel of the map.
ASSUME TiePointProducts ==
  \A p \in Products :
    /\ p.foundTp \in [0..MaxTargetL -> SUBSET Rows(p)]
    /\ \A l \in 0..MaxTargetL : p.foundTp[l] \subseteq p.found[l]

-----------------------------------------------------------------------------
\* The reflectances stay as they are: the flags of a row are the same in every
\* pass.
VflProcess == FlagAgain(final["VBM"])

-----------------------------------------------------------------------------
(* Vpr. *)

NewTarget(s) ==
  IF s = CoordTp THEN NewMap(Coord)
  ELSE IF s = MapTp THEN LET maxTp == MaxTargetL \div Subsampling IN NewGrid(maxTp + 1, maxTp)
  ELSE NewMap(s)

\* Mutant: what is there already is kept, as Vco does.
VprStartKeeps ==
  /\ Turn("start", "VPR")
  /\ AddSegments([s \in TargetSegments \ DOMAIN grid |-> NewTarget(s)])
  /\ UNCHANGED <<lastComputedL, firstRequiredL, dataVars, composed, composedTp>>
  /\ StartNext

VprRefuses == DOMAIN grid \cap TargetSegments # {}

VprStart ==
  /\ Turn("start", "VPR")
  /\ ~VprRefuses
  /\ AddSegments([s \in TargetSegments |-> NewTarget(s)])
  /\ UNCHANGED <<lastComputedL, firstRequiredL, dataVars, composed, composedTp>>
  /\ StartNext

\* The source rows of the pixels in the eighth columns of an eighth row.
TiePointRows(l) ==
  IF l % Subsampling = 0 THEN {r \in product.foundTp[l] : r <= LastSourceL} ELSE {}

VprProjects ==
  /\ MayMap
  /\ ~MapThrows([l \in MapLines |-> ComputedRows(l)])
  /\ RegisterMapped
  /\ composed' = composed \cup
       {c \in UNION {{<<l, source, r>> : r \in ComputedRows(l)} : l \in MapLines} :
          c[3] \in final["VFL"]}
  /\ composedTp' = composedTp \cup
       {c \in UNION {{<<l \div Subsampling, source, r>> : r \in TiePointRows(l)} : l \in MapLines} :
          c[3] \in final["VBM"]}
  /\ UNCHANGED dataVars

\* One of the ten segments is removed, the other nine stay.
VprStop ==
  /\ Turn("stop", "VPR")
  /\ RemoveSegments({Map})
  /\ composed' = {}
  /\ UNCHANGED <<dataVars, composedTp>>
  /\ StopNext

-----------------------------------------------------------------------------
\* What the target files hold of both maps; the rows of the map of tie points
\* are told apart by a number behind the last row of the map.
TpRow(l) == MaxTargetL + 1 + l

Written == composed \cup {<<TpRow(c[1]), c[2], c[3]>> : c \in composedTp}

IsFaulty ==
  \/ ColIsFaulty
  \/ Turn("start", "VPR") /\ VprRefuses
  \/ MayMap /\ MapThrows([l \in MapLines |-> ComputedRows(l)])

RuntimeError ==
  /\ IsFaulty
  /\ Throw
  /\ UNCHANGED <<dataVars, composed, composedTp>>

Init ==
  /\ TaskInit
  /\ composed = {}
  /\ composedTp = {}

Common ==
  \/ ReaderStart \/ ColStart \/ WriterStart("VGT_WRITER")
  \/ \E m \in {"PCL", "VBM", "VFL", "MANIFEST"} : IdleStart(m)
  \/ ReaderProcess \/ ColProcess \/ PclProcess \/ IdleProcess("MANIFEST")
  \/ MoveSegmentsForward /\ UNCHANGED dataVars
  \/ ManifestStop \/ WriterStop("VGT_WRITER") \/ ColStop \/ ReaderStop
  \/ \E m \in {"VFL", "VBM", "PCL"} : IdleStop(m)
  \/ IOError
  \/ Exited /\ UNCHANGED dataVars

Next ==
  \/ Common /\ UNCHANGED <<composed, composedTp>>
  \/ VprStart
  \/ (VbmProcess \/ VflProcess) /\ UNCHANGED composedTp
  \/ (MapCompletes \/ MapWaits) /\ UNCHANGED composedTp
  \/ VprProjects
  \/ VgtWriterProcess(TargetSegments, Written) /\ UNCHANGED composedTp
  \/ VprStop
  \/ RuntimeError

\* The program is one thread: it takes its next step.
Spec == Init /\ [][Next]_vars /\ WF_vars(Next)

-----------------------------------------------------------------------------
(* Properties. *)

\* The program is in one of its states.
TypeOK ==
  /\ MappingTypeOK
  /\ composedTp \subseteq Mapped
  /\ file \subseteq (0..(TpRow(MaxTargetL))) \X (1..Sources) \X Nat

\* What Vpr finds for the map of tie points.
FoundTp(p) ==
  UNION {{<<TpRow(l), source, r>> : r \in p.foundTp[Subsampling * l]} :
           l \in 0..(MaxTargetL \div Subsampling)}

\* When the modules are stopped, the target files hold every pixel of the map
\* and of the map of tie points for which the source product has a pixel, from
\* final rows.  (The map leaves the context before its writer is stopped.)
ProjectionIsComplete ==
  Turn("stop", "MANIFEST") => Found(product) \cup FoundTp(product) \subseteq file

\* What was projected of a source product stays in the target files.  There is
\* no room for a second source product, whose files would replace those of the
\* first: what Vpr leaves behind makes the program fail before.
NoProjectionIsLost == \A s \in 1..(source - 1) : \E c \in file : c[2] = s

\* The program throws at the edges of the map only (see Mapping), and when Vpr
\* is started for a second source product.
OnlyTheEdgesThrow ==
  ThrowsAtTheEdgesOnly(IsFaulty /\ ~(source = 2 /\ Turn("start", "VPR")))

\* No product misses the map.
AllAreMapped == \A p \in Products : \E l \in 0..MaxTargetL : p.found[l] # {}
=============================================================================
