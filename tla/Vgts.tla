-------------------------------- MODULE Vgts --------------------------------
(***************************************************************************)
(* The VGT-S task (tasks/vgts): after the mapping to VGT bands come the    *)
(* flagging, the atmospheric correction, and the composition of all source *)
(* products on one map, which stays in memory from source to source.       *)
(*                                                                         *)
(* A composite is abstracted to the source rows that were compared with    *)
(* what is in the map; VgtPixel models which of them a pixel keeps.        *)
(***************************************************************************)
EXTENDS Mapping

vars == <<contextVars, controlVars, dataVars, composed>>

VgtsPipeline == <<"READER", "COL", "PCL", "VBM", "VFL", "VAC", "VCO", "VGT_WRITER", "MANIFEST">>

VgtsSegment == SourceSegments \cup {T, Map, Coord}

ASSUME VgtsAssumption == Mapper = "VCO" /\ Pipeline = VgtsPipeline

-----------------------------------------------------------------------------
(* Vfl and Vac. *)

\* The rows whose reflectances have been overwritten by corrected ones.
CorrectedRows == 0..lastComputedL[T]["VAC"]

VflProcess == FlagAgain(final["VBM"] \ CorrectedRows)

VacProcess ==
  /\ Turn("process", "VAC")
  /\ Register("VAC", [s \in {T} |-> GetLastComputableL(T, "VAC")], << >>)
  /\ Compute("VAC", ComputableLines("VAC"), final["VFL"])
  /\ UNCHANGED <<segmentLineCount, product, file, ncFiles, manifest, composed>>

-----------------------------------------------------------------------------
(* Vco. *)

\* The map is added once and kept.
VcoStart ==
  /\ Turn("start", "VCO")
  /\ AddSegments([s \in {Map, Coord} \ DOMAIN grid |-> NewMap(s)])
  /\ UNCHANGED <<lastComputedL, firstRequiredL, dataVars, composed>>
  /\ StartNext

\* The source rows of row l of the map that are compared with the map: those
\* sensed within the time range of the job order.
ComparedRows(l) == ComputedRows(l) \cap product.inTime

VcoComposes ==
  /\ MayMap
  /\ ~MapThrows([l \in MapLines |-> ComparedRows(l)])
  /\ RegisterMapped
  /\ LET compared == UNION {{<<l, source, r>> : r \in ComparedRows(l)} : l \in MapLines}
     IN composed' = composed \cup {c \in compared : c[3] \in final["VAC"]}
  /\ UNCHANGED dataVars

\* Mutant: the progress of the last source stays.
VcoStopKeepsProgress ==
  /\ Turn("stop", "VCO")
  /\ UNCHANGED <<contextVars, dataVars, composed>>
  /\ StopNext

\* The map stays, but the next source starts with its first row again.
VcoStop ==
  /\ Turn("stop", "VCO")
  /\ lastComputedL' = [lastComputedL EXCEPT ![Map]["VCO"] = None]
  /\ UNCHANGED <<grid, firstRequiredL, dataVars, composed>>
  /\ StopNext

-----------------------------------------------------------------------------
IsFaulty == ColIsFaulty \/ (MayMap /\ MapThrows([l \in MapLines |-> ComparedRows(l)]))

RuntimeError ==
  /\ IsFaulty
  /\ Throw
  /\ UNCHANGED <<dataVars, composed>>

Init ==
  /\ TaskInit
  /\ composed = {}

Common ==
  \/ ReaderStart \/ ColStart \/ WriterStart("VGT_WRITER")
  \/ \E m \in {"PCL", "VBM", "VFL", "VAC", "MANIFEST"} : IdleStart(m)
  \/ ReaderProcess \/ ColProcess \/ PclProcess \/ IdleProcess("MANIFEST")
  \/ MoveSegmentsForward /\ UNCHANGED dataVars
  \/ ManifestStop \/ WriterStop("VGT_WRITER") \/ ColStop \/ ReaderStop
  \/ \E m \in {"VAC", "VFL", "VBM", "PCL"} : IdleStop(m)
  \/ IOError
  \/ Exited /\ UNCHANGED dataVars

Next ==
  \/ Common /\ UNCHANGED composed
  \/ VcoStart \/ VbmProcess \/ VflProcess \/ VacProcess
  \/ MapCompletes \/ MapWaits \/ VcoComposes
  \/ VgtWriterProcess({Map, Coord}, composed)
  \/ VcoStop
  \/ RuntimeError

\* The program is one thread: it takes its next step.
Spec == Init /\ [][Next]_vars /\ WF_vars(Next)

-----------------------------------------------------------------------------
(* Properties. *)

\* The program is in one of its states.
TypeOK ==
  /\ MappingTypeOK
  /\ file \subseteq Mapped

\* The modules that register rows of the SYN grid register them only when they
\* have been computed from final rows that were in memory.
RegisteredRowsAreFinal == RegisteredAreFinal({"COL", "PCL", "VBM", "VAC"})

\* What Vco finds for the map in the source product and in the time range.
Wanted == {c \in Found(product) : c[3] \in product.inTime}

\* When the modules are stopped, the map in the target files holds every pixel
\* that Vco finds for the map in this source product, computed from final
\* rows, and all that was composed from the sources before: although Vco only
\* sees a window at a time, gives up rows it has passed, and the files of the
\* previous source are truncated.
CompositeIsComplete ==
  phase = "stop" => Wanted \subseteq composed /\ file = composed

\* The program throws at the edges of the map only (see Mapping).
OnlyTheEdgesThrow == ThrowsAtTheEdgesOnly(IsFaulty)
=============================================================================
