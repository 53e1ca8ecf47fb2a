-------------------------------- MODULE Syl2 --------------------------------
(***************************************************************************)
(* The SYN L2 task (tasks/syl2): after the collocation and the pixel       *)
(* classification of Task come averaging, aerosol retrieval, aerosol       *)
(* interpolation and atmospheric correction, and the writer of the SY2     *)
(* product.  The retrieval and the radiative transfer are left out.        *)
(***************************************************************************)
EXTENDS Task

CONSTANTS
  AveragingFactor,   \* ave_square of the auxiliary data
  FillDistance       \* the n of Aer::process, in averaged lines

ASSUME Syl2Assumption ==
  /\ AveragingFactor \in Nat \ {0}
  /\ FillDistance \in Nat

vars == <<contextVars, controlVars, dataVars>>

Syl2Pipeline == <<"READER", "COL", "PCL", "AVE", "AER", "AEI", "ACO", "WRITER", "MANIFEST">>

Avg == "SYN_AVERAGED"
Syl2Segment == SourceSegments \cup {T, Avg}

ASSUME TaskIsSyl2 == Pipeline = Syl2Pipeline /\ Segment = Syl2Segment

\* The segments of the SY2 product.
WrittenSegments == {T, "GEO", "TP"}

Stage == {"COL", "PCL", "AVE", "AER", "AEI", "ACO"}

-----------------------------------------------------------------------------
(* Ave. *)

\* The averaged segment is held as a whole.
AveStart ==
  LET maxL == (grid[T].maxL + AveragingFactor) \div AveragingFactor - 1
  IN /\ Turn("start", "AVE")
     /\ ~HasSegment(Avg)
     /\ AddSegments([s \in {Avg} |-> NewGrid(maxL + 1, maxL)])
     /\ UNCHANGED <<lastComputedL, firstRequiredL>>
     /\ UNCHANGED dataVars
     /\ StartNext

\* The lines that are averaged, except those beyond the end of the segment.
AveragedRows(l) ==
  (l * AveragingFactor)..Smaller((l + 1) * AveragingFactor - 1, grid[T].maxL)

AveLastL ==
  LET lastSourceL == GetLastComputableL(T, "AVE")
      lines       == (lastSourceL + 1) \div AveragingFactor
  IN Smaller(IF lastSourceL < grid[T].maxL THEN lines - 1 ELSE lines,
             GetLastComputableL(Avg, "AVE"))

AveProcess ==
  /\ Turn("process", "AVE")
  /\ Register("AVE", [s \in {Avg} |-> AveLastL],
       [s \in WithMis({T, "OLC"}) |-> (AveLastL + 1) * AveragingFactor])
  /\ Compute("AVE", GetFirstComputableL(Avg, "AVE")..AveLastL,
       {l \in 0..grid[Avg].maxL :
          \A r \in AveragedRows(l) : IsInMemory(T, r) /\ r \in final["PCL"]})
  /\ UNCHANGED <<segmentLineCount, product, file, ncFiles, manifest>>

AveStop ==
  /\ Turn("stop", "AVE")
  /\ RemoveSegments({Avg})
  /\ UNCHANGED dataVars
  /\ StopNext

-----------------------------------------------------------------------------
(* Aer retrieves every line it can and then fills the gaps of those lines  *)
(* that have all their neighbours up to the fill distance.                 *)

\* Mutant: lines are filled before their neighbours are retrieved.
AerLastRetrievedL == GetLastComputableL(Avg, "AER")

AerLastFillableL ==
  LET lastL == GetLastComputableL(Avg, "AER")
  IN IF lastL < grid[Avg].maxL THEN lastL - FillDistance ELSE lastL

Neighbours(l) == (l - FillDistance)..(l + FillDistance) \cap 0..grid[Avg].maxL

AerProcess ==
  /\ Turn("process", "AER")
  /\ Register("AER", [s \in {Avg} |-> AerLastFillableL], << >>)
  /\ Compute("AER", GetFirstComputableL(Avg, "AER")..AerLastFillableL,
       {l \in 0..grid[Avg].maxL :
          \A k \in Neighbours(l) : k <= GetLastComputableL(Avg, "AER") /\ k \in final["AVE"]})
  /\ UNCHANGED <<segmentLineCount, product, file, ncFiles, manifest>>

-----------------------------------------------------------------------------
(* Aei interpolates between two averaged lines. *)

MinMax(x, min, max) == IF x < min THEN min ELSE IF x > max THEN max ELSE x

SourceL0(l) ==
  MinMax(Larger(l - AveragingFactor \div 2, 0) \div AveragingFactor, 0, grid[Avg].maxL - 1)

AeiLastL ==
  Min({GetLastComputableL(T, "AEI")} \cup
      {l - 1 : l \in {k \in ComputableLines("AEI") :
                        SourceL0(k) + 1 > GetLastComputableL(Avg, "AEI")}})

AeiLines == GetFirstComputableL(T, "AEI")..AeiLastL

\* An averaged segment of one row has no second line to interpolate with.
AeiThrows == \E l \in AeiLines : SourceL0(l) < 0

\* Mutant: rows are required of no segment.
AeiRequiresNothing == {}

AeiRequires == WithMis({"OLC"})

AeiProcess ==
  /\ Turn("process", "AEI")
  /\ ~AeiThrows
  /\ Register("AEI", [s \in {T} |-> AeiLastL],
       [s \in AeiRequires |-> AeiLastL + 1])
  /\ Compute("AEI", AeiLines,
       {l \in final["PCL"] : {SourceL0(l), SourceL0(l) + 1} \subseteq final["AER"]})
  /\ UNCHANGED <<segmentLineCount, product, file, ncFiles, manifest>>

-----------------------------------------------------------------------------
(* Aco computes every row the context lets it. *)

AcoProcess ==
  /\ Turn("process", "ACO")
  /\ Register("ACO", [s \in {T} |-> GetLastComputableL(T, "ACO")], << >>)
  /\ Compute("ACO", ComputableLines("ACO"), final["AEI"])
  /\ UNCHANGED <<segmentLineCount, product, file, ncFiles, manifest>>

-----------------------------------------------------------------------------
(* SynL2Writer. *)

\* Every row in memory is written, whether it is final or not.
WriterProcess ==
  LET inMemory == grid[T].minInMemoryL..MaxInMemoryL(T)
  IN /\ Turn("process", "WRITER")
     /\ Register("WRITER", [s \in WrittenSegments |-> MaxInMemoryL(s)], << >>)
     /\ file' = (file \ inMemory) \cup (inMemory \cap final["ACO"])
     /\ UNCHANGED <<segmentLineCount, product, final, ncFiles, manifest>>

-----------------------------------------------------------------------------
\* A module or the context throws: a row is not in memory, or a segment is
\* there already.
IsFaulty ==
  \/ ColIsFaulty
  \/ Turn("start", "AVE") /\ HasSegment(Avg)
  \/ Turn("process", "AEI") /\ AeiThrows

RuntimeError ==
  /\ IsFaulty
  /\ Throw
  /\ UNCHANGED dataVars

-----------------------------------------------------------------------------
Init == TaskInit

Next ==
  \/ ReaderStart \/ ColStart \/ AveStart \/ WriterStart("WRITER")
  \/ \E m \in {"PCL", "AER", "AEI", "ACO", "MANIFEST"} : IdleStart(m)
  \/ ReaderProcess \/ ColProcess \/ PclProcess \/ AveProcess \/ AerProcess
  \/ AeiProcess \/ AcoProcess \/ WriterProcess \/ IdleProcess("MANIFEST")
  \/ MoveSegmentsForward /\ UNCHANGED dataVars
  \/ ManifestStop \/ WriterStop("WRITER") \/ AveStop \/ ColStop \/ ReaderStop
  \/ \E m \in {"ACO", "AEI", "AER", "PCL"} : IdleStop(m)
  \/ RuntimeError
  \/ IOError
  \/ Exited /\ UNCHANGED dataVars

\* The program is one thread: it takes its next step.
Spec == Init /\ [][Next]_vars /\ WF_vars(Next)

-----------------------------------------------------------------------------
(* Properties. *)

\* The program is in one of its states; rows that are final exist.
TypeOK ==
  /\ TaskTypeOK
  /\ file \subseteq Nat

\* How long windows must be for the modules not to wait for each other: Aer
\* fills a line only when it has FillDistance lines behind it, and Aei wants
\* two lines.  So many rows of the first window have to be collocated without
\* a source row that lies behind the window, or else the product is shorter.
NeededRows == (FillDistance + 2) * AveragingFactor

LongWindows ==
  /\ AveragingFactor > 1
  /\ \A n \in LineCounts, p \in Products :
       /\ NeededRows <= n \/ p.rows["OLC"] <= n
       /\ \A s \in ColSources : \A l \in Rows(p) :
            l < NeededRows => p.sources[s][l] \subseteq 0..(n - 1)

\* The lines behind those for which the windows are long enough need rows in
\* the order in which the windows slide.
OrderedCollocation == \A n \in LineCounts, p \in Products : Collocates(p, n, NeededRows)

\* A module registers a row as computed only if the row is final: every row it
\* depends on, in this segment or another, was final and in memory.  Nothing
\* in the code states this; it follows from the first required rows the
\* modules set for each other's segments and from the order of the pipeline.
RegisteredRowsAreFinal ==
  \A s \in {T, Avg} \cap DOMAIN grid : \A m \in Stage :
    0..lastComputedL[s][m] \subseteq final[m]

\* A row that has left memory has reached the target files with everything
\* computed, although AbstractWriter::process writes unfinished rows as well,
\* and when the modules are stopped the whole product has.
FinalRowsReachTheFile ==
  /\ HasSegment(T) => 0..(grid[T].minInMemoryL - 1) \subseteq file
  /\ phase = "stop" => file = Rows(product)

\* The exit codes of success and of incomplete processing are returned only
\* when all rows of the last source product have been written to the target
\* files in their final form, whatever failed and wherever.  The code for
\* incomplete processing is given to exceptions thrown while modules are
\* stopped (MultiSourceProcessor::process), when closing the files, summing
\* them and writing the manifest is all that is left to do.
ExitCodeIsTrue == exitCode \in {OK, INCOMPLETE} => file = Rows(product)

\* No module reads a row that has left memory or registers a row the context
\* refuses, although every module sets its requirements for its own needs
\* only.  The one exception is a product so short that a single line is
\* averaged: Aei then looks for a line before the first one.
OnlyOneAveragedLineThrows ==
  IsFaulty => Turn("process", "AEI") /\ grid[Avg].sizeL = 1

\* The task keeps the contract of the modules and so implements Scheduler.
Syl2Adds ==
  [m \in Module |-> CASE m = "READER" -> SourceSegments
                     [] m = "COL"    -> {T}
                     [] m = "AVE"    -> {Avg}
                     [] OTHER        -> {}]

Syl2Works ==
  [m \in Module |-> CASE m = "READER"                      -> SourceSegments
                     [] m \in {"COL", "PCL", "AEI", "ACO"} -> {T}
                     [] m \in {"AVE", "AER"}               -> {Avg}
                     [] m = "WRITER"                      -> WrittenSegments
                     [] OTHER                             -> {}]

Sched == INSTANCE Scheduler WITH
  Adds <- Syl2Adds, Works <- Syl2Works, Rewriters <- {"WRITER"}

KeepsTheContract == Sched!Spec

\* The manifest holds the checksums of the files as they are delivered.
ManifestSumsClosedFiles == phase = "done" => manifest = "closed"
=============================================================================
