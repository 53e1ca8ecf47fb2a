-------------------------------- MODULE Task --------------------------------
(***************************************************************************)
(* What the tasks of the synergy processors have in common: the reader,    *)
(* the collocation and the pixel classification at the head of the         *)
(* pipeline, the files of the target product at its end, and failures.     *)
(*                                                                         *)
(* Only rows are modelled.  What a module puts into a row is abstracted to *)
(* whether it is final: computed from final rows, all of which were in     *)
(* memory when they were read.  Columns and cameras are left out.          *)
(***************************************************************************)
EXTENDS Processor

CONSTANTS
  LineCounts,        \* the values of Segment_Line_Count
  Products,          \* the source products a job order may name
  MayFail            \* whether files and disks may fail

ASSUME TaskAssumption ==
  /\ LineCounts \subseteq Nat \ {0}
  /\ MayFail \in BOOLEAN

VARIABLES
  segmentLineCount,   \* Segment_Line_Count of the job order
  product,            \* the source product: rows and collocation of its lines
  final,              \* module -> the rows it has computed for good
  file,               \* what the target files hold that is final
  ncFiles,            \* the state of the target files
  manifest            \* the state the files were in when they were summed

dataVars == <<segmentLineCount, product, final, file, ncFiles, manifest>>

\* OLC_INFO, SLN_INFO and SLO_INFO are one segment INFO, and OLC_TP, SLN_TP,
\* SLO_TP and OLC_TIME one segment TP: they are treated alike.
SourceSegments == {"OLC", "OLC_MIS", "SLN", "SLO", "GEO", "INFO", "TP"}
T == "SYN_COLLOCATED"

\* The segments the collocation reads.
ColSources == {"OLC", "SLN", "SLO"}

\* Source segments have rows, and a line of OLCI is collocated to rows that the
\* source segments have.
ASSUME ProductsAssumption ==
  \A p \in Products :
    /\ p.rows \in [SourceSegments -> Nat \ {0}]
    /\ \A s \in ColSources :
         p.sources[s] \in [0..(p.rows["OLC"] - 1) -> SUBSET (0..(p.rows[s] - 1))]

NothingFinal == [m \in Module |-> {}]
NoProduct == [rows |-> [s \in SourceSegments |-> 0]]

\* Module m ends its turn and sets its rows: last and first are functions from
\* segments to the last computed and the first required rows it sets.  The
\* context throws if a row is invalid; what was set before does not matter
\* then, since the program ends.
Register(m, last, first) ==
  \/ /\ \A s \in DOMAIN last : ~IsInvalidRow(s, m, last[s])
     /\ lastComputedL' = Registered(lastComputedL, m, last)
     /\ firstRequiredL' = Registered(firstRequiredL, m, first)
     /\ UNCHANGED grid
     /\ ProcessNext
  \/ /\ \E s \in DOMAIN last : IsInvalidRow(s, m, last[s])
     /\ Throw

\* Stage st has computed the rows of lines, and those in good are final.
Compute(st, lines, good) ==
  final' = [final EXCEPT ![st] = (@ \ lines) \cup (lines \cap good)]

\* OLC_MIS is set along with OLC, if it has more than one row.
WithMis(segs) == IF grid["OLC_MIS"].sizeL > 1 THEN segs \cup {"OLC_MIS"} ELSE segs

-----------------------------------------------------------------------------
(* SynL1Reader. *)

GetSegmentSize(s, rowCount) ==
  IF s = "GEO" THEN rowCount ELSE Smaller(rowCount, segmentLineCount)

ReaderStart ==
  /\ Turn("start", "READER")
  /\ \E p \in Products :
       /\ product' = p
       /\ AddSegments([s \in SourceSegments \ DOMAIN grid |->
                         NewGrid(GetSegmentSize(s, p.rows[s]), p.rows[s] - 1)])
  /\ UNCHANGED <<lastComputedL, firstRequiredL>>
  /\ UNCHANGED <<segmentLineCount, final, file, ncFiles, manifest>>
  /\ StartNext

\* The segments whose window holds rows that have not been read.
Unread ==
  {s \in SourceSegments :
     ~HasLastComputedL(s, "READER") \/ GetLastComputedL(s, "READER") < MaxInMemoryL(s)}

ReaderProcess ==
  /\ Turn("process", "READER")
  /\ Register("READER", [s \in Unread |-> MaxInMemoryL(s)], << >>)
  /\ UNCHANGED dataVars

\* Mutant: the segment GEO is not removed.
ReaderStopWithoutGeo ==
  /\ Turn("stop", "READER")
  /\ RemoveSegments(SourceSegments \ {"GEO"})
  /\ final' = NothingFinal
  /\ UNCHANGED <<segmentLineCount, product, file, ncFiles, manifest>>
  /\ StopNext

ReaderStop ==
  /\ Turn("stop", "READER")
  /\ RemoveSegments(SourceSegments)
  /\ final' = NothingFinal
  /\ UNCHANGED <<segmentLineCount, product, file, ncFiles, manifest>>
  /\ StopNext

-----------------------------------------------------------------------------
(* Col. *)

ColStart ==
  /\ Turn("start", "COL")
  /\ ~HasSegment(T)
  /\ AddSegments([s \in {T} |-> NewGrid(grid["OLC"].sizeL, grid["OLC"].maxL)])
  /\ UNCHANGED <<lastComputedL, firstRequiredL>>
  /\ UNCHANGED dataVars
  /\ StartNext

\* The lines of which a source row in the source grid has not been read.
UnreadLines ==
  {l \in GetFirstComputableL(T, "COL")..GetLastComputableL(T, "COL") :
     \E s \in ColSources : \E r \in product.sources[s][l] : r > GetLastComputableL(s, "COL")}

\* The loop runs up to and including the first of these lines, and the line
\* before it becomes the last one.
ColLastL ==
  IF UnreadLines = {} THEN GetLastComputableL(T, "COL") ELSE Min(UnreadLines) - 1

ColLines ==
  GetFirstComputableL(T, "COL")..Smaller(ColLastL + 1, GetLastComputableL(T, "COL"))

\* GridImpl::getIndex throws for a row that is not in memory.
ColThrows ==
  \E l \in ColLines :
    \/ ~IsInMemory("OLC", l)
    \/ grid["OLC_MIS"].sizeL > 1 /\ ~IsInMemory("OLC_MIS", l)
    \/ \E s \in ColSources : \E r \in product.sources[s][l] : r < grid[s].minInMemoryL

\* Mutant: the requirement is never lowered to a source row of the line.
ColRequiresNothingL(s, lines) == IF lines = {} THEN 0 ELSE MaxInMemoryL(s) + 1

\* The requirements are those of the last line of the loop; without a line
\* the entry of the map is created with the value 0.
ColRequiredL(s, lines) ==
  IF lines = {} THEN 0
  ELSE Min(product.sources[s][Max(lines)] \cup {MaxInMemoryL(s) + 1})

ColProcess ==
  /\ Turn("process", "COL")
  /\ ~ColThrows
  /\ \E lines \in {ColLines}, lastL \in {ColLastL} :
       /\ Register("COL", [s \in {T} |-> lastL],
            [s \in WithMis({"OLC", "SLN", "SLO", T}) |->
               IF s \in {"SLN", "SLO"} THEN ColRequiredL(s, lines)
               ELSE Smaller(ColRequiredL("OLC", lines), lastL)])
       /\ Compute("COL", lines, 0..lastL)
  /\ UNCHANGED <<segmentLineCount, product, file, ncFiles, manifest>>

ColStop ==
  /\ Turn("stop", "COL")
  /\ RemoveSegments({T})
  /\ UNCHANGED dataVars
  /\ StopNext

-----------------------------------------------------------------------------
(* Pcl computes every row the context lets it. *)

ComputableLines(m) == GetFirstComputableL(T, m)..GetLastComputableL(T, m)

PclProcess ==
  /\ Turn("process", "PCL")
  /\ Register("PCL", [s \in {T} |-> GetLastComputableL(T, "PCL")], << >>)
  /\ Compute("PCL", ComputableLines("PCL"), final["COL"])
  /\ UNCHANGED <<segmentLineCount, product, file, ncFiles, manifest>>

-----------------------------------------------------------------------------
(* AbstractWriter and ManifestWriter. *)

\* Mutant: the files of the previous source product are kept.
WriterStartAppends(w) ==
  /\ Turn("start", w)
  /\ ncFiles' = "open"
  /\ UNCHANGED contextVars
  /\ UNCHANGED <<segmentLineCount, product, final, file, manifest>>
  /\ StartNext

\* Creating a file truncates what an earlier source product left there.
WriterStart(w) ==
  /\ Turn("start", w)
  /\ file' = {}
  /\ ncFiles' = "open"
  /\ UNCHANGED contextVars
  /\ UNCHANGED <<segmentLineCount, product, final, manifest>>
  /\ StartNext

WriterStop(w) ==
  /\ Turn("stop", w)
  /\ ncFiles' = "closed"
  /\ UNCHANGED contextVars
  /\ UNCHANGED <<segmentLineCount, product, final, file, manifest>>
  /\ StopNext

ManifestStop ==
  /\ Turn("stop", "MANIFEST")
  /\ manifest' = ncFiles
  /\ UNCHANGED contextVars
  /\ UNCHANGED <<segmentLineCount, product, final, file, ncFiles>>
  /\ StopNext

-----------------------------------------------------------------------------
(* Modules that only add variables when they are started, that have        *)
(* nothing to process, or nothing to stop.                                 *)

IdleStart(m) ==
  /\ Turn("start", m)
  /\ UNCHANGED <<contextVars, dataVars>>
  /\ StartNext

IdleProcess(m) ==
  /\ Turn("process", m)
  /\ UNCHANGED <<contextVars, dataVars>>
  /\ ProcessNext

IdleStop(m) ==
  /\ Turn("stop", m)
  /\ UNCHANGED <<contextVars, dataVars>>
  /\ StopNext

\* The collocation throws: the segment it adds is there already, or a row it
\* reads is not in memory.
ColIsFaulty ==
  \/ Turn("start", "COL") /\ HasSegment(T)
  \/ Turn("process", "COL") /\ ColThrows

\* A file cannot be read or written.
IOError ==
  /\ MayFail
  /\ phase \in {"start", "process", "stop"}
  /\ Throw
  /\ UNCHANGED dataVars

-----------------------------------------------------------------------------
TaskInit ==
  /\ ProcessorInit
  /\ segmentLineCount \in LineCounts
  /\ product = NoProduct
  /\ final = NothingFinal
  /\ file = {}
  /\ ncFiles = "none"
  /\ manifest = "none"

Rows(p) == 0..(p.rows["OLC"] - 1)

TaskTypeOK ==
  /\ ProcessorTypeOK
  /\ segmentLineCount \in LineCounts
  /\ product \in Products \cup {NoProduct}
  /\ final \in [Module -> SUBSET Nat]
  /\ product # NoProduct => \A m \in Module : final[m] \subseteq Rows(product)
  /\ ncFiles \in {"none", "open", "closed"}
  /\ manifest \in {"none", "open", "closed"}

\* The windows of OLC and SYN_COLLOCATED slide together, whoever requires which
\* of their rows ("needed for synchronizing OLC and SYN_COLLOCATED", Ave.cpp,
\* Vco.cpp and Vpr.cpp): a row of OLC is read as the row of SYN_COLLOCATED that
\* has the same number.
SegmentsAreSynchronized ==
  HasSegment(T) => grid[T].minInMemoryL = grid["OLC"].minInMemoryL

\* What the collocation relies on, in a product of which the first k lines are
\* collocated from the first n rows.  Later lines need no row 0 (a requirement
\* of 0 reads like none), and rows do not run backwards there; OLCI channels are
\* displaced by less than a window; the misregistration is given for all lines
\* or for the whole product.
Collocates(p, n, k) ==
  /\ \A s \in ColSources : \A l \in Rows(p) :
       /\ l < k => p.sources[s][l] \subseteq 0..(n - 1)
       /\ l + 1 >= k =>
            /\ 0 \notin p.sources[s][l]
            /\ \A j \in Rows(p) : \A r \in p.sources[s][j] :
                 l < j => \E q \in p.sources[s][l] : q <= r
  /\ \A l \in Rows(p) : \A r \in p.sources["OLC"][l] : l - r < n - 1
  /\ p.rows["OLC_MIS"] \in {1, p.rows["OLC"]}

\* The program returns: the windows slide to the end of the product.
Terminates == <>(phase \in {"done", "failed"})
=============================================================================
