----------------------------- MODULE Scheduler -----------------------------
(***************************************************************************)
(* What the context and the main loop promise to modules that keep the     *)
(* contract of core/Module.h, whatever else these modules do.              *)
(*                                                                         *)
(* A module adds its segments when it is started and removes them when it  *)
(* is stopped.  Each time it processes, it computes a prefix of the rows   *)
(* the context says it can compute and registers the last one, for each of *)
(* the segments it works on, and it may set any first required rows.       *)
(*                                                                         *)
(* The specification is abstract: the pipelines of the repository          *)
(* implement it.                                                           *)
(***************************************************************************)
EXTENDS Processor

CONSTANTS
  Adds,       \* module -> the segments it adds when it is started
  Works,      \* module -> the segments whose progress it registers
  Rewriters   \* modules that handle the whole window each time, complete or not

Owned == UNION {Adds[m] : m \in Module}

ASSUME ContractAssumption ==
  /\ Adds \in [Module -> SUBSET Segment]
  /\ Works \in [Module -> SUBSET Segment]
  /\ \A m, p \in Module : m # p => Adds[m] \cap Adds[p] = {}
  /\ \A m \in Module : Works[m] \subseteq Owned
  /\ Rewriters \subseteq Module

vars == <<contextVars, controlVars>>

-----------------------------------------------------------------------------
\* The module adds its segments, of any valid shape.
Start(m) ==
  /\ Turn("start", m)
  /\ Adds[m] \cap DOMAIN grid = {}
  /\ DOMAIN grid' = DOMAIN grid \cup Adds[m]
  /\ grid' \in [DOMAIN grid' -> Grid]
  /\ \A s \in DOMAIN grid : grid'[s] = grid[s]
  /\ \A s \in Adds[m] : grid'[s].minInMemoryL = 0 /\ IsValidShape(grid'[s])
  /\ UNCHANGED <<lastComputedL, firstRequiredL>>
  /\ StartNext

\* The rows the contract lets module m register for segment s: no row before
\* the one it has registered, none beyond what it can compute, and a row that
\* the context does not mistake for no row.
MayRegister(m, s, l) ==
  /\ l >= lastComputedL[s][m]
  /\ l <= IF m \in Rewriters THEN MaxInMemoryL(s) ELSE GetLastComputableL(s, m)
  /\ l > 0 \/ (l = 0 /\ MaxInMemoryL(s) = 0)

Process(m) ==
  /\ Turn("process", m)
  /\ Works[m] \subseteq DOMAIN grid
  /\ lastComputedL' \in [Segment -> [Module -> Entry]]
  /\ firstRequiredL' \in [Segment -> [Module -> Entry]]
  /\ \A s \in Segment : \A p \in Module :
       \/ p = m /\ s \in Works[m]
       \/ lastComputedL'[s][p] = lastComputedL[s][p]
  /\ \A s \in Works[m] : MayRegister(m, s, lastComputedL'[s][m])
  /\ \A s \in Segment : \A p \in Module \ {m} :
       firstRequiredL'[s][p] = firstRequiredL[s][p]
  /\ UNCHANGED grid
  /\ ProcessNext

Stop(m) ==
  /\ Turn("stop", m)
  /\ RemoveSegments(Adds[m])
  /\ StopNext

\* Any call of a module may throw: a file is missing, a disk is full.
Fail ==
  /\ phase \in {"start", "process", "stop"}
  /\ Throw

Init == ProcessorInit

Next ==
  \/ \E m \in Module : Start(m) \/ Process(m) \/ Stop(m)
  \/ MoveSegmentsForward
  \/ Fail
  \/ Exited

Spec == Init /\ [][Next]_vars

-----------------------------------------------------------------------------
TypeOK == ProcessorTypeOK

\* No row leaves memory before every module that works on the segment has
\* computed it: a window starts at most one row behind the slowest module.
\* Context::moveForward takes the minimum over the registered modules, which
\* is the minimum over all of them only if none is missing from the map.
NoRowLost ==
  \A m \in Module : \A s \in Works[m] \cap DOMAIN grid :
     grid[s].minInMemoryL <= lastComputedL[s][m] + 1

\* A module never gets ahead of a module that comes before it in the pipeline
\* and works on the same segment.  Modules read what their predecessors left
\* in the row, and Context::getLastComputableL is all that holds them back.
PipelineOrder ==
  \A m \in Module \ Rewriters : \A p \in Predecessors(m) :
     \A s \in Works[m] \cap Works[p] : lastComputedL[s][m] <= lastComputedL[s][p]

\* Once a source product is completed, every module has computed every row of
\* every segment it works on, up to the last row.
StopsWhenComputed ==
  \A m \in Module : \A s \in Works[m] \cap DOMAIN grid :
     phase = "stop" => lastComputedL[s][m] = grid[s].maxL

\* The program returns with no segment left behind, and between two source
\* products the context is as empty as it was when the program began.
NothingLeftBehind ==
  phase = "done" \/ (phase = "start" /\ at = 1) =>
    /\ DOMAIN grid = {}
    /\ \A s \in Segment : lastComputedL[s] = NoEntries

\* A window never slides back, and what a module has computed stays computed,
\* as long as the segment is in the context.
ProgressIsKept ==
  [][\A s \in DOMAIN grid \cap DOMAIN grid' :
       /\ grid'[s].minInMemoryL >= grid[s].minInMemoryL
       /\ \A m \in Module : lastComputedL'[s][m] >= lastComputedL[s][m]]_vars
=============================================================================
