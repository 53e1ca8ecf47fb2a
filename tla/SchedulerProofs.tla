-------------------------- MODULE SchedulerProofs --------------------------
(***************************************************************************)
(* Proofs about Scheduler, for any pipeline, any segments and any number   *)
(* of source products: the windows stay within their segments, no row      *)
(* leaves memory before it is computed, no module overtakes a predecessor, *)
(* and a completed source product is computed to its last row and leaves   *)
(* nothing behind.                                                         *)
(***************************************************************************)
EXTENDS Scheduler, WellFoundedInduction, TLAPS

-----------------------------------------------------------------------------
(* Lemmas about the operators of the context. *)

\* The minimum of a set of rows, from the well-foundedness of < on Nat.
LEMMA MinIsLeast ==
  ASSUME NEW T \in SUBSET Nat, T # {}
  PROVE  Min(T) \in T /\ \A y \in T : Min(T) <= y
<1>1. PICK x \in T : \A y \in T : ~ (<<y, x>> \in OpToRel(<, Nat))
  BY NatLessThanWellFounded, WFMin
<1>2. \A y \in T : ~ (y < x)
  BY <1>1 DEF OpToRel
<1>3. \A y \in T : x <= y
  BY <1>2
<1>. QED
  BY <1>3 DEF Min

\* The pipeline is a nonempty sequence of modules.
LEMMA PipelineFacts ==
  /\ Len(Pipeline) \in Nat \ {0}
  /\ DOMAIN Pipeline = 1..Len(Pipeline)
  /\ \A i \in DOMAIN Pipeline : Pipeline[i] \in Module
  /\ \A m \in Module : \E i \in DOMAIN Pipeline : Pipeline[i] = m
BY PipelineAssumption DEF Module, Range

\* A predecessor of the module whose turn it is has had its turn.
LEMMA PredecessorsCameBefore ==
  ASSUME NEW i \in DOMAIN Pipeline, NEW p \in Predecessors(Pipeline[i])
  PROVE  /\ p \in Module
         /\ p # Pipeline[i]
         /\ \E j \in DOMAIN Pipeline : j < i /\ Pipeline[j] = p
<1>1. PICK j \in DOMAIN Pipeline : /\ p = Pipeline[j]
                                   /\ \A h \in 1..j : Pipeline[h] # Pipeline[i]
  BY DEF Predecessors
<1>2. j < i
  BY <1>1, PipelineFacts
<1>3. p # Pipeline[i]
  BY <1>1, PipelineFacts
<1>. QED
  BY <1>1, <1>2, <1>3, PipelineFacts

\* The window of a segment in the context, as far as its type says.
LEMMA WindowType ==
  ASSUME ContextTypeOK, NEW s \in DOMAIN grid
  PROVE  /\ s \in Segment
         /\ grid[s] \in Grid
         /\ grid[s].sizeL \in Nat \ {0}
         /\ grid[s].maxL \in Nat
         /\ grid[s].minInMemoryL \in Nat
         /\ MaxInMemoryL(s) \in Nat
         /\ MaxInMemoryL(s) = grid[s].minInMemoryL + grid[s].sizeL - 1
<1>1. s \in Segment /\ grid[s] \in Grid
  BY DEF ContextTypeOK
<1>2. /\ grid[s].sizeL \in Nat \ {0}
      /\ grid[s].maxL \in Nat
      /\ grid[s].minInMemoryL \in Nat
  BY <1>1 DEF Grid
<1>. QED
  BY <1>1, <1>2 DEF MaxInMemoryL

\* What getLastComputableL returns lies in memory and is not beyond the row of
\* any predecessor that has registered one.
LEMMA LastComputable ==
  ASSUME ContextTypeOK, NEW s \in DOMAIN grid, NEW m \in Module
  PROVE  /\ GetLastComputableL(s, m) \in Nat
         /\ GetLastComputableL(s, m) <= MaxInMemoryL(s)
         /\ GetLastComputableL(s, m) <= grid[s].maxL
         /\ \A p \in Predecessors(m) :
              lastComputedL[s][p] > 0 => GetLastComputableL(s, m) <= lastComputedL[s][p]
<1> DEFINE bound == Smaller(MaxInMemoryL(s), grid[s].maxL)
           T == {bound} \cup
                {lastComputedL[s][p] : p \in {q \in Predecessors(m) : HasLastComputedL(s, q)}}
<1>1. bound \in Nat /\ bound <= MaxInMemoryL(s) /\ bound <= grid[s].maxL
  BY WindowType DEF Smaller
<1>2. \A p \in Module : lastComputedL[s][p] \in Entry
  BY WindowType DEF ContextTypeOK
<1>3. Predecessors(m) \subseteq Module
  BY PipelineFacts DEF Predecessors
<1>4. T \in SUBSET Nat
  BY <1>1, <1>2, <1>3 DEF HasLastComputedL, Entry, None
<1>5. Min(T) \in Nat /\ \A y \in T : Min(T) <= y
  BY <1>4, MinIsLeast
<1>6. Min(T) = GetLastComputableL(s, m)
  BY DEF GetLastComputableL
<1>7. \A p \in Predecessors(m) : lastComputedL[s][p] > 0 => lastComputedL[s][p] \in T
  BY DEF HasLastComputedL
<1>8. Min(T) <= bound
  BY <1>5
<1> HIDE DEF T, bound
<1>9. Min(T) <= MaxInMemoryL(s) /\ Min(T) <= grid[s].maxL
  BY <1>1, <1>5, <1>8, WindowType
<1>. QED
  BY <1>5, <1>6, <1>7, <1>9

\* The row a window is moved to lies in the window or directly behind it,
\* leaves room for a whole window and is at most one row behind any module
\* that has an entry.
LEMMA ForwardRow ==
  ASSUME ContextTypeOK, NEW s \in DOMAIN grid
  PROVE  /\ ForwardL(s) \in Int
         /\ ForwardL(s) <= MaxInMemoryL(s) + 1
         /\ ForwardL(s) <= grid[s].maxL - grid[s].sizeL + 1
         /\ \A m \in Module :
              lastComputedL[s][m] # None => ForwardL(s) <= lastComputedL[s][m] + 1
<1> DEFINE C == {MaxInMemoryL(s)} \cup
                {lastComputedL[s][m] : m \in {q \in Module : lastComputedL[s][q] # None}}
           bound == Smaller(MaxInMemoryL(s) + 1, grid[s].maxL)
           R == {bound} \cup
                {firstRequiredL[s][m] : m \in {q \in Module : HasFirstRequiredL(s, q)}}
<1>1. /\ \A m \in Module : lastComputedL[s][m] \in Entry
      /\ \A m \in Module : firstRequiredL[s][m] \in Entry
  BY WindowType DEF ContextTypeOK
<1>2. C \in SUBSET Nat
  BY <1>1, WindowType DEF Entry, None
<1>3. bound \in Nat
  BY WindowType DEF Smaller
<1>4. R \in SUBSET Nat
  BY <1>1, <1>3 DEF HasFirstRequiredL, Entry, None
<1>5. Min(C) \in Nat /\ \A y \in C : Min(C) <= y
  BY <1>2, MinIsLeast
<1>6. Min(R) \in Nat
  BY <1>4, MinIsLeast
<1>7. Min(C) = CommonlyComputedL(s) /\ Min(R) = GetFirstRequiredL(s)
  BY DEF CommonlyComputedL, GetFirstRequiredL
<1>8. /\ Min(C) <= MaxInMemoryL(s)
      /\ \A m \in Module : lastComputedL[s][m] # None => Min(C) <= lastComputedL[s][m]
  BY <1>5
<1> HIDE DEF C, R, bound
<1>9. /\ ForwardL(s) \in Int
      /\ ForwardL(s) <= Min(C) + 1
      /\ ForwardL(s) <= grid[s].maxL - grid[s].sizeL + 1
  BY <1>5, <1>6, <1>7, WindowType DEF ForwardL, Smaller
<1>10. \A m \in Module : lastComputedL[s][m] # None => lastComputedL[s][m] \in Nat
  BY <1>1 DEF Entry
<1>. QED
  BY <1>5, <1>8, <1>9, <1>10, WindowType

\* A moved window is a window of the same segment, no further back, and at
\* the row it was moved to if that row lies ahead.
LEMMA MovedWindow ==
  ASSUME ContextTypeOK, NEW s \in DOMAIN grid
  PROVE  /\ MovedGrid(s) \in Grid
         /\ MovedGrid(s).sizeL = grid[s].sizeL
         /\ MovedGrid(s).maxL = grid[s].maxL
         /\ MovedGrid(s).minInMemoryL \in Nat
         /\ MovedGrid(s).minInMemoryL >= grid[s].minInMemoryL
         /\ MovedGrid(s).minInMemoryL = grid[s].minInMemoryL \/ MovedGrid(s).minInMemoryL = ForwardL(s)
<1>1. Larger(grid[s].minInMemoryL, ForwardL(s)) \in Nat
  BY WindowType, ForwardRow DEF Larger
<1>. QED
  BY <1>1, WindowType, ForwardRow DEF MovedGrid, Larger, Grid

-----------------------------------------------------------------------------
(* Type correctness. *)

LEMMA InitType == Init => TypeOK
<1>. SUFFICES ASSUME Init PROVE TypeOK
  OBVIOUS
<1>1. NoEntries \in [Module -> Entry]
  BY DEF NoEntries, Entry, None
<1>2. ContextTypeOK
  <2>1. grid = [s \in {} |-> NewGrid(1, 0)]
    BY DEF Init, ProcessorInit, ContextInit
  <2>2. DOMAIN grid \subseteq Segment /\ grid \in [DOMAIN grid -> Grid]
    BY <2>1
  <2>3. /\ lastComputedL = [s \in Segment |-> NoEntries]
        /\ firstRequiredL = [s \in Segment |-> NoEntries]
    BY DEF Init, ProcessorInit, ContextInit
  <2>. QED
    BY <1>1, <2>2, <2>3 DEF ContextTypeOK
<1>3. 1 \in DOMAIN Pipeline
  BY PipelineFacts
<1>. QED
  BY <1>2, <1>3, SourcesAssumption DEF Init, ProcessorInit, TypeOK, ProcessorTypeOK, Phase

\* The control state keeps its type in the turn of a module.
LEMMA ControlType ==
  ASSUME TypeOK, StartNext \/ ProcessNext \/ StopNext
  PROVE  /\ phase' \in Phase
         /\ at' \in DOMAIN Pipeline
         /\ source' \in 1..Sources
         /\ exitCode' \in {Running, OK, INCOMPLETE, FAILURE}
<1>1. /\ phase \in Phase
      /\ at \in 1..Len(Pipeline)
      /\ source \in 1..Sources
      /\ exitCode \in {Running, OK, INCOMPLETE, FAILURE}
      /\ Len(Pipeline) \in Nat \ {0}
      /\ DOMAIN Pipeline = 1..Len(Pipeline)
  BY PipelineFacts DEF TypeOK, ProcessorTypeOK
<1>2. CASE StartNext
  <2>1. source' = source /\ exitCode' = exitCode
    BY <1>2 DEF StartNext
  <2>2. (at < Len(Pipeline) /\ at' = at + 1) \/ at' = 1
    BY <1>2 DEF StartNext
  <2>3. at' \in DOMAIN Pipeline
    BY <1>1, <2>2
  <2>4. phase' = phase \/ phase' = "process"
    BY <1>2 DEF StartNext
  <2>. QED
    BY <1>1, <2>1, <2>3, <2>4 DEF Phase
<1>3. CASE ProcessNext
  <2>1. source' = source /\ exitCode' = exitCode
    BY <1>3 DEF ProcessNext
  <2>2. (at < Len(Pipeline) /\ at' = at + 1) \/ at' = 1
    BY <1>3 DEF ProcessNext
  <2>3. at' \in DOMAIN Pipeline
    BY <1>1, <2>2
  <2>4. phase' = phase \/ phase' = "move"
    BY <1>3 DEF ProcessNext
  <2>. QED
    BY <1>1, <2>1, <2>3, <2>4 DEF Phase
<1>4. CASE StopNext
  BY <1>1, <1>4, SourcesAssumption DEF StopNext, Phase
<1>. QED
  BY <1>2, <1>3, <1>4

\* Removing segments keeps the types of the context and the entries of the
\* segments that stay.
LEMMA RemoveType ==
  ASSUME ContextTypeOK, NEW ids, RemoveSegments(ids)
  PROVE  /\ ContextTypeOK'
         /\ DOMAIN grid' = DOMAIN grid \ ids
         /\ \A s \in DOMAIN grid' : grid'[s] = grid[s]
         /\ \A s \in Segment \ ids : lastComputedL'[s] = lastComputedL[s]
         /\ \A s \in Segment \cap ids : lastComputedL'[s] = NoEntries
<1>1. NoEntries \in [Module -> Entry]
  BY DEF NoEntries, Entry, None
<1>2. /\ grid' = [s \in DOMAIN grid \ ids |-> grid[s]]
      /\ lastComputedL' = [s \in Segment |-> IF s \in ids THEN NoEntries ELSE lastComputedL[s]]
      /\ firstRequiredL' = [s \in Segment |-> IF s \in ids THEN NoEntries ELSE firstRequiredL[s]]
  BY DEF RemoveSegments
<1>3. /\ DOMAIN grid' = DOMAIN grid \ ids
      /\ \A s \in DOMAIN grid' : grid'[s] = grid[s]
  BY <1>2
<1>4. \A s \in DOMAIN grid : s \in Segment /\ grid[s] \in Grid
  BY WindowType
<1>5. DOMAIN grid' \subseteq Segment /\ grid' \in [DOMAIN grid' -> Grid]
  BY <1>2, <1>3, <1>4
<1>6. /\ lastComputedL' \in [Segment -> [Module -> Entry]]
      /\ firstRequiredL' \in [Segment -> [Module -> Entry]]
  BY <1>1, <1>2 DEF ContextTypeOK
<1>. QED
  BY <1>2, <1>3, <1>5, <1>6 DEF ContextTypeOK

LEMMA NextType == TypeOK /\ [Next]_vars => TypeOK'
<1>. SUFFICES ASSUME TypeOK, [Next]_vars PROVE TypeOK'
  OBVIOUS
<1>0. ContextTypeOK
  BY DEF TypeOK, ProcessorTypeOK
<1>1. ASSUME NEW m \in Module, Start(m) PROVE TypeOK'
  <2>1. ContextTypeOK'
    <3>1. DOMAIN grid' \subseteq Segment
      BY <1>0, <1>1, ContractAssumption DEF Start, ContextTypeOK
    <3>2. grid' \in [DOMAIN grid' -> Grid]
      BY <1>1 DEF Start
    <3>3. UNCHANGED <<lastComputedL, firstRequiredL>>
      BY <1>1 DEF Start
    <3>. QED
      BY <1>0, <3>1, <3>2, <3>3 DEF ContextTypeOK
  <2>2. StartNext
    BY <1>1 DEF Start
  <2>. QED
    BY <2>1, <2>2, ControlType DEF TypeOK, ProcessorTypeOK
<1>2. ASSUME NEW m \in Module, Process(m) PROVE TypeOK'
  <2>1. ContextTypeOK'
    BY <1>0, <1>2 DEF Process, ContextTypeOK
  <2>2. ProcessNext
    BY <1>2 DEF Process
  <2>. QED
    BY <2>1, <2>2, ControlType DEF TypeOK, ProcessorTypeOK
<1>3. ASSUME NEW m \in Module, Stop(m) PROVE TypeOK'
  <2>1. ContextTypeOK'
    BY <1>0, <1>3, RemoveType DEF Stop
  <2>2. StopNext
    BY <1>3 DEF Stop
  <2>. QED
    BY <2>1, <2>2, ControlType DEF TypeOK, ProcessorTypeOK
<1>4. CASE MoveSegmentsForward
  <2>1. grid' = [s \in DOMAIN grid |-> MovedGrid(s)]
    BY <1>4 DEF MoveSegmentsForward
  <2>2. \A s \in DOMAIN grid : MovedGrid(s) \in Grid
    BY <1>0, MovedWindow
  <2>3. ContextTypeOK'
    <3>1. DOMAIN grid' \subseteq Segment /\ grid' \in [DOMAIN grid' -> Grid]
      BY <1>0, <2>1, <2>2 DEF ContextTypeOK
    <3>. QED
      BY <1>0, <1>4, <3>1 DEF ContextTypeOK, MoveSegmentsForward
  <2>4. phase' \in Phase /\ at' \in DOMAIN Pipeline
    BY <1>4, PipelineFacts DEF MoveSegmentsForward, Phase
  <2>5. UNCHANGED <<source, exitCode>>
    BY <1>4 DEF MoveSegmentsForward
  <2>. QED
    BY <2>3, <2>4, <2>5 DEF TypeOK, ProcessorTypeOK
<1>5. CASE Fail
  BY <1>5 DEF Fail, Throw, ExitCodeOf, contextVars, TypeOK, ProcessorTypeOK, ContextTypeOK, Phase
<1>6. CASE UNCHANGED vars
  BY <1>6 DEF vars, contextVars, controlVars, TypeOK, ProcessorTypeOK, ContextTypeOK
<1>7. CASE Exited
  BY <1>6, <1>7 DEF Exited, vars
<1>. QED
  BY <1>1, <1>2, <1>3, <1>4, <1>5, <1>6, <1>7 DEF Next

\* Every variable of the context and of the main loop keeps its type; in
\* particular the index of the module whose turn it is stays within the
\* pipeline and no window starts before row 0 (Context.cpp, GridImpl.cpp).
THEOREM TypeCorrect == Spec => []TypeOK
<1>. QED
  BY InitType, NextType, PTL DEF Spec

-----------------------------------------------------------------------------
(* The inductive invariant. *)

\* A segment that is not in the context has no entries.
NoStrayEntries ==
  \A s \in Segment : s \notin DOMAIN grid => lastComputedL[s] = NoEntries

\* Nobody has computed rows that have never been in memory.
ComputedInReach ==
  \A s \in DOMAIN grid : \A m \in Module : lastComputedL[s][m] <= MaxInMemoryL(s)

\* While modules are started the segments in the context belong to modules
\* that have been started, and nothing is computed.
StartingFresh ==
  phase = "start" =>
    /\ \A s \in DOMAIN grid : \E i \in 1..(at - 1) : s \in Adds[Pipeline[i]]
    /\ \A s \in Segment : lastComputedL[s] = NoEntries

\* The entry of a module that has processed cannot be mistaken for no entry,
\* except in a window that holds row 0 only.
IsRegistered(m) ==
  \A s \in Works[m] :
     \/ lastComputedL[s][m] > 0
     \/ lastComputedL[s][m] = 0 /\ MaxInMemoryL(s) = 0

\* In a pass the modules that have had their turn are registered.
PassRegistered ==
  /\ phase = "process" => \A i \in 1..(at - 1) : IsRegistered(Pipeline[i])
  /\ phase = "move" => \A m \in Module : IsRegistered(m)

\* The segments that are still there while modules are stopped belong to
\* modules that have not been stopped.
StoppingOrder ==
  /\ phase = "stop" =>
       \A s \in DOMAIN grid : \E i \in 1..at : s \in Adds[Pipeline[i]]
  /\ phase = "done" => DOMAIN grid = {}

\* Every segment in the context has been added by a module of the pipeline.
OwnedOnly == DOMAIN grid \subseteq Owned

Windows ==
  \A s \in DOMAIN grid : IsValidShape(grid[s]) /\ MaxInMemoryL(s) <= grid[s].maxL

IInv ==
  /\ TypeOK
  /\ Windows
  /\ OwnedOnly
  /\ NoStrayEntries
  /\ ComputedInReach
  /\ StartingFresh
  /\ PassRegistered
  /\ StoppingOrder
  /\ NoRowLost
  /\ PipelineOrder
  /\ StopsWhenComputed

LEMMA InitInv == Init => IInv
<1>. SUFFICES ASSUME Init PROVE IInv
  OBVIOUS
<1>1. TypeOK
  BY InitType
<1>2. DOMAIN grid = {} /\ phase = "start"
  BY DEF Init, ProcessorInit, ContextInit
<1>3. \A s \in Segment : lastComputedL[s] = NoEntries
  BY DEF Init, ProcessorInit, ContextInit
<1>4. \A m, p \in Module : \A s \in Works[m] : lastComputedL[s][p] = None
  BY <1>3, ContractAssumption DEF NoEntries
<1>5. PipelineOrder
  <2>. SUFFICES ASSUME NEW m \in Module \ Rewriters, NEW p \in Predecessors(m),
                       NEW s \in Works[m] \cap Works[p]
                PROVE  lastComputedL[s][m] <= lastComputedL[s][p]
    BY DEF PipelineOrder
  <2>1. p \in Module
    BY PipelineFacts DEF Predecessors
  <2>. QED
    BY <1>4, <2>1 DEF None
<1>. QED
  BY <1>1, <1>2, <1>3, <1>5
     DEF IInv, Windows, OwnedOnly, NoStrayEntries, ComputedInReach, StartingFresh, PassRegistered,
         StoppingOrder, NoRowLost, StopsWhenComputed

-----------------------------------------------------------------------------
(* Every action keeps the invariant. *)

\* Starting a module adds windows at row 0 of segments that have no entries.
LEMMA StartInv ==
  ASSUME IInv, TypeOK', NEW m \in Module, Start(m)
  PROVE  IInv'
<1>1. /\ phase = "start" /\ m = Pipeline[at] /\ at \in DOMAIN Pipeline
      /\ StartNext
      /\ UNCHANGED <<lastComputedL, firstRequiredL>>
      /\ ContextTypeOK /\ ContextTypeOK'
  BY DEF Start, Turn, IInv, TypeOK, ProcessorTypeOK
<1>2. /\ DOMAIN grid' = DOMAIN grid \cup Adds[m]
      /\ \A s \in DOMAIN grid : grid'[s] = grid[s]
      /\ \A s \in Adds[m] : grid'[s].minInMemoryL = 0 /\ IsValidShape(grid'[s])
  BY DEF Start
<1>3. \A s \in Segment : lastComputedL[s] = NoEntries
  BY <1>1 DEF IInv, StartingFresh
<1>4. \A s \in Segment : \A p \in Module : lastComputedL'[s][p] = None
  BY <1>1, <1>3 DEF NoEntries
<1>5. /\ phase' \in {"start", "process"}
      /\ phase' = "start" => at' = at + 1
      /\ phase' = "process" => at' = 1
  BY <1>1 DEF StartNext
<1>6. \A s \in DOMAIN grid' : /\ s \in Segment
                              /\ grid'[s].sizeL \in Nat \ {0}
                              /\ grid'[s].maxL \in Nat
                              /\ grid'[s].minInMemoryL \in Nat
                              /\ MaxInMemoryL(s)' \in Nat
                              /\ MaxInMemoryL(s)' = grid'[s].minInMemoryL + grid'[s].sizeL - 1
  <2>. SUFFICES ASSUME ContextTypeOK', NEW s \in DOMAIN grid'
                PROVE  /\ s \in Segment
                       /\ grid'[s].sizeL \in Nat \ {0}
                       /\ grid'[s].maxL \in Nat
                       /\ grid'[s].minInMemoryL \in Nat
                       /\ MaxInMemoryL(s)' \in Nat
                       /\ MaxInMemoryL(s)' = grid'[s].minInMemoryL + grid'[s].sizeL - 1
    BY <1>1
  <2>1. s \in Segment /\ grid'[s] \in Grid
    BY DEF ContextTypeOK
  <2>2. /\ grid'[s].sizeL \in Nat \ {0}
        /\ grid'[s].maxL \in Nat
        /\ grid'[s].minInMemoryL \in Nat
    BY <2>1 DEF Grid
  <2>. QED
    BY <2>1, <2>2 DEF MaxInMemoryL
<1>7. Windows'
  <2>. SUFFICES ASSUME NEW s \in DOMAIN grid'
                PROVE  IsValidShape(grid'[s]) /\ MaxInMemoryL(s)' <= grid'[s].maxL
    BY DEF Windows
  <2>1. CASE s \in DOMAIN grid
    BY <1>2, <2>1 DEF IInv, Windows, MaxInMemoryL
  <2>2. CASE s \in Adds[m]
    BY <1>2, <1>6, <2>2 DEF IsValidShape
  <2>. QED
    BY <1>2, <2>1, <2>2
<1>8. NoStrayEntries' /\ (\A s \in Segment : lastComputedL'[s] = NoEntries)
  BY <1>1, <1>3 DEF NoStrayEntries
<1>9. ComputedInReach'
  <2>. SUFFICES ASSUME NEW s \in DOMAIN grid', NEW p \in Module
                PROVE  lastComputedL'[s][p] <= MaxInMemoryL(s)'
    BY DEF ComputedInReach
  <2>. QED
    BY <1>4, <1>6 DEF None
<1>10. StartingFresh'
  <2>. SUFFICES ASSUME phase' = "start", NEW s \in DOMAIN grid'
                PROVE  \E i \in 1..(at' - 1) : s \in Adds[Pipeline[i]]
    BY <1>8 DEF StartingFresh
  <2>1. at' = at + 1 /\ at \in Nat \ {0}
    BY <1>1, <1>5, PipelineFacts
  <2>2. CASE s \in DOMAIN grid
    <3>1. PICK i \in 1..(at - 1) : s \in Adds[Pipeline[i]]
      BY <1>1, <2>2 DEF IInv, StartingFresh
    <3>. QED
      BY <2>1, <3>1
  <2>3. CASE s \in Adds[m]
    BY <1>1, <2>1, <2>3
  <2>. QED
    BY <1>2, <2>2, <2>3
<1>11. PassRegistered'
  BY <1>5 DEF PassRegistered
<1>12. StoppingOrder' /\ StopsWhenComputed'
  BY <1>5 DEF StoppingOrder, StopsWhenComputed
<1>13. NoRowLost'
  <2>. SUFFICES ASSUME NEW p \in Module, NEW s \in Works[p] \cap DOMAIN grid'
                PROVE  grid'[s].minInMemoryL <= lastComputedL'[s][p] + 1
    BY DEF NoRowLost
  <2>1. CASE s \in DOMAIN grid
    BY <1>1, <1>2, <2>1 DEF IInv, NoRowLost
  <2>2. CASE s \in Adds[m]
    BY <1>2, <1>4, <1>6, <2>2 DEF None
  <2>. QED
    BY <1>2, <2>1, <2>2
<1>14. PipelineOrder'
  BY <1>1 DEF IInv, PipelineOrder
<1>15. OwnedOnly'
  BY <1>2 DEF IInv, OwnedOnly, Owned
<1>. QED
  BY <1>15, <1>7, <1>8, <1>9, <1>10, <1>11, <1>12, <1>13, <1>14 DEF IInv

\* A module that keeps the contract registers rows its predecessors have
\* registered, because each of them has been registered in the same pass.
LEMMA ProcessInv ==
  ASSUME IInv, TypeOK', NEW m \in Module, Process(m)
  PROVE  IInv'
<1>1. /\ phase = "process" /\ m = Pipeline[at] /\ at \in DOMAIN Pipeline
      /\ ProcessNext
      /\ UNCHANGED grid
      /\ ContextTypeOK /\ ContextTypeOK'
      /\ Works[m] \subseteq DOMAIN grid
  BY DEF Process, Turn, IInv, TypeOK, ProcessorTypeOK
<1>2. /\ \A s \in Works[m] : MayRegister(m, s, lastComputedL'[s][m])
      /\ \A s \in Segment : \A p \in Module :
           \/ p = m /\ s \in Works[m]
           \/ lastComputedL'[s][p] = lastComputedL[s][p]
  BY DEF Process
<1>3. \A s \in DOMAIN grid : /\ s \in Segment
                             /\ MaxInMemoryL(s) \in Nat
                             /\ MaxInMemoryL(s)' = MaxInMemoryL(s)
                             /\ grid[s].minInMemoryL \in Nat
  BY <1>1, WindowType DEF MaxInMemoryL
<1>4. \A s \in Segment : \A p \in Module :
        /\ lastComputedL[s][p] \in Int
        /\ lastComputedL'[s][p] \in Int
  BY <1>1 DEF ContextTypeOK, Entry, None
<1>5. \A s \in Segment : \A p \in Module : lastComputedL'[s][p] >= lastComputedL[s][p]
  BY <1>2, <1>4 DEF MayRegister
<1>6. \A s \in Works[m] : lastComputedL'[s][m] <= MaxInMemoryL(s)
  <2>. SUFFICES ASSUME NEW s \in Works[m]
                PROVE  lastComputedL'[s][m] <= MaxInMemoryL(s)
    OBVIOUS
  <2>1. s \in DOMAIN grid /\ s \in Segment
    BY <1>1, <1>3
  <2>2. GetLastComputableL(s, m) \in Nat /\ GetLastComputableL(s, m) <= MaxInMemoryL(s)
    BY <1>1, <2>1, LastComputable
  <2>3. lastComputedL'[s][m] <= MaxInMemoryL(s) \/ lastComputedL'[s][m] <= GetLastComputableL(s, m)
    BY <1>2 DEF MayRegister
  <2>. QED
    BY <1>3, <1>4, <2>1, <2>2, <2>3
<1>7. \A p \in Module : IsRegistered(p) => IsRegistered(p)'
  <2>. SUFFICES ASSUME NEW p \in Module, IsRegistered(p), NEW s \in Works[p]
                PROVE  \/ lastComputedL'[s][p] > 0
                       \/ lastComputedL'[s][p] = 0 /\ MaxInMemoryL(s)' = 0
    BY DEF IsRegistered
  <2>1. s \in Segment
    BY ContractAssumption
  <2>2. MaxInMemoryL(s)' = MaxInMemoryL(s)
    BY <1>1 DEF MaxInMemoryL
  <2>3. CASE p = m
    BY <1>2, <2>2, <2>3 DEF MayRegister
  <2>4. CASE p # m
    BY <1>2, <2>1, <2>2, <2>4 DEF IsRegistered
  <2>. QED
    BY <2>3, <2>4
<1>8. IsRegistered(m)'
  BY <1>1, <1>2 DEF IsRegistered, MayRegister, MaxInMemoryL
<1>9. /\ phase' \in {"process", "move"}
      /\ phase' = "process" => at' = at + 1
      /\ phase' = "move" => at = Len(Pipeline)
  <2>1. \/ at' = at + 1 /\ phase' = phase
        \/ at = Len(Pipeline) /\ phase' = "move"
    BY <1>1 DEF ProcessNext
  <2>. QED
    BY <1>1, <2>1
<1>10. \A i \in 1..at : IsRegistered(Pipeline[i])'
  <2>. SUFFICES ASSUME NEW i \in 1..at PROVE IsRegistered(Pipeline[i])'
    OBVIOUS
  <2>1. CASE i = at
    BY <1>1, <1>8, <2>1
  <2>2. CASE i # at
    <3>1. i \in 1..(at - 1) /\ Pipeline[i] \in Module
      BY <1>1, <2>2, PipelineFacts
    <3>2. IsRegistered(Pipeline[i])
      BY <1>1, <3>1 DEF IInv, PassRegistered
    <3>. QED
      BY <1>7, <3>1, <3>2
  <2>. QED
    BY <2>1, <2>2
<1>11. PassRegistered'
  <2>1. ASSUME phase' = "process" PROVE \A i \in 1..(at' - 1) : IsRegistered(Pipeline[i])'
    BY <1>1, <1>9, <1>10, <2>1, PipelineFacts
  <2>2. ASSUME phase' = "move", NEW p \in Module PROVE IsRegistered(p)'
    <3>1. PICK i \in DOMAIN Pipeline : Pipeline[i] = p
      BY PipelineFacts
    <3>2. i \in 1..at
      BY <1>9, <2>2, <3>1, PipelineFacts
    <3>. QED
      BY <1>10, <3>1, <3>2
  <2>. QED
    BY <2>1, <2>2 DEF PassRegistered
<1>12. Windows' /\ OwnedOnly'
  BY <1>1, <1>3 DEF IInv, Windows, OwnedOnly
<1>13. NoStrayEntries'
  <2>. SUFFICES ASSUME NEW s \in Segment, s \notin DOMAIN grid
                PROVE  lastComputedL'[s] = NoEntries
    BY <1>1 DEF NoStrayEntries
  <2>1. lastComputedL[s] = NoEntries
    BY DEF IInv, NoStrayEntries
  <2>2. \A p \in Module : lastComputedL'[s][p] = lastComputedL[s][p]
    BY <1>1, <1>2
  <2>3. lastComputedL'[s] \in [Module -> Entry] /\ NoEntries \in [Module -> Entry]
    BY <1>1 DEF ContextTypeOK, NoEntries, Entry, None
  <2>. QED
    BY <2>1, <2>2, <2>3
<1>14. ComputedInReach'
  <2>. SUFFICES ASSUME NEW s \in DOMAIN grid, NEW p \in Module
                PROVE  lastComputedL'[s][p] <= MaxInMemoryL(s)
    BY <1>1, <1>3 DEF ComputedInReach
  <2>1. s \in Segment
    BY <1>3
  <2>2. CASE p = m /\ s \in Works[m]
    BY <1>6, <2>2
  <2>3. CASE lastComputedL'[s][p] = lastComputedL[s][p]
    BY <2>3 DEF IInv, ComputedInReach
  <2>. QED
    BY <1>2, <2>1, <2>2, <2>3
<1>15. StartingFresh' /\ StoppingOrder' /\ StopsWhenComputed'
  BY <1>9 DEF StartingFresh, StoppingOrder, StopsWhenComputed
<1>16. NoRowLost'
  <2>. SUFFICES ASSUME NEW p \in Module, NEW s \in Works[p] \cap DOMAIN grid
                PROVE  grid[s].minInMemoryL <= lastComputedL'[s][p] + 1
    BY <1>1 DEF NoRowLost
  <2>1. grid[s].minInMemoryL <= lastComputedL[s][p] + 1
    BY DEF IInv, NoRowLost
  <2>. QED
    BY <1>3, <1>4, <1>5, <2>1
<1>17. PipelineOrder'
  <2>. SUFFICES ASSUME NEW q \in Module \ Rewriters, NEW p \in Predecessors(q),
                       NEW s \in Works[q] \cap Works[p]
                PROVE  lastComputedL'[s][q] <= lastComputedL'[s][p]
    BY DEF PipelineOrder
  <2>1. p \in Module /\ s \in Segment
    BY ContractAssumption, PipelineFacts DEF Predecessors
  <2>2. lastComputedL[s][q] <= lastComputedL[s][p]
    BY DEF IInv, PipelineOrder
  <2>3. CASE q = m
    <3>1. p # m /\ (\E j \in DOMAIN Pipeline : j < at /\ Pipeline[j] = p)
      BY <1>1, <2>3, PredecessorsCameBefore
    <3>2. lastComputedL'[s][p] = lastComputedL[s][p]
      BY <1>2, <2>1, <3>1
    <3>3. IsRegistered(p)
      <4>1. PICK j \in DOMAIN Pipeline : j < at /\ Pipeline[j] = p
        BY <3>1
      <4>2. j \in 1..(at - 1)
        BY <1>1, <4>1, PipelineFacts
      <4>. QED
        BY <1>1, <4>1, <4>2 DEF IInv, PassRegistered
    <3>4. s \in DOMAIN grid
      BY <1>1, <2>3
    <3>5. CASE lastComputedL[s][p] > 0
      <4>1. GetLastComputableL(s, m) \in Nat /\ GetLastComputableL(s, m) <= lastComputedL[s][p]
        BY <1>1, <2>3, <3>4, <3>5, LastComputable
      <4>2. lastComputedL'[s][m] <= GetLastComputableL(s, m)
        BY <1>2, <2>3 DEF MayRegister
      <4>. QED
        BY <1>4, <2>1, <2>3, <3>2, <4>1, <4>2
    <3>6. CASE lastComputedL[s][p] = 0 /\ MaxInMemoryL(s) = 0
      BY <1>6, <2>3, <3>2, <3>6
    <3>. QED
      BY <3>3, <3>5, <3>6 DEF IsRegistered
  <2>4. CASE q # m
    <3>1. lastComputedL'[s][q] = lastComputedL[s][q]
      BY <1>2, <2>1, <2>4
    <3>. QED
      BY <1>4, <1>5, <2>1, <2>2, <3>1
  <2>. QED
    BY <2>3, <2>4
<1>. QED
  BY <1>11, <1>12, <1>13, <1>14, <1>15, <1>16, <1>17 DEF IInv

\* The segments of the modules that have not been stopped are all that is
\* left, and after the first module of the pipeline nothing is left.
LEMMA StopInv ==
  ASSUME IInv, TypeOK', NEW m \in Module, Stop(m)
  PROVE  IInv'
<1>1. /\ phase = "stop" /\ m = Pipeline[at] /\ at \in DOMAIN Pipeline
      /\ StopNext
      /\ ContextTypeOK /\ ContextTypeOK'
      /\ RemoveSegments(Adds[m])
  BY DEF Stop, Turn, IInv, TypeOK, ProcessorTypeOK
<1>2. /\ DOMAIN grid' = DOMAIN grid \ Adds[m]
      /\ \A s \in DOMAIN grid' : grid'[s] = grid[s]
      /\ \A s \in Segment \ Adds[m] : lastComputedL'[s] = lastComputedL[s]
      /\ \A s \in Segment \cap Adds[m] : lastComputedL'[s] = NoEntries
  BY <1>1, RemoveType
<1>3. \A s \in DOMAIN grid' : /\ s \in Segment
                              /\ s \in DOMAIN grid
                              /\ lastComputedL'[s] = lastComputedL[s]
                              /\ MaxInMemoryL(s)' = MaxInMemoryL(s)
  BY <1>1, <1>2, WindowType DEF MaxInMemoryL
<1>4. \/ at > 1 /\ at' = at - 1 /\ phase' = "stop"
      \/ at = 1 /\ at' = 1 /\ phase' \in {"start", "done"}
  BY <1>1 DEF StopNext
<1>5. \A s \in DOMAIN grid' : \E i \in 1..(at - 1) : s \in Adds[Pipeline[i]]
  <2>. SUFFICES ASSUME NEW s \in DOMAIN grid'
                PROVE  \E i \in 1..(at - 1) : s \in Adds[Pipeline[i]]
    OBVIOUS
  <2>1. PICK i \in 1..at : s \in Adds[Pipeline[i]]
    BY <1>1, <1>3 DEF IInv, StoppingOrder
  <2>2. s \notin Adds[Pipeline[at]]
    BY <1>1, <1>2
  <2>3. i # at
    BY <2>1, <2>2
  <2>4. i \in 1..(at - 1)
    BY <1>1, <2>3, PipelineFacts
  <2>. QED
    BY <2>1, <2>4
<1>6. at = 1 => DOMAIN grid' = {}
  BY <1>5
<1>7. NoStrayEntries'
  BY <1>2 DEF IInv, NoStrayEntries
<1>8. StartingFresh'
  <2>. SUFFICES ASSUME phase' = "start" PROVE StartingFresh'
    BY DEF StartingFresh
  <2>1. DOMAIN grid' = {}
    BY <1>4, <1>6
  <2>. QED
    BY <1>7, <2>1 DEF StartingFresh, NoStrayEntries
<1>9. StoppingOrder'
  <2>1. ASSUME phase' = "stop", NEW s \in DOMAIN grid'
        PROVE  \E i \in 1..at' : s \in Adds[Pipeline[i]]
    BY <1>4, <1>5, <2>1
  <2>2. phase' = "done" => DOMAIN grid' = {}
    BY <1>4, <1>6
  <2>. QED
    BY <2>1, <2>2 DEF StoppingOrder
<1>10. PassRegistered'
  BY <1>4 DEF PassRegistered
<1>11. Windows' /\ OwnedOnly' /\ ComputedInReach'
  BY <1>2, <1>3 DEF IInv, Windows, OwnedOnly, ComputedInReach
<1>12. NoRowLost'
  BY <1>2, <1>3 DEF IInv, NoRowLost
<1>13. StopsWhenComputed'
  <2>. SUFFICES ASSUME NEW p \in Module, NEW s \in Works[p] \cap DOMAIN grid'
                PROVE  lastComputedL'[s][p] = grid'[s].maxL
    BY DEF StopsWhenComputed
  <2>. QED
    BY <1>1, <1>2, <1>3 DEF IInv, StopsWhenComputed
<1>14. PipelineOrder'
  <2>. SUFFICES ASSUME NEW q \in Module \ Rewriters, NEW p \in Predecessors(q),
                       NEW s \in Works[q] \cap Works[p]
                PROVE  lastComputedL'[s][q] <= lastComputedL'[s][p]
    BY DEF PipelineOrder
  <2>1. p \in Module /\ q \in Module /\ s \in Segment
    BY ContractAssumption, PipelineFacts DEF Predecessors
  <2>2. CASE s \in Adds[m]
    BY <1>2, <2>1, <2>2 DEF NoEntries, None
  <2>3. CASE s \notin Adds[m]
    BY <1>2, <2>1, <2>3 DEF IInv, PipelineOrder
  <2>. QED
    BY <2>2, <2>3
<1>. QED
  BY <1>7, <1>8, <1>9, <1>10, <1>11, <1>12, <1>13, <1>14 DEF IInv

\* A window moves at most one row past the slowest module that has an entry,
\* and at the end of a pass every module has one.
LEMMA MoveInv ==
  ASSUME IInv, TypeOK', MoveSegmentsForward
  PROVE  IInv'
<1>1. /\ phase = "move"
      /\ grid' = [s \in DOMAIN grid |-> MovedGrid(s)]
      /\ UNCHANGED <<lastComputedL, firstRequiredL>>
      /\ \/ IsCompleted(grid') /\ phase' = "stop" /\ at' = Len(Pipeline)
         \/ phase' = "process" /\ at' = 1
      /\ ContextTypeOK
  BY DEF MoveSegmentsForward, IInv, TypeOK, ProcessorTypeOK
<1>2. DOMAIN grid' = DOMAIN grid /\ \A s \in DOMAIN grid : grid'[s] = MovedGrid(s)
  BY <1>1
<1>3. \A s \in DOMAIN grid :
        /\ s \in Segment
        /\ grid[s].sizeL \in Nat \ {0} /\ grid[s].maxL \in Nat /\ grid[s].minInMemoryL \in Nat
        /\ grid'[s].sizeL = grid[s].sizeL
        /\ grid'[s].maxL = grid[s].maxL
        /\ grid'[s].minInMemoryL \in Nat
        /\ grid'[s].minInMemoryL >= grid[s].minInMemoryL
        /\ grid'[s].minInMemoryL = grid[s].minInMemoryL \/ grid'[s].minInMemoryL = ForwardL(s)
        /\ MaxInMemoryL(s) = grid[s].minInMemoryL + grid[s].sizeL - 1
        /\ MaxInMemoryL(s)' = grid'[s].minInMemoryL + grid'[s].sizeL - 1
  BY <1>1, <1>2, WindowType, MovedWindow DEF MaxInMemoryL
<1>4. \A s \in Segment : \A p \in Module : lastComputedL[s][p] \in Entry
  BY <1>1 DEF ContextTypeOK
<1>5. \A p \in Module : \A s \in Works[p] : lastComputedL[s][p] # None
  <2>. SUFFICES ASSUME NEW p \in Module, NEW s \in Works[p]
                PROVE  lastComputedL[s][p] # None
    OBVIOUS
  <2>1. IsRegistered(p)
    BY <1>1 DEF IInv, PassRegistered
  <2>. QED
    BY <2>1 DEF IsRegistered, None
<1>6. Windows'
  <2>. SUFFICES ASSUME NEW s \in DOMAIN grid
                PROVE  IsValidShape(grid'[s]) /\ MaxInMemoryL(s)' <= grid'[s].maxL
    BY <1>2 DEF Windows
  <2>1. IsValidShape(grid[s]) /\ MaxInMemoryL(s) <= grid[s].maxL
    BY DEF IInv, Windows
  <2>2. ForwardL(s) <= grid[s].maxL - grid[s].sizeL + 1
    BY <1>1, ForwardRow
  <2>3. IsValidShape(grid'[s])
    BY <1>3, <2>1 DEF IsValidShape
  <2>4. MaxInMemoryL(s)' <= grid'[s].maxL
    BY <1>3, <2>1, <2>2
  <2>. QED
    BY <2>3, <2>4
<1>7. OwnedOnly' /\ NoStrayEntries'
  BY <1>1, <1>2 DEF IInv, OwnedOnly, NoStrayEntries
<1>8. ComputedInReach'
  <2>. SUFFICES ASSUME NEW s \in DOMAIN grid, NEW p \in Module
                PROVE  lastComputedL[s][p] <= MaxInMemoryL(s)'
    BY <1>1, <1>2 DEF ComputedInReach
  <2>1. lastComputedL[s][p] <= MaxInMemoryL(s)
    BY DEF IInv, ComputedInReach
  <2>2. lastComputedL[s][p] \in Int
    BY <1>3, <1>4 DEF Entry, None
  <2>. QED
    BY <1>3, <2>1, <2>2
<1>9. NoRowLost'
  <2>. SUFFICES ASSUME NEW p \in Module, NEW s \in Works[p] \cap DOMAIN grid
                PROVE  grid'[s].minInMemoryL <= lastComputedL[s][p] + 1
    BY <1>1, <1>2 DEF NoRowLost
  <2>1. grid[s].minInMemoryL <= lastComputedL[s][p] + 1
    BY DEF IInv, NoRowLost
  <2>2. ForwardL(s) <= lastComputedL[s][p] + 1
    BY <1>1, <1>5, ForwardRow
  <2>. QED
    BY <1>3, <2>1, <2>2
<1>10. PipelineOrder'
  BY <1>1 DEF IInv, PipelineOrder
<1>11. StartingFresh' /\ PassRegistered'
  BY <1>1 DEF StartingFresh, PassRegistered
<1>12. StoppingOrder'
  <2>. SUFFICES ASSUME phase' = "stop", NEW s \in DOMAIN grid
                PROVE  \E i \in 1..at' : s \in Adds[Pipeline[i]]
    BY <1>1, <1>2 DEF StoppingOrder
  <2>1. PICK p \in Module : s \in Adds[p]
    BY DEF IInv, OwnedOnly, Owned
  <2>2. PICK i \in DOMAIN Pipeline : Pipeline[i] = p
    BY PipelineFacts
  <2>. QED
    BY <1>1, <2>1, <2>2, PipelineFacts
<1>13. StopsWhenComputed'
  <2>. SUFFICES ASSUME phase' = "stop", NEW p \in Module, NEW s \in Works[p] \cap DOMAIN grid
                PROVE  lastComputedL[s][p] = grid'[s].maxL
    BY <1>1, <1>2 DEF StopsWhenComputed
  <2>1. IsCompleted(grid')
    BY <1>1
  <2>2. lastComputedL[s][p] >= grid'[s].maxL
    BY <1>1, <1>2, <1>5, <2>1 DEF IsCompleted
  <2>3. lastComputedL[s][p] <= MaxInMemoryL(s) /\ MaxInMemoryL(s) <= grid[s].maxL
    BY DEF IInv, ComputedInReach, Windows
  <2>4. lastComputedL[s][p] \in Int
    BY <1>3, <1>4 DEF Entry, None
  <2>. QED
    BY <1>3, <2>2, <2>3, <2>4
<1>. QED
  BY <1>6, <1>7, <1>8, <1>9, <1>10, <1>11, <1>12, <1>13 DEF IInv

LEMMA NextInv == IInv /\ [Next]_vars => IInv'
<1>. SUFFICES ASSUME IInv, [Next]_vars PROVE IInv'
  OBVIOUS
<1>0. TypeOK'
  BY NextType DEF IInv
<1>1. ASSUME NEW m \in Module, Start(m) PROVE IInv'
  BY <1>0, <1>1, StartInv
<1>2. ASSUME NEW m \in Module, Process(m) PROVE IInv'
  BY <1>0, <1>2, ProcessInv
<1>3. ASSUME NEW m \in Module, Stop(m) PROVE IInv'
  BY <1>0, <1>3, StopInv
<1>4. CASE MoveSegmentsForward
  BY <1>0, <1>4, MoveInv
<1>5. CASE Fail
  <2>1. phase' = "failed" /\ UNCHANGED contextVars
    BY <1>5 DEF Fail, Throw
  <2>2. /\ Windows' /\ OwnedOnly' /\ NoStrayEntries' /\ ComputedInReach'
        /\ NoRowLost' /\ PipelineOrder'
    BY <2>1 DEF IInv, contextVars, Windows, OwnedOnly, NoStrayEntries, ComputedInReach,
                NoRowLost, PipelineOrder, MaxInMemoryL
  <2>3. StartingFresh' /\ PassRegistered' /\ StoppingOrder' /\ StopsWhenComputed'
    BY <2>1 DEF StartingFresh, PassRegistered, StoppingOrder, StopsWhenComputed
  <2>. QED
    BY <1>0, <2>2, <2>3 DEF IInv
<1>6. CASE UNCHANGED vars
  <2>1. UNCHANGED <<grid, lastComputedL, firstRequiredL, phase, at>>
    BY <1>6 DEF vars, contextVars, controlVars
  <2>. QED
    BY <1>0, <2>1 DEF IInv, Windows, OwnedOnly, NoStrayEntries, ComputedInReach, NoRowLost,
         PipelineOrder, MaxInMemoryL, StartingFresh, PassRegistered, IsRegistered,
         StoppingOrder, StopsWhenComputed
<1>7. CASE Exited
  BY <1>6, <1>7 DEF Exited, vars
<1>. QED
  BY <1>1, <1>2, <1>3, <1>4, <1>5, <1>6, <1>7 DEF Next

LEMMA Inductive == Spec => []IInv
<1>. QED
  BY InitInv, NextInv, PTL DEF Spec

-----------------------------------------------------------------------------
(* The theorems. *)

\* The windows stay within their segments, and SwathSegment::moveForward is
\* never given a row it refuses (SwathSegment.cpp, GridImpl.cpp).
THEOREM WindowsStayInBounds == Spec => []WindowsInBounds
<1>1. ASSUME IInv PROVE WindowsInBounds
  <2>1. ContextTypeOK
    BY <1>1 DEF IInv, TypeOK, ProcessorTypeOK
  <2>2. \A s \in DOMAIN grid : ForwardL(s) <= MaxInMemoryL(s) + 1
    BY <2>1, ForwardRow
  <2>. QED
    BY <1>1, <2>2 DEF IInv, Windows, WindowsInBounds
<1>. QED
  BY <1>1, Inductive, PTL

\* No row leaves memory before every module that works on it has computed it
\* (Context::moveForward).
THEOREM NoRowIsLost == Spec => []NoRowLost
<1>1. IInv => NoRowLost
  BY DEF IInv
<1>. QED
  BY <1>1, Inductive, PTL

\* No module overtakes a predecessor (Context::getLastComputableL).
THEOREM PipelineOrderHolds == Spec => []PipelineOrder
<1>1. IInv => PipelineOrder
  BY DEF IInv
<1>. QED
  BY <1>1, Inductive, PTL

\* A source product is completed only when it is computed to its last row
\* (Context::isCompleted).
THEOREM CompletedIsComputed == Spec => []StopsWhenComputed
<1>1. IInv => StopsWhenComputed
  BY DEF IInv
<1>. QED
  BY <1>1, Inductive, PTL

\* Stopping the modules in reverse order leaves nothing behind for the next
\* source product (MultiSourceProcessor::process, Context::removeSegment).
THEOREM NothingIsLeftBehind == Spec => []NothingLeftBehind
<1>1. ASSUME IInv PROVE NothingLeftBehind
  <2>. SUFFICES ASSUME phase = "done" \/ (phase = "start" /\ at = 1)
                PROVE  DOMAIN grid = {}
    BY <1>1 DEF IInv, NothingLeftBehind, NoStrayEntries
  <2>1. CASE phase = "done"
    BY <1>1, <2>1 DEF IInv, StoppingOrder
  <2>2. CASE phase = "start" /\ at = 1
    <3>1. \A s \in DOMAIN grid : \E i \in 1..(at - 1) : s \in Adds[Pipeline[i]]
      BY <1>1, <2>2 DEF IInv, StartingFresh
    <3>2. 1..(at - 1) = {}
      BY <2>2
    <3>. QED
      BY <3>1, <3>2, Zenon
  <2>. QED
    BY <2>1, <2>2
<1>. QED
  BY <1>1, Inductive, PTL

\* Windows never slide back, and what is computed stays computed
\* (Context::setLastComputedL, SwathSegment::moveForward).
THEOREM ProgressIsNeverUndone == Spec => ProgressIsKept
<1> DEFINE Kept == \A s \in DOMAIN grid \cap DOMAIN grid' :
                     /\ grid'[s].minInMemoryL >= grid[s].minInMemoryL
                     /\ \A m \in Module : lastComputedL'[s][m] >= lastComputedL[s][m]
<1>1. ASSUME IInv, [Next]_vars PROVE [Kept]_vars
  <2>. SUFFICES ASSUME NEW s \in DOMAIN grid, s \in DOMAIN grid', Next
                PROVE  /\ grid'[s].minInMemoryL >= grid[s].minInMemoryL
                       /\ \A m \in Module : lastComputedL'[s][m] >= lastComputedL[s][m]
    BY <1>1
  <2>0. ContextTypeOK
    BY <1>1 DEF IInv, TypeOK, ProcessorTypeOK
  <2>1. /\ s \in Segment
        /\ grid[s].minInMemoryL \in Nat
        /\ \A m \in Module : lastComputedL[s][m] \in Int
    <3>1. s \in Segment /\ grid[s].minInMemoryL \in Nat
      BY <2>0, WindowType
    <3>. QED
      BY <2>0, <3>1 DEF ContextTypeOK, Entry, None
  <2>2. ASSUME NEW m \in Module, Start(m)
        PROVE  grid'[s] = grid[s] /\ lastComputedL' = lastComputedL
    BY <2>2 DEF Start
  <2>3. ASSUME NEW m \in Module, Process(m), NEW p \in Module
        PROVE  grid' = grid /\ lastComputedL'[s][p] >= lastComputedL[s][p]
    BY <2>1, <2>3 DEF Process, MayRegister
  <2>4. ASSUME NEW m \in Module, Stop(m)
        PROVE  grid'[s] = grid[s] /\ lastComputedL'[s] = lastComputedL[s]
    BY <2>0, <2>1, <2>4, RemoveType DEF Stop
  <2>5. CASE MoveSegmentsForward
    <3>1. grid'[s] = MovedGrid(s) /\ lastComputedL' = lastComputedL
      BY <2>5 DEF MoveSegmentsForward
    <3>. QED
      BY <2>0, <2>1, <3>1, MovedWindow
  <2>6. CASE Fail \/ Exited
    BY <2>1, <2>6 DEF Fail, Throw, Exited, contextVars
  <2>. QED
    BY <2>1, <2>2, <2>3, <2>4, <2>5, <2>6 DEF Next
<1>. QED
  BY <1>1, Inductive, PTL DEF Spec, ProgressIsKept
=============================================================================
