----------------------------- MODULE Syl2Proofs -----------------------------
(***************************************************************************)
(* Proofs about Syl2, for any source products, any Segment_Line_Count, any *)
(* averaging factor greater than one and any fill distance: the task       *)
(* implements Scheduler, a module registers a row only when it is final,   *)
(* the windows of OLC and the target slide together, the rows that leave   *)
(* memory are in the target files, the exit code is true, and the rows     *)
(* that modules read are in memory.                                        *)
(*                                                                         *)
(* All theorems assume LongWindows: with shorter windows the modules wait  *)
(* for each other and the task does not keep the contract.  The last one   *)
(* assumes OrderedCollocation besides.                                     *)
(*                                                                         *)
(* Five invariants are inductive one on top of the other, or of those      *)
(* before it:                                                              *)
(*   KInv      that of SchedulerProofs, and which segments there are, how  *)
(*             large they are, and how far each module gets in a pass;     *)
(*   FinalInv  a registered row is final, because the rows it depends on   *)
(*             are required by the module that will read them;             *)
(*   PassInv   a pass takes the reader and the writer to the end of the    *)
(*             window and the correction to the row of the interpolation,  *)
(*             so that the same entries decide how far OLC and the target  *)
(*             slide;                                                      *)
(*   FileInv   the files hold what has been corrected;                     *)
(*   RowInv    the rows that the collocation has yet to read have not left *)
(*             memory and are required, and a window that has been         *)
(*             collocated as a whole moves on.                             *)
(***************************************************************************)
EXTENDS Syl2, ContextProofs, TLAPS

Sch == INSTANCE SchedulerProofs WITH
  Adds <- Syl2Adds, Works <- Syl2Works, Rewriters <- {"WRITER"}

-----------------------------------------------------------------------------
(* The pipeline of the task. *)

\* The pipeline is that of the SYN L2 task.
LEMMA PipelineIs ==
  /\ Pipeline = Syl2Pipeline
  /\ Len(Pipeline) = 9
  /\ DOMAIN Pipeline = 1..9
  /\ Pipeline[1] = "READER" /\ Pipeline[2] = "COL" /\ Pipeline[3] = "PCL"
  /\ Pipeline[4] = "AVE" /\ Pipeline[5] = "AER" /\ Pipeline[6] = "AEI"
  /\ Pipeline[7] = "ACO" /\ Pipeline[8] = "WRITER" /\ Pipeline[9] = "MANIFEST"
<1>1. Pipeline = <<"READER", "COL", "PCL", "AVE", "AER", "AEI", "ACO", "WRITER", "MANIFEST">>
  BY TaskIsSyl2 DEF Syl2Pipeline
<1>. QED
  BY <1>1 DEF Syl2Pipeline

\* The modules of the pipeline.
LEMMA ModulesAre ==
  Module = {"READER", "COL", "PCL", "AVE", "AER", "AEI", "ACO", "WRITER", "MANIFEST"}
<1>1. Module = {Pipeline[i] : i \in 1..9}
  BY PipelineIs DEF Module, Range
<1>2. 1..9 = {1, 2, 3, 4, 5, 6, 7, 8, 9}
  OBVIOUS
<1>. QED
  BY <1>1, <1>2, PipelineIs

\* The index in the pipeline tells whose turn it is.
LEMMA TurnIs ==
  ASSUME at \in DOMAIN Pipeline
  PROVE  /\ Pipeline[at] = "READER" <=> at = 1
         /\ Pipeline[at] = "COL" <=> at = 2
         /\ Pipeline[at] = "PCL" <=> at = 3
         /\ Pipeline[at] = "AVE" <=> at = 4
         /\ Pipeline[at] = "AER" <=> at = 5
         /\ Pipeline[at] = "AEI" <=> at = 6
         /\ Pipeline[at] = "ACO" <=> at = 7
         /\ Pipeline[at] = "WRITER" <=> at = 8
         /\ Pipeline[at] = "MANIFEST" <=> at = 9
<1>1. at \in {1, 2, 3, 4, 5, 6, 7, 8, 9}
  BY PipelineIs
<1>. QED
  BY <1>1, PipelineIs

\* The predecessors of a module are the modules with smaller indices.
LEMMA Before ==
  ASSUME NEW k \in 1..9
  PROVE  Predecessors(Pipeline[k]) = {Pipeline[j] : j \in 1..(k - 1)}
<1>1. \A i, j \in 1..9 : Pipeline[i] = Pipeline[j] => i = j
  <2>1. 1..9 = {1, 2, 3, 4, 5, 6, 7, 8, 9}
    OBVIOUS
  <2>. QED
    BY <2>1, PipelineIs
<1>2. {i \in DOMAIN Pipeline : \A h \in 1..i : Pipeline[h] # Pipeline[k]} = 1..(k - 1)
  <2>1. ASSUME NEW i \in 1..9 PROVE (\A h \in 1..i : Pipeline[h] # Pipeline[k]) <=> i < k
    <3>1. CASE i < k
      BY <1>1, <3>1
    <3>2. CASE ~(i < k)
      BY <3>2
    <3>. QED
      BY <3>1, <3>2
  <2>. QED
    BY <2>1, PipelineIs
<1>. QED
  BY <1>2 DEF Predecessors

\* The predecessors of each module.
LEMMA PredecessorsAre ==
  /\ Predecessors("READER") = {}
  /\ Predecessors("COL") = {"READER"}
  /\ Predecessors("PCL") = {"READER", "COL"}
  /\ Predecessors("AVE") = {"READER", "COL", "PCL"}
  /\ Predecessors("AER") = {"READER", "COL", "PCL", "AVE"}
  /\ Predecessors("AEI") = {"READER", "COL", "PCL", "AVE", "AER"}
  /\ Predecessors("ACO") = {"READER", "COL", "PCL", "AVE", "AER", "AEI"}
<1>1. /\ 1..0 = {} /\ 1..1 = {1} /\ 1..2 = {1, 2} /\ 1..3 = {1, 2, 3} /\ 1..4 = {1, 2, 3, 4}
      /\ 1..5 = {1, 2, 3, 4, 5} /\ 1..6 = {1, 2, 3, 4, 5, 6}
  OBVIOUS
<1>2. Predecessors("READER") = {} /\ Predecessors("COL") = {"READER"}
  BY <1>1, Before, PipelineIs
<1>3. Predecessors("PCL") = {"READER", "COL"} /\ Predecessors("AVE") = {"READER", "COL", "PCL"}
  BY <1>1, Before, PipelineIs
<1>4. Predecessors("AER") = {"READER", "COL", "PCL", "AVE"}
  BY <1>1, Before, PipelineIs
<1>5. Predecessors("AEI") = {"READER", "COL", "PCL", "AVE", "AER"}
  BY <1>1, Before, PipelineIs
<1>6. Predecessors("ACO") = {"READER", "COL", "PCL", "AVE", "AER", "AEI"}
  BY <1>1, Before, PipelineIs
<1>. QED
  BY <1>2, <1>3, <1>4, <1>5, <1>6

-----------------------------------------------------------------------------
(* What Scheduler promises, in the terms of the task. *)

\* The task meets the assumptions of Scheduler.
LEMMA SchedulerAssumptions ==
  Sch!PipelineAssumption /\ Sch!SourcesAssumption /\ Sch!ContractAssumption
<1>1. Sch!PipelineAssumption
  BY PipelineAssumption DEF Sch!PipelineAssumption, Sch!Range, Range
<1>2. Sch!SourcesAssumption
  BY SourcesAssumption DEF Sch!SourcesAssumption
<1>3. Sch!Module = Module
  BY DEF Sch!Module, Module, Sch!Range, Range
<1>4. SourceSegments \cup {T, Avg} = Segment
  BY TaskIsSyl2 DEF Syl2Segment
<1>5. Syl2Adds \in [Module -> SUBSET Segment]
  BY <1>4 DEF Syl2Adds
<1>6. Syl2Works \in [Module -> SUBSET Segment]
  BY <1>4 DEF Syl2Works, WrittenSegments, SourceSegments
<1>7. \A m, p \in Module : m # p => Syl2Adds[m] \cap Syl2Adds[p] = {}
  BY DEF Syl2Adds, SourceSegments, T, Avg
<1>8. Sch!Owned = Segment
  <2>1. Syl2Adds["READER"] = SourceSegments /\ Syl2Adds["COL"] = {T} /\ Syl2Adds["AVE"] = {Avg}
    BY ModulesAre DEF Syl2Adds
  <2>2. UNION {Syl2Adds[m] : m \in Module} \subseteq Segment
    BY <1>5
  <2>3. \A s \in Segment : s \in Syl2Adds["READER"] \/ s \in Syl2Adds["COL"] \/ s \in Syl2Adds["AVE"]
    BY <1>4, <2>1
  <2>4. Segment \subseteq UNION {Syl2Adds[m] : m \in Module}
    BY <2>3, ModulesAre
  <2>. QED
    BY <1>3, <2>2, <2>4 DEF Sch!Owned
<1>9. {"WRITER"} \subseteq Module
  BY ModulesAre
<1>. QED
  BY <1>1, <1>2, <1>3, <1>5, <1>6, <1>7, <1>8, <1>9 DEF Sch!ContractAssumption

\* The segments that modules add and those they register rows of.
LEMMA WorksAre ==
  /\ Syl2Works["READER"] = SourceSegments
  /\ Syl2Works["COL"] = {T} /\ Syl2Works["PCL"] = {T}
  /\ Syl2Works["AVE"] = {Avg} /\ Syl2Works["AER"] = {Avg}
  /\ Syl2Works["AEI"] = {T} /\ Syl2Works["ACO"] = {T}
  /\ Syl2Works["WRITER"] = WrittenSegments
  /\ Syl2Works["MANIFEST"] = {}
  /\ Syl2Adds["READER"] = SourceSegments /\ Syl2Adds["COL"] = {T} /\ Syl2Adds["AVE"] = {Avg}
  /\ \A m \in Module \ {"READER", "COL", "AVE"} : Syl2Adds[m] = {}
<1>1. Syl2Works["READER"] = SourceSegments /\ Syl2Works["COL"] = {T} /\ Syl2Works["PCL"] = {T}
  BY ModulesAre DEF Syl2Works
<1>2. Syl2Works["AVE"] = {Avg} /\ Syl2Works["AER"] = {Avg}
  BY ModulesAre DEF Syl2Works
<1>3. Syl2Works["AEI"] = {T} /\ Syl2Works["ACO"] = {T}
  BY ModulesAre DEF Syl2Works
<1>4. Syl2Works["WRITER"] = WrittenSegments
  BY ModulesAre DEF Syl2Works
<1>5. Syl2Works["MANIFEST"] = {}
  BY ModulesAre DEF Syl2Works
<1>6. Syl2Adds["READER"] = SourceSegments /\ Syl2Adds["COL"] = {T} /\ Syl2Adds["AVE"] = {Avg}
  BY ModulesAre DEF Syl2Adds
<1>7. \A m \in Module \ {"READER", "COL", "AVE"} : Syl2Adds[m] = {}
  BY DEF Syl2Adds
<1>. QED
  BY <1>1, <1>2, <1>3, <1>4, <1>5, <1>6, <1>7

\* Modules work on segments of the task.
LEMMA WorksInSegments == \A m \in Module : Syl2Works[m] \subseteq Segment
BY SchedulerAssumptions DEF Sch!ContractAssumption, Sch!Module, Module, Sch!Range, Range

\* IInv of SchedulerProofs, as far as the proofs below need it.
LEMMA WhatIInvSays ==
  ASSUME Sch!IInv
  PROVE  /\ ProcessorTypeOK
         /\ \A s \in DOMAIN grid : IsValidShape(grid[s]) /\ MaxInMemoryL(s) <= grid[s].maxL
         /\ \A s \in DOMAIN grid : \A m \in Module : lastComputedL[s][m] <= MaxInMemoryL(s)
         /\ phase = "start" => \A s \in Segment : lastComputedL[s] = NoEntries
         /\ \A s \in Segment : s \notin DOMAIN grid => lastComputedL[s] = NoEntries
         /\ phase = "process" => \A i \in 1..(at - 1) : Sch!IsRegistered(Pipeline[i])
         /\ phase = "move" => \A m \in Module : Sch!IsRegistered(m)
         /\ \A m \in Module : \A s \in Syl2Works[m] \cap DOMAIN grid :
              grid[s].minInMemoryL <= lastComputedL[s][m] + 1
         /\ \A m \in Module \ {"WRITER"} : \A p \in Predecessors(m) :
              \A s \in Syl2Works[m] \cap Syl2Works[p] : lastComputedL[s][m] <= lastComputedL[s][p]
         /\ \A m \in Module : \A s \in Syl2Works[m] \cap DOMAIN grid :
              phase = "stop" => lastComputedL[s][m] = grid[s].maxL
<1>1. ProcessorTypeOK
  BY DEF Sch!IInv, Sch!TypeOK, Sch!ProcessorTypeOK, Sch!ContextTypeOK, Sch!Grid, Sch!Entry, Sch!None,
         Sch!Module, Sch!Range, Sch!Phase, Sch!Running, Sch!OK, Sch!INCOMPLETE, Sch!FAILURE,
         ProcessorTypeOK, ContextTypeOK, Grid, Entry, None, Module, Range, Phase, Running, OK,
         INCOMPLETE, FAILURE
<1>2. \A s \in DOMAIN grid : IsValidShape(grid[s]) /\ MaxInMemoryL(s) <= grid[s].maxL
  BY DEF Sch!IInv, Sch!Windows, Sch!IsValidShape, Sch!MaxInMemoryL, IsValidShape, MaxInMemoryL
<1>3. \A s \in DOMAIN grid : \A m \in Module : lastComputedL[s][m] <= MaxInMemoryL(s)
  BY DEF Sch!IInv, Sch!ComputedInReach, Sch!MaxInMemoryL, MaxInMemoryL, Sch!Module, Sch!Range,
         Module, Range
<1>4. /\ phase = "start" => \A s \in Segment : lastComputedL[s] = NoEntries
      /\ \A s \in Segment : s \notin DOMAIN grid => lastComputedL[s] = NoEntries
  BY DEF Sch!IInv, Sch!StartingFresh, Sch!NoStrayEntries, Sch!NoEntries, Sch!Module, Sch!Range,
         Sch!None, NoEntries, Module, Range, None
<1>5. /\ phase = "process" => \A i \in 1..(at - 1) : Sch!IsRegistered(Pipeline[i])
      /\ phase = "move" => \A m \in Module : Sch!IsRegistered(m)
  BY DEF Sch!IInv, Sch!PassRegistered, Sch!Module, Sch!Range, Module, Range
<1>6. /\ \A m \in Module : \A s \in Syl2Works[m] \cap DOMAIN grid :
           grid[s].minInMemoryL <= lastComputedL[s][m] + 1
      /\ \A m \in Module : \A s \in Syl2Works[m] \cap DOMAIN grid :
           phase = "stop" => lastComputedL[s][m] = grid[s].maxL
  BY DEF Sch!IInv, Sch!NoRowLost, Sch!StopsWhenComputed, Sch!Module, Sch!Range, Module, Range
<1>7. \A m \in Module \ {"WRITER"} : \A p \in Predecessors(m) :
        \A s \in Syl2Works[m] \cap Syl2Works[p] : lastComputedL[s][m] <= lastComputedL[s][p]
  BY DEF Sch!IInv, Sch!PipelineOrder, Sch!Module, Sch!Range, Module, Range, Sch!Predecessors,
         Predecessors
<1>. QED
  BY <1>1, <1>2, <1>3, <1>4, <1>5, <1>6, <1>7

\* A module that has had its turn has an entry that the context does not take
\* for none, or the window has one row.
LEMMA WhatRegisteredSays ==
  ASSUME NEW m, Sch!IsRegistered(m), NEW s \in Syl2Works[m]
  PROVE  lastComputedL[s][m] > 0 \/ (lastComputedL[s][m] = 0 /\ MaxInMemoryL(s) = 0)
BY DEF Sch!IsRegistered, Sch!MaxInMemoryL, MaxInMemoryL

-----------------------------------------------------------------------------
(* Registering rows. *)

\* The row a module may register, in the terms of the task.
LEMMA MayRegisterIs ==
  ASSUME NEW m, NEW s, NEW l
  PROVE  Sch!MayRegister(m, s, l) <=>
           /\ l >= lastComputedL[s][m]
           /\ l <= IF m \in {"WRITER"} THEN MaxInMemoryL(s) ELSE GetLastComputableL(s, m)
           /\ l > 0 \/ (l = 0 /\ MaxInMemoryL(s) = 0)
<1>1. Sch!MaxInMemoryL(s) = MaxInMemoryL(s)
  BY DEF Sch!MaxInMemoryL, MaxInMemoryL
<1>2. Sch!GetLastComputableL(s, m) = GetLastComputableL(s, m)
  BY DEF Sch!GetLastComputableL, Sch!MaxInMemoryL, Sch!Smaller, Sch!Min, Sch!Predecessors,
         Sch!HasLastComputedL, GetLastComputableL, MaxInMemoryL, Smaller, Min, Predecessors,
         HasLastComputedL
<1>. QED
  BY <1>1, <1>2 DEF Sch!MayRegister

\* A module that registers rows within its reach keeps the contract; if the
\* context refuses a row, the program fails.
LEMMA RegisterKeepsContract ==
  ASSUME ContextTypeOK, NEW m \in Module, phase = "process", Pipeline[at] = m,
         NEW last, NEW first, Register(m, last, first),
         \A s \in DOMAIN last : last[s] \in Int,
         \A s \in DOMAIN first : first[s] \in Int,
         Syl2Works[m] \subseteq DOMAIN grid,
         DOMAIN last \subseteq Syl2Works[m],
         \A s \in DOMAIN last :
           /\ last[s] >= 0
           /\ last[s] <= IF m \in {"WRITER"} THEN MaxInMemoryL(s) ELSE GetLastComputableL(s, m)
           /\ last[s] > 0 \/ MaxInMemoryL(s) = 0,
         \A s \in Syl2Works[m] \ DOMAIN last :
           /\ lastComputedL[s][m] > 0
           /\ lastComputedL[s][m] <= IF m \in {"WRITER"} THEN MaxInMemoryL(s)
                                     ELSE GetLastComputableL(s, m)
  PROVE  Sch!Process(m) \/ Sch!Fail
<1>1. CASE \E s \in DOMAIN last : IsInvalidRow(s, m, last[s])
  <2>1. Throw
    BY <1>1 DEF Register
  <2>. QED
    BY <2>1 DEF Sch!Fail, Sch!Throw, Throw, Sch!ExitCodeOf, ExitCodeOf, Sch!INCOMPLETE, INCOMPLETE,
         Sch!FAILURE, FAILURE, Sch!contextVars, contextVars
<1>2. CASE \A s \in DOMAIN last : ~IsInvalidRow(s, m, last[s])
  <2>1. /\ lastComputedL' = Registered(lastComputedL, m, last)
        /\ firstRequiredL' = Registered(firstRequiredL, m, first)
        /\ UNCHANGED grid
        /\ ProcessNext
    BY <1>2 DEF Register
  <2>2. /\ lastComputedL \in [Segment -> [Module -> Entry]]
        /\ firstRequiredL \in [Segment -> [Module -> Entry]]
    BY DEF ContextTypeOK
  <2>3. /\ lastComputedL' \in [Segment -> [Module -> Entry]]
        /\ \A s \in Segment : \A p \in Module :
             lastComputedL'[s][p] =
               IF p = m /\ s \in DOMAIN last THEN EntryOf(last[s]) ELSE lastComputedL[s][p]
    BY <2>1, <2>2, Registration
  <2>4. /\ firstRequiredL' \in [Segment -> [Module -> Entry]]
        /\ \A s \in Segment : \A p \in Module :
             firstRequiredL'[s][p] =
               IF p = m /\ s \in DOMAIN first THEN EntryOf(first[s]) ELSE firstRequiredL[s][p]
    BY <2>1, <2>2, Registration
  <2>5. ASSUME NEW s \in Syl2Works[m]
        PROVE  Sch!MayRegister(m, s, lastComputedL'[s][m])
    <3>1. s \in DOMAIN grid /\ s \in Segment
      BY DEF ContextTypeOK
    <3>2. lastComputedL[s][m] \in Entry
      BY <2>2, <3>1
    <3>3. CASE s \in DOMAIN last
      <4>1. lastComputedL'[s][m] = last[s]
        BY <2>3, <3>1, <3>3 DEF EntryOf
      <4>2. last[s] >= lastComputedL[s][m]
        BY <1>2, <3>2, <3>3 DEF IsInvalidRow, HasLastComputedL, Entry, None
      <4>. QED
        BY <3>3, <4>1, <4>2, MayRegisterIs
    <3>4. CASE s \notin DOMAIN last
      <4>1. lastComputedL'[s][m] = lastComputedL[s][m]
        BY <2>3, <3>1, <3>4
      <4>2. lastComputedL[s][m] >= lastComputedL[s][m]
        BY <3>2 DEF Entry, None
      <4>. QED
        BY <3>4, <4>1, <4>2, MayRegisterIs
    <3>. QED
      BY <3>3, <3>4
  <2>6. Sch!Module = Module /\ Sch!Entry = Entry
    BY DEF Sch!Module, Sch!Range, Module, Range, Sch!Entry, Sch!None, Entry, None
  <2>7. Sch!Turn("process", m)
    BY DEF Sch!Turn
  <2>8. Sch!ProcessNext
    BY <2>1 DEF Sch!ProcessNext, ProcessNext
  <2>9. \A s \in Segment : \A p \in Module :
          (p = m /\ s \in Syl2Works[m]) \/ lastComputedL'[s][p] = lastComputedL[s][p]
    BY <2>3
  <2>10. \A s \in Segment : \A p \in Module \ {m} : firstRequiredL'[s][p] = firstRequiredL[s][p]
    BY <2>4
  <2>. QED
    BY <2>1, <2>3, <2>4, <2>5, <2>6, <2>7, <2>8, <2>9, <2>10 DEF Sch!Process
<1>. QED
  BY <1>1, <1>2

-----------------------------------------------------------------------------
(* The invariant behind the contract. *)

\* Module number i of the pipeline has been started and has not been stopped.
IsStarted(i) ==
  \/ phase \in {"process", "move"}
  \/ phase = "start" /\ at > i
  \/ phase = "stop" /\ at >= i

\* The segments in the context are those of the modules that are started.
Present ==
  phase # "failed" =>
    /\ \A s \in SourceSegments : s \in DOMAIN grid <=> IsStarted(1)
    /\ T \in DOMAIN grid <=> IsStarted(2)
    /\ Avg \in DOMAIN grid <=> IsStarted(4)

\* The segments have the sizes that follow from the source product.
ShapesFit ==
  /\ \A s \in SourceSegments \cap DOMAIN grid :
       /\ product \in Products
       /\ grid[s].sizeL = GetSegmentSize(s, product.rows[s])
       /\ grid[s].maxL = product.rows[s] - 1
  /\ T \in DOMAIN grid =>
       /\ "OLC" \in DOMAIN grid
       /\ grid[T].sizeL = grid["OLC"].sizeL
       /\ grid[T].maxL = grid["OLC"].maxL
  /\ Avg \in DOMAIN grid =>
       /\ T \in DOMAIN grid
       /\ grid[Avg].maxL = (grid[T].maxL + AveragingFactor) \div AveragingFactor - 1
       /\ grid[Avg].sizeL = grid[Avg].maxL + 1
       /\ grid[Avg].minInMemoryL = 0

\* A module registers rows of the segments it works on only.
OwnEntries ==
  \A m \in Module : \A s \in Segment \ Syl2Works[m] : lastComputedL[s][m] = None

\* The row that module m reaches for segment s in its first turn, at least.
LeastL(s, m) ==
  CASE m = "READER"          -> grid[s].sizeL - 1
    [] m \in {"COL", "PCL"}  -> Smaller(NeededRows, grid[s].maxL + 1) - 1
    [] m = "AVE"             -> Smaller(FillDistance + 1, grid[s].maxL)
    [] OTHER                 -> Smaller(1, grid[s].maxL)

\* No module waits for another: what it registers lies beyond row 0, which
\* the context would take for no row, except in a segment of one row.
Enough ==
  \A m \in Module \ {"WRITER"} : \A s \in Syl2Works[m] \cap DOMAIN grid :
    lastComputedL[s][m] = None \/ lastComputedL[s][m] >= LeastL(s, m)

KInv ==
  /\ Sch!IInv
  /\ segmentLineCount \in LineCounts
  /\ Present
  /\ ShapesFit
  /\ OwnEntries
  /\ Enough

\* A step that keeps the contract keeps the invariant of Scheduler.
LEMMA ContractStep ==
  ASSUME Sch!IInv, Sch!Next \/ UNCHANGED Sch!vars
  PROVE  Sch!IInv'
BY Sch!NextInv, SchedulerAssumptions
   DEF Sch!NextInv, Sch!PipelineAssumption, Sch!SourcesAssumption, Sch!ContractAssumption

\* The types that the invariant implies.
LEMMA Types ==
  ASSUME KInv
  PROVE  /\ ProcessorTypeOK /\ ContextTypeOK
         /\ at \in 1..9
         /\ \A s \in Segment : \A m \in Module : lastComputedL[s][m] \in Entry /\ lastComputedL[s][m] \in Int
         /\ \A s \in Segment : \A m \in Module : firstRequiredL[s][m] \in Entry /\ firstRequiredL[s][m] \in Int
         /\ Segment = SourceSegments \cup {T, Avg}
         /\ segmentLineCount \in Nat \ {0}
         /\ AveragingFactor \in Nat \ {0} /\ FillDistance \in Nat
<1>1. ProcessorTypeOK
  BY WhatIInvSays DEF KInv
<1>2. \A e \in Entry : e \in Int
  BY DEF Entry, None
<1>. QED
  BY <1>1, <1>2, PipelineIs, TaskIsSyl2, TaskAssumption, Syl2Assumption
     DEF ProcessorTypeOK, ContextTypeOK, KInv, Syl2Segment

\* While modules process, all segments are in the context.
LEMMA AllPresent ==
  ASSUME KInv, phase \in {"process", "move"}
  PROVE  DOMAIN grid = Segment /\ product \in Products
<1>1. DOMAIN grid \subseteq Segment /\ Segment = SourceSegments \cup {T, Avg}
  BY Types DEF ContextTypeOK
<1>2. \A s \in SourceSegments : s \in DOMAIN grid
  BY DEF KInv, Present, IsStarted
<1>3. T \in DOMAIN grid /\ Avg \in DOMAIN grid
  BY DEF KInv, Present, IsStarted
<1>4. "OLC" \in SourceSegments
  BY DEF SourceSegments
<1>. QED
  BY <1>1, <1>2, <1>3, <1>4 DEF KInv, ShapesFit

\* A module throws.
LEMMA ThrowStep ==
  ASSUME KInv, Throw, phase \in {"start", "process", "stop"},
         UNCHANGED <<segmentLineCount, product>>
  PROVE  Sch!Fail /\ KInv'
<1>1. Sch!Fail
  BY DEF Sch!Fail, Sch!Throw, Throw, Sch!ExitCodeOf, ExitCodeOf, Sch!INCOMPLETE, INCOMPLETE,
         Sch!FAILURE, FAILURE, Sch!contextVars, contextVars
<1>2. Sch!IInv'
  BY <1>1, ContractStep DEF KInv, Sch!Next
<1>3. UNCHANGED <<grid, lastComputedL, firstRequiredL>> /\ phase' = "failed"
  BY DEF Throw, contextVars
<1>4. Present' /\ ShapesFit' /\ OwnEntries' /\ Enough'
  BY <1>3 DEF KInv, Present, ShapesFit, OwnEntries, Enough, LeastL, GetSegmentSize
<1>. QED
  BY <1>1, <1>2, <1>4 DEF KInv

\* A module that registers rows within its reach, and as many as the others
\* wait for, keeps the contract and the invariant.
LEMMA RegisterStep ==
  ASSUME KInv, NEW m \in Module, Turn("process", m), UNCHANGED <<segmentLineCount, product>>,
         NEW last, NEW first, Register(m, last, first),
         \A s \in DOMAIN first : first[s] \in Int,
         DOMAIN last \subseteq Syl2Works[m],
         \A s \in DOMAIN last :
           /\ last[s] \in Int
           /\ last[s] > 0 \/ (last[s] = 0 /\ MaxInMemoryL(s) = 0)
           /\ m = "WRITER" \/ last[s] >= LeastL(s, m)
           /\ last[s] <= IF m \in {"WRITER"} THEN MaxInMemoryL(s) ELSE GetLastComputableL(s, m),
         \A s \in Syl2Works[m] \ DOMAIN last :
           /\ lastComputedL[s][m] > 0
           /\ lastComputedL[s][m] <= IF m \in {"WRITER"} THEN MaxInMemoryL(s)
                                     ELSE GetLastComputableL(s, m)
  PROVE  KInv' /\ (Sch!Process(m) \/ Sch!Fail)
<1>1. CASE \E s \in DOMAIN last : IsInvalidRow(s, m, last[s])
  <2>1. Throw
    BY <1>1 DEF Register
  <2>. QED
    BY <2>1, ThrowStep DEF Turn
<1>2. CASE \A s \in DOMAIN last : ~IsInvalidRow(s, m, last[s])
  <2>1. DOMAIN grid = Segment /\ Syl2Works[m] \subseteq Segment /\ ContextTypeOK
    BY AllPresent, Types, WorksInSegments DEF Turn
  <2>2. \A s \in DOMAIN last : last[s] \in Int /\ last[s] >= 0 /\ (last[s] > 0 \/ MaxInMemoryL(s) = 0)
    OBVIOUS
  <2>3. Sch!Process(m) \/ Sch!Fail
    BY <2>1, <2>2, RegisterKeepsContract DEF Turn
  <2>4. Sch!IInv'
    BY <2>3, ContractStep DEF KInv, Sch!Next, Sch!Module, Module, Sch!Range, Range
  <2>5. /\ lastComputedL' = Registered(lastComputedL, m, last)
        /\ UNCHANGED grid
        /\ ProcessNext
    BY <1>2 DEF Register
  <2>6. \A s \in Segment : \A p \in Module :
          lastComputedL'[s][p] = IF p = m /\ s \in DOMAIN last THEN EntryOf(last[s]) ELSE lastComputedL[s][p]
    BY <2>1, <2>2, <2>5, Registration DEF ContextTypeOK
  <2>7. Present'
    BY <2>5 DEF KInv, Present, IsStarted, ProcessNext, Turn
  <2>8. ShapesFit'
    BY <2>5 DEF KInv, ShapesFit, GetSegmentSize
  <2>9. OwnEntries'
    BY <2>6 DEF KInv, OwnEntries
  <2>10. Enough'
    <3>. SUFFICES ASSUME NEW p \in Module \ {"WRITER"}, NEW s \in Syl2Works[p] \cap Segment
                  PROVE  lastComputedL'[s][p] = None \/ lastComputedL'[s][p] >= LeastL(s, p)
      BY <2>1, <2>5 DEF Enough, LeastL
    <3>1. CASE p = m /\ s \in DOMAIN last
      BY <2>2, <2>6, <3>1 DEF EntryOf
    <3>2. CASE ~(p = m /\ s \in DOMAIN last)
      BY <2>1, <2>6, <3>2 DEF KInv, Enough
    <3>. QED
      BY <3>1, <3>2
  <2>. QED
    BY <2>3, <2>4, <2>7, <2>8, <2>9, <2>10 DEF KInv
<1>. QED
  BY <1>1, <1>2

-----------------------------------------------------------------------------
(* Starting and stopping modules. *)

\* A module that adds its segments, with windows at row 0, keeps the contract.
LEMMA AddStep ==
  ASSUME KInv, NEW m \in Module, Turn("start", m), StartNext,
         UNCHANGED <<lastComputedL, firstRequiredL>>,
         NEW new, AddSegments(new), DOMAIN new = Syl2Adds[m],
         DOMAIN new \cap DOMAIN grid = {},
         \A s \in DOMAIN new : new[s] \in Grid /\ new[s].minInMemoryL = 0 /\ IsValidShape(new[s])
  PROVE  /\ Sch!Start(m) /\ Sch!IInv'
         /\ DOMAIN grid' = DOMAIN grid \cup Syl2Adds[m]
         /\ \A s \in DOMAIN grid : grid'[s] = grid[s]
         /\ \A s \in Syl2Adds[m] : grid'[s] = new[s]
<1>1. grid' = [s \in DOMAIN grid \cup DOMAIN new |-> IF s \in DOMAIN new THEN new[s] ELSE grid[s]]
  BY DEF AddSegments
<1>2. /\ DOMAIN grid' = DOMAIN grid \cup Syl2Adds[m]
      /\ \A s \in DOMAIN grid : grid'[s] = grid[s]
      /\ \A s \in Syl2Adds[m] : grid'[s] = new[s]
  BY <1>1
<1>3. \A s \in DOMAIN grid : grid[s] \in Grid
  BY Types, WindowType
<1>4. grid' \in [DOMAIN grid' -> Grid]
  BY <1>1, <1>2, <1>3
<1>5. \A s \in Syl2Adds[m] : grid'[s].minInMemoryL = 0 /\ Sch!IsValidShape(grid'[s])
  BY <1>2 DEF IsValidShape, Sch!IsValidShape
<1>6. Sch!Start(m)
  BY <1>2, <1>4, <1>5 DEF Sch!Start, Sch!Turn, Turn, Sch!Grid, Grid, Sch!StartNext, StartNext
<1>7. Sch!IInv'
  BY <1>6, ContractStep DEF KInv, Sch!Next, Sch!Module, Module, Sch!Range, Range
<1>. QED
  BY <1>2, <1>6, <1>7

\* When a module is started nothing has been computed.
LEMMA NothingComputed ==
  ASSUME KInv, phase = "start", UNCHANGED lastComputedL
  PROVE  /\ OwnEntries' /\ Enough'
         /\ \A s \in Segment : \A m \in Module : lastComputedL'[s][m] = None
<1>1. \A s \in Segment : lastComputedL'[s] = NoEntries
  BY WhatIInvSays DEF KInv
<1>2. \A s \in Segment : \A m \in Module : lastComputedL'[s][m] = None
  BY <1>1 DEF NoEntries
<1>3. \A m \in Module : Syl2Works[m] \subseteq Segment
  BY WorksInSegments
<1>. QED
  BY <1>2, <1>3 DEF OwnEntries, Enough

\* The numbers of rows of a product.
LEMMA ProductIs ==
  ASSUME NEW p \in Products
  PROVE  /\ \A s \in SourceSegments : p.rows[s] \in Nat \ {0}
         /\ p.rows["OLC"] \in Nat \ {0}
         /\ "OLC" \in SourceSegments
         /\ \A s \in ColSources : \A l \in 0..(p.rows["OLC"] - 1) :
              p.sources[s][l] \subseteq 0..(p.rows[s] - 1)
<1>1. "OLC" \in SourceSegments
  BY DEF SourceSegments
<1>. QED
  BY <1>1, ProductsAssumption

\* The reader adds the source segments.
LEMMA ReaderStartStep ==
  ASSUME KInv, ReaderStart
  PROVE  Sch!Start("READER") /\ KInv'
<1>1. /\ Turn("start", "READER") /\ phase = "start" /\ at = 1 /\ "READER" \in Module
      /\ UNCHANGED <<lastComputedL, firstRequiredL, segmentLineCount>>
      /\ StartNext
  BY Types, TurnIs, PipelineIs, ModulesAre DEF ReaderStart, Turn
<1>2. /\ \A s \in SourceSegments : s \notin DOMAIN grid
      /\ T \notin DOMAIN grid /\ Avg \notin DOMAIN grid
  BY <1>1 DEF KInv, Present, IsStarted
<1>3. PICK p \in Products :
        /\ product' = p
        /\ AddSegments([s \in SourceSegments \ DOMAIN grid |->
                          NewGrid(GetSegmentSize(s, p.rows[s]), p.rows[s] - 1)])
  BY DEF ReaderStart
<1> DEFINE new == [s \in SourceSegments |-> NewGrid(GetSegmentSize(s, p.rows[s]), p.rows[s] - 1)]
<1>4. AddSegments(new)
  <2>1. SourceSegments \ DOMAIN grid = SourceSegments
    BY <1>2
  <2>. QED
    BY <1>3, <2>1
<1>5. ASSUME NEW s \in SourceSegments
      PROVE  /\ new[s] \in Grid /\ new[s].minInMemoryL = 0 /\ IsValidShape(new[s])
             /\ new[s].sizeL = GetSegmentSize(s, p.rows[s])
             /\ new[s].maxL = p.rows[s] - 1
  <2>1. p.rows[s] \in Nat \ {0} /\ segmentLineCount \in Nat \ {0}
    BY ProductIs, Types
  <2>2. GetSegmentSize(s, p.rows[s]) \in Nat \ {0} /\ GetSegmentSize(s, p.rows[s]) <= p.rows[s]
    BY <2>1 DEF GetSegmentSize, Smaller
  <2>. QED
    BY <2>1, <2>2 DEF NewGrid, Grid, IsValidShape
<1> HIDE DEF new
<1>6. DOMAIN new = SourceSegments
  BY DEF new
<1>7. /\ Sch!Start("READER") /\ Sch!IInv'
      /\ DOMAIN grid' = DOMAIN grid \cup SourceSegments
      /\ \A s \in SourceSegments : grid'[s] = new[s]
  <2>1. DOMAIN new = Syl2Adds["READER"] /\ Syl2Adds["READER"] = SourceSegments
    BY <1>6, WorksAre
  <2>2. DOMAIN new \cap DOMAIN grid = {}
    BY <1>2, <1>6
  <2>3. \A s \in DOMAIN new : new[s] \in Grid /\ new[s].minInMemoryL = 0 /\ IsValidShape(new[s])
    BY <1>5, <1>6
  <2>. QED
    BY <1>1, <1>4, <2>1, <2>2, <2>3, AddStep
<1>8. IsStarted(1)' /\ ~IsStarted(2)' /\ ~IsStarted(4)'
  BY <1>1, PipelineIs DEF StartNext, IsStarted
<1>9. T \notin DOMAIN grid' /\ Avg \notin DOMAIN grid'
  BY <1>2, <1>7 DEF SourceSegments, T, Avg
<1>10. Present'
  BY <1>7, <1>8, <1>9 DEF Present
<1>11. ShapesFit'
  BY <1>1, <1>3, <1>5, <1>7, <1>9 DEF ShapesFit, GetSegmentSize
<1>12. OwnEntries' /\ Enough'
  BY <1>1, NothingComputed
<1>. QED
  BY <1>1, <1>7, <1>10, <1>11, <1>12 DEF KInv

\* The collocation adds the target segment, as long as OLC.
LEMMA ColStartStep ==
  ASSUME KInv, ColStart
  PROVE  Sch!Start("COL") /\ KInv'
<1>1. /\ Turn("start", "COL") /\ phase = "start" /\ at = 2 /\ "COL" \in Module
      /\ UNCHANGED <<lastComputedL, firstRequiredL, segmentLineCount, product>>
      /\ T \notin DOMAIN grid
      /\ AddSegments([s \in {T} |-> NewGrid(grid["OLC"].sizeL, grid["OLC"].maxL)])
      /\ StartNext
  BY Types, TurnIs, PipelineIs, ModulesAre DEF ColStart, Turn, dataVars, HasSegment
<1>2. /\ \A s \in SourceSegments : s \in DOMAIN grid
      /\ Avg \notin DOMAIN grid
      /\ "OLC" \in DOMAIN grid
  BY <1>1 DEF KInv, Present, IsStarted, SourceSegments
<1> DEFINE new == [s \in {T} |-> NewGrid(grid["OLC"].sizeL, grid["OLC"].maxL)]
<1>3. /\ new[T] \in Grid /\ new[T].minInMemoryL = 0 /\ IsValidShape(new[T])
      /\ new[T].sizeL = grid["OLC"].sizeL
      /\ new[T].maxL = grid["OLC"].maxL
  <2>1. grid["OLC"].sizeL \in Nat \ {0} /\ grid["OLC"].maxL \in Nat /\ IsValidShape(grid["OLC"])
    BY <1>2, Types, WindowType, WhatIInvSays DEF KInv
  <2>. QED
    BY <2>1 DEF NewGrid, Grid, IsValidShape
<1>4. DOMAIN new = {T} /\ AddSegments(new)
  BY <1>1
<1> HIDE DEF new
<1>5. /\ Sch!Start("COL") /\ Sch!IInv'
      /\ DOMAIN grid' = DOMAIN grid \cup {T}
      /\ \A s \in DOMAIN grid : grid'[s] = grid[s]
      /\ grid'[T] = new[T]
  <2>1. DOMAIN new = Syl2Adds["COL"] /\ Syl2Adds["COL"] = {T}
    BY <1>4, WorksAre
  <2>2. DOMAIN new \cap DOMAIN grid = {}
    BY <1>1, <1>4
  <2>3. \A s \in DOMAIN new : new[s] \in Grid /\ new[s].minInMemoryL = 0 /\ IsValidShape(new[s])
    BY <1>3, <1>4
  <2>4. /\ Sch!Start("COL") /\ Sch!IInv'
        /\ DOMAIN grid' = DOMAIN grid \cup Syl2Adds["COL"]
        /\ \A s \in DOMAIN grid : grid'[s] = grid[s]
        /\ \A s \in Syl2Adds["COL"] : grid'[s] = new[s]
    BY <1>1, <1>4, <2>1, <2>2, <2>3, AddStep
  <2>. QED
    BY <2>1, <2>4
<1>6. IsStarted(1)' /\ IsStarted(2)' /\ ~IsStarted(4)'
  BY <1>1, PipelineIs DEF StartNext, IsStarted
<1>7. Avg \notin DOMAIN grid'
  BY <1>2, <1>5 DEF T, Avg
<1>8. Present'
  BY <1>2, <1>5, <1>6, <1>7 DEF Present
<1>9. ShapesFit'
  BY <1>1, <1>2, <1>3, <1>5, <1>7 DEF KInv, ShapesFit, GetSegmentSize
<1>. QED
  BY <1>1, <1>5, <1>8, <1>9, NothingComputed DEF KInv

\* Whole lines are divided as integers are.
LEMMA Division ==
  ASSUME NEW x \in Nat, NEW a \in Nat \ {0}
  PROVE  /\ x \div a \in Nat
         /\ (x \div a) * a <= x
         /\ x < (x \div a) * a + a
OBVIOUS

\* Dividing is monotonic.
LEMMA AtLeast ==
  ASSUME NEW x \in Nat, NEW a \in Nat \ {0}, NEW k \in Nat, k * a <= x
  PROVE  k <= x \div a
<1>1. x \div a \in Nat /\ (x \div a) * a <= x /\ x < (x \div a) * a + a
  BY Division
<1>2. CASE x \div a < k
  <2> DEFINE q == x \div a
  <2>1. q + 1 <= k /\ q \in Nat
    BY <1>1, <1>2
  <2>2. (q + 1) * a <= k * a
    <3> HIDE DEF q
    <3> QED BY <2>1
  <2>3. (q + 1) * a = q * a + a
    BY <2>1
  <2>. QED
    BY <1>1, <2>2, <2>3
<1>. QED
  BY <1>1, <1>2

\* The last averaged line.
LEMMA LastAveragedLine ==
  ASSUME NEW x \in Nat, NEW a \in Nat \ {0}
  PROVE  /\ (x + a) \div a - 1 \in Nat
         /\ (x + a) \div a - 1 <= (x + 1) \div a
         /\ (x + a) \div a - 1 <= x
         /\ ((x + a) \div a - 1) * a <= x
         /\ x < ((x + a) \div a) * a
<1> DEFINE q == (x + a) \div a
           r == (x + 1) \div a
<1>1. q \in Nat /\ q * a <= x + a /\ x + a < q * a + a
  BY Division
<1>2. 1 <= q
  BY AtLeast
<1>3. (q - 1) * a <= x + 1
  BY <1>1
<1>4. q - 1 \in Nat
  BY <1>1, <1>2
<1> HIDE DEF q
<1>5. q - 1 <= (x + 1) \div a
  BY <1>3, <1>4, AtLeast
<1>6. (q - 1) * a <= x
  BY <1>1
<1>7. q - 1 <= (q - 1) * a
  BY <1>4
<1>8. x < q * a
  BY <1>1
<1>. QED
  BY <1>1, <1>4, <1>5, <1>6, <1>7, <1>8 DEF q

\* The averaging adds the averaged segment, as a whole.
LEMMA AveStartStep ==
  ASSUME KInv, AveStart
  PROVE  Sch!Start("AVE") /\ KInv'
<1> DEFINE maxL == (grid[T].maxL + AveragingFactor) \div AveragingFactor - 1
           new  == [s \in {Avg} |-> NewGrid(maxL + 1, maxL)]
<1>1. /\ Turn("start", "AVE") /\ phase = "start" /\ at = 4 /\ "AVE" \in Module
      /\ UNCHANGED <<lastComputedL, firstRequiredL, segmentLineCount, product>>
      /\ Avg \notin DOMAIN grid
      /\ AddSegments(new)
      /\ StartNext
  BY Types, TurnIs, PipelineIs, ModulesAre DEF AveStart, Turn, dataVars, HasSegment
<1>2. /\ \A s \in SourceSegments : s \in DOMAIN grid
      /\ T \in DOMAIN grid
  BY <1>1 DEF KInv, Present, IsStarted
<1>3. maxL \in Nat
  BY <1>2, Types, WindowType, LastAveragedLine
<1>4. DOMAIN new = {Avg} /\ new[Avg] = NewGrid(maxL + 1, maxL)
  OBVIOUS
<1> HIDE DEF maxL, new
<1>5. /\ new[Avg] \in Grid /\ new[Avg].minInMemoryL = 0 /\ IsValidShape(new[Avg])
      /\ new[Avg].sizeL = maxL + 1
      /\ new[Avg].maxL = maxL
  BY <1>3, <1>4 DEF NewGrid, Grid, IsValidShape
<1>6. /\ Sch!Start("AVE") /\ Sch!IInv'
      /\ DOMAIN grid' = DOMAIN grid \cup {Avg}
      /\ \A s \in DOMAIN grid : grid'[s] = grid[s]
      /\ grid'[Avg] = new[Avg]
  <2>1. DOMAIN new = Syl2Adds["AVE"] /\ Syl2Adds["AVE"] = {Avg}
    BY <1>4, WorksAre
  <2>2. DOMAIN new \cap DOMAIN grid = {}
    BY <1>1, <1>4
  <2>3. \A s \in DOMAIN new : new[s] \in Grid /\ new[s].minInMemoryL = 0 /\ IsValidShape(new[s])
    BY <1>4, <1>5
  <2>4. /\ Sch!Start("AVE") /\ Sch!IInv'
        /\ DOMAIN grid' = DOMAIN grid \cup Syl2Adds["AVE"]
        /\ \A s \in DOMAIN grid : grid'[s] = grid[s]
        /\ \A s \in Syl2Adds["AVE"] : grid'[s] = new[s]
    BY <1>1, <1>4, <2>1, <2>2, <2>3, AddStep
  <2>. QED
    BY <2>1, <2>4
<1>7. IsStarted(1)' /\ IsStarted(2)' /\ IsStarted(4)'
  BY <1>1, PipelineIs DEF StartNext, IsStarted
<1>8. Present'
  BY <1>2, <1>6, <1>7 DEF Present
<1>9. ShapesFit'
  BY <1>1, <1>2, <1>5, <1>6 DEF KInv, ShapesFit, GetSegmentSize, maxL
<1>. QED
  BY <1>1, <1>6, <1>8, <1>9, NothingComputed DEF KInv

\* A module that adds no segment.
LEMMA IdleStartStep ==
  ASSUME KInv, NEW m \in Module \ {"READER", "COL", "AVE"}, Turn("start", m), StartNext,
         UNCHANGED <<contextVars, segmentLineCount, product>>
  PROVE  Sch!Start(m) /\ KInv'
<1>1. /\ phase = "start" /\ at \in 1..9 /\ at \notin {1, 2, 4}
      /\ UNCHANGED <<grid, lastComputedL, firstRequiredL, segmentLineCount, product>>
  BY Types, TurnIs, PipelineIs DEF Turn, contextVars
<1>2. Syl2Adds[m] = {}
  BY WorksAre
<1>3. Sch!Start(m)
  <2>1. grid \in [DOMAIN grid -> Grid] /\ Sch!Grid = Grid
    BY Types DEF ContextTypeOK, Grid, Sch!Grid
  <2>2. Sch!Turn("start", m) /\ Sch!StartNext
    BY DEF Turn, Sch!Turn, StartNext, Sch!StartNext
  <2>. QED
    BY <1>1, <1>2, <2>1, <2>2 DEF Sch!Start
<1>4. Sch!IInv'
  BY <1>3, ContractStep DEF KInv, Sch!Next, Sch!Module, Module, Sch!Range, Range
<1>5. \A i \in {1, 2, 4} : IsStarted(i)' <=> IsStarted(i)
  BY <1>1, PipelineIs DEF StartNext, IsStarted
<1>6. Present' /\ ShapesFit'
  BY <1>1, <1>5 DEF KInv, Present, ShapesFit, GetSegmentSize
<1>7. OwnEntries' /\ Enough'
  BY <1>1, NothingComputed
<1>. QED
  BY <1>1, <1>3, <1>4, <1>6, <1>7 DEF KInv

\* A module that removes its segments keeps the contract.
LEMMA StopStep ==
  ASSUME KInv, NEW m \in Module, Turn("stop", m), StopNext, RemoveSegments(Syl2Adds[m]),
         UNCHANGED <<segmentLineCount, product>>
  PROVE  /\ Sch!Stop(m) /\ KInv'
         /\ DOMAIN grid' = DOMAIN grid \ Syl2Adds[m]
         /\ \A s \in DOMAIN grid' : grid'[s] = grid[s]
         /\ \A s \in Segment \ Syl2Adds[m] :
              lastComputedL'[s] = lastComputedL[s] /\ firstRequiredL'[s] = firstRequiredL[s]
         /\ \A s \in Segment \cap Syl2Adds[m] :
              lastComputedL'[s] = NoEntries /\ firstRequiredL'[s] = NoEntries
<1>1. phase = "stop" /\ Pipeline[at] = m /\ at \in 1..9
  BY Types DEF Turn
<1>2. /\ DOMAIN grid' = DOMAIN grid \ Syl2Adds[m]
      /\ \A s \in DOMAIN grid' : grid'[s] = grid[s]
      /\ \A s \in Segment \ Syl2Adds[m] :
           lastComputedL'[s] = lastComputedL[s] /\ firstRequiredL'[s] = firstRequiredL[s]
      /\ \A s \in Segment \cap Syl2Adds[m] :
           lastComputedL'[s] = NoEntries /\ firstRequiredL'[s] = NoEntries
  BY DEF RemoveSegments
<1>3. Sch!Stop(m)
  BY DEF Sch!Stop, Sch!Turn, Turn, Sch!RemoveSegments, RemoveSegments, Sch!NoEntries, NoEntries,
         Sch!None, None, Sch!Module, Module, Sch!Range, Range, Sch!StopNext, StopNext, Sch!OK, OK
<1>4. Sch!IInv'
  BY <1>3, ContractStep DEF KInv, Sch!Next, Sch!Module, Module, Sch!Range, Range
<1>5. /\ \A i \in {1, 2, 4} : IsStarted(i) <=> at >= i
      /\ \A i \in {1, 2, 4} : IsStarted(i)' <=> at > i
  BY <1>1 DEF IsStarted, StopNext
<1>6. /\ \A s \in SourceSegments : s \in Syl2Adds[m] <=> at = 1
      /\ T \in Syl2Adds[m] <=> at = 2
      /\ Avg \in Syl2Adds[m] <=> at = 4
  <2>1. \/ at = 1 /\ Syl2Adds[m] = SourceSegments
        \/ at = 2 /\ Syl2Adds[m] = {T}
        \/ at = 4 /\ Syl2Adds[m] = {Avg}
        \/ at \notin {1, 2, 4} /\ Syl2Adds[m] = {}
    BY <1>1, TurnIs, PipelineIs, WorksAre
  <2>. QED
    BY <2>1 DEF SourceSegments, T, Avg
<1>7. /\ \A s \in SourceSegments : s \in DOMAIN grid <=> at >= 1
      /\ T \in DOMAIN grid <=> at >= 2
      /\ Avg \in DOMAIN grid <=> at >= 4
  BY <1>1, <1>5 DEF KInv, Present
<1>8. /\ \A s \in SourceSegments : s \in DOMAIN grid' <=> at > 1
      /\ T \in DOMAIN grid' <=> at > 2
      /\ Avg \in DOMAIN grid' <=> at > 4
  BY <1>1, <1>2, <1>6, <1>7
<1>9. Present'
  BY <1>5, <1>8 DEF Present
<1>10. ShapesFit'
  <2>1. "OLC" \in SourceSegments
    BY DEF SourceSegments
  <2>2. \A s \in SourceSegments \cap DOMAIN grid' :
          /\ product' \in Products
          /\ grid'[s].sizeL = GetSegmentSize(s, product.rows[s])'
          /\ grid'[s].maxL = product'.rows[s] - 1
    BY <1>2 DEF KInv, ShapesFit, GetSegmentSize
  <2>3. T \in DOMAIN grid' =>
          /\ "OLC" \in DOMAIN grid'
          /\ grid'[T].sizeL = grid'["OLC"].sizeL
          /\ grid'[T].maxL = grid'["OLC"].maxL
    BY <1>1, <1>2, <1>8, <2>1 DEF KInv, ShapesFit
  <2>4. Avg \in DOMAIN grid' =>
          /\ T \in DOMAIN grid'
          /\ grid'[Avg].maxL = (grid'[T].maxL + AveragingFactor) \div AveragingFactor - 1
          /\ grid'[Avg].sizeL = grid'[Avg].maxL + 1
          /\ grid'[Avg].minInMemoryL = 0
    BY <1>1, <1>2, <1>8 DEF KInv, ShapesFit
  <2>. QED
    BY <2>2, <2>3, <2>4 DEF ShapesFit
<1>11. OwnEntries'
  <2>. SUFFICES ASSUME NEW p \in Module, NEW s \in Segment \ Syl2Works[p]
                PROVE  lastComputedL'[s][p] = None
    BY DEF OwnEntries
  <2>. QED
    BY <1>2 DEF KInv, OwnEntries, NoEntries
<1>12. Enough'
  <2>. SUFFICES ASSUME NEW p \in Module \ {"WRITER"}, NEW s \in Syl2Works[p] \cap DOMAIN grid'
                PROVE  lastComputedL'[s][p] = None \/ lastComputedL'[s][p] >= LeastL(s, p)'
    BY DEF Enough
  <2>1. s \in DOMAIN grid /\ s \notin Syl2Adds[m] /\ s \in Segment
    BY <1>2, Types DEF ContextTypeOK
  <2>2. LeastL(s, p)' = LeastL(s, p) /\ lastComputedL'[s][p] = lastComputedL[s][p]
    BY <1>2, <2>1 DEF LeastL
  <2>. QED
    BY <2>1, <2>2 DEF KInv, Enough
<1>. QED
  BY <1>2, <1>3, <1>4, <1>9, <1>10, <1>11, <1>12 DEF KInv

\* A module that removes nothing.
LEMMA NothingRemoved ==
  ASSUME ContextTypeOK, UNCHANGED contextVars
  PROVE  RemoveSegments({})
<1>1. /\ grid = [s \in DOMAIN grid \ {} |-> grid[s]]
      /\ lastComputedL = [s \in Segment |-> lastComputedL[s]]
      /\ firstRequiredL = [s \in Segment |-> firstRequiredL[s]]
  BY DEF ContextTypeOK
<1>. QED
  BY <1>1 DEF RemoveSegments, contextVars

-----------------------------------------------------------------------------
(* Sliding the windows. *)

\* The rows that decide how far a window slides.
\* The window that slides.
\* All windows slide; nothing is computed.
LEMMA MoveStep ==
  ASSUME KInv, MoveSegmentsForward, UNCHANGED <<segmentLineCount, product>>
  PROVE  Sch!MoveSegmentsForward /\ KInv'
<1>1. Sch!MoveSegmentsForward
  BY DEF Sch!MoveSegmentsForward, Sch!MovedGrid, Sch!ForwardL, Sch!CommonlyComputedL,
         Sch!GetFirstRequiredL, Sch!HasFirstRequiredL, Sch!MaxInMemoryL, Sch!Smaller, Sch!Larger,
         Sch!Min, Sch!IsCompleted, Sch!Module, Sch!Range, Sch!None,
         MoveSegmentsForward, MovedGrid, ForwardL, CommonlyComputedL, GetFirstRequiredL,
         HasFirstRequiredL, MaxInMemoryL, Smaller, Larger, Min, IsCompleted, Module, Range, None
<1>2. Sch!IInv'
  BY <1>1, ContractStep DEF KInv, Sch!Next
<1>3. /\ phase = "move" /\ UNCHANGED lastComputedL
      /\ DOMAIN grid' = DOMAIN grid
      /\ \A s \in DOMAIN grid : grid'[s] = MovedGrid(s)
      /\ \/ phase' = "stop" /\ at' = 9
         \/ phase' = "process" /\ at' = 1
  BY PipelineIs DEF MoveSegmentsForward
<1>4. \A s \in DOMAIN grid :
        /\ grid'[s].sizeL = grid[s].sizeL
        /\ grid'[s].maxL = grid[s].maxL
        /\ grid[s].minInMemoryL \in Nat /\ grid[s].sizeL \in Nat /\ grid[s].maxL \in Nat
        /\ grid'[s].minInMemoryL \in Nat
        /\ \/ grid'[s].minInMemoryL = grid[s].minInMemoryL
           \/ grid'[s].minInMemoryL <= grid[s].maxL - grid[s].sizeL + 1
  BY <1>3, Types, MovedWindow, WindowType
<1>5. Present'
  BY <1>3 DEF KInv, Present, IsStarted
<1>6. ShapesFit'
  BY <1>3, <1>4 DEF KInv, ShapesFit, GetSegmentSize
<1>7. OwnEntries'
  BY <1>3 DEF KInv, OwnEntries
<1>8. \A s \in DOMAIN grid : \A m \in Module : LeastL(s, m)' = LeastL(s, m)
  BY <1>4 DEF LeastL
<1>9. Enough'
  BY <1>3, <1>8 DEF KInv, Enough
<1>. QED
  BY <1>1, <1>2, <1>5, <1>6, <1>7, <1>9 DEF KInv

-----------------------------------------------------------------------------
(* The rows that the modules register. *)

\* A lower bound of what a module can compute, from what its predecessors
\* have computed at least.
LEMMA LeastComputable ==
  ASSUME KInv, NEW m \in Module, NEW s \in DOMAIN grid, NEW x \in Int,
         x <= MaxInMemoryL(s), x <= grid[s].maxL,
         \A p \in Predecessors(m) : s \in Syl2Works[p] => p # "WRITER" /\ x <= LeastL(s, p)
  PROVE  x <= GetLastComputableL(s, m)
<1>1. ASSUME NEW p \in Predecessors(m), lastComputedL[s][p] > 0
      PROVE  x <= lastComputedL[s][p]
  <2>1. p \in Module
    BY DEF Predecessors, Module, Range
  <2>2. s \in Segment /\ lastComputedL[s][p] \in Int
    BY <2>1, Types DEF ContextTypeOK
  <2>3. s \in Syl2Works[p]
    BY <1>1, <2>1, <2>2 DEF KInv, OwnEntries, None
  <2>4. p # "WRITER" /\ x <= LeastL(s, p)
    BY <2>3
  <2>5. lastComputedL[s][p] >= LeastL(s, p)
    BY <1>1, <2>1, <2>3, <2>4 DEF KInv, Enough, None
  <2>6. LeastL(s, p) \in Int
    <3>1. grid[s].sizeL \in Int /\ grid[s].maxL \in Int
      BY Types, WindowType
    <3>. QED
      BY <3>1, Types DEF LeastL, Smaller, NeededRows
  <2>. QED
    BY <2>2, <2>4, <2>5, <2>6
<1>. QED
  BY <1>1, Types, LastComputable

\* The rows in memory while modules process: a window holds the rows that the
\* modules need for their first turn.
LEMMA ProcessWindows ==
  ASSUME LongWindows, KInv, phase \in {"process", "move"}
  PROVE  /\ NeededRows \in Nat /\ NeededRows >= 4
         /\ NeededRows = (FillDistance + 2) * AveragingFactor
         /\ \A s \in Segment :
              /\ s \in DOMAIN grid
              /\ grid[s].minInMemoryL \in Nat /\ grid[s].sizeL \in Nat \ {0} /\ grid[s].maxL \in Nat
              /\ MaxInMemoryL(s) = grid[s].minInMemoryL + grid[s].sizeL - 1
              /\ MaxInMemoryL(s) \in Nat
              /\ MaxInMemoryL(s) <= grid[s].maxL
         /\ Smaller(NeededRows, grid[T].maxL + 1) <= grid[T].sizeL
         /\ MaxInMemoryL(Avg) = grid[Avg].maxL
         /\ product \in Products
         /\ grid[T].maxL = product.rows["OLC"] - 1 /\ product.rows["OLC"] \in Nat
         /\ \A s \in ColSources : \A l \in 0..grid[T].maxL :
              \A r \in product.sources[s][l] : r > GetLastComputableL(s, "COL") => l >= NeededRows
<1>1. NeededRows \in Nat /\ NeededRows >= 4
  BY Types DEF LongWindows, NeededRows
<1>2. DOMAIN grid = Segment /\ product \in Products /\ ContextTypeOK
      /\ Segment = SourceSegments \cup {T, Avg}
  BY AllPresent, Types
<1>3. \A s \in Segment :
              /\ s \in DOMAIN grid
              /\ grid[s].minInMemoryL \in Nat /\ grid[s].sizeL \in Nat \ {0} /\ grid[s].maxL \in Nat
              /\ MaxInMemoryL(s) = grid[s].minInMemoryL + grid[s].sizeL - 1
              /\ MaxInMemoryL(s) \in Nat
              /\ MaxInMemoryL(s) <= grid[s].maxL
  BY <1>2, WindowType, WhatIInvSays DEF KInv
<1>4. /\ \A s \in SourceSegments : /\ product.rows[s] \in Nat \ {0}
                                   /\ grid[s].sizeL = GetSegmentSize(s, product.rows[s])
                                   /\ grid[s].maxL = product.rows[s] - 1
      /\ "OLC" \in SourceSegments
      /\ ColSources \subseteq SourceSegments \ {"GEO"}
      /\ grid[T].sizeL = grid["OLC"].sizeL /\ grid[T].maxL = grid["OLC"].maxL
      /\ grid[Avg].sizeL = grid[Avg].maxL + 1 /\ grid[Avg].minInMemoryL = 0
  BY <1>2, ProductIs DEF KInv, ShapesFit, SourceSegments, ColSources
<1>5. \A s \in ColSources : grid[s].sizeL = Smaller(product.rows[s], segmentLineCount)
  BY <1>4 DEF GetSegmentSize
<1>6. /\ NeededRows <= segmentLineCount \/ product.rows["OLC"] <= segmentLineCount
      /\ \A s \in ColSources : \A l \in Rows(product) :
           l < NeededRows => product.sources[s][l] \subseteq 0..(segmentLineCount - 1)
  BY <1>2 DEF LongWindows, KInv
<1>7. Smaller(NeededRows, grid[T].maxL + 1) <= grid[T].sizeL
  <2>1. "OLC" \in ColSources /\ segmentLineCount \in Nat
    BY Types DEF ColSources
  <2>2. product.rows["OLC"] \in Nat /\ grid[T].maxL + 1 = product.rows["OLC"]
    BY <1>4
  <2>. QED
    BY <1>1, <1>4, <1>5, <1>6, <2>1, <2>2 DEF Smaller
<1>8. ASSUME NEW s \in ColSources, NEW l \in 0..grid[T].maxL, NEW r \in product.sources[s][l],
             r > GetLastComputableL(s, "COL")
      PROVE  l >= NeededRows
  <2>1. l \in 0..(product.rows["OLC"] - 1) /\ l \in Rows(product)
    BY <1>4 DEF Rows
  <2>2. r \in 0..(product.rows[s] - 1)
    BY <1>2, <2>1, ProductIs
  <2>3. grid[s].sizeL - 1 <= GetLastComputableL(s, "COL") /\ GetLastComputableL(s, "COL") \in Nat
    <3>1. s \in SourceSegments /\ s \in DOMAIN grid /\ "COL" \in Module
      BY <1>2, <1>4, ModulesAre
    <3>2. grid[s].sizeL - 1 \in Int /\ grid[s].sizeL - 1 <= MaxInMemoryL(s)
          /\ grid[s].sizeL - 1 <= grid[s].maxL
      BY <1>2, <1>3, <3>1
    <3>3. \A p \in Predecessors("COL") : p # "WRITER" /\ LeastL(s, p) = grid[s].sizeL - 1
      BY PredecessorsAre DEF LeastL
    <3>. QED
      BY <1>2, <3>1, <3>2, <3>3, LeastComputable, LastComputable
  <2>4. s \in SourceSegments /\ product.rows[s] \in Nat \ {0} /\ segmentLineCount \in Nat
    BY <1>4, Types
  <2>5. r >= segmentLineCount
    BY <1>5, <1>8, <2>2, <2>3, <2>4 DEF Smaller
  <2>6. l < NeededRows => r \in 0..(segmentLineCount - 1)
    BY <1>6, <2>1
  <2>. QED
    BY <1>1, <2>1, <2>2, <2>4, <2>5, <2>6
<1>9. MaxInMemoryL(Avg) = grid[Avg].maxL /\ product.rows["OLC"] \in Nat
      /\ grid[T].maxL = product.rows["OLC"] - 1
  BY <1>2, <1>3, <1>4
<1>. QED
  BY <1>1, <1>2, <1>3, <1>7, <1>8, <1>9 DEF NeededRows

\* The reader reaches the end of every window.
LEMMA ReaderStep ==
  ASSUME LongWindows, KInv, ReaderProcess
  PROVE  KInv' /\ (Sch!Process("READER") \/ Sch!Fail)
<1> DEFINE last == [s \in Unread |-> MaxInMemoryL(s)]
<1>1. /\ Turn("process", "READER") /\ phase = "process" /\ "READER" \in Module
      /\ Register("READER", last, << >>)
      /\ UNCHANGED <<segmentLineCount, product>>
  BY ModulesAre DEF ReaderProcess, Turn, dataVars
<1>2. Unread \subseteq SourceSegments /\ DOMAIN last = Unread /\ SourceSegments \subseteq Segment
  BY Types DEF Unread
<1>3. ASSUME NEW s \in SourceSegments
      PROVE  /\ s \in DOMAIN grid
             /\ MaxInMemoryL(s) \in Nat
             /\ MaxInMemoryL(s) >= grid[s].sizeL - 1
             /\ GetLastComputableL(s, "READER") = MaxInMemoryL(s)
  <2>1. /\ s \in Segment /\ s \in DOMAIN grid /\ ContextTypeOK
        /\ MaxInMemoryL(s) \in Nat /\ MaxInMemoryL(s) <= grid[s].maxL
        /\ MaxInMemoryL(s) >= grid[s].sizeL - 1
    <3>1. s \in Segment /\ ContextTypeOK
      BY <1>2, Types
    <3>2. /\ s \in DOMAIN grid
          /\ grid[s].minInMemoryL \in Nat /\ grid[s].sizeL \in Nat \ {0}
          /\ MaxInMemoryL(s) = grid[s].minInMemoryL + grid[s].sizeL - 1
          /\ MaxInMemoryL(s) \in Nat /\ MaxInMemoryL(s) <= grid[s].maxL
      BY <1>1, <3>1, ProcessWindows
    <3>. QED
      BY <3>1, <3>2
  <2>2. MaxInMemoryL(s) <= GetLastComputableL(s, "READER")
    <3>1. \A p \in Predecessors("READER") :
            s \in Syl2Works[p] => p # "WRITER" /\ MaxInMemoryL(s) <= LeastL(s, p)
      BY PredecessorsAre
    <3>2. MaxInMemoryL(s) \in Int /\ MaxInMemoryL(s) <= MaxInMemoryL(s)
      BY <2>1
    <3>. QED
      BY <1>1, <2>1, <3>1, <3>2, LeastComputable
  <2>. QED
    BY <1>1, <2>1, <2>2, LastComputable
<1>4. ASSUME NEW s \in DOMAIN last
      PROVE  /\ last[s] \in Int
             /\ last[s] > 0 \/ (last[s] = 0 /\ MaxInMemoryL(s) = 0)
             /\ last[s] >= LeastL(s, "READER")
             /\ last[s] <= GetLastComputableL(s, "READER")
  BY <1>2, <1>3 DEF LeastL
<1>5. ASSUME NEW s \in SourceSegments \ Unread
      PROVE  /\ lastComputedL[s]["READER"] > 0
             /\ lastComputedL[s]["READER"] = MaxInMemoryL(s)
  <2>1. HasLastComputedL(s, "READER") /\ GetLastComputedL(s, "READER") >= MaxInMemoryL(s)
    BY <1>3, <1>1, Types DEF Unread, GetLastComputedL, HasLastComputedL, None
  <2>2. lastComputedL[s]["READER"] <= MaxInMemoryL(s)
    BY <1>1, <1>3, WhatIInvSays DEF KInv
  <2>. QED
    BY <1>1, <1>2, <1>3, <2>1, <2>2, Types DEF HasLastComputedL, GetLastComputedL
<1>6. Syl2Works["READER"] = SourceSegments
  BY WorksAre
<1> HIDE DEF last
<1>7. \A s \in DOMAIN << >> : << >>[s] \in Int
  OBVIOUS
<1>8. /\ DOMAIN last \subseteq Syl2Works["READER"]
      /\ \A s \in DOMAIN last :
           /\ last[s] \in Int
           /\ last[s] > 0 \/ (last[s] = 0 /\ MaxInMemoryL(s) = 0)
           /\ "READER" = "WRITER" \/ last[s] >= LeastL(s, "READER")
           /\ last[s] <= IF "READER" \in {"WRITER"} THEN MaxInMemoryL(s) ELSE GetLastComputableL(s, "READER")
  BY <1>2, <1>4, <1>6
<1>9. \A s \in Syl2Works["READER"] \ DOMAIN last :
           /\ lastComputedL[s]["READER"] > 0
           /\ lastComputedL[s]["READER"] <= IF "READER" \in {"WRITER"} THEN MaxInMemoryL(s)
                                            ELSE GetLastComputableL(s, "READER")
  BY <1>2, <1>3, <1>5, <1>6
<1>. QED
  BY <1>1, <1>7, <1>8, <1>9, RegisterStep

\* A module that registers one row for the one segment it works on.
LEMMA OneSegmentStep ==
  ASSUME KInv, NEW m \in Module \ {"WRITER"}, Turn("process", m),
         UNCHANGED <<segmentLineCount, product>>,
         NEW s \in Segment, Syl2Works[m] = {s},
         NEW l \in Int, NEW first, Register(m, [t \in {s} |-> l], first),
         \A t \in DOMAIN first : first[t] \in Int,
         LeastL(s, m) <= l, Smaller(1, grid[s].maxL) <= l, l <= GetLastComputableL(s, m)
  PROVE  KInv' /\ (Sch!Process(m) \/ Sch!Fail)
<1> DEFINE last == [t \in {s} |-> l]
<1>1. DOMAIN last = {s} /\ last[s] = l
  OBVIOUS
<1>2. s \in DOMAIN grid /\ ContextTypeOK
  BY AllPresent, Types DEF Turn
<1>3. /\ grid[s].maxL \in Nat /\ MaxInMemoryL(s) \in Nat /\ MaxInMemoryL(s) <= grid[s].maxL
      /\ GetLastComputableL(s, m) \in Nat /\ GetLastComputableL(s, m) <= MaxInMemoryL(s)
  BY <1>2, WindowType, LastComputable, WhatIInvSays DEF KInv
<1>4. l > 0 \/ (l = 0 /\ MaxInMemoryL(s) = 0)
  BY <1>3 DEF Smaller
<1>5. LeastL(s, m) \in Int
  BY <1>2, Types, WindowType DEF LeastL, Smaller, NeededRows
<1>6. \A t \in DOMAIN last :
           /\ last[t] \in Int
           /\ last[t] > 0 \/ (last[t] = 0 /\ MaxInMemoryL(t) = 0)
           /\ m = "WRITER" \/ last[t] >= LeastL(t, m)
           /\ last[t] <= IF m \in {"WRITER"} THEN MaxInMemoryL(t) ELSE GetLastComputableL(t, m)
  BY <1>1, <1>3, <1>4, <1>5
<1>7. Syl2Works[m] \ DOMAIN last = {} /\ DOMAIN last \subseteq Syl2Works[m]
  BY <1>1
<1>8. Register(m, last, first)
  OBVIOUS
<1> HIDE DEF last
<1>. QED
  BY <1>6, <1>7, <1>8, RegisterStep

\* The line that the collocation registers.
LEMMA ColRow ==
  ASSUME LongWindows, KInv, phase = "process"
  PROVE  /\ ColLastL \in Int
         /\ LeastL(T, "COL") <= ColLastL /\ Smaller(1, grid[T].maxL) <= ColLastL
         /\ ColLastL <= GetLastComputableL(T, "COL")
         /\ GetLastComputableL(T, "COL") \in Nat
         /\ GetLastComputableL(T, "COL") = MaxInMemoryL(T)
<1>1. /\ T \in Segment /\ T \in DOMAIN grid /\ ContextTypeOK /\ "COL" \in Module
      /\ NeededRows \in Nat /\ NeededRows >= 4
      /\ grid[T].minInMemoryL \in Nat /\ grid[T].sizeL \in Nat \ {0} /\ grid[T].maxL \in Nat
      /\ MaxInMemoryL(T) = grid[T].minInMemoryL + grid[T].sizeL - 1
      /\ MaxInMemoryL(T) \in Nat /\ MaxInMemoryL(T) <= grid[T].maxL
      /\ Smaller(NeededRows, grid[T].maxL + 1) <= grid[T].sizeL
  BY ProcessWindows, Types, ModulesAre
<1>2. GetLastComputableL(T, "COL") = MaxInMemoryL(T)
  <2>1. \A p \in Predecessors("COL") : T \notin Syl2Works[p]
    BY PredecessorsAre, WorksAre DEF SourceSegments, T
  <2>2. MaxInMemoryL(T) <= GetLastComputableL(T, "COL")
    BY <1>1, <2>1, LeastComputable
  <2>. QED
    BY <1>1, <2>2, LastComputable
<1>3. GetFirstComputableL(T, "COL") \in Nat
  BY <1>1, Types DEF GetFirstComputableL, HasLastComputedL, Larger
<1>4. LeastL(T, "COL") = Smaller(NeededRows, grid[T].maxL + 1) - 1
  BY DEF LeastL
<1>5. CASE UnreadLines = {}
  BY <1>1, <1>2, <1>4, <1>5 DEF ColLastL, Smaller
<1>6. CASE UnreadLines # {}
  <2>1. UnreadLines \in SUBSET Nat
    BY <1>2, <1>3, <1>1 DEF UnreadLines
  <2>2. Min(UnreadLines) \in UnreadLines
    BY <1>6, <2>1, MinIs
  <2>3. PICK l \in UnreadLines : l = Min(UnreadLines)
    BY <2>2
  <2>4. l \in Nat /\ l <= GetLastComputableL(T, "COL") /\ l \in 0..grid[T].maxL
    BY <1>1, <1>2, <1>3 DEF UnreadLines
  <2>5. l >= NeededRows
    BY <2>4, ProcessWindows DEF UnreadLines
  <2>6. ColLastL = l - 1
    BY <1>6, <2>3 DEF ColLastL
  <2>. QED
    BY <1>1, <1>2, <1>4, <2>4, <2>5, <2>6 DEF Smaller
<1>. QED
  BY <1>5, <1>6, <1>1, <1>2

\* What the collocation requires are rows, or one row behind the window.
LEMMA ColRequired ==
  ASSUME LongWindows, KInv, phase = "process", NEW s \in ColSources
  PROVE  ColRequiredL(s, ColLines) \in Nat
<1>1. /\ s \in Segment /\ MaxInMemoryL(s) \in Nat /\ product \in Products
      /\ grid[T].maxL = product.rows["OLC"] - 1
      /\ T \in DOMAIN grid /\ grid[T].minInMemoryL \in Nat
      /\ MaxInMemoryL(T) <= grid[T].maxL
      /\ MaxInMemoryL(T) \in Nat /\ grid[T].maxL \in Nat
  BY ProcessWindows, Types DEF ColSources, SourceSegments
<1>2. CASE ColLines = {}
  BY <1>2 DEF ColRequiredL
<1>3. CASE ColLines # {}
  <2>1. /\ ColLastL \in Int
        /\ GetLastComputableL(T, "COL") \in Nat
        /\ GetLastComputableL(T, "COL") = MaxInMemoryL(T)
    BY ColRow
  <2>2. GetFirstComputableL(T, "COL") \in Nat
    BY <1>1, Types, ModulesAre DEF GetFirstComputableL, HasLastComputedL, Larger
  <2> DEFINE a == GetFirstComputableL(T, "COL")
             b == Smaller(ColLastL + 1, GetLastComputableL(T, "COL"))
  <2>3. ColLines = a..b
    BY DEF ColLines
  <2>4. a \in Nat /\ b \in Int /\ b <= MaxInMemoryL(T)
    BY <2>1, <2>2 DEF Smaller
  <2> HIDE DEF a, b
  <2>5. a <= b
    BY <1>3, <2>3, <2>4
  <2>6. Max(ColLines) \in 0..grid[T].maxL
    <3>1. \E x \in ColLines : \A y \in ColLines : x >= y
      BY <2>3, <2>4, <2>5
    <3>2. Max(ColLines) \in ColLines
      BY <3>1 DEF Max
    <3>. QED
      BY <1>1, <2>3, <2>4, <3>2
  <2>7. product.sources[s][Max(ColLines)] \subseteq Nat
    BY <1>1, <2>6, ProductIs
  <2>8. product.sources[s][Max(ColLines)] \cup {MaxInMemoryL(s) + 1} \in SUBSET Nat
    BY <1>1, <2>7
  <2>. QED
    BY <1>3, <2>8, MinIs DEF ColRequiredL
<1>. QED
  BY <1>2, <1>3

\* The collocation keeps the contract.
LEMMA ColStep ==
  ASSUME LongWindows, KInv, ColProcess
  PROVE  KInv' /\ (Sch!Process("COL") \/ Sch!Fail)
<1>1. Turn("process", "COL") /\ phase = "process" /\ UNCHANGED <<segmentLineCount, product>>
  BY DEF ColProcess, Turn
<1> DEFINE first == [s \in WithMis({"OLC", "SLN", "SLO", T}) |->
                       IF s \in {"SLN", "SLO"} THEN ColRequiredL(s, ColLines)
                       ELSE Smaller(ColRequiredL("OLC", ColLines), ColLastL)]
<1>2. Register("COL", [s \in {T} |-> ColLastL], first)
  BY DEF ColProcess
<1>3. \A t \in DOMAIN first : first[t] \in Int
  BY <1>1, ColRow, ColRequired DEF ColSources, Smaller
<1> HIDE DEF first
<1>. QED
  BY <1>1, <1>2, <1>3, ColRow, OneSegmentStep, WorksAre, ModulesAre, Types

\* The rows of the target segment that the modules behind the collocation can
\* compute at least.
LEMMA TargetRows ==
  ASSUME LongWindows, KInv, phase = "process", NEW m \in {"PCL", "AVE", "AEI", "ACO"}
  PROVE  /\ T \in Segment /\ T \in DOMAIN grid /\ ContextTypeOK /\ m \in Module
         /\ grid[T].maxL \in Nat /\ MaxInMemoryL(T) \in Nat /\ MaxInMemoryL(T) <= grid[T].maxL
         /\ NeededRows \in Nat /\ NeededRows >= 4
         /\ GetLastComputableL(T, m) \in Nat
         /\ GetLastComputableL(T, m) <= MaxInMemoryL(T)
         /\ Smaller(1, grid[T].maxL) <= GetLastComputableL(T, m)
         /\ m \in {"PCL", "AVE"} =>
              Smaller(NeededRows, grid[T].maxL + 1) - 1 <= GetLastComputableL(T, m)
<1>1. /\ T \in Segment /\ T \in DOMAIN grid /\ ContextTypeOK /\ m \in Module
      /\ NeededRows \in Nat /\ NeededRows >= 4
      /\ grid[T].minInMemoryL \in Nat /\ grid[T].sizeL \in Nat \ {0} /\ grid[T].maxL \in Nat
      /\ MaxInMemoryL(T) = grid[T].minInMemoryL + grid[T].sizeL - 1
      /\ MaxInMemoryL(T) \in Nat /\ MaxInMemoryL(T) <= grid[T].maxL
      /\ Smaller(NeededRows, grid[T].maxL + 1) <= grid[T].sizeL
  BY ProcessWindows, Types, ModulesAre
<1>2. GetLastComputableL(T, m) \in Nat /\ GetLastComputableL(T, m) <= MaxInMemoryL(T)
  BY <1>1, LastComputable
<1> DEFINE x == Smaller(NeededRows, grid[T].maxL + 1) - 1
           y == Smaller(1, grid[T].maxL)
<1>3. /\ x \in Int /\ x <= MaxInMemoryL(T) /\ x <= grid[T].maxL
      /\ y \in Int /\ y <= MaxInMemoryL(T) /\ y <= grid[T].maxL
      /\ y <= x
  BY <1>1 DEF Smaller
<1>4. T \notin Syl2Works["READER"] /\ T \notin Syl2Works["AVE"] /\ T \notin Syl2Works["AER"]
  BY WorksAre DEF SourceSegments, T, Avg
<1>5. /\ LeastL(T, "COL") = x /\ LeastL(T, "PCL") = x
      /\ LeastL(T, "AEI") = y
  BY DEF LeastL
<1> HIDE DEF x, y
<1>6. \A p \in Predecessors(m) : T \in Syl2Works[p] => p # "WRITER" /\ y <= LeastL(T, p)
  BY <1>3, <1>4, <1>5, PredecessorsAre
<1>7. m \in {"PCL", "AVE"} =>
        \A p \in Predecessors(m) : T \in Syl2Works[p] => p # "WRITER" /\ x <= LeastL(T, p)
  BY <1>3, <1>4, <1>5, PredecessorsAre
<1>8. y <= GetLastComputableL(T, m)
  BY <1>1, <1>3, <1>6, LeastComputable
<1>9. m \in {"PCL", "AVE"} => x <= GetLastComputableL(T, m)
  BY <1>1, <1>3, <1>7, LeastComputable
<1>. QED
  BY <1>1, <1>2, <1>8, <1>9 DEF x, y

\* The pixel classification and the atmospheric correction compute what the
\* context lets them.
LEMMA PclStep ==
  ASSUME LongWindows, KInv, PclProcess
  PROVE  KInv' /\ (Sch!Process("PCL") \/ Sch!Fail)
<1>1. Turn("process", "PCL") /\ phase = "process" /\ UNCHANGED <<segmentLineCount, product>>
      /\ Register("PCL", [s \in {T} |-> GetLastComputableL(T, "PCL")], << >>)
  BY DEF PclProcess, Turn
<1>2. /\ GetLastComputableL(T, "PCL") \in Int
      /\ LeastL(T, "PCL") <= GetLastComputableL(T, "PCL")
      /\ Smaller(1, grid[T].maxL) <= GetLastComputableL(T, "PCL")
      /\ GetLastComputableL(T, "PCL") <= GetLastComputableL(T, "PCL")
      /\ T \in Segment
  BY <1>1, TargetRows DEF LeastL
<1>3. \A t \in DOMAIN << >> : << >>[t] \in Int
  OBVIOUS
<1>. QED
  BY <1>1, <1>2, <1>3, OneSegmentStep, WorksAre, ModulesAre

\* The atmospheric correction keeps the contract.
LEMMA AcoStep ==
  ASSUME LongWindows, KInv, AcoProcess
  PROVE  KInv' /\ (Sch!Process("ACO") \/ Sch!Fail)
<1>1. Turn("process", "ACO") /\ phase = "process" /\ UNCHANGED <<segmentLineCount, product>>
      /\ Register("ACO", [s \in {T} |-> GetLastComputableL(T, "ACO")], << >>)
  BY DEF AcoProcess, Turn
<1>2. /\ GetLastComputableL(T, "ACO") \in Int
      /\ LeastL(T, "ACO") <= GetLastComputableL(T, "ACO")
      /\ Smaller(1, grid[T].maxL) <= GetLastComputableL(T, "ACO")
      /\ GetLastComputableL(T, "ACO") <= GetLastComputableL(T, "ACO")
      /\ T \in Segment
  BY <1>1, TargetRows DEF LeastL
<1>3. \A t \in DOMAIN << >> : << >>[t] \in Int
  OBVIOUS
<1>. QED
  BY <1>1, <1>2, <1>3, OneSegmentStep, WorksAre, ModulesAre

\* The averaged segment while modules process.
LEMMA AveragedSegment ==
  ASSUME LongWindows, KInv, phase = "process"
  PROVE  /\ Avg \in Segment /\ Avg \in DOMAIN grid /\ ContextTypeOK
         /\ grid[Avg].maxL \in Nat /\ MaxInMemoryL(Avg) = grid[Avg].maxL
         /\ grid[Avg].minInMemoryL = 0
         /\ grid[Avg].maxL = (grid[T].maxL + AveragingFactor) \div AveragingFactor - 1
         /\ GetLastComputableL(Avg, "AVE") = grid[Avg].maxL
         /\ GetLastComputableL(Avg, "AER") \in Nat
         /\ GetLastComputableL(Avg, "AER") <= grid[Avg].maxL
         /\ Smaller(FillDistance + 1, grid[Avg].maxL) <= GetLastComputableL(Avg, "AER")
         /\ GetLastComputableL(Avg, "AEI") \in Nat
         /\ GetLastComputableL(Avg, "AEI") <= grid[Avg].maxL
         /\ Smaller(1, grid[Avg].maxL) <= GetLastComputableL(Avg, "AEI")
<1>1. /\ Avg \in Segment /\ Avg \in DOMAIN grid /\ ContextTypeOK
      /\ {"AVE", "AER", "AEI"} \subseteq Module
      /\ grid[Avg].maxL \in Nat /\ MaxInMemoryL(Avg) = grid[Avg].maxL
      /\ FillDistance \in Nat
  BY ProcessWindows, Types, ModulesAre
<1>2. /\ grid[Avg].minInMemoryL = 0
      /\ grid[Avg].maxL = (grid[T].maxL + AveragingFactor) \div AveragingFactor - 1
  BY <1>1 DEF KInv, ShapesFit
<1>3. /\ Avg \notin Syl2Works["READER"] /\ Avg \notin Syl2Works["COL"] /\ Avg \notin Syl2Works["PCL"]
      /\ LeastL(Avg, "AVE") = Smaller(FillDistance + 1, grid[Avg].maxL)
      /\ LeastL(Avg, "AER") = Smaller(1, grid[Avg].maxL)
  BY WorksAre DEF SourceSegments, T, Avg, LeastL
<1>4. /\ grid[Avg].maxL \in Int /\ grid[Avg].maxL <= MaxInMemoryL(Avg)
      /\ \A x \in {1, FillDistance + 1} :
           /\ Smaller(x, grid[Avg].maxL) \in Int
           /\ Smaller(x, grid[Avg].maxL) <= MaxInMemoryL(Avg)
           /\ Smaller(x, grid[Avg].maxL) <= grid[Avg].maxL
      /\ Smaller(1, grid[Avg].maxL) <= Smaller(FillDistance + 1, grid[Avg].maxL)
  BY <1>1 DEF Smaller
<1>5. grid[Avg].maxL <= GetLastComputableL(Avg, "AVE")
  <2>1. \A p \in Predecessors("AVE") : Avg \notin Syl2Works[p]
    BY <1>3, PredecessorsAre
  <2>. QED
    BY <1>1, <1>4, <2>1, LeastComputable
<1>6. Smaller(FillDistance + 1, grid[Avg].maxL) <= GetLastComputableL(Avg, "AER")
  <2>1. \A p \in Predecessors("AER") : Avg \in Syl2Works[p] =>
          p # "WRITER" /\ Smaller(FillDistance + 1, grid[Avg].maxL) <= LeastL(Avg, p)
    BY <1>1, <1>3, <1>4, PredecessorsAre
  <2>. QED
    BY <1>1, <1>4, <2>1, LeastComputable
<1>7. Smaller(1, grid[Avg].maxL) <= GetLastComputableL(Avg, "AEI")
  <2>1. \A p \in Predecessors("AEI") : Avg \in Syl2Works[p] =>
          p # "WRITER" /\ Smaller(1, grid[Avg].maxL) <= LeastL(Avg, p)
    BY <1>1, <1>3, <1>4, PredecessorsAre
  <2>. QED
    BY <1>1, <1>4, <2>1, LeastComputable
<1>8. \A m \in {"AVE", "AER", "AEI"} :
        GetLastComputableL(Avg, m) \in Nat /\ GetLastComputableL(Avg, m) <= grid[Avg].maxL
  BY <1>1, LastComputable
<1>9. GetLastComputableL(Avg, "AVE") = grid[Avg].maxL
  BY <1>1, <1>5, <1>8
<1>. QED
  BY <1>1, <1>2, <1>6, <1>7, <1>8, <1>9

\* The line that the averaging registers, and the source rows it has read.
LEMMA AveRow ==
  ASSUME LongWindows, KInv, phase = "process"
  PROVE  /\ AveLastL \in Nat
         /\ LeastL(Avg, "AVE") <= AveLastL
         /\ Smaller(1, grid[Avg].maxL) <= AveLastL
         /\ AveLastL <= grid[Avg].maxL
         /\ AveLastL <= GetLastComputableL(Avg, "AVE")
         /\ \A l \in 0..AveLastL :
              Smaller((l + 1) * AveragingFactor - 1, grid[T].maxL) <= GetLastComputableL(T, "AVE")
<1> DEFINE lastSourceL == GetLastComputableL(T, "AVE")
           a           == AveragingFactor
           lines       == (lastSourceL + 1) \div a
           maxL        == grid[T].maxL
           last        == (maxL + a) \div a - 1
<1>1. /\ maxL \in Nat /\ lastSourceL \in Nat /\ lastSourceL <= maxL
      /\ a \in Nat \ {0} /\ FillDistance \in Nat
      /\ Smaller(NeededRows, maxL + 1) - 1 <= lastSourceL
      /\ NeededRows = (FillDistance + 2) * a
      /\ NeededRows \in Nat
  <2>1. /\ maxL \in Nat /\ lastSourceL \in Nat
        /\ Smaller(NeededRows, maxL + 1) - 1 <= lastSourceL
        /\ T \in DOMAIN grid /\ ContextTypeOK /\ "AVE" \in Module
    BY TargetRows
  <2>2. lastSourceL <= maxL
    BY <2>1, LastComputable
  <2>. QED
    BY <2>1, <2>2, ProcessWindows, Types
<1>2. grid[Avg].maxL = last /\ GetLastComputableL(Avg, "AVE") = last
  BY AveragedSegment
<1>3. AveLastL = Smaller(IF lastSourceL < maxL THEN lines - 1 ELSE lines, last)
  BY <1>2 DEF AveLastL
<1>4. /\ lines \in Nat /\ lines * a <= lastSourceL + 1
      /\ lastSourceL + 1 < lines * a + a
  <2> HIDE DEF a, lastSourceL
  <2>1. lastSourceL + 1 \in Nat /\ a \in Nat \ {0}
    BY <1>1
  <2>. QED
    BY <2>1, Division
<1>5. last \in Nat /\ last <= (maxL + 1) \div a /\ maxL < (last + 1) * a
  <2> HIDE DEF a, maxL
  <2>1. (maxL + a) \div a = last + 1
    <3>1. (maxL + a) \div a \in Nat
      BY <1>1, Division
    <3>. QED
      BY <3>1
  <2>2. last \in Nat /\ last <= (maxL + 1) \div a /\ maxL < ((maxL + a) \div a) * a
    BY <1>1, LastAveragedLine
  <2>. QED
    BY <2>1, <2>2
<1>6. LeastL(Avg, "AVE") = Smaller(FillDistance + 1, last)
  BY <1>2 DEF LeastL
<1>7. CASE lastSourceL < maxL
  <2>1. (FillDistance + 2) * a <= lastSourceL + 1
    BY <1>1, <1>7 DEF Smaller
  <2>2. FillDistance + 2 <= lines
    <3> HIDE DEF a, lastSourceL
    <3>1. lastSourceL + 1 \in Nat /\ a \in Nat \ {0} /\ FillDistance + 2 \in Nat
      BY <1>1
    <3>. QED
      BY <2>1, <3>1, AtLeast
  <2>3. AveLastL = Smaller(lines - 1, last)
    BY <1>3, <1>7
  <2>4. ASSUME NEW l \in 0..AveLastL
        PROVE  (l + 1) * a - 1 <= lastSourceL
    <3> HIDE DEF lines, a, lastSourceL, last, maxL
    <3>1. l \in Nat /\ l + 1 <= lines
      BY <1>4, <1>5, <2>3 DEF Smaller
    <3>2. (l + 1) * a <= lines * a
      BY <1>1, <1>4, <3>1
    <3>3. (l + 1) * a \in Nat /\ lines * a \in Nat
      BY <1>1, <1>4, <3>1
    <3>. QED
      BY <1>1, <1>4, <3>2, <3>3
  <2> HIDE DEF lines, a, lastSourceL, last, maxL
  <2>5. /\ AveLastL \in Nat
        /\ LeastL(Avg, "AVE") <= AveLastL /\ Smaller(1, last) <= AveLastL /\ AveLastL <= last
    BY <1>1, <1>4, <1>5, <1>6, <2>2, <2>3 DEF Smaller
  <2>6. ASSUME NEW l \in 0..AveLastL
        PROVE  Smaller((l + 1) * a - 1, maxL) <= lastSourceL
    <3>1. (l + 1) * a \in Int
      BY <1>1, <2>5
    <3>. QED
      BY <1>1, <2>4, <3>1 DEF Smaller
  <2>. QED
    BY <1>2, <2>5, <2>6 DEF lines, a, lastSourceL, last, maxL
<1>8. CASE ~(lastSourceL < maxL)
  <2>1. lastSourceL = maxL
    BY <1>1, <1>8
  <2>2. AveLastL = last
    BY <1>3, <1>4, <1>5, <1>8, <2>1 DEF Smaller
  <2> HIDE DEF lines, a, lastSourceL, last, maxL
  <2>3. /\ LeastL(Avg, "AVE") <= AveLastL /\ Smaller(1, last) <= AveLastL
    BY <1>1, <1>5, <1>6, <2>2 DEF Smaller
  <2>4. ASSUME NEW l \in 0..AveLastL
        PROVE  Smaller((l + 1) * a - 1, maxL) <= lastSourceL
    <3>1. (l + 1) * a \in Int
      BY <1>1, <1>5, <2>2
    <3>. QED
      BY <1>1, <2>1, <3>1 DEF Smaller
  <2>5. AveLastL \in Nat /\ AveLastL <= last
    BY <1>5, <2>2
  <2>. QED
    BY <1>2, <2>3, <2>4, <2>5 DEF lines, a, lastSourceL, last, maxL
<1>. QED
  BY <1>7, <1>8

\* The averaging keeps the contract.
LEMMA AveStep ==
  ASSUME LongWindows, KInv, AveProcess
  PROVE  KInv' /\ (Sch!Process("AVE") \/ Sch!Fail)
<1>1. Turn("process", "AVE") /\ phase = "process" /\ UNCHANGED <<segmentLineCount, product>>
  BY DEF AveProcess, Turn
<1> DEFINE first == [s \in WithMis({T, "OLC"}) |-> (AveLastL + 1) * AveragingFactor]
<1>2. Register("AVE", [s \in {Avg} |-> AveLastL], first)
  BY DEF AveProcess
<1>3. \A t \in DOMAIN first : first[t] \in Int
  BY <1>1, AveRow, Types
<1> HIDE DEF first
<1>4. Avg \in Segment /\ AveLastL \in Int
  BY <1>1, AveRow, Types
<1>. QED
  BY <1>1, <1>2, <1>3, <1>4, AveRow, OneSegmentStep, WorksAre, ModulesAre

\* The aerosol retrieval keeps the contract: the lines that it leaves to be
\* filled later are fewer than those that have been averaged.
LEMMA AerStep ==
  ASSUME LongWindows, KInv, AerProcess
  PROVE  KInv' /\ (Sch!Process("AER") \/ Sch!Fail)
<1>1. Turn("process", "AER") /\ phase = "process" /\ UNCHANGED <<segmentLineCount, product>>
      /\ Register("AER", [s \in {Avg} |-> AerLastFillableL], << >>)
  BY DEF AerProcess, Turn
<1>2. LeastL(Avg, "AER") = Smaller(1, grid[Avg].maxL)
  BY DEF LeastL
<1>3. /\ AerLastFillableL \in Int
      /\ Smaller(1, grid[Avg].maxL) <= AerLastFillableL
      /\ AerLastFillableL <= GetLastComputableL(Avg, "AER")
      /\ Avg \in Segment
  BY <1>1, AveragedSegment, Types DEF AerLastFillableL, Smaller
<1>4. \A t \in DOMAIN << >> : << >>[t] \in Int
  OBVIOUS
<1>. QED
  BY <1>1, <1>2, <1>3, <1>4, OneSegmentStep, WorksAre, ModulesAre

\* The averaged line before a line near the start of the segment is line 0.
LEMMA FirstSourceLine ==
  ASSUME NEW l \in Nat, AveragingFactor \in Nat \ {0, 1}, grid[Avg].maxL \in Nat,
         SourceL0(l) + 1 > 1
  PROVE  l >= 2
<1> DEFINE x == Larger(l - AveragingFactor \div 2, 0)
<1>1. AveragingFactor \div 2 \in Nat /\ AveragingFactor \div 2 >= 1
  BY AtLeast, Division
<1>2. x \in Nat /\ x <= l
  BY <1>1 DEF Larger
<1>3. x \div AveragingFactor \in Nat /\ (x \div AveragingFactor) * AveragingFactor <= x
  <2> HIDE DEF x
  <2> QED BY <1>2, Division
<1>4. SourceL0(l) <= x \div AveragingFactor \/ SourceL0(l) = 0
  BY <1>3 DEF SourceL0, MinMax
<1>5. SourceL0(l) \in Int
  BY <1>3 DEF SourceL0, MinMax
<1> HIDE DEF x
<1> DEFINE q == x \div AveragingFactor
<1>6. q >= 1 /\ q \in Nat /\ q * AveragingFactor <= x
  BY <1>3, <1>4, <1>5
<1> HIDE DEF q
<1>7. AveragingFactor <= q * AveragingFactor
  BY <1>6
<1>8. q * AveragingFactor \in Nat
  BY <1>6
<1>. QED
  BY <1>2, <1>6, <1>7, <1>8

\* The line that the interpolation registers, and the averaged lines that are
\* computed for it.
LEMMA AeiRow ==
  ASSUME LongWindows, KInv, phase = "process"
  PROVE  /\ AeiLastL \in Nat
         /\ AeiLastL <= GetLastComputableL(T, "AEI")
         /\ Smaller(1, grid[T].maxL) <= AeiLastL
         /\ \A l \in AeiLines : SourceL0(l) + 1 <= GetLastComputableL(Avg, "AEI")
<1> DEFINE late == {k \in ComputableLines("AEI") : SourceL0(k) + 1 > GetLastComputableL(Avg, "AEI")}
           rows == {GetLastComputableL(T, "AEI")} \cup {l - 1 : l \in late}
<1>1. /\ GetLastComputableL(T, "AEI") \in Nat
      /\ Smaller(1, grid[T].maxL) <= GetLastComputableL(T, "AEI")
      /\ grid[T].maxL \in Nat
      /\ T \in Segment /\ T \in DOMAIN grid /\ ContextTypeOK /\ "AEI" \in Module
      /\ grid[T].minInMemoryL \in Nat
  BY TargetRows, WindowType
<1>2. /\ grid[Avg].maxL \in Nat
      /\ GetLastComputableL(Avg, "AEI") \in Nat
      /\ Smaller(1, grid[Avg].maxL) <= GetLastComputableL(Avg, "AEI")
  BY AveragedSegment
<1>3. AveragingFactor \in Nat \ {0, 1}
  BY Types DEF LongWindows
<1>4. GetFirstComputableL(T, "AEI") \in Nat
  BY <1>1, Types DEF GetFirstComputableL, HasLastComputedL, Larger
<1>5. ASSUME NEW l \in Nat PROVE SourceL0(l) \in Int /\ SourceL0(l) <= grid[Avg].maxL
  <2> DEFINE x == Larger(l - AveragingFactor \div 2, 0)
  <2>1. x \in Nat
    BY <1>3, Division DEF Larger
  <2>2. x \div AveragingFactor \in Nat
    <3> HIDE DEF x
    <3> QED BY <1>3, <2>1, Division
  <2>. QED
    BY <1>2, <2>2 DEF SourceL0, MinMax
<1>6. ASSUME NEW l \in late PROVE l \in Nat /\ l >= 2
  <2>1. l \in Nat /\ SourceL0(l) + 1 > GetLastComputableL(Avg, "AEI") /\ l \in ComputableLines("AEI")
    BY <1>1, <1>4 DEF ComputableLines
  <2>2. SourceL0(l) \in Int
    BY <1>5, <2>1
  <2>3. grid[Avg].maxL # 0
    <3>1. ASSUME grid[Avg].maxL = 0 PROVE SourceL0(l) <= -1
      <4> DEFINE x == Larger(l - AveragingFactor \div 2, 0)
      <4>1. x \in Nat
        BY <1>3, <2>1, Division DEF Larger
      <4>2. x \div AveragingFactor \in Nat
        <5> HIDE DEF x
        <5> QED BY <1>3, <4>1, Division
      <4>. QED
        BY <3>1, <4>2 DEF SourceL0, MinMax
    <3>. QED
      BY <1>2, <2>1, <2>2, <3>1
  <2>4. SourceL0(l) + 1 > 1
    BY <1>2, <2>1, <2>2, <2>3 DEF Smaller
  <2>. QED
    BY <1>2, <1>3, <2>1, <2>4, FirstSourceLine
<1>7. rows \in SUBSET Nat /\ rows # {}
  BY <1>1, <1>6
<1>8. AeiLastL = Min(rows)
  BY DEF AeiLastL
<1>9. Min(rows) \in rows /\ \A y \in rows : Min(rows) <= y
  BY <1>7, MinIs
<1>10. AeiLastL \in Nat /\ AeiLastL <= GetLastComputableL(T, "AEI")
  BY <1>7, <1>8, <1>9
<1>11. Smaller(1, grid[T].maxL) <= AeiLastL
  <2>1. \A y \in rows : Smaller(1, grid[T].maxL) <= y
    BY <1>1, <1>6 DEF Smaller
  <2>. QED
    BY <1>8, <1>9, <2>1
<1>12. ASSUME NEW l \in AeiLines PROVE SourceL0(l) + 1 <= GetLastComputableL(Avg, "AEI")
  <2>1. l \in Nat /\ l <= AeiLastL /\ l \in ComputableLines("AEI")
    BY <1>1, <1>4, <1>10 DEF AeiLines, ComputableLines
  <2>2. l \notin late
    <3>1. l \in late => l - 1 \in rows
      OBVIOUS
    <3>2. l \in late => AeiLastL <= l - 1
      BY <1>8, <1>9, <3>1
    <3>. QED
      BY <1>10, <2>1, <3>2
  <2>. QED
    BY <1>2, <1>5, <2>1, <2>2
<1>. QED
  BY <1>10, <1>11, <1>12

\* The interpolation keeps the contract.
LEMMA AeiStep ==
  ASSUME LongWindows, KInv, AeiProcess
  PROVE  KInv' /\ (Sch!Process("AEI") \/ Sch!Fail)
<1>1. Turn("process", "AEI") /\ phase = "process" /\ UNCHANGED <<segmentLineCount, product>>
  BY DEF AeiProcess, Turn
<1> DEFINE first == [s \in AeiRequires |-> AeiLastL + 1]
<1>2. Register("AEI", [s \in {T} |-> AeiLastL], first)
  BY DEF AeiProcess
<1>3. \A t \in DOMAIN first : first[t] \in Int
  BY <1>1, AeiRow
<1> HIDE DEF first
<1>4. /\ T \in Segment /\ AeiLastL \in Int
      /\ LeastL(T, "AEI") = Smaller(1, grid[T].maxL)
  BY <1>1, AeiRow, Types DEF LeastL
<1>. QED
  BY <1>1, <1>2, <1>3, <1>4, AeiRow, OneSegmentStep, WorksAre, ModulesAre

\* The writer registers the whole window, complete or not.
LEMMA WriterStep ==
  ASSUME LongWindows, KInv, WriterProcess
  PROVE  KInv' /\ (Sch!Process("WRITER") \/ Sch!Fail)
<1> DEFINE last == [s \in WrittenSegments |-> MaxInMemoryL(s)]
<1>1. /\ Turn("process", "WRITER") /\ phase = "process" /\ "WRITER" \in Module
      /\ Register("WRITER", last, << >>)
      /\ UNCHANGED <<segmentLineCount, product>>
  BY ModulesAre DEF WriterProcess, Turn
<1>2. /\ Syl2Works["WRITER"] = WrittenSegments /\ DOMAIN last = WrittenSegments
      /\ \A s \in WrittenSegments : s \in Segment /\ last[s] = MaxInMemoryL(s)
  BY WorksAre, Types DEF WrittenSegments, SourceSegments
<1>3. \A s \in WrittenSegments : MaxInMemoryL(s) \in Nat
  BY <1>1, <1>2, ProcessWindows
<1> HIDE DEF last
<1>4. /\ DOMAIN last \subseteq Syl2Works["WRITER"]
      /\ \A s \in DOMAIN last :
           /\ last[s] \in Int
           /\ last[s] > 0 \/ (last[s] = 0 /\ MaxInMemoryL(s) = 0)
           /\ "WRITER" = "WRITER" \/ last[s] >= LeastL(s, "WRITER")
           /\ last[s] <= IF "WRITER" \in {"WRITER"} THEN MaxInMemoryL(s) ELSE GetLastComputableL(s, "WRITER")
  BY <1>2, <1>3
<1>5. \A s \in Syl2Works["WRITER"] \ DOMAIN last :
           /\ lastComputedL[s]["WRITER"] > 0
           /\ lastComputedL[s]["WRITER"] <= IF "WRITER" \in {"WRITER"} THEN MaxInMemoryL(s)
                                            ELSE GetLastComputableL(s, "WRITER")
  BY <1>2
<1>6. \A s \in DOMAIN << >> : << >>[s] \in Int
  OBVIOUS
<1>. QED
  BY <1>1, <1>4, <1>5, <1>6, RegisterStep

\* A module that registers nothing.
LEMMA IdleProcessStep ==
  ASSUME KInv, IdleProcess("MANIFEST")
  PROVE  KInv' /\ Sch!Process("MANIFEST")
<1>1. /\ Turn("process", "MANIFEST") /\ phase = "process" /\ ProcessNext
      /\ UNCHANGED <<grid, lastComputedL, firstRequiredL, segmentLineCount, product>>
  BY DEF IdleProcess, Turn, contextVars, dataVars
<1>2. /\ lastComputedL \in [Segment -> [Module -> Entry]]
      /\ firstRequiredL \in [Segment -> [Module -> Entry]]
  BY Types DEF ContextTypeOK
<1>3. Sch!Module = Module /\ Sch!Entry = Entry /\ Syl2Works["MANIFEST"] = {}
  BY WorksAre DEF Sch!Module, Sch!Range, Module, Range, Sch!Entry, Sch!None, Entry, None
<1>4. Sch!Turn("process", "MANIFEST") /\ Sch!ProcessNext
  BY <1>1 DEF Sch!Turn, Turn, Sch!ProcessNext, ProcessNext
<1>5. Sch!Process("MANIFEST")
  BY <1>1, <1>2, <1>3, <1>4 DEF Sch!Process
<1>6. Sch!IInv'
  BY <1>3, <1>5, ModulesAre, ContractStep DEF KInv, Sch!Next
<1>7. Present'
  BY <1>1 DEF KInv, Present, IsStarted, ProcessNext
<1>8. ShapesFit' /\ OwnEntries' /\ Enough'
  BY <1>1 DEF KInv, ShapesFit, OwnEntries, Enough, LeastL, GetSegmentSize
<1>. QED
  BY <1>1, <1>5, <1>6, <1>7, <1>8 DEF KInv

-----------------------------------------------------------------------------
(* The task implements Scheduler. *)

\* The program begins with an empty context.
LEMMA InitKInv ==
  ASSUME Init
  PROVE  KInv /\ Sch!Init
<1>1. Sch!Init
  BY DEF Init, TaskInit, ProcessorInit, ContextInit, NewGrid, NoEntries, None, Module, Range, Running,
         Sch!Init, Sch!ProcessorInit, Sch!ContextInit, Sch!NewGrid, Sch!NoEntries, Sch!None,
         Sch!Module, Sch!Range, Sch!Running
<1>2. Sch!IInv
  BY <1>1, Sch!InitInv, SchedulerAssumptions
     DEF Sch!InitInv, Sch!PipelineAssumption, Sch!SourcesAssumption, Sch!ContractAssumption
<1>3. /\ DOMAIN grid = {} /\ phase = "start" /\ at = 1 /\ segmentLineCount \in LineCounts
      /\ \A s \in Segment : lastComputedL[s] = NoEntries
  BY DEF Init, TaskInit, ProcessorInit, ContextInit
<1>4. Present /\ ShapesFit
  BY <1>3 DEF Present, ShapesFit, IsStarted
<1>5. OwnEntries /\ Enough
  BY <1>3 DEF OwnEntries, Enough, NoEntries
<1>. QED
  BY <1>1, <1>2, <1>3, <1>4, <1>5 DEF KInv

\* A module is started.
LEMMA StartsStep ==
  ASSUME KInv,
         \/ ReaderStart \/ ColStart \/ AveStart \/ WriterStart("WRITER")
         \/ \E m \in {"PCL", "AER", "AEI", "ACO", "MANIFEST"} : IdleStart(m)
  PROVE  KInv' /\ \E m \in Module : Sch!Start(m)
<1>1. CASE ReaderStart \/ ColStart \/ AveStart
  BY <1>1, ReaderStartStep, ColStartStep, AveStartStep, ModulesAre
<1>2. CASE WriterStart("WRITER")
  BY <1>2, IdleStartStep, ModulesAre DEF WriterStart
<1>3. CASE \E m \in {"PCL", "AER", "AEI", "ACO", "MANIFEST"} : IdleStart(m)
  <2>1. PICK m \in {"PCL", "AER", "AEI", "ACO", "MANIFEST"} : IdleStart(m)
    BY <1>3
  <2>2. m \in Module \ {"READER", "COL", "AVE"}
    BY ModulesAre
  <2>3. Turn("start", m) /\ StartNext /\ UNCHANGED <<contextVars, segmentLineCount, product>>
    BY <2>1 DEF IdleStart, dataVars
  <2>. QED
    BY <2>2, <2>3, IdleStartStep
<1>. QED
  BY <1>1, <1>2, <1>3

\* A module is stopped: it removes its segments, and the reader takes what has
\* been computed with them.
LEMMA StopsAre ==
  ASSUME KInv,
         \/ ManifestStop \/ WriterStop("WRITER") \/ AveStop \/ ColStop \/ ReaderStop
         \/ \E m \in {"ACO", "AEI", "AER", "PCL"} : IdleStop(m)
  PROVE  \E m \in Module :
           /\ Turn("stop", m) /\ StopNext /\ RemoveSegments(Syl2Adds[m])
           /\ UNCHANGED <<segmentLineCount, product, file>>
           /\ ncFiles' \in {ncFiles, "closed"} /\ manifest' \in {manifest, ncFiles}
           /\ final' = IF m = "READER" THEN NothingFinal ELSE final
<1>1. CASE ReaderStop
  BY <1>1, WorksAre, ModulesAre DEF ReaderStop
<1>2. CASE ColStop \/ AveStop
  BY <1>2, WorksAre, ModulesAre DEF ColStop, AveStop, dataVars
<1>3. CASE \/ ManifestStop \/ WriterStop("WRITER")
           \/ \E m \in {"ACO", "AEI", "AER", "PCL"} : IdleStop(m)
  <2>1. PICK m \in {"MANIFEST", "WRITER", "ACO", "AEI", "AER", "PCL"} :
          /\ Turn("stop", m) /\ StopNext /\ UNCHANGED contextVars
          /\ UNCHANGED <<segmentLineCount, product, file, final>>
          /\ ncFiles' \in {ncFiles, "closed"} /\ manifest' \in {manifest, ncFiles}
    BY <1>3 DEF ManifestStop, WriterStop, IdleStop, dataVars
  <2>2. m \in Module /\ m # "READER" /\ Syl2Adds[m] = {}
    BY ModulesAre, WorksAre
  <2>3. RemoveSegments(Syl2Adds[m])
    BY <2>1, <2>2, NothingRemoved, Types
  <2>. QED
    BY <2>1, <2>2, <2>3
<1>. QED
  BY <1>1, <1>2, <1>3

\* Every step of the task is one that Scheduler allows.
LEMMA StepKInv ==
  ASSUME LongWindows, KInv, [Next]_vars
  PROVE  KInv' /\ [Sch!Next]_(Sch!vars)
<1>1. Sch!Module = Module
  BY DEF Sch!Module, Sch!Range, Module, Range
<1>3. CASE \/ ReaderStart \/ ColStart \/ AveStart \/ WriterStart("WRITER")
           \/ \E m \in {"PCL", "AER", "AEI", "ACO", "MANIFEST"} : IdleStart(m)
  BY <1>1, <1>3, StartsStep DEF Sch!Next
<1>4. CASE ReaderProcess \/ ColProcess \/ PclProcess \/ AveProcess
  BY <1>1, <1>4, ReaderStep, ColStep, PclStep, AveStep, ModulesAre DEF Sch!Next
<1>5. CASE AerProcess \/ AeiProcess \/ AcoProcess \/ WriterProcess \/ IdleProcess("MANIFEST")
  BY <1>1, <1>5, AerStep, AeiStep, AcoStep, WriterStep, IdleProcessStep, ModulesAre DEF Sch!Next
<1>6. CASE MoveSegmentsForward /\ UNCHANGED dataVars
  BY <1>6, MoveStep DEF Sch!Next, dataVars
<1>7. CASE \/ ManifestStop \/ WriterStop("WRITER") \/ AveStop \/ ColStop \/ ReaderStop
           \/ \E m \in {"ACO", "AEI", "AER", "PCL"} : IdleStop(m)
  BY <1>1, <1>7, StopsAre, StopStep DEF Sch!Next
<1>8. CASE RuntimeError \/ IOError
  <2>1. Throw /\ phase \in {"start", "process", "stop"} /\ UNCHANGED <<segmentLineCount, product>>
    BY <1>8 DEF RuntimeError, IOError, IsFaulty, ColIsFaulty, Turn, dataVars
  <2>. QED
    BY <2>1, ThrowStep DEF Sch!Next
<1>9. CASE (Exited /\ UNCHANGED dataVars) \/ UNCHANGED vars
  <2>1. UNCHANGED <<contextVars, controlVars, dataVars>>
    BY <1>9 DEF Exited, vars
  <2>2. UNCHANGED Sch!vars
    BY <2>1 DEF Sch!vars, Sch!contextVars, Sch!controlVars, contextVars, controlVars
  <2>3. Sch!IInv'
    BY <2>2, ContractStep DEF KInv
  <2>4. KInv'
    BY <2>1, <2>3
       DEF KInv, Present, IsStarted, ShapesFit, OwnEntries, Enough, LeastL, GetSegmentSize,
           contextVars, controlVars, dataVars
  <2>. QED
    BY <2>2, <2>4
<1>. QED
  BY <1>3, <1>4, <1>5, <1>6, <1>7, <1>8, <1>9 DEF Next

\* SchedulerProofs speaks of the same specification as Syl2 does.
LEMMA SameScheduler ==
  /\ Sch!Init <=> Sched!Init
  /\ [Sch!Next]_(Sch!vars) <=> [Sched!Next]_(Sched!vars)
<1>1. /\ Sch!Module = Sched!Module /\ Sch!None = Sched!None /\ Sch!NoEntries = Sched!NoEntries
      /\ Sch!contextVars = Sched!contextVars /\ Sch!vars = Sched!vars
  BY DEF Sch!Module, Sch!Range, Sched!Module, Sched!Range, Sch!None, Sched!None, Sch!NoEntries,
         Sched!NoEntries, Sch!contextVars, Sched!contextVars, Sch!controlVars, Sched!controlVars,
         Sch!vars, Sched!vars
<1>2. Sch!Init <=> Sched!Init
  BY <1>1 DEF Sch!Init, Sch!ProcessorInit, Sch!ContextInit, Sch!NewGrid, Sch!Running,
         Sched!Init, Sched!ProcessorInit, Sched!ContextInit, Sched!NewGrid, Sched!Running
<1>3. ASSUME NEW m PROVE Sch!Start(m) <=> Sched!Start(m)
  BY DEF Sch!Start, Sch!Turn, Sch!Grid, Sch!IsValidShape, Sch!StartNext,
         Sched!Start, Sched!Turn, Sched!Grid, Sched!IsValidShape, Sched!StartNext
<1>4. ASSUME NEW m, NEW s, NEW l PROVE Sch!MayRegister(m, s, l) <=> Sched!MayRegister(m, s, l)
  <2>1. Sch!MaxInMemoryL(s) = Sched!MaxInMemoryL(s)
    BY DEF Sch!MaxInMemoryL, Sched!MaxInMemoryL
  <2>2. Sch!GetLastComputableL(s, m) = Sched!GetLastComputableL(s, m)
    BY DEF Sch!GetLastComputableL, Sch!MaxInMemoryL, Sch!Smaller, Sch!Min, Sch!Predecessors,
           Sch!HasLastComputedL, Sched!GetLastComputableL, Sched!MaxInMemoryL, Sched!Smaller,
           Sched!Min, Sched!Predecessors, Sched!HasLastComputedL
  <2>. QED
    BY <2>1, <2>2 DEF Sch!MayRegister, Sched!MayRegister
<1>5. ASSUME NEW m PROVE Sch!Process(m) <=> Sched!Process(m)
  <2>1. (\A s \in Syl2Works[m] : Sch!MayRegister(m, s, lastComputedL'[s][m])) <=>
        (\A s \in Syl2Works[m] : Sched!MayRegister(m, s, lastComputedL'[s][m]))
    BY <1>4
  <2>2. Sch!Entry = Sched!Entry
    BY <1>1 DEF Sch!Entry, Sched!Entry
  <2>3. Sch!Turn("process", m) <=> Sched!Turn("process", m)
    BY DEF Sch!Turn, Sched!Turn
  <2>4. Sch!ProcessNext <=> Sched!ProcessNext
    BY DEF Sch!ProcessNext, Sched!ProcessNext
  <2>. QED
    BY <1>1, <2>1, <2>2, <2>3, <2>4 DEF Sch!Process, Sched!Process
<1>6. ASSUME NEW m PROVE Sch!Stop(m) <=> Sched!Stop(m)
  BY <1>1 DEF Sch!Stop, Sch!Turn, Sch!RemoveSegments, Sch!StopNext, Sch!OK,
         Sched!Stop, Sched!Turn, Sched!RemoveSegments, Sched!StopNext, Sched!OK
<1>7. Sch!MoveSegmentsForward <=> Sched!MoveSegmentsForward
  BY DEF Sch!MoveSegmentsForward, Sch!MovedGrid, Sch!ForwardL, Sch!CommonlyComputedL,
         Sch!GetFirstRequiredL, Sch!HasFirstRequiredL, Sch!MaxInMemoryL, Sch!Smaller, Sch!Larger,
         Sch!Min, Sch!IsCompleted, Sch!Module, Sch!Range, Sch!None,
         Sched!MoveSegmentsForward, Sched!MovedGrid, Sched!ForwardL, Sched!CommonlyComputedL,
         Sched!GetFirstRequiredL, Sched!HasFirstRequiredL, Sched!MaxInMemoryL, Sched!Smaller,
         Sched!Larger, Sched!Min, Sched!IsCompleted, Sched!Module, Sched!Range, Sched!None
<1>8. Sch!Fail <=> Sched!Fail
  BY DEF Sch!Fail, Sch!Throw, Sch!ExitCodeOf, Sch!INCOMPLETE, Sch!FAILURE, Sch!contextVars,
         Sched!Fail, Sched!Throw, Sched!ExitCodeOf, Sched!INCOMPLETE, Sched!FAILURE,
         Sched!contextVars
<1>9. Sch!Exited <=> Sched!Exited
  BY DEF Sch!Exited, Sched!Exited, Sch!controlVars, Sched!controlVars, Sch!contextVars,
         Sched!contextVars
<1>10. Sch!Next <=> Sched!Next
  BY <1>1, <1>3, <1>5, <1>6, <1>7, <1>8, <1>9 DEF Sch!Next, Sched!Next
<1>11. UNCHANGED Sch!vars <=> UNCHANGED Sched!vars
  BY DEF Sch!vars, Sched!vars, Sch!contextVars, Sched!contextVars, Sch!controlVars, Sched!controlVars
<1>. QED
  BY <1>2, <1>10, <1>11

\* The invariant behind the contract is one of the task.
THEOREM Inductive == LongWindows => (Spec => []KInv)
<1> SUFFICES ASSUME LongWindows PROVE Spec => []KInv
  OBVIOUS
<1>1. Init => KInv
  BY InitKInv
<1>2. KInv /\ [Next]_vars => KInv'
  BY StepKInv
<1>. QED
  BY <1>1, <1>2, PTL DEF Spec

\* The task implements Scheduler: each of its steps is a step that the
\* contract of core/Module.h allows, or changes nothing of the context.
THEOREM ContractIsKept == LongWindows => (Spec => KeepsTheContract)
<1> SUFFICES ASSUME LongWindows PROVE Spec => KeepsTheContract
  OBVIOUS
<1>1. Init => Sched!Init
  BY InitKInv, SameScheduler
<1>2. KInv /\ [Next]_vars => [Sched!Next]_(Sched!vars)
  BY StepKInv, SameScheduler
<1>3. Spec => []KInv
  BY Inductive
<1>4. KeepsTheContract <=> Sched!Init /\ [][Sched!Next]_(Sched!vars)
  BY DEF KeepsTheContract, Sched!Spec
<1>. QED
  BY <1>1, <1>2, <1>3, <1>4, PTL DEF Spec

-----------------------------------------------------------------------------
(* Final rows. *)

Busy == phase \in {"process", "move"}

\* When modules are started nothing is final, required or out of memory.
Fresh ==
  phase = "start" =>
    /\ final = NothingFinal
    /\ \A s \in DOMAIN grid : grid[s].minInMemoryL = 0
    /\ \A s \in Segment : firstRequiredL[s] = NoEntries

NoStrayRequirements == \A s \in Segment \ DOMAIN grid : firstRequiredL[s] = NoEntries

\* Only the collocation and the averaging require rows of the target, the same
\* rows as of OLC, and the interpolation those of OLC behind its own.
Requirements ==
  Busy =>
    /\ \A m \in Module \ {"COL", "AVE"} : firstRequiredL[T][m] = None
    /\ \A m \in Module \ {"AEI"} : firstRequiredL["OLC"][m] = firstRequiredL[T][m]
    /\ lastComputedL[T]["AEI"] # None =>
         firstRequiredL["OLC"]["AEI"] = lastComputedL[T]["AEI"] + 1
    /\ lastComputedL[Avg]["AVE"] # None =>
         firstRequiredL[T]["AVE"] = (lastComputedL[Avg]["AVE"] + 1) * AveragingFactor

\* The rows that the next averaged line is made from have not left memory.
AveragedRowsAreKept ==
  Busy => grid[T].minInMemoryL <=
            IF lastComputedL[Avg]["AVE"] > 0
              THEN (lastComputedL[Avg]["AVE"] + 1) * AveragingFactor ELSE 0

FinalInv ==
  /\ TypeOK
  /\ Fresh
  /\ NoStrayRequirements
  /\ Requirements
  /\ AveragedRowsAreKept
  /\ RegisteredRowsAreFinal

\* The types of the state, in a form that has a next state, too.
LEMMA StateType == KInv => ProcessorTypeOK
BY Types

\* What registering rows changes.
LEMMA RegisterEffect ==
  ASSUME KInv, NEW m \in Module, Turn("process", m),
         NEW last, NEW first, Register(m, last, first),
         \A s \in DOMAIN last : last[s] \in Int,
         \A s \in DOMAIN first : first[s] \in Int
  PROVE  \/ /\ phase' = "failed"
            /\ UNCHANGED <<grid, lastComputedL, firstRequiredL>>
            /\ exitCode' = FAILURE
            /\ \E s \in DOMAIN last : IsInvalidRow(s, m, last[s])
         \/ /\ \A s \in DOMAIN last : ~IsInvalidRow(s, m, last[s])
            /\ UNCHANGED <<grid, exitCode>>
            /\ ProcessNext
            /\ \A s \in Segment : \A p \in Module :
                 /\ lastComputedL'[s][p] =
                      IF p = m /\ s \in DOMAIN last THEN EntryOf(last[s]) ELSE lastComputedL[s][p]
                 /\ firstRequiredL'[s][p] =
                      IF p = m /\ s \in DOMAIN first THEN EntryOf(first[s]) ELSE firstRequiredL[s][p]
<1>1. ContextTypeOK
  BY Types
<1>2. CASE \E s \in DOMAIN last : IsInvalidRow(s, m, last[s])
  <2>1. Throw /\ phase = "process"
    BY <1>2 DEF Register, Turn
  <2>. QED
    BY <1>2, <2>1 DEF Throw, ExitCodeOf, contextVars
<1>3. CASE \A s \in DOMAIN last : ~IsInvalidRow(s, m, last[s])
  <2>1. /\ lastComputedL' = Registered(lastComputedL, m, last)
        /\ firstRequiredL' = Registered(firstRequiredL, m, first)
        /\ UNCHANGED grid
        /\ ProcessNext
    BY <1>3 DEF Register
  <2>2. \A s \in Segment : \A p \in Module :
          Registered(lastComputedL, m, last)[s][p] =
            IF p = m /\ s \in DOMAIN last THEN EntryOf(last[s]) ELSE lastComputedL[s][p]
    BY <1>1, Registration DEF ContextTypeOK
  <2>3. \A s \in Segment : \A p \in Module :
          Registered(firstRequiredL, m, first)[s][p] =
            IF p = m /\ s \in DOMAIN first THEN EntryOf(first[s]) ELSE firstRequiredL[s][p]
    BY <1>1, Registration DEF ContextTypeOK
  <2>. QED
    BY <1>3, <2>1, <2>2, <2>3 DEF ProcessNext
<1>. QED
  BY <1>2, <1>3

\* What a module has registered for the segments it works on, and the rows
\* that follow.
LEMMA FirstComputable ==
  ASSUME KInv, NEW m \in Module, NEW s \in Syl2Works[m] \cap DOMAIN grid
  PROVE  /\ lastComputedL[s][m] \in Int /\ lastComputedL[s][m] >= -1
         /\ GetFirstComputableL(s, m) \in Nat
         /\ \A r \in Nat : r < GetFirstComputableL(s, m) => r <= lastComputedL[s][m]
         /\ lastComputedL[s][m] > 0 => lastComputedL[s][m] < GetFirstComputableL(s, m)
         /\ GetFirstComputableL(s, m) >= grid[s].minInMemoryL
<1>1. /\ s \in Segment /\ grid[s].minInMemoryL \in Nat
      /\ lastComputedL[s][m] \in Int /\ lastComputedL[s][m] \in Entry
  BY Types, WindowType
<1>2. grid[s].minInMemoryL <= lastComputedL[s][m] + 1
  BY WhatIInvSays DEF KInv
<1>. QED
  BY <1>1, <1>2 DEF GetFirstComputableL, HasLastComputedL, Larger, Entry, None

\* A stage that computes rows which are final, up to the one it registers,
\* keeps the rows final that are registered.
LEMMA ComputeStep ==
  ASSUME KInv, FinalInv, NEW m \in Stage, NEW s \in {T, Avg}, Syl2Works[m] = {s},
         Turn("process", m), NEW l \in Nat, NEW b \in Int, NEW first, NEW good,
         \A t \in DOMAIN first : first[t] \in Int,
         Register(m, [t \in {s} |-> l], first),
         Compute(m, GetFirstComputableL(s, m)..b, good),
         l <= grid[s].maxL, l <= b, b <= l + 1, b < product.rows["OLC"],
         \A r \in GetFirstComputableL(s, m)..l : r \in good
  PROVE  /\ RegisteredRowsAreFinal'
         /\ final' \in [Module -> SUBSET Nat]
         /\ \A p \in Module : final'[p] \subseteq Rows(product)
<1> DEFINE lines == GetFirstComputableL(s, m)..b
           last  == [t \in {s} |-> l]
<1>1. /\ s \in Segment /\ s \in DOMAIN grid /\ DOMAIN grid = Segment /\ m \in Module
      /\ product \in Products /\ phase = "process"
      /\ Segment = SourceSegments \cup {T, Avg}
  BY AllPresent, Types, ModulesAre DEF Turn, Stage
<1>2. product # NoProduct /\ product.rows["OLC"] \in Nat
  BY <1>1, ProductIs DEF NoProduct
<1>3. /\ final \in [Module -> SUBSET Nat] /\ \A p \in Module : final[p] \subseteq Rows(product)
  BY <1>2 DEF FinalInv, TypeOK, TaskTypeOK
<1>4. /\ lastComputedL[s][m] \in Int /\ lastComputedL[s][m] >= -1
      /\ GetFirstComputableL(s, m) \in Nat
      /\ \A r \in Nat : r < GetFirstComputableL(s, m) => r <= lastComputedL[s][m]
      /\ lastComputedL[s][m] > 0 => lastComputedL[s][m] < GetFirstComputableL(s, m)
  BY <1>1, FirstComputable
<1>5. /\ final'[m] = (final[m] \ lines) \cup (lines \cap good)
      /\ \A p \in Module \ {m} : final'[p] = final[p]
      /\ DOMAIN final' = Module
  BY <1>1, <1>3 DEF Compute
<1>6. lines \subseteq Rows(product) /\ lines \subseteq Nat
  BY <1>1, <1>2, <1>4 DEF Rows
<1>7. final' = [p \in Module |-> final'[p]]
  BY <1>1, <1>3 DEF Compute
<1>8. \A p \in Module : final'[p] \subseteq Rows(product) /\ final'[p] \subseteq Nat
  BY <1>3, <1>5, <1>6
<1>9. final' \in [Module -> SUBSET Nat]
  BY <1>7, <1>8
<1>10. \A t \in {T, Avg} : \A p \in Stage : p \in Module /\ 0..lastComputedL[t][p] \subseteq final[p]
  BY <1>1, ModulesAre DEF FinalInv, RegisteredRowsAreFinal, Stage
<1>11. \A t \in {T, Avg} : t # s => lastComputedL[t][m] = None
  BY <1>1 DEF KInv, OwnEntries
<1>12. \A t \in DOMAIN last : last[t] \in Int
  OBVIOUS
<1>13. DOMAIN last = {s} /\ last[s] = l
  OBVIOUS
<1>14. Register(m, last, first)
  OBVIOUS
<1> HIDE DEF last, lines
<1>15. CASE /\ UNCHANGED <<grid, lastComputedL>>
            /\ \E t \in DOMAIN last : IsInvalidRow(t, m, last[t])
  <2>1. l < lastComputedL[s][m] /\ lastComputedL[s][m] > 0
    BY <1>1, <1>13, <1>15, Types, WindowType DEF IsInvalidRow, HasLastComputedL
  <2>2. lines = {}
    BY <1>4, <2>1 DEF lines
  <2>3. \A p \in Module : final'[p] = final[p]
    BY <1>5, <2>2
  <2>. QED
    BY <1>8, <1>9, <1>10, <1>15, <2>3 DEF RegisteredRowsAreFinal
<1>16. CASE /\ grid' = grid
            /\ \A t \in Segment : \A p \in Module :
                 lastComputedL'[t][p] =
                   IF p = m /\ t \in DOMAIN last THEN EntryOf(last[t]) ELSE lastComputedL[t][p]
  <2>1. lastComputedL'[s][m] = l
    BY <1>1, <1>13, <1>16 DEF EntryOf
  <2>2. ASSUME NEW r \in 0..l PROVE r \in final'[m]
    <3>1. CASE r < GetFirstComputableL(s, m)
      <4>1. r \in final[m]
        BY <1>4, <1>10, <3>1
      <4>2. r \notin lines
        BY <1>4, <3>1 DEF lines
      <4>. QED
        BY <1>5, <4>1, <4>2
    <3>2. CASE ~(r < GetFirstComputableL(s, m))
      <4>1. r \in lines /\ r \in good
        BY <1>4, <3>2 DEF lines
      <4>. QED
        BY <1>5, <4>1
    <3>. QED
      BY <3>1, <3>2
  <2>3. ASSUME NEW t \in {T, Avg}, NEW p \in Stage
        PROVE  0..lastComputedL'[t][p] \subseteq final'[p]
    <3>1. p \in Module /\ t \in Segment
      BY <1>1, <1>10
    <3>2. CASE p # m
      BY <1>5, <1>10, <1>16, <3>1, <3>2
    <3>3. CASE p = m /\ t = s
      BY <2>1, <2>2, <3>3
    <3>4. CASE p = m /\ t # s
      <4>1. lastComputedL'[t][p] = None
        BY <1>11, <1>13, <1>16, <3>1, <3>4
      <4>. QED
        BY <4>1 DEF None
    <3>. QED
      BY <3>2, <3>3, <3>4
  <2>. QED
    BY <1>8, <1>9, <2>3 DEF RegisteredRowsAreFinal
<1>17. \/ /\ UNCHANGED <<grid, lastComputedL>>
          /\ \E t \in DOMAIN last : IsInvalidRow(t, m, last[t])
       \/ /\ grid' = grid
          /\ \A t \in Segment : \A p \in Module :
               lastComputedL'[t][p] =
                 IF p = m /\ t \in DOMAIN last THEN EntryOf(last[t]) ELSE lastComputedL[t][p]
  BY <1>1, <1>12, <1>14, RegisterEffect
<1>. QED
  BY <1>15, <1>16, <1>17

\* A module that computes nothing for the stages.
LEMMA OtherRegisters ==
  ASSUME KInv, FinalInv, NEW m \in Module \ Stage, Turn("process", m), UNCHANGED final,
         NEW last, NEW first, Register(m, last, first),
         \A s \in DOMAIN last : last[s] \in Int,
         \A s \in DOMAIN first : first[s] \in Int
  PROVE  /\ RegisteredRowsAreFinal'
         /\ final' \in [Module -> SUBSET Nat]
         /\ \A p \in Module : final'[p] \subseteq Rows(product)
<1>1. /\ DOMAIN grid = Segment /\ product \in Products
      /\ Segment = SourceSegments \cup {T, Avg} /\ Stage \subseteq Module
  BY AllPresent, Types, ModulesAre DEF Turn, Stage
<1>2. product # NoProduct
  BY <1>1, ProductIs DEF NoProduct
<1>3. /\ final \in [Module -> SUBSET Nat] /\ \A p \in Module : final[p] \subseteq Rows(product)
  BY <1>2 DEF FinalInv, TypeOK, TaskTypeOK
<1>4. grid' = grid /\ \A s \in {T, Avg} : \A p \in Stage : lastComputedL'[s][p] = lastComputedL[s][p]
  BY <1>1, RegisterEffect
<1>5. \A s \in {T, Avg} \cap DOMAIN grid : \A p \in Stage : 0..lastComputedL[s][p] \subseteq final[p]
  BY DEF FinalInv, RegisteredRowsAreFinal
<1>6. RegisteredRowsAreFinal'
  BY <1>4, <1>5 DEF RegisteredRowsAreFinal
<1>. QED
  BY <1>3, <1>6

\* A module that requires rows as the collocation, the averaging or the
\* interpolation do, or no rows of OLC and the target, keeps the requirements.
LEMMA RequireStep ==
  ASSUME KInv, KInv', FinalInv, NEW m \in Module, Turn("process", m),
         NEW last, NEW first, Register(m, last, first),
         \A s \in DOMAIN last : last[s] \in Int,
         \A s \in DOMAIN first : first[s] \in Int,
         UNCHANGED <<segmentLineCount, product, ncFiles, manifest>>, file' \subseteq Nat,
         final' \in [Module -> SUBSET Nat],
         \A p \in Module : final'[p] \subseteq Rows(product),
         RegisteredRowsAreFinal',
         T \in DOMAIN first => m \in {"COL", "AVE"},
         m # "AEI" => ("OLC" \in DOMAIN first <=> T \in DOMAIN first),
         m # "AEI" /\ T \in DOMAIN first => first["OLC"] = first[T],
         m = "AEI" => /\ "OLC" \in DOMAIN first /\ DOMAIN last = {T}
                      /\ last[T] \in Nat /\ first["OLC"] = last[T] + 1,
         m = "AVE" => /\ T \in DOMAIN first /\ DOMAIN last = {Avg}
                      /\ last[Avg] \in Nat
                      /\ first[T] = (last[Avg] + 1) * AveragingFactor
  PROVE  FinalInv'
<1>1. /\ phase = "process" /\ DOMAIN grid = Segment /\ Busy
      /\ Segment = SourceSegments \cup {T, Avg} /\ "OLC" \in SourceSegments
      /\ T # "OLC" /\ Avg # "OLC" /\ T # Avg
      /\ AveragingFactor \in Nat \ {0}
      /\ {"AVE", "AEI"} \subseteq Module
  BY AllPresent, Types, ModulesAre DEF Turn, Busy, SourceSegments, T, Avg
<1>2. TypeOK'
  <2>1. ProcessorTypeOK'
    BY StateType, PTL
  <2>2. segmentLineCount' \in LineCounts
    BY DEF KInv
  <2>3. /\ product' \in Products \cup {NoProduct}
        /\ ncFiles' \in {"none", "open", "closed"} /\ manifest' \in {"none", "open", "closed"}
    BY DEF FinalInv, TypeOK, TaskTypeOK
  <2>. QED
    BY <2>1, <2>2, <2>3 DEF TypeOK, TaskTypeOK, Rows
<1>3. CASE /\ phase' = "failed"
           /\ UNCHANGED <<grid, lastComputedL, firstRequiredL>>
  BY <1>1, <1>2, <1>3
     DEF FinalInv, Fresh, NoStrayRequirements, Requirements, AveragedRowsAreKept, Busy
<1>4. CASE /\ \A s \in DOMAIN last : ~IsInvalidRow(s, m, last[s])
           /\ UNCHANGED grid
           /\ ProcessNext
           /\ \A s \in Segment : \A p \in Module :
                /\ lastComputedL'[s][p] =
                     IF p = m /\ s \in DOMAIN last THEN EntryOf(last[s]) ELSE lastComputedL[s][p]
                /\ firstRequiredL'[s][p] =
                     IF p = m /\ s \in DOMAIN first THEN EntryOf(first[s]) ELSE firstRequiredL[s][p]
  <2>1. phase' \in {"process", "move"}
    BY <1>1, <1>4 DEF ProcessNext
  <2>2. Fresh' /\ NoStrayRequirements'
    BY <1>1, <1>4, <2>1 DEF Fresh, NoStrayRequirements
  <2>3. Requirements
    BY DEF FinalInv
  <2>4. \A p \in Module \ {"COL", "AVE"} : firstRequiredL'[T][p] = None
    BY <1>1, <1>4, <2>3 DEF Requirements
  <2>5. \A p \in Module \ {"AEI"} : firstRequiredL'["OLC"][p] = firstRequiredL'[T][p]
    BY <1>1, <1>4, <2>3 DEF Requirements
  <2>6. lastComputedL'[T]["AEI"] # None =>
          firstRequiredL'["OLC"]["AEI"] = lastComputedL'[T]["AEI"] + 1
    BY <1>1, <1>4, <2>3 DEF Requirements, EntryOf
  <2>7. lastComputedL'[Avg]["AVE"] # None =>
          firstRequiredL'[T]["AVE"] = (lastComputedL'[Avg]["AVE"] + 1) * AveragingFactor
    <3>1. CASE m # "AVE"
      BY <1>1, <1>4, <2>3, <3>1 DEF Requirements
    <3>2. CASE m = "AVE"
      <4>1. (last[Avg] + 1) * AveragingFactor \in Nat
        BY <1>1, <3>2
      <4>2. lastComputedL'[Avg]["AVE"] = last[Avg] /\ firstRequiredL'[T]["AVE"] = first[T]
        BY <1>1, <1>4, <3>2, <4>1 DEF EntryOf
      <4>. QED
        BY <3>2, <4>2
    <3>. QED
      BY <3>1, <3>2
  <2>8. Requirements'
    BY <2>4, <2>5, <2>6, <2>7 DEF Requirements
  <2>9. AveragedRowsAreKept'
    <3>1. CASE m # "AVE"
      <4>1. lastComputedL'[Avg]["AVE"] = lastComputedL[Avg]["AVE"]
        BY <1>1, <1>4, <3>1
      <4>. QED
        BY <1>1, <1>4, <4>1 DEF FinalInv, AveragedRowsAreKept
    <3>2. CASE m = "AVE"
      <4> DEFINE old == lastComputedL[Avg]["AVE"]
                 new == last[Avg]
      <4>1. lastComputedL'[Avg]["AVE"] = new /\ new \in Nat
        BY <1>1, <1>4, <3>2 DEF EntryOf
      <4>2. old > 0 => new >= old
        <5>1. ~IsInvalidRow(Avg, "AVE", new)
          BY <1>4, <3>2
        <5>2. old \in Int
          BY <1>1, Types
        <5>. QED
          BY <4>1, <5>1, <5>2 DEF IsInvalidRow, HasLastComputedL
      <4>3. grid[T].minInMemoryL <= IF old > 0 THEN (old + 1) * AveragingFactor ELSE 0
        BY <1>1 DEF FinalInv, AveragedRowsAreKept
      <4>4. grid[T].minInMemoryL \in Nat /\ old \in Int
        BY <1>1, Types, WindowType
      <4> HIDE DEF old, new
      <4>5. old > 0 => (old + 1) * AveragingFactor <= (new + 1) * AveragingFactor
        BY <1>1, <4>1, <4>2, <4>4
      <4>6. (new + 1) * AveragingFactor \in Nat /\ (old > 0 => (old + 1) * AveragingFactor \in Nat)
        BY <1>1, <4>1, <4>4
      <4>7. grid[T].minInMemoryL <= IF new > 0 THEN (new + 1) * AveragingFactor ELSE 0
        BY <4>1, <4>2, <4>3, <4>4, <4>5, <4>6
      <4>. QED
        BY <1>4, <4>1, <4>7 DEF AveragedRowsAreKept
    <3>. QED
      BY <3>1, <3>2
  <2>. QED
    BY <1>2, <2>2, <2>8, <2>9 DEF FinalInv
<1>. QED
  BY <1>3, <1>4, RegisterEffect

\* The reader computes no rows of the target or the averaged segment.
LEMMA ReaderFinal ==
  ASSUME LongWindows, KInv, KInv', FinalInv, ReaderProcess
  PROVE  FinalInv'
<1> DEFINE last == [s \in Unread |-> MaxInMemoryL(s)]
           first == << >>
<1>1. /\ Turn("process", "READER") /\ phase = "process" /\ "READER" \in Module \ Stage
      /\ Register("READER", last, first)
      /\ UNCHANGED <<segmentLineCount, product, final, file, ncFiles, manifest>>
  BY ModulesAre DEF ReaderProcess, Turn, dataVars, Stage
<1>2. \A s \in DOMAIN last : last[s] \in Int
  <2>1. Unread \subseteq Segment
    BY Types DEF Unread
  <2>. QED
    BY <1>1, <2>1, ProcessWindows
<1>3. DOMAIN first = {}
  OBVIOUS
<1>4. file' \subseteq Nat
  BY <1>1 DEF FinalInv, TypeOK
<1> HIDE DEF last, first
<1>5. \A s \in DOMAIN first : first[s] \in Int
  BY <1>3
<1>6. /\ RegisteredRowsAreFinal' /\ final' \in [Module -> SUBSET Nat]
      /\ \A p \in Module : final'[p] \subseteq Rows(product)
  BY <1>1, <1>2, <1>5, OtherRegisters
<1>. QED
  BY <1>1, <1>2, <1>3, <1>4, <1>5, <1>6, RequireStep

\* The writer computes no rows of the target or the averaged segment.
LEMMA WriterFinal ==
  ASSUME LongWindows, KInv, KInv', FinalInv, WriterProcess
  PROVE  FinalInv'
<1> DEFINE last == [s \in WrittenSegments |-> MaxInMemoryL(s)]
           first == << >>
<1>1. /\ Turn("process", "WRITER") /\ phase = "process" /\ "WRITER" \in Module \ Stage
      /\ Register("WRITER", last, first)
      /\ UNCHANGED <<segmentLineCount, product, final, ncFiles, manifest>>
  BY ModulesAre DEF WriterProcess, Turn, Stage
<1>2. \A s \in DOMAIN last : last[s] \in Int
  <2>1. WrittenSegments \subseteq Segment
    BY Types DEF WrittenSegments, SourceSegments
  <2>. QED
    BY <1>1, <2>1, ProcessWindows
<1>3. DOMAIN first = {}
  OBVIOUS
<1>4. file' \subseteq Nat
  <2>1. file \subseteq Nat /\ final["ACO"] \subseteq Nat
    BY ModulesAre DEF FinalInv, TypeOK, TaskTypeOK
  <2>. QED
    BY <2>1 DEF WriterProcess
<1> HIDE DEF last, first
<1>5. \A s \in DOMAIN first : first[s] \in Int
  BY <1>3
<1>6. /\ RegisteredRowsAreFinal' /\ final' \in [Module -> SUBSET Nat]
      /\ \A p \in Module : final'[p] \subseteq Rows(product)
  BY <1>1, <1>2, <1>5, OtherRegisters
<1>. QED
  BY <1>1, <1>2, <1>3, <1>4, <1>5, <1>6, RequireStep

\* The manifest writer computes nothing.
LEMMA ManifestFinal ==
  ASSUME KInv, KInv', FinalInv, IdleProcess("MANIFEST")
  PROVE  FinalInv'
<1>1. /\ phase = "process" /\ phase' \in {"process", "move"}
      /\ UNCHANGED <<grid, lastComputedL, firstRequiredL, segmentLineCount, product, final, file,
                     ncFiles, manifest>>
  BY DEF IdleProcess, Turn, ProcessNext, contextVars, dataVars
<1>2. ProcessorTypeOK'
  BY StateType, PTL
<1>. QED
  BY <1>1, <1>2
     DEF FinalInv, TypeOK, TaskTypeOK, Fresh, NoStrayRequirements, Requirements, AveragedRowsAreKept,
         RegisteredRowsAreFinal, Busy, Rows

\* What a module can compute, its predecessors have registered.
LEMMA BehindPredecessor ==
  ASSUME KInv, NEW m \in Module, Turn("process", m), NEW p \in Predecessors(m), p \in Module,
         NEW s \in Segment, s \in Syl2Works[p]
  PROVE  GetLastComputableL(s, m) <= lastComputedL[s][p]
<1>1. /\ s \in DOMAIN grid /\ ContextTypeOK /\ phase = "process" /\ Pipeline[at] = m /\ at \in 1..9
      /\ lastComputedL[s][p] \in Int
  BY AllPresent, Types DEF Turn
<1>2. Sch!IsRegistered(p)
  <2>1. Predecessors(m) = {Pipeline[j] : j \in 1..(at - 1)}
    BY <1>1, Before
  <2>. QED
    BY <1>1, <2>1, WhatIInvSays DEF KInv
<1>3. lastComputedL[s][p] > 0 \/ (lastComputedL[s][p] = 0 /\ MaxInMemoryL(s) = 0)
  BY <1>2, WhatRegisteredSays
<1>4. /\ GetLastComputableL(s, m) \in Nat /\ GetLastComputableL(s, m) <= MaxInMemoryL(s)
      /\ lastComputedL[s][p] > 0 => GetLastComputableL(s, m) <= lastComputedL[s][p]
  BY <1>1, LastComputable
<1>. QED
  BY <1>1, <1>3, <1>4

\* Rows up to one that is registered are final.
LEMMA FinalUpTo ==
  ASSUME KInv, FinalInv, phase = "process", NEW s \in {T, Avg}, NEW p \in Stage,
         NEW r \in Nat, r <= lastComputedL[s][p]
  PROVE  r \in final[p]
<1>1. s \in DOMAIN grid /\ p \in Module /\ s \in Segment
  BY AllPresent, Types, ModulesAre DEF Stage
<1>2. lastComputedL[s][p] \in Int
  BY <1>1, Types
<1>. QED
  BY <1>1, <1>2 DEF FinalInv, RegisteredRowsAreFinal

\* The rows of the target and of the averaged segment are rows of the product.
LEMMA RowsOfProduct ==
  ASSUME LongWindows, KInv, phase = "process"
  PROVE  /\ grid[T].maxL = product.rows["OLC"] - 1 /\ product.rows["OLC"] \in Nat
         /\ grid[T].maxL \in Nat
         /\ grid[Avg].maxL \in Nat /\ grid[Avg].maxL < product.rows["OLC"]
         /\ T \in {T, Avg} /\ Avg \in {T, Avg}
<1>1. grid[T].maxL = product.rows["OLC"] - 1 /\ product.rows["OLC"] \in Nat
  BY ProcessWindows
<1>2. grid[T].maxL \in Nat /\ AveragingFactor \in Nat \ {0}
  BY ProcessWindows, Types
<1>3. grid[Avg].maxL = (grid[T].maxL + AveragingFactor) \div AveragingFactor - 1
  BY AveragedSegment
<1>4. grid[Avg].maxL \in Nat /\ grid[Avg].maxL <= grid[T].maxL
  BY <1>2, <1>3, LastAveragedLine
<1>. QED
  BY <1>1, <1>2, <1>4

\* The collocation computes rows from rows that the reader has read.
LEMMA ColFinal ==
  ASSUME LongWindows, KInv, KInv', FinalInv, ColProcess
  PROVE  FinalInv'
<1> DEFINE first == [s \in WithMis({"OLC", "SLN", "SLO", T}) |->
                       IF s \in {"SLN", "SLO"} THEN ColRequiredL(s, ColLines)
                       ELSE Smaller(ColRequiredL("OLC", ColLines), ColLastL)]
           last  == [s \in {T} |-> ColLastL]
           b     == Smaller(ColLastL + 1, GetLastComputableL(T, "COL"))
<1>1. /\ Turn("process", "COL") /\ phase = "process" /\ "COL" \in Module /\ "COL" \in Stage
      /\ UNCHANGED <<segmentLineCount, product, file, ncFiles, manifest>>
      /\ Register("COL", last, first)
      /\ Compute("COL", GetFirstComputableL(T, "COL")..b, 0..ColLastL)
  BY ModulesAre DEF ColProcess, Turn, Stage, ColLines
<1>2. /\ ColLastL \in Nat /\ ColLastL <= grid[T].maxL
      /\ b \in Int /\ ColLastL <= b /\ b <= ColLastL + 1 /\ b < product.rows["OLC"]
  <2>1. /\ ColLastL \in Int /\ Smaller(1, grid[T].maxL) <= ColLastL
        /\ ColLastL <= GetLastComputableL(T, "COL")
        /\ GetLastComputableL(T, "COL") \in Nat
        /\ GetLastComputableL(T, "COL") = MaxInMemoryL(T)
    BY <1>1, ColRow
  <2>2. T \in Segment /\ grid[T].maxL \in Nat /\ MaxInMemoryL(T) <= grid[T].maxL
    BY <1>1, ProcessWindows, Types
  <2>3. grid[T].maxL = product.rows["OLC"] - 1 /\ product.rows["OLC"] \in Nat
    BY <1>1, RowsOfProduct
  <2>. QED
    BY <2>1, <2>2, <2>3 DEF Smaller
<1>3. /\ T \in DOMAIN first /\ "OLC" \in DOMAIN first
      /\ first["OLC"] = first[T]
  BY DEF WithMis, T
<1>4. \A s \in DOMAIN first : first[s] \in Int
  BY <1>1, <1>2, ColRequired DEF ColSources, Smaller
<1>5. \A s \in DOMAIN last : last[s] \in Int
  BY <1>2
<1>6. file' \subseteq Nat
  BY <1>1 DEF FinalInv, TypeOK
<1> HIDE DEF first, b
<1>7. \A r \in GetFirstComputableL(T, "COL")..ColLastL : r \in 0..ColLastL
  <2>1. T \in Syl2Works["COL"] \cap DOMAIN grid
    BY <1>1, WorksAre, AllPresent, Types
  <2>2. GetFirstComputableL(T, "COL") \in Nat
    BY <1>1, <2>1, FirstComputable
  <2>. QED
    BY <1>2, <2>2
<1>8. Syl2Works["COL"] = {T} /\ T \in {T, Avg}
  BY WorksAre
<1>9. /\ RegisteredRowsAreFinal' /\ final' \in [Module -> SUBSET Nat]
      /\ \A p \in Module : final'[p] \subseteq Rows(product)
  BY <1>1, <1>2, <1>4, <1>7, <1>8, ComputeStep
<1> HIDE DEF last
<1>. QED
  BY <1>1, <1>3, <1>4, <1>5, <1>6, <1>9, RequireStep

\* A stage that computes the rows of the target up to the last computable one,
\* and requires none, from the rows of the stage before it.
LEMMA TargetFinal ==
  ASSUME LongWindows, KInv, KInv', FinalInv, NEW m \in {"PCL", "ACO"}, NEW p \in {"COL", "AEI"},
         p \in Predecessors(m),
         Turn("process", m),
         Register(m, [s \in {T} |-> GetLastComputableL(T, m)], << >>),
         Compute(m, ComputableLines(m), final[p]),
         UNCHANGED <<segmentLineCount, product, file, ncFiles, manifest>>
  PROVE  FinalInv'
<1> DEFINE first == << >>
           l     == GetLastComputableL(T, m)
           last  == [s \in {T} |-> l]
<1>1. /\ phase = "process" /\ m \in Module /\ m \in Stage /\ p \in Module /\ p \in Stage
      /\ Syl2Works[m] = {T} /\ T \in Syl2Works[p] /\ T \in Segment /\ T \in {T, Avg}
      /\ T \in DOMAIN grid
  BY ModulesAre, WorksAre, Types, AllPresent DEF Turn, Stage
<1>2. /\ l \in Nat /\ l <= grid[T].maxL /\ l < product.rows["OLC"] /\ l \in Int
  <2>1. /\ l \in Nat /\ l <= MaxInMemoryL(T) /\ MaxInMemoryL(T) <= grid[T].maxL
        /\ MaxInMemoryL(T) \in Nat /\ grid[T].maxL \in Nat
    BY <1>1, TargetRows
  <2>2. grid[T].maxL = product.rows["OLC"] - 1 /\ product.rows["OLC"] \in Nat
    BY <1>1, RowsOfProduct
  <2>. QED
    BY <2>1, <2>2
<1>3. GetLastComputableL(T, m) <= lastComputedL[T][p] /\ lastComputedL[T][p] \in Int
  BY <1>1, BehindPredecessor, Types
<1>4. GetFirstComputableL(T, m) \in Nat
  BY <1>1, FirstComputable
<1>5. \A r \in GetFirstComputableL(T, m)..l : r \in final[p]
  BY <1>1, <1>2, <1>3, <1>4, FinalUpTo
<1>6. /\ DOMAIN first = {} /\ Register(m, last, first)
      /\ Compute(m, GetFirstComputableL(T, m)..l, final[p])
      /\ \A s \in DOMAIN last : last[s] \in Int
  BY <1>2 DEF ComputableLines
<1>7. file' \subseteq Nat
  BY DEF FinalInv, TypeOK
<1>8. l <= l /\ l <= l + 1
  BY <1>2
<1> HIDE DEF first, l
<1>9. \A s \in DOMAIN first : first[s] \in Int
  BY <1>6
<1>10. /\ RegisteredRowsAreFinal' /\ final' \in [Module -> SUBSET Nat]
       /\ \A q \in Module : final'[q] \subseteq Rows(product)
  BY <1>1, <1>2, <1>5, <1>6, <1>8, <1>9, ComputeStep
<1> HIDE DEF last
<1>11. m # "AEI" /\ m # "AVE"
  OBVIOUS
<1>. QED
  BY <1>1, <1>6, <1>7, <1>9, <1>10, <1>11, RequireStep

\* The rows that an averaged line is made from are in memory and classified.
LEMMA AveragedFromFinal ==
  ASSUME LongWindows, KInv, FinalInv, Turn("process", "AVE"),
         NEW l \in GetFirstComputableL(Avg, "AVE")..AveLastL, NEW r \in AveragedRows(l)
  PROVE  l \in 0..grid[Avg].maxL /\ IsInMemory(T, r) /\ r \in final["PCL"]
<1> DEFINE a   == AveragingFactor
           old == lastComputedL[Avg]["AVE"]
<1>1. /\ phase = "process" /\ Busy /\ a \in Nat \ {0}
      /\ T \in DOMAIN grid /\ T \in Segment /\ T \in {T, Avg} /\ grid[T].minInMemoryL \in Nat
      /\ MaxInMemoryL(T) \in Nat /\ grid[T].maxL \in Nat
      /\ Avg \in Syl2Works["AVE"] \cap DOMAIN grid
      /\ "AVE" \in Module /\ "PCL" \in Module /\ "PCL" \in Stage
      /\ T \in Syl2Works["PCL"] /\ "PCL" \in Predecessors("AVE")
  BY Types, AllPresent, WindowType, WorksAre, ModulesAre, PredecessorsAre DEF Turn, Busy, Stage
<1>2. /\ AveLastL \in Nat /\ AveLastL <= grid[Avg].maxL /\ grid[Avg].maxL \in Nat
      /\ \A k \in 0..AveLastL : Smaller((k + 1) * a - 1, grid[T].maxL) <= GetLastComputableL(T, "AVE")
  BY <1>1, AveRow, AveragedSegment
<1>3. /\ GetFirstComputableL(Avg, "AVE") \in Nat /\ old \in Int
      /\ old > 0 => old < GetFirstComputableL(Avg, "AVE")
  BY <1>1, FirstComputable
<1>4. l \in Nat /\ l <= AveLastL /\ (old > 0 => old + 1 <= l)
  BY <1>2, <1>3
<1>5. (l + 1) * a \in Nat /\ l * a \in Nat
  BY <1>1, <1>4
<1>6. r \in Nat /\ l * a <= r /\ r <= Smaller((l + 1) * a - 1, grid[T].maxL)
  BY <1>1, <1>5 DEF AveragedRows, Smaller
<1>7. grid[T].minInMemoryL <= r
  <2>1. grid[T].minInMemoryL <= IF old > 0 THEN (old + 1) * a ELSE 0
    BY <1>1 DEF FinalInv, AveragedRowsAreKept
  <2>2. old > 0 => (old + 1) * a <= l * a
    <3> HIDE DEF a, old
    <3> QED BY <1>1, <1>3, <1>4
  <2>3. old > 0 => (old + 1) * a \in Nat
    BY <1>1, <1>3
  <2>. QED
    BY <1>1, <1>5, <1>6, <2>1, <2>2, <2>3
<1>8. r <= GetLastComputableL(T, "AVE") /\ GetLastComputableL(T, "AVE") \in Nat
      /\ GetLastComputableL(T, "AVE") <= MaxInMemoryL(T)
  <2>1. GetLastComputableL(T, "AVE") \in Nat /\ GetLastComputableL(T, "AVE") <= MaxInMemoryL(T)
    BY <1>1, TargetRows
  <2>2. Smaller((l + 1) * a - 1, grid[T].maxL) <= GetLastComputableL(T, "AVE")
    BY <1>2, <1>4
  <2>3. Smaller((l + 1) * a - 1, grid[T].maxL) \in Int
    BY <1>1, <1>5 DEF Smaller
  <2>. QED
    BY <1>6, <2>1, <2>2, <2>3
<1>9. GetLastComputableL(T, "AVE") <= lastComputedL[T]["PCL"] /\ lastComputedL[T]["PCL"] \in Int
  BY <1>1, BehindPredecessor, Types
<1>10. r \in final["PCL"]
  BY <1>1, <1>6, <1>8, <1>9, FinalUpTo
<1>11. l \in 0..grid[Avg].maxL
  BY <1>2, <1>4
<1>12. IsInMemory(T, r)
  BY <1>1, <1>6, <1>7, <1>8 DEF IsInMemory
<1>. QED
  BY <1>10, <1>11, <1>12

\* The averaging computes lines from rows that have been classified and have not
\* left memory.
LEMMA AveFinal ==
  ASSUME LongWindows, KInv, KInv', FinalInv, AveProcess
  PROVE  FinalInv'
<1> DEFINE first == [s \in WithMis({T, "OLC"}) |-> (AveLastL + 1) * AveragingFactor]
           last  == [s \in {Avg} |-> AveLastL]
           good  == {l \in 0..grid[Avg].maxL :
                       \A r \in AveragedRows(l) : IsInMemory(T, r) /\ r \in final["PCL"]}
<1>1. /\ Turn("process", "AVE") /\ phase = "process" /\ "AVE" \in Module /\ "AVE" \in Stage
      /\ UNCHANGED <<segmentLineCount, product, file, ncFiles, manifest>>
      /\ Register("AVE", last, first)
      /\ Compute("AVE", GetFirstComputableL(Avg, "AVE")..AveLastL, good)
  BY ModulesAre DEF AveProcess, Turn, Stage
<1>2. /\ AveLastL \in Nat /\ AveLastL <= grid[Avg].maxL /\ AveLastL \in Int
      /\ AveLastL <= AveLastL /\ AveLastL <= AveLastL + 1 /\ AveLastL < product.rows["OLC"]
  BY <1>1, AveRow, RowsOfProduct
<1>3. /\ T \in DOMAIN first /\ "OLC" \in DOMAIN first
      /\ first["OLC"] = first[T]
      /\ first[T] = (last[Avg] + 1) * AveragingFactor
      /\ DOMAIN last = {Avg} /\ last[Avg] \in Nat
  BY <1>2 DEF WithMis
<1>4. \A s \in DOMAIN first : first[s] \in Int
  <2>1. AveragingFactor \in Nat
    BY Types
  <2> DEFINE c == (AveLastL + 1) * AveragingFactor
  <2>2. c \in Int
    BY <1>2, <2>1
  <2>3. first = [s \in WithMis({T, "OLC"}) |-> c]
    OBVIOUS
  <2> HIDE DEF c, first
  <2>. QED
    BY <2>2, <2>3
<1>5. \A s \in DOMAIN last : last[s] \in Int
  BY <1>2
<1>6. file' \subseteq Nat
  BY <1>1 DEF FinalInv, TypeOK
<1>7. ASSUME NEW l \in GetFirstComputableL(Avg, "AVE")..AveLastL PROVE l \in good
  <2>1. Avg \in Syl2Works["AVE"] \cap DOMAIN grid /\ grid[Avg].maxL \in Nat
    BY <1>1, WorksAre, AveragedSegment
  <2>2. GetFirstComputableL(Avg, "AVE") \in Nat
    BY <1>1, <2>1, FirstComputable
  <2>3. l \in 0..grid[Avg].maxL
    BY <1>2, <2>1, <2>2
  <2>4. \A r \in AveragedRows(l) : IsInMemory(T, r) /\ r \in final["PCL"]
    BY <1>1, AveragedFromFinal
  <2>. QED
    BY <2>3, <2>4
<1> HIDE DEF first, good
<1>8. Syl2Works["AVE"] = {Avg} /\ Avg \in {T, Avg}
  BY WorksAre
<1>9. /\ RegisteredRowsAreFinal' /\ final' \in [Module -> SUBSET Nat]
      /\ \A p \in Module : final'[p] \subseteq Rows(product)
  BY <1>1, <1>2, <1>4, <1>7, <1>8, ComputeStep
<1> HIDE DEF last
<1>. QED
  BY <1>1, <1>3, <1>4, <1>5, <1>6, <1>9, RequireStep

\* The retrieval fills lines from their neighbours, which have been averaged.
LEMMA AerFinal ==
  ASSUME LongWindows, KInv, KInv', FinalInv, AerProcess
  PROVE  FinalInv'
<1> DEFINE first == << >>
           l     == AerLastFillableL
           last  == [s \in {Avg} |-> l]
           n     == GetLastComputableL(Avg, "AER")
           good  == {i \in 0..grid[Avg].maxL : \A k \in Neighbours(i) : k <= n /\ k \in final["AVE"]}
<1>1. /\ Turn("process", "AER") /\ phase = "process" /\ "AER" \in Module /\ "AER" \in Stage
      /\ UNCHANGED <<segmentLineCount, product, file, ncFiles, manifest>>
      /\ Register("AER", last, first)
      /\ Compute("AER", GetFirstComputableL(Avg, "AER")..l, good)
  BY ModulesAre DEF AerProcess, Turn, Stage
<1>2. /\ Avg \in Segment /\ Avg \in DOMAIN grid /\ grid[Avg].maxL \in Nat
      /\ n \in Nat /\ n <= grid[Avg].maxL /\ Smaller(FillDistance + 1, grid[Avg].maxL) <= n
      /\ FillDistance \in Nat
      /\ Syl2Works["AER"] = {Avg} /\ Avg \in {T, Avg}
      /\ "AVE" \in Module /\ "AVE" \in Stage /\ "AVE" \in Predecessors("AER")
      /\ Avg \in Syl2Works["AVE"]
  BY <1>1, AveragedSegment, Types, WorksAre, ModulesAre, PredecessorsAre DEF Stage
<1>3. /\ l \in Nat /\ l <= n /\ l <= grid[Avg].maxL /\ l \in Int
      /\ n < grid[Avg].maxL => l + FillDistance <= n
      /\ l <= l /\ l <= l + 1
  BY <1>2 DEF AerLastFillableL, Smaller
<1>4. l < product.rows["OLC"]
  BY <1>1, <1>3, RowsOfProduct
<1>5. n <= lastComputedL[Avg]["AVE"] /\ lastComputedL[Avg]["AVE"] \in Int
  BY <1>1, <1>2, BehindPredecessor, Types
<1>6. GetFirstComputableL(Avg, "AER") \in Nat
  BY <1>1, <1>2, FirstComputable
<1>7. ASSUME NEW i \in GetFirstComputableL(Avg, "AER")..l PROVE i \in good
  <2>1. i \in Nat /\ i <= l /\ i \in 0..grid[Avg].maxL
    BY <1>2, <1>3, <1>6
  <2>2. ASSUME NEW k \in Neighbours(i) PROVE k <= n /\ k \in Nat
    BY <1>2, <1>3, <2>1 DEF Neighbours
  <2>3. \A k \in Neighbours(i) : k \in final["AVE"]
    BY <1>1, <1>2, <1>5, <2>2, FinalUpTo
  <2>. QED
    BY <2>1, <2>2, <2>3
<1>8. /\ DOMAIN first = {} /\ \A s \in DOMAIN last : last[s] \in Int
  BY <1>3
<1>9. file' \subseteq Nat
  BY <1>1 DEF FinalInv, TypeOK
<1> HIDE DEF first, good, l, n
<1>10. \A s \in DOMAIN first : first[s] \in Int
  BY <1>8
<1>11. /\ RegisteredRowsAreFinal' /\ final' \in [Module -> SUBSET Nat]
       /\ \A q \in Module : final'[q] \subseteq Rows(product)
  BY <1>1, <1>2, <1>3, <1>4, <1>7, <1>10, ComputeStep
<1> HIDE DEF last
<1>. QED
  BY <1>1, <1>8, <1>9, <1>10, <1>11, RequireStep

\* The interpolation computes rows from two lines that have been filled.
LEMMA AeiFinal ==
  ASSUME LongWindows, KInv, KInv', FinalInv, AeiProcess
  PROVE  FinalInv'
<1> DEFINE first == [s \in AeiRequires |-> AeiLastL + 1]
           last  == [s \in {T} |-> AeiLastL]
           good  == {l \in final["PCL"] : {SourceL0(l), SourceL0(l) + 1} \subseteq final["AER"]}
<1>1. /\ Turn("process", "AEI") /\ phase = "process" /\ "AEI" \in Module /\ "AEI" \in Stage
      /\ UNCHANGED <<segmentLineCount, product, file, ncFiles, manifest>>
      /\ Register("AEI", last, first)
      /\ Compute("AEI", GetFirstComputableL(T, "AEI")..AeiLastL, good)
      /\ ~AeiThrows
  BY ModulesAre DEF AeiProcess, Turn, Stage, AeiLines
<1>2. /\ T \in Segment /\ T \in DOMAIN grid /\ Avg \in Segment
      /\ T \in {T, Avg} /\ Avg \in {T, Avg} /\ Syl2Works["AEI"] = {T}
      /\ "PCL" \in Module /\ "PCL" \in Stage /\ "PCL" \in Predecessors("AEI") /\ T \in Syl2Works["PCL"]
      /\ "AER" \in Module /\ "AER" \in Stage /\ "AER" \in Predecessors("AEI") /\ Avg \in Syl2Works["AER"]
  BY <1>1, AllPresent, Types, WorksAre, ModulesAre, PredecessorsAre DEF Stage
<1>3. /\ AeiLastL \in Nat /\ AeiLastL \in Int
      /\ AeiLastL <= GetLastComputableL(T, "AEI") /\ GetLastComputableL(T, "AEI") \in Nat
      /\ AeiLastL <= AeiLastL /\ AeiLastL <= AeiLastL + 1
      /\ \A l \in AeiLines : SourceL0(l) + 1 <= GetLastComputableL(Avg, "AEI")
      /\ GetLastComputableL(Avg, "AEI") \in Nat
  BY <1>1, AeiRow, TargetRows, AveragedSegment
<1>4. AeiLastL <= grid[T].maxL /\ AeiLastL < product.rows["OLC"]
  <2>1. GetLastComputableL(T, "AEI") <= MaxInMemoryL(T) /\ MaxInMemoryL(T) <= grid[T].maxL
        /\ MaxInMemoryL(T) \in Nat /\ grid[T].maxL \in Nat
    BY <1>1, TargetRows
  <2>2. grid[T].maxL = product.rows["OLC"] - 1 /\ product.rows["OLC"] \in Nat
    BY <1>1, RowsOfProduct
  <2>. QED
    BY <1>3, <2>1, <2>2
<1>5. /\ GetLastComputableL(T, "AEI") <= lastComputedL[T]["PCL"] /\ lastComputedL[T]["PCL"] \in Int
      /\ GetLastComputableL(Avg, "AEI") <= lastComputedL[Avg]["AER"] /\ lastComputedL[Avg]["AER"] \in Int
  BY <1>1, <1>2, BehindPredecessor, Types
<1>6. GetFirstComputableL(T, "AEI") \in Nat
  BY <1>1, <1>2, FirstComputable
<1>7. ASSUME NEW l \in GetFirstComputableL(T, "AEI")..AeiLastL PROVE l \in good
  <2>1. l \in Nat /\ l <= AeiLastL /\ l \in AeiLines
    BY <1>3, <1>6 DEF AeiLines
  <2>2. l \in final["PCL"]
    BY <1>1, <1>2, <1>3, <1>5, <2>1, FinalUpTo
  <2>3. SourceL0(l) \in Int
    <3> DEFINE x == Larger(l - AveragingFactor \div 2, 0)
    <3>1. AveragingFactor \in Nat \ {0} /\ AveragingFactor \div 2 \in Nat
      BY Types, Division
    <3>2. x \in Nat
      BY <2>1, <3>1 DEF Larger
    <3>3. x \div AveragingFactor \in Nat
      <4> HIDE DEF x
      <4> QED BY <3>1, <3>2, Division
    <3>4. grid[Avg].maxL \in Nat
      BY <1>1, AveragedSegment
    <3>. QED
      BY <3>3, <3>4 DEF SourceL0, MinMax
  <2>4. SourceL0(l) \in Nat
    BY <1>1, <2>1, <2>3 DEF AeiThrows
  <2>5. SourceL0(l) + 1 <= lastComputedL[Avg]["AER"]
    BY <1>3, <1>5, <2>1, <2>4
  <2>6. SourceL0(l) \in final["AER"] /\ SourceL0(l) + 1 \in final["AER"]
    BY <1>1, <1>2, <1>5, <2>4, <2>5, FinalUpTo
  <2>. QED
    BY <2>2, <2>6
<1>8. /\ \A s \in DOMAIN last : last[s] \in Int
      /\ DOMAIN last = {T} /\ last[T] = AeiLastL
  BY <1>3
<1>9. file' \subseteq Nat
  BY <1>1 DEF FinalInv, TypeOK
<1>10. /\ \A s \in DOMAIN first : first[s] \in Int
       /\ "OLC" \in DOMAIN first /\ T \notin DOMAIN first
       /\ first["OLC"] = AeiLastL + 1
  BY <1>3 DEF AeiRequires, WithMis, T
<1> HIDE DEF first, good
<1>11. /\ RegisteredRowsAreFinal' /\ final' \in [Module -> SUBSET Nat]
       /\ \A q \in Module : final'[q] \subseteq Rows(product)
  BY <1>1, <1>2, <1>3, <1>4, <1>7, <1>10, ComputeStep
<1> HIDE DEF last
<1>. QED
  BY <1>1, <1>3, <1>8, <1>9, <1>10, <1>11, RequireStep

\* Starting a module whose segments begin at row 0.
LEMMA StartFinal ==
  ASSUME KInv, KInv', FinalInv, NEW m \in Module, Sch!Start(m),
         UNCHANGED final, product' \in Products \cup {NoProduct}, file' \subseteq Nat,
         ncFiles' \in {"none", "open", "closed"}, UNCHANGED manifest
  PROVE  FinalInv'
<1>1. /\ phase = "start" /\ phase' \in {"start", "process"}
      /\ UNCHANGED <<lastComputedL, firstRequiredL>>
      /\ DOMAIN grid' = DOMAIN grid \cup Syl2Adds[m]
      /\ \A s \in DOMAIN grid : grid'[s] = grid[s]
      /\ \A s \in Syl2Adds[m] : grid'[s].minInMemoryL = 0
  BY DEF Sch!Start, Sch!Turn, Sch!StartNext
<1>2. /\ final = NothingFinal
      /\ \A s \in DOMAIN grid : grid[s].minInMemoryL = 0
      /\ \A s \in Segment : firstRequiredL[s] = NoEntries
      /\ \A s \in Segment : lastComputedL[s] = NoEntries
  BY <1>1, WhatIInvSays DEF KInv, FinalInv, Fresh
<1>3. \A s \in DOMAIN grid' : grid'[s].minInMemoryL = 0
  BY <1>1, <1>2
<1>4. TypeOK'
  <2>1. ProcessorTypeOK'
    BY StateType, PTL
  <2>2. segmentLineCount' \in LineCounts
    BY DEF KInv
  <2>3. manifest' \in {"none", "open", "closed"} /\ final' \in [Module -> SUBSET Nat]
    BY DEF FinalInv, TypeOK, TaskTypeOK
  <2>4. \A p \in Module : final'[p] = {}
    BY <1>2 DEF NothingFinal
  <2>. QED
    BY <2>1, <2>2, <2>3, <2>4 DEF TypeOK, TaskTypeOK
<1>5. Fresh' /\ NoStrayRequirements'
  BY <1>1, <1>2, <1>3 DEF Fresh, NoStrayRequirements
<1>6. Segment = SourceSegments \cup {T, Avg} /\ "OLC" \in SourceSegments /\ Stage \subseteq Module
      /\ {"AVE", "AEI"} \subseteq Module
  BY Types, ModulesAre DEF SourceSegments, Stage
<1>7. \A s \in Segment : \A p \in Module : lastComputedL'[s][p] = None /\ firstRequiredL'[s][p] = None
  BY <1>1, <1>2 DEF NoEntries
<1>8. Requirements'
  BY <1>6, <1>7 DEF Requirements
<1>9. AveragedRowsAreKept'
  <2>1. lastComputedL'[Avg]["AVE"] = None
    BY <1>6, <1>7
  <2>2. Busy' => T \in DOMAIN grid'
    BY DEF Busy, KInv, Present, IsStarted
  <2>3. Busy' => grid'[T].minInMemoryL = 0
    BY <1>3, <2>2
  <2>. QED
    BY <2>1, <2>3 DEF AveragedRowsAreKept, None
<1>10. RegisteredRowsAreFinal'
  <2>1. \A s \in {T, Avg} : \A p \in Stage : lastComputedL'[s][p] = None
    BY <1>6, <1>7
  <2>2. 0..None = {}
    BY DEF None
  <2>. QED
    BY <2>1, <2>2 DEF RegisteredRowsAreFinal
<1>. QED
  BY <1>4, <1>5, <1>8, <1>9, <1>10 DEF FinalInv

\* Stopping a module.
LEMMA StopFinal ==
  ASSUME KInv, KInv', FinalInv, NEW m \in Module, Turn("stop", m), StopNext,
         RemoveSegments(Syl2Adds[m]),
         UNCHANGED <<segmentLineCount, product, file>>,
         ncFiles' \in {"none", "open", "closed"}, manifest' \in {"none", "open", "closed"},
         final' = IF m = "READER" THEN NothingFinal ELSE final
  PROVE  FinalInv'
<1>1. /\ phase = "stop" /\ phase' \in {"stop", "start", "done"}
      /\ phase' = "start" => at = 1
      /\ at = 1 <=> m = "READER"
      /\ at \in 1..9
  BY Types, TurnIs, PipelineIs DEF Turn, StopNext
<1>2. /\ DOMAIN grid' = DOMAIN grid \ Syl2Adds[m]
      /\ \A s \in DOMAIN grid' : grid'[s] = grid[s]
      /\ \A s \in Segment \ Syl2Adds[m] :
           lastComputedL'[s] = lastComputedL[s] /\ firstRequiredL'[s] = firstRequiredL[s]
      /\ \A s \in Segment \cap Syl2Adds[m] :
           lastComputedL'[s] = NoEntries /\ firstRequiredL'[s] = NoEntries
  BY StopStep
<1>3. Segment = SourceSegments \cup {T, Avg} /\ DOMAIN grid \subseteq Segment
  BY Types DEF ContextTypeOK
<1>4. at = 1 => T \notin DOMAIN grid /\ Avg \notin DOMAIN grid /\ Syl2Adds[m] = SourceSegments
  BY <1>1, WorksAre DEF KInv, Present, IsStarted
<1>5. at = 1 => DOMAIN grid' = {}
  BY <1>2, <1>3, <1>4
<1>6. NoStrayRequirements'
  BY <1>2, <1>3 DEF FinalInv, NoStrayRequirements
<1>7. Fresh'
  BY <1>1, <1>2, <1>3, <1>5, <1>6 DEF Fresh, NoStrayRequirements
<1>8. TypeOK'
  <2>1. ProcessorTypeOK'
    BY StateType, PTL
  <2>2. segmentLineCount' \in LineCounts
    BY DEF KInv
  <2>3. /\ product' \in Products \cup {NoProduct} /\ file' \subseteq Nat
        /\ final \in [Module -> SUBSET Nat]
        /\ product # NoProduct => \A p \in Module : final[p] \subseteq Rows(product)
    BY DEF FinalInv, TypeOK, TaskTypeOK
  <2>4. /\ final' \in [Module -> SUBSET Nat]
        /\ product # NoProduct => \A p \in Module : final'[p] \subseteq Rows(product)
    BY <2>3 DEF NothingFinal
  <2>. QED
    BY <2>1, <2>2, <2>3, <2>4 DEF TypeOK, TaskTypeOK, Rows
<1>9. Requirements' /\ AveragedRowsAreKept'
  BY <1>1 DEF Requirements, AveragedRowsAreKept, Busy
<1>10. RegisteredRowsAreFinal'
  <2>1. CASE at = 1
    BY <1>5, <2>1 DEF RegisteredRowsAreFinal
  <2>2. CASE at # 1
    <3>1. final' = final
      BY <1>1, <2>2
    <3>2. \A s \in DOMAIN grid' : s \in DOMAIN grid /\ lastComputedL'[s] = lastComputedL[s]
      BY <1>2, <1>3
    <3>. QED
      BY <3>1, <3>2 DEF FinalInv, RegisteredRowsAreFinal
  <2>. QED
    BY <2>1, <2>2
<1>. QED
  BY <1>6, <1>7, <1>8, <1>9, <1>10 DEF FinalInv

\* Nothing changes but the control state, and the program is at its end.
LEMMA EndFinal ==
  ASSUME KInv, KInv', FinalInv, UNCHANGED <<contextVars, dataVars>>,
         phase' \in {"done", "failed"} \/ UNCHANGED controlVars
  PROVE  FinalInv'
<1>1. UNCHANGED <<grid, lastComputedL, firstRequiredL, segmentLineCount, product, final, file,
                  ncFiles, manifest>>
  BY DEF contextVars, dataVars
<1>2. ProcessorTypeOK'
  BY StateType, PTL
<1>. QED
  BY <1>1, <1>2
     DEF FinalInv, TypeOK, TaskTypeOK, Fresh, NoStrayRequirements, Requirements, AveragedRowsAreKept,
         RegisteredRowsAreFinal, Busy, Rows, controlVars

\* An averaged line of which there is only one holds the whole window.
LEMMA OneAveragedLine ==
  ASSUME LongWindows, KInv, phase \in {"process", "move"}, grid[Avg].maxL = 0
  PROVE  grid[T].sizeL >= grid[T].maxL + 1
<1>1. /\ NeededRows = (FillDistance + 2) * AveragingFactor
      /\ Smaller(NeededRows, grid[T].maxL + 1) <= grid[T].sizeL
      /\ T \in Segment /\ Avg \in DOMAIN grid
      /\ grid[T].maxL \in Nat /\ grid[T].sizeL \in Nat
      /\ NeededRows \in Nat
      /\ AveragingFactor \in Nat \ {0} /\ FillDistance \in Nat
  BY ProcessWindows, Types
<1>2. grid[Avg].maxL = (grid[T].maxL + AveragingFactor) \div AveragingFactor - 1
  BY <1>1 DEF KInv, ShapesFit
<1>3. /\ grid[T].maxL < ((grid[T].maxL + AveragingFactor) \div AveragingFactor) * AveragingFactor
      /\ (grid[T].maxL + AveragingFactor) \div AveragingFactor - 1 \in Nat
  BY <1>1, LastAveragedLine
<1>4. (grid[T].maxL + AveragingFactor) \div AveragingFactor = 1
  <2> DEFINE q == (grid[T].maxL + AveragingFactor) \div AveragingFactor
  <2>1. q \in Nat
    <3>1. grid[T].maxL + AveragingFactor \in Nat
      BY <1>1
    <3>. QED
      BY <1>1, <3>1, Division
  <2>2. grid[Avg].maxL = q - 1
    BY <1>2
  <2> HIDE DEF q
  <2>3. q = 1
    BY <2>1, <2>2
  <2>. QED
    BY <2>3 DEF q
<1>5. grid[T].maxL < AveragingFactor
  BY <1>1, <1>3, <1>4
<1>6. AveragingFactor <= NeededRows
  BY <1>1
<1>. QED
  BY <1>1, <1>5, <1>6 DEF Smaller

\* A window slides no further than the first row that is required.
LEMMA MoveFinal ==
  ASSUME LongWindows, KInv, KInv', FinalInv, MoveSegmentsForward, UNCHANGED dataVars
  PROVE  FinalInv'
<1>1. /\ phase = "move" /\ phase' \in {"stop", "process"}
      /\ UNCHANGED <<lastComputedL, firstRequiredL, segmentLineCount, product, final, file, ncFiles,
                     manifest>>
      /\ DOMAIN grid' = DOMAIN grid
      /\ \A s \in DOMAIN grid : grid'[s] = MovedGrid(s)
  BY DEF MoveSegmentsForward, dataVars
<1>2. ProcessorTypeOK'
  BY StateType, PTL
<1>3. TypeOK' /\ Fresh' /\ NoStrayRequirements' /\ Requirements' /\ RegisteredRowsAreFinal'
  BY <1>1, <1>2
     DEF FinalInv, TypeOK, TaskTypeOK, Fresh, NoStrayRequirements, Requirements,
         RegisteredRowsAreFinal, Busy, Rows
<1>4. AveragedRowsAreKept'
  <2> DEFINE old == lastComputedL[Avg]["AVE"]
             req == (old + 1) * AveragingFactor
             min == grid[T].minInMemoryL
  <2>1. /\ T \in DOMAIN grid /\ Avg \in DOMAIN grid /\ ContextTypeOK /\ "AVE" \in Module
        /\ T \in Segment /\ Avg \in Segment
        /\ old \in Int /\ AveragingFactor \in Nat \ {0} /\ min \in Nat
        /\ grid[T].sizeL \in Nat /\ grid[T].maxL \in Nat
        /\ Avg \in Syl2Works["AVE"]
    BY <1>1, AllPresent, Types, WindowType, ModulesAre, WorksAre
  <2>2. min <= IF old > 0 THEN req ELSE 0
    BY <1>1 DEF FinalInv, AveragedRowsAreKept, Busy
  <2>3. grid'[T].minInMemoryL = Larger(min, ForwardL(T)) /\ ForwardL(T) \in Int
        /\ ForwardL(T) <= GetFirstRequiredL(T)
        /\ ForwardL(T) <= grid[T].maxL - grid[T].sizeL + 1
    BY <1>1, <2>1, MovedWindow
  <2>4. CASE old > 0
    <3>1. req \in Nat /\ req > 0
      <4>1. old + 1 \in Nat /\ old + 1 > 0
        BY <2>1, <2>4
      <4>. QED
        BY <2>1, <4>1
    <3>2. firstRequiredL[T]["AVE"] = req
      BY <1>1, <2>4 DEF FinalInv, Requirements, Busy, None
    <3>3. GetFirstRequiredL(T) <= req /\ GetFirstRequiredL(T) \in Nat
      BY <2>1, <3>1, <3>2, ForwardRows
    <3> HIDE DEF req
    <3>4. grid'[T].minInMemoryL <= req
      BY <2>1, <2>2, <2>3, <2>4, <3>1, <3>3 DEF Larger
    <3>. QED
      BY <1>1, <2>4, <3>4 DEF AveragedRowsAreKept, req
  <2>5. CASE ~(old > 0)
    <3>1. Sch!IsRegistered("AVE")
      BY <1>1, <2>1, WhatIInvSays DEF KInv
    <3>2. MaxInMemoryL(Avg) = 0
      BY <2>1, <2>5, <3>1, WhatRegisteredSays
    <3>3. grid[Avg].maxL = 0
      BY <1>1, <3>2, ProcessWindows
    <3>4. ForwardL(T) <= 0
      BY <1>1, <2>1, <2>3, <3>3, OneAveragedLine
    <3>5. grid'[T].minInMemoryL <= 0
      BY <2>1, <2>2, <2>3, <2>5, <3>4 DEF Larger
    <3>. QED
      BY <1>1, <2>5, <3>5 DEF AveragedRowsAreKept
  <2>. QED
    BY <2>4, <2>5
<1>. QED
  BY <1>3, <1>4 DEF FinalInv

\* Modules are started.
LEMMA StartsFinal ==
  ASSUME KInv, KInv', FinalInv,
         \/ ReaderStart \/ ColStart \/ AveStart \/ WriterStart("WRITER")
         \/ \E m \in {"PCL", "AER", "AEI", "ACO", "MANIFEST"} : IdleStart(m)
  PROVE  FinalInv'
<1>1. /\ product \in Products \cup {NoProduct} /\ file \subseteq Nat
      /\ ncFiles \in {"none", "open", "closed"}
  BY DEF FinalInv, TypeOK, TaskTypeOK
<1>2. CASE ReaderStart
  <2>1. Sch!Start("READER") /\ product' \in Products /\ UNCHANGED <<final, file, ncFiles, manifest>>
    BY <1>2, ReaderStartStep DEF ReaderStart
  <2>. QED
    BY <1>1, <2>1, StartFinal, ModulesAre
<1>3. CASE ColStart \/ AveStart
  <2>1. Sch!Start("COL") \/ Sch!Start("AVE")
    BY <1>3, ColStartStep, AveStartStep
  <2>2. UNCHANGED <<product, final, file, ncFiles, manifest>>
    BY <1>3 DEF ColStart, AveStart, dataVars
  <2>. QED
    BY <1>1, <2>1, <2>2, StartFinal, ModulesAre
<1>4. CASE WriterStart("WRITER")
  <2>1. Sch!Start("WRITER")
    BY <1>4, IdleStartStep, ModulesAre DEF WriterStart
  <2>2. UNCHANGED <<product, final, manifest>> /\ file' = {} /\ ncFiles' = "open"
    BY <1>4 DEF WriterStart
  <2>. QED
    BY <1>1, <2>1, <2>2, StartFinal, ModulesAre
<1>5. CASE \E m \in {"PCL", "AER", "AEI", "ACO", "MANIFEST"} : IdleStart(m)
  <2>1. PICK m \in {"PCL", "AER", "AEI", "ACO", "MANIFEST"} : IdleStart(m)
    BY <1>5
  <2>2. m \in Module \ {"READER", "COL", "AVE"}
    BY ModulesAre
  <2>3. Turn("start", m) /\ StartNext
        /\ UNCHANGED <<contextVars, segmentLineCount, product, final, file, ncFiles, manifest>>
    BY <2>1 DEF IdleStart, dataVars
  <2>4. Sch!Start(m)
    BY <2>2, <2>3, IdleStartStep
  <2>. QED
    BY <1>1, <2>2, <2>3, <2>4, StartFinal
<1>. QED
  BY <1>2, <1>3, <1>4, <1>5

\* Modules are stopped.
LEMMA StopsFinal ==
  ASSUME KInv, KInv', FinalInv,
         \/ ManifestStop \/ WriterStop("WRITER") \/ AveStop \/ ColStop \/ ReaderStop
         \/ \E m \in {"ACO", "AEI", "AER", "PCL"} : IdleStop(m)
  PROVE  FinalInv'
<1>1. ncFiles \in {"none", "open", "closed"} /\ manifest \in {"none", "open", "closed"}
  BY DEF FinalInv, TypeOK, TaskTypeOK
<1>2. PICK m \in Module :
        /\ Turn("stop", m) /\ StopNext /\ RemoveSegments(Syl2Adds[m])
        /\ UNCHANGED <<segmentLineCount, product, file>>
        /\ ncFiles' \in {ncFiles, "closed"} /\ manifest' \in {manifest, ncFiles}
        /\ final' = IF m = "READER" THEN NothingFinal ELSE final
  BY StopsAre
<1>. QED
  BY <1>1, <1>2, StopFinal

\* Every step keeps what has been registered final.
LEMMA StepFinal ==
  ASSUME LongWindows, KInv, KInv', FinalInv, [Next]_vars
  PROVE  FinalInv'
<1>1. CASE \/ ReaderStart \/ ColStart \/ AveStart \/ WriterStart("WRITER")
           \/ \E m \in {"PCL", "AER", "AEI", "ACO", "MANIFEST"} : IdleStart(m)
  BY <1>1, StartsFinal
<1>2. CASE ReaderProcess \/ ColProcess \/ AveProcess \/ AerProcess
  BY <1>2, ReaderFinal, ColFinal, AveFinal, AerFinal
<1>3. CASE AeiProcess \/ WriterProcess \/ IdleProcess("MANIFEST")
  BY <1>3, AeiFinal, WriterFinal, ManifestFinal
<1>4. CASE PclProcess
  BY <1>4, TargetFinal, PredecessorsAre DEF PclProcess
<1>5. CASE AcoProcess
  BY <1>5, TargetFinal, PredecessorsAre DEF AcoProcess
<1>6. CASE MoveSegmentsForward /\ UNCHANGED dataVars
  BY <1>6, MoveFinal
<1>7. CASE \/ ManifestStop \/ WriterStop("WRITER") \/ AveStop \/ ColStop \/ ReaderStop
           \/ \E m \in {"ACO", "AEI", "AER", "PCL"} : IdleStop(m)
  BY <1>7, StopsFinal
<1>8. CASE RuntimeError \/ IOError \/ (Exited /\ UNCHANGED dataVars) \/ UNCHANGED vars
  <2>1. /\ UNCHANGED <<contextVars, dataVars>>
        /\ phase' \in {"done", "failed"} \/ UNCHANGED controlVars
    BY <1>8 DEF RuntimeError, IOError, Throw, Exited, vars
  <2>. QED
    BY <2>1, EndFinal
<1>. QED
  BY <1>1, <1>2, <1>3, <1>4, <1>5, <1>6, <1>7, <1>8 DEF Next

\* The program begins with nothing final.
LEMMA InitFinal ==
  ASSUME Init
  PROVE  FinalInv
<1>1. /\ DOMAIN grid = {} /\ phase = "start" /\ segmentLineCount \in LineCounts
      /\ \A s \in Segment : firstRequiredL[s] = NoEntries
      /\ product = NoProduct /\ final = NothingFinal /\ file = {} /\ ncFiles = "none"
      /\ manifest = "none"
  BY DEF Init, TaskInit, ProcessorInit, ContextInit
<1>2. ProcessorTypeOK
  BY InitKInv, Types
<1>3. final \in [Module -> SUBSET Nat]
  BY <1>1 DEF NothingFinal
<1>. QED
  BY <1>1, <1>2, <1>3
     DEF FinalInv, TypeOK, TaskTypeOK, Fresh, NoStrayRequirements, Requirements, AveragedRowsAreKept,
         RegisteredRowsAreFinal, Busy

\* The invariant behind final rows is one of the task.
LEMMA InductiveFinal == LongWindows => (Spec => [](KInv /\ FinalInv))
<1> SUFFICES ASSUME LongWindows PROVE Spec => [](KInv /\ FinalInv)
  OBVIOUS
<1>1. Init => KInv /\ FinalInv
  BY InitKInv, InitFinal
<1>2. KInv /\ FinalInv /\ [Next]_vars => (KInv /\ FinalInv)'
  BY StepKInv, StepFinal
<1>. QED
  BY <1>1, <1>2, PTL DEF Spec

\* The program is in one of its states; rows that are final exist.
THEOREM TypeCorrect == LongWindows => (Spec => []TypeOK)
<1>1. KInv /\ FinalInv => TypeOK
  BY DEF FinalInv
<1>. QED
  BY <1>1, InductiveFinal, PTL

\* A module registers a row as computed only if the row is final.
THEOREM RegisteredIsFinal == LongWindows => (Spec => []RegisteredRowsAreFinal)
<1>1. KInv /\ FinalInv => RegisteredRowsAreFinal
  BY DEF FinalInv
<1>. QED
  BY <1>1, InductiveFinal, PTL

-----------------------------------------------------------------------------
(* The windows of OLC and the target slide together. *)

\* The module at index i of the pipeline has had its turn in this pass.
TurnOver(i) == phase = "move" \/ (phase = "process" /\ at > i)

\* A pass leaves the modules that decide on the windows of OLC and the target
\* where these windows, or the interpolation, are.
PassIsEven ==
  /\ TurnOver(1) => lastComputedL["OLC"]["READER"] = MaxInMemoryL("OLC")
  /\ TurnOver(7) => lastComputedL[T]["ACO"] = lastComputedL[T]["AEI"]
  /\ TurnOver(8) => lastComputedL[T]["WRITER"] = MaxInMemoryL(T)

PassInv == PassIsEven /\ SegmentsAreSynchronized

\* A module registers its rows; the reader, the atmospheric correction and the
\* writer those that the windows are decided by.
LEMMA EvenRegister ==
  ASSUME KInv, PassInv, NEW m \in Module, Turn("process", m),
         NEW last, NEW first, Register(m, last, first),
         \A s \in DOMAIN last : last[s] \in Int,
         \A s \in DOMAIN first : first[s] \in Int,
         m = "READER" => IF "OLC" \in DOMAIN last THEN last["OLC"] = MaxInMemoryL("OLC")
                         ELSE lastComputedL["OLC"]["READER"] = MaxInMemoryL("OLC"),
         m = "ACO" => T \in DOMAIN last /\ last[T] = lastComputedL[T]["AEI"] /\ last[T] >= 0,
         m = "WRITER" => T \in DOMAIN last /\ last[T] = MaxInMemoryL(T)
  PROVE  PassInv'
<1>1. /\ phase = "process" /\ Pipeline[at] = m /\ at \in 1..9 /\ DOMAIN grid = Segment
      /\ T \in Segment /\ "OLC" \in Segment /\ T \in DOMAIN grid /\ "OLC" \in DOMAIN grid
      /\ {"READER", "AEI", "ACO", "WRITER"} \subseteq Module
      /\ at = 1 <=> m = "READER"
      /\ at = 6 <=> m = "AEI"
      /\ at = 7 <=> m = "ACO"
      /\ at = 8 <=> m = "WRITER"
  BY Types, AllPresent, TurnIs, PipelineIs, ModulesAre DEF Turn, SourceSegments
<1>2. MaxInMemoryL(T) \in Nat /\ MaxInMemoryL("OLC") \in Nat
  BY <1>1, Types, WindowType
<1>3. grid' = grid
  BY RegisterEffect
<1>4. SegmentsAreSynchronized'
  BY <1>3 DEF PassInv, SegmentsAreSynchronized, HasSegment
<1>5. CASE phase' = "failed"
  BY <1>4, <1>5 DEF PassInv, PassIsEven, TurnOver
<1>6. CASE /\ ProcessNext
           /\ \A s \in Segment : \A p \in Module :
                lastComputedL'[s][p] =
                  IF p = m /\ s \in DOMAIN last THEN EntryOf(last[s]) ELSE lastComputedL[s][p]
  <2>1. \A i \in {1, 7, 8} : TurnOver(i)' => at >= i
    BY <1>1, <1>6, PipelineIs DEF TurnOver, ProcessNext
  <2>2. MaxInMemoryL(T)' = MaxInMemoryL(T) /\ MaxInMemoryL("OLC")' = MaxInMemoryL("OLC")
    BY <1>3 DEF MaxInMemoryL
  <2>3. at >= 1 => lastComputedL'["OLC"]["READER"] = MaxInMemoryL("OLC")
    <3>1. CASE m = "READER"
      BY <1>1, <1>2, <1>6, <3>1 DEF EntryOf
    <3>2. CASE m # "READER"
      BY <1>1, <1>6, <3>2 DEF PassInv, PassIsEven, TurnOver
    <3>. QED
      BY <3>1, <3>2
  <2>4. at >= 7 => lastComputedL'[T]["ACO"] = lastComputedL'[T]["AEI"]
    <3>1. CASE m = "ACO"
      BY <1>1, <1>6, <3>1 DEF EntryOf
    <3>2. CASE at > 7
      BY <1>1, <1>6, <3>2 DEF PassInv, PassIsEven, TurnOver
    <3>. QED
      BY <1>1, <3>1, <3>2
  <2>5. at >= 8 => lastComputedL'[T]["WRITER"] = MaxInMemoryL(T)
    <3>1. CASE m = "WRITER"
      BY <1>1, <1>2, <1>6, <3>1 DEF EntryOf
    <3>2. CASE at > 8
      BY <1>1, <1>6, <3>2 DEF PassInv, PassIsEven, TurnOver
    <3>. QED
      BY <1>1, <3>1, <3>2
  <2>. QED
    BY <1>4, <2>1, <2>2, <2>3, <2>4, <2>5 DEF PassInv, PassIsEven
<1>. QED
  BY <1>5, <1>6, RegisterEffect

\* The modules between the reader and the atmospheric correction register one
\* row each.
LEMMA MiddleRegisters ==
  ASSUME LongWindows, KInv, ColProcess \/ PclProcess \/ AveProcess \/ AerProcess \/ AeiProcess
  PROVE  \E m \in {"COL", "PCL", "AVE", "AER", "AEI"} : \E last, first :
           /\ Turn("process", m) /\ Register(m, last, first)
           /\ \A s \in DOMAIN last : last[s] \in Int
           /\ \A s \in DOMAIN first : first[s] \in Int
<1>1. phase = "process" /\ AveragingFactor \in Nat /\ \A s \in DOMAIN << >> : << >>[s] \in Int
  BY Types DEF ColProcess, PclProcess, AveProcess, AerProcess, AeiProcess, Turn
<1>2. CASE ColProcess
  <2> DEFINE first == [s \in WithMis({"OLC", "SLN", "SLO", T}) |->
                         IF s \in {"SLN", "SLO"} THEN ColRequiredL(s, ColLines)
                         ELSE Smaller(ColRequiredL("OLC", ColLines), ColLastL)]
             last  == [s \in {T} |-> ColLastL]
  <2>1. Turn("process", "COL") /\ Register("COL", last, first)
    BY <1>2 DEF ColProcess
  <2>2. \A s \in DOMAIN last : last[s] \in Int
    BY <1>1, ColRow
  <2>3. \A s \in DOMAIN first : first[s] \in Int
    BY <1>1, ColRow, ColRequired DEF ColSources, Smaller
  <2> HIDE DEF first, last
  <2>. QED
    BY <2>1, <2>2, <2>3
<1>3. CASE PclProcess
  <2>1. /\ Turn("process", "PCL")
        /\ Register("PCL", [s \in {T} |-> GetLastComputableL(T, "PCL")], << >>)
    BY <1>3 DEF PclProcess
  <2>2. \A s \in {T} : GetLastComputableL(T, "PCL") \in Int
    BY <1>1, TargetRows
  <2>. QED
    BY <1>1, <2>1, <2>2
<1>4. CASE AveProcess
  <2> DEFINE c     == (AveLastL + 1) * AveragingFactor
             first == [s \in WithMis({T, "OLC"}) |-> c]
             last  == [s \in {Avg} |-> AveLastL]
  <2>1. Turn("process", "AVE") /\ Register("AVE", last, first)
    BY <1>4 DEF AveProcess
  <2>2. AveLastL \in Nat /\ \A s \in DOMAIN last : last[s] \in Int
    BY <1>1, AveRow
  <2>3. c \in Int
    BY <1>1, <2>2
  <2> HIDE DEF c
  <2>4. \A s \in DOMAIN first : first[s] \in Int
    BY <2>3
  <2> HIDE DEF first, last
  <2>. QED
    BY <2>1, <2>2, <2>4
<1>5. CASE AerProcess
  <2>1. /\ Turn("process", "AER")
        /\ Register("AER", [s \in {Avg} |-> AerLastFillableL], << >>)
    BY <1>5 DEF AerProcess
  <2>2. AerLastFillableL \in Int
    BY <1>1, AveragedSegment, Types DEF AerLastFillableL
  <2>. QED
    BY <1>1, <2>1, <2>2
<1>6. CASE AeiProcess
  <2>1. /\ Turn("process", "AEI")
        /\ Register("AEI", [s \in {T} |-> AeiLastL], [s \in AeiRequires |-> AeiLastL + 1])
    BY <1>6 DEF AeiProcess
  <2>2. AeiLastL \in Int
    BY <1>1, AeiRow
  <2>. QED
    BY <2>1, <2>2
<1>. QED
  BY <1>2, <1>3, <1>4, <1>5, <1>6

\* The atmospheric correction reaches the row of the interpolation.
LEMMA CorrectedRow ==
  ASSUME LongWindows, KInv, Turn("process", "ACO")
  PROVE  GetLastComputableL(T, "ACO") = lastComputedL[T]["AEI"]
<1>1. /\ phase = "process" /\ {"AEI", "ACO"} \subseteq Module /\ T \in Segment /\ T \in DOMAIN grid
      /\ ContextTypeOK /\ T \in Syl2Works["AEI"] /\ T \in Syl2Works["COL"] /\ T \in Syl2Works["PCL"]
      /\ "AEI" \in Predecessors("ACO") /\ lastComputedL[T]["AEI"] \in Int
      /\ GetLastComputableL(T, "ACO") \in Nat
      /\ MaxInMemoryL(T) \in Nat /\ grid[T].maxL \in Nat
  BY AllPresent, Types, WindowType, LastComputable, WorksAre, ModulesAre, PredecessorsAre DEF Turn
<1>2. GetLastComputableL(T, "ACO") <= lastComputedL[T]["AEI"]
  BY <1>1, BehindPredecessor
<1>3. /\ lastComputedL[T]["AEI"] <= MaxInMemoryL(T) /\ MaxInMemoryL(T) <= grid[T].maxL
      /\ lastComputedL[T]["AEI"] <= lastComputedL[T]["COL"]
      /\ lastComputedL[T]["AEI"] <= lastComputedL[T]["PCL"]
  <2>1. "AEI" \in Module \ {"WRITER"} /\ "COL" \in Predecessors("AEI") /\ "PCL" \in Predecessors("AEI")
    BY <1>1, PredecessorsAre
  <2>2. \A p \in Predecessors("AEI") :
          \A s \in Syl2Works["AEI"] \cap Syl2Works[p] : lastComputedL[s]["AEI"] <= lastComputedL[s][p]
    BY <2>1, WhatIInvSays DEF KInv
  <2>. QED
    BY <1>1, <2>1, <2>2, WhatIInvSays DEF KInv
<1>4. \A p \in {"READER", "AVE", "AER"} : lastComputedL[T][p] = None
  <2>1. \A p \in {"READER", "AVE", "AER"} : p \in Module /\ T \notin Syl2Works[p]
    BY WorksAre, ModulesAre DEF SourceSegments, T, Avg
  <2>. QED
    BY <1>1, <2>1 DEF KInv, OwnEntries
<1>5. \A p \in Predecessors("ACO") :
        lastComputedL[T][p] > 0 => lastComputedL[T]["AEI"] <= lastComputedL[T][p]
  BY <1>1, <1>3, <1>4, PredecessorsAre DEF None
<1>6. lastComputedL[T]["AEI"] <= grid[T].maxL
  BY <1>1, <1>3
<1>7. lastComputedL[T]["AEI"] <= GetLastComputableL(T, "ACO")
  BY <1>1, <1>3, <1>5, <1>6, LastComputable
<1>. QED
  BY <1>1, <1>2, <1>7

\* When the windows move, those of OLC and the target move by the same rows.
LEMMA MovedTogether ==
  ASSUME LongWindows, KInv, FinalInv, PassInv, phase = "move"
  PROVE  MovedGrid(T).minInMemoryL = MovedGrid("OLC").minInMemoryL
<1> DEFINE e == lastComputedL[T]["AEI"]
           M == MaxInMemoryL(T)
<1>1. /\ T \in Segment /\ "OLC" \in Segment /\ T \in DOMAIN grid /\ "OLC" \in DOMAIN grid
      /\ ContextTypeOK
      /\ {"READER", "COL", "PCL", "AVE", "AEI", "ACO", "WRITER"} \subseteq Module
      /\ \A p \in Module : lastComputedL[T][p] \in Int
  BY AllPresent, Types, ModulesAre DEF SourceSegments
<1>2. /\ grid[T].minInMemoryL = grid["OLC"].minInMemoryL
      /\ grid[T].sizeL = grid["OLC"].sizeL /\ grid[T].maxL = grid["OLC"].maxL
      /\ MaxInMemoryL("OLC") = M
      /\ M \in Nat /\ grid[T].minInMemoryL \in Nat /\ grid[T].sizeL \in Nat /\ grid[T].maxL \in Nat
  BY <1>1, WindowType DEF PassInv, SegmentsAreSynchronized, HasSegment, KInv, ShapesFit, MaxInMemoryL
<1>3. /\ lastComputedL["OLC"]["READER"] = M
      /\ lastComputedL[T]["ACO"] = e
      /\ lastComputedL[T]["WRITER"] = M
      /\ e \in Int
  BY <1>1, <1>2 DEF PassInv, PassIsEven, TurnOver
<1>4. e >= 0 /\ e <= M
  <2>1. Sch!IsRegistered("AEI") /\ T \in Syl2Works["AEI"]
    BY <1>1, WhatIInvSays, WorksAre DEF KInv
  <2>2. e <= M
    BY <1>1, WhatIInvSays DEF KInv
  <2>. QED
    BY <1>3, <2>1, <2>2, WhatRegisteredSays
<1>5. CommonlyComputedL("OLC") = M
  <2>1. \A p \in Module : lastComputedL["OLC"][p] # None => p = "READER"
    <3>1. \A p \in Module \ {"READER"} : "OLC" \notin Syl2Works[p]
      BY WorksAre, ModulesAre DEF WrittenSegments, T, Avg
    <3>. QED
      BY <1>1, <3>1 DEF KInv, OwnEntries
  <2>. QED
    BY <1>1, <1>2, <1>3, <2>1, ForwardRows
<1>6. CommonlyComputedL(T) = e
  <2>1. CommonlyComputedL(T) \in Nat /\ CommonlyComputedL(T) <= e
    BY <1>1, <1>3, <1>4, ForwardRows DEF None
  <2>2. \A p \in Module : lastComputedL[T][p] # None => e <= lastComputedL[T][p]
    <3>1. \A p \in Module : lastComputedL[T][p] # None => p \in {"COL", "PCL", "AEI", "ACO", "WRITER"}
      <4>1. \A p \in Module \ {"COL", "PCL", "AEI", "ACO", "WRITER"} : T \notin Syl2Works[p]
        BY WorksAre, ModulesAre DEF SourceSegments, T, Avg
      <4>. QED
        BY <1>1, <4>1 DEF KInv, OwnEntries
    <3>2. e <= lastComputedL[T]["COL"] /\ e <= lastComputedL[T]["PCL"]
      <4>1. "AEI" \in Module \ {"WRITER"} /\ "COL" \in Predecessors("AEI") /\ "PCL" \in Predecessors("AEI")
            /\ \A p \in {"COL", "PCL", "AEI"} : T \in Syl2Works[p]
        BY <1>1, PredecessorsAre, WorksAre
      <4>2. \A p \in Predecessors("AEI") :
              \A s \in Syl2Works["AEI"] \cap Syl2Works[p] : lastComputedL[s]["AEI"] <= lastComputedL[s][p]
        BY <4>1, WhatIInvSays DEF KInv
      <4>. QED
        BY <4>1, <4>2
    <3>. QED
      BY <1>3, <1>4, <3>1, <3>2
  <2>3. e <= CommonlyComputedL(T)
    BY <1>1, <1>4, <2>2, ForwardRows
  <2>. QED
    BY <1>3, <2>1, <2>3
<1>7. GetFirstRequiredL("OLC") = Smaller(GetFirstRequiredL(T), e + 1)
  <2> DEFINE B == Smaller(M + 1, grid[T].maxL)
  <2>1. /\ \A p \in Module \ {"COL", "AVE"} : firstRequiredL[T][p] = None
        /\ \A p \in Module \ {"AEI"} : firstRequiredL["OLC"][p] = firstRequiredL[T][p]
        /\ firstRequiredL["OLC"]["AEI"] = e + 1
    BY <1>4 DEF FinalInv, Requirements, Busy, None
  <2>2. /\ GetFirstRequiredL(T) \in Nat /\ GetFirstRequiredL(T) <= B
        /\ \A p \in Module : firstRequiredL[T][p] > 0 => GetFirstRequiredL(T) <= firstRequiredL[T][p]
        /\ \/ GetFirstRequiredL(T) = B
           \/ \E p \in Module : firstRequiredL[T][p] > 0 /\ GetFirstRequiredL(T) = firstRequiredL[T][p]
    BY <1>1, ForwardRows
  <2>3. /\ GetFirstRequiredL("OLC") \in Nat /\ GetFirstRequiredL("OLC") <= B
        /\ \A p \in Module : firstRequiredL["OLC"][p] > 0 => GetFirstRequiredL("OLC") <= firstRequiredL["OLC"][p]
        /\ \/ GetFirstRequiredL("OLC") = B
           \/ \E p \in Module : firstRequiredL["OLC"][p] > 0 /\ GetFirstRequiredL("OLC") = firstRequiredL["OLC"][p]
    BY <1>1, <1>2, ForwardRows
  <2>4. GetFirstRequiredL("OLC") <= e + 1
    BY <1>1, <1>4, <2>1, <2>3
  <2>5. GetFirstRequiredL("OLC") <= GetFirstRequiredL(T)
    BY <1>1, <2>1, <2>2, <2>3 DEF None
  <2>6. GetFirstRequiredL(T) <= GetFirstRequiredL("OLC") \/ e + 1 = GetFirstRequiredL("OLC")
    BY <1>1, <2>1, <2>2, <2>3
  <2>. QED
    BY <1>3, <2>2, <2>3, <2>4, <2>5, <2>6 DEF Smaller
<1>8. GetFirstRequiredL(T) \in Nat
  BY <1>1, ForwardRows
<1> HIDE DEF e, M
<1>9. ForwardL("OLC") = ForwardL(T)
  BY <1>2, <1>3, <1>4, <1>5, <1>6, <1>7, <1>8 DEF ForwardL, Smaller
<1>. QED
  BY <1>1, <1>2, <1>9, MovedWindow

\* A step that leaves the windows as they are, outside of a pass or at its end.
LEMMA StillSynchronized ==
  ASSUME KInv, KInv', PassInv,
         \A s \in DOMAIN grid' \cap DOMAIN grid : grid'[s] = grid[s],
         DOMAIN grid' \subseteq DOMAIN grid,
         phase' \notin {"process", "move"}
  PROVE  PassInv'
<1>1. PassIsEven'
  BY DEF PassIsEven, TurnOver
<1>2. T \in DOMAIN grid' => "OLC" \in DOMAIN grid'
  BY DEF KInv, ShapesFit
<1>3. SegmentsAreSynchronized'
  BY <1>2 DEF PassInv, SegmentsAreSynchronized, HasSegment
<1>. QED
  BY <1>1, <1>3 DEF PassInv

\* The windows begin at row 0.
LEMMA StartsPass ==
  ASSUME KInv, KInv', FinalInv,
         \/ ReaderStart \/ ColStart \/ AveStart \/ WriterStart("WRITER")
         \/ \E m \in {"PCL", "AER", "AEI", "ACO", "MANIFEST"} : IdleStart(m)
  PROVE  PassInv'
<1>1. PICK m \in Module : Sch!Start(m)
  BY StartsStep
<1>2. /\ phase = "start" /\ at \in 1..9
      /\ phase' = "start" \/ (phase' = "process" /\ at' = 1)
      /\ DOMAIN grid' = DOMAIN grid \cup Syl2Adds[m]
      /\ \A s \in DOMAIN grid : grid'[s] = grid[s]
      /\ \A s \in Syl2Adds[m] : grid'[s].minInMemoryL = 0
  BY <1>1, Types DEF Sch!Start, Sch!Turn, Sch!StartNext
<1>3. \A s \in DOMAIN grid' : grid'[s].minInMemoryL = 0
  BY <1>2 DEF FinalInv, Fresh
<1>4. T \in DOMAIN grid' => "OLC" \in DOMAIN grid'
  BY DEF KInv, ShapesFit
<1>5. SegmentsAreSynchronized'
  BY <1>3, <1>4 DEF SegmentsAreSynchronized, HasSegment
<1>6. PassIsEven'
  BY <1>2 DEF PassIsEven, TurnOver
<1>. QED
  BY <1>5, <1>6 DEF PassInv

\* The reader reaches the end of the window of OLC.
LEMMA ReaderPass ==
  ASSUME LongWindows, KInv, PassInv, ReaderProcess
  PROVE  PassInv'
<1> DEFINE last == [s \in Unread |-> MaxInMemoryL(s)]
           first == << >>
<1>1. /\ Turn("process", "READER") /\ phase = "process" /\ "READER" \in Module
      /\ Register("READER", last, first)
  BY ModulesAre DEF ReaderProcess, Turn
<1>2. \A s \in DOMAIN last : last[s] \in Int
  <2>1. Unread \subseteq Segment
    BY Types DEF Unread
  <2>. QED
    BY <1>1, <2>1, ProcessWindows
<1>3. IF "OLC" \in DOMAIN last THEN last["OLC"] = MaxInMemoryL("OLC")
      ELSE lastComputedL["OLC"]["READER"] = MaxInMemoryL("OLC")
  <2>1. "OLC" \in SourceSegments /\ "OLC" \in Segment /\ "OLC" \in DOMAIN grid
        /\ lastComputedL["OLC"]["READER"] \in Int /\ MaxInMemoryL("OLC") \in Nat
    BY <1>1, Types, ProcessWindows DEF SourceSegments
  <2>2. CASE "OLC" \notin Unread
    <3>1. HasLastComputedL("OLC", "READER") /\ GetLastComputedL("OLC", "READER") >= MaxInMemoryL("OLC")
      BY <2>1, <2>2 DEF Unread, GetLastComputedL, HasLastComputedL
    <3>2. lastComputedL["OLC"]["READER"] <= MaxInMemoryL("OLC")
      BY <1>1, <2>1, WhatIInvSays DEF KInv
    <3>. QED
      BY <2>1, <2>2, <3>1, <3>2 DEF HasLastComputedL, GetLastComputedL
  <2>3. CASE "OLC" \in Unread
    BY <2>3
  <2>. QED
    BY <2>2, <2>3
<1>4. \A s \in DOMAIN first : first[s] \in Int
  OBVIOUS
<1> HIDE DEF last, first
<1>. QED
  BY <1>1, <1>2, <1>3, <1>4, EvenRegister

\* The correction reaches the row of the interpolation.
LEMMA AcoPass ==
  ASSUME LongWindows, KInv, PassInv, AcoProcess
  PROVE  PassInv'
<1> DEFINE l == GetLastComputableL(T, "ACO")
           last == [s \in {T} |-> l]
           first == << >>
<1>1. /\ Turn("process", "ACO") /\ phase = "process" /\ "ACO" \in Module
      /\ Register("ACO", last, first)
  BY ModulesAre DEF AcoProcess, Turn
<1>2. l = lastComputedL[T]["AEI"] /\ l \in Nat
  BY <1>1, CorrectedRow, Types, LastComputable, AllPresent
<1> HIDE DEF l
<1>3. \A s \in DOMAIN last : last[s] \in Int
  BY <1>2
<1>4. T \in DOMAIN last /\ last[T] = lastComputedL[T]["AEI"] /\ last[T] >= 0
  BY <1>2
<1>5. \A s \in DOMAIN first : first[s] \in Int
  OBVIOUS
<1> HIDE DEF last, first
<1>. QED
  BY <1>1, <1>3, <1>4, <1>5, EvenRegister

\* The writer reaches the end of the window.
LEMMA WriterPass ==
  ASSUME LongWindows, KInv, PassInv, WriterProcess
  PROVE  PassInv'
<1> DEFINE last == [s \in WrittenSegments |-> MaxInMemoryL(s)]
           first == << >>
<1>1. /\ Turn("process", "WRITER") /\ phase = "process" /\ "WRITER" \in Module
      /\ Register("WRITER", last, first)
  BY ModulesAre DEF WriterProcess, Turn
<1>2. \A s \in DOMAIN last : last[s] \in Int
  <2>1. WrittenSegments \subseteq Segment
    BY Types DEF WrittenSegments, SourceSegments
  <2>. QED
    BY <1>1, <2>1, ProcessWindows
<1>3. T \in DOMAIN last /\ last[T] = MaxInMemoryL(T)
  BY DEF WrittenSegments
<1>4. \A s \in DOMAIN first : first[s] \in Int
  OBVIOUS
<1> HIDE DEF last, first
<1>. QED
  BY <1>1, <1>2, <1>3, <1>4, EvenRegister

\* The modules between leave these entries alone.
LEMMA MiddlePass ==
  ASSUME LongWindows, KInv, PassInv,
         ColProcess \/ PclProcess \/ AveProcess \/ AerProcess \/ AeiProcess
  PROVE  PassInv'
<1>1. PICK m \in {"COL", "PCL", "AVE", "AER", "AEI"} : \E last, first :
           /\ Turn("process", m) /\ Register(m, last, first)
           /\ \A s \in DOMAIN last : last[s] \in Int
           /\ \A s \in DOMAIN first : first[s] \in Int
  BY MiddleRegisters
<1>2. PICK last, first :
           /\ Turn("process", m) /\ Register(m, last, first)
           /\ \A s \in DOMAIN last : last[s] \in Int
           /\ \A s \in DOMAIN first : first[s] \in Int
  BY <1>1
<1>3. m \in Module /\ m \notin {"READER", "ACO", "WRITER"}
  BY ModulesAre
<1>. QED
  BY <1>2, <1>3, EvenRegister

\* The manifest writer ends the pass.
LEMMA ManifestPass ==
  ASSUME KInv, PassInv, IdleProcess("MANIFEST")
  PROVE  PassInv'
<1>1. /\ phase = "process" /\ at = 9 /\ phase' = "move"
      /\ UNCHANGED <<grid, lastComputedL, firstRequiredL>>
  BY Types, TurnIs, PipelineIs DEF IdleProcess, Turn, ProcessNext, contextVars
<1>2. TurnOver(1) /\ TurnOver(7) /\ TurnOver(8)
  BY <1>1 DEF TurnOver
<1>3. MaxInMemoryL("OLC")' = MaxInMemoryL("OLC") /\ MaxInMemoryL(T)' = MaxInMemoryL(T)
  BY <1>1 DEF MaxInMemoryL
<1>. QED
  BY <1>1, <1>2, <1>3 DEF PassInv, PassIsEven, SegmentsAreSynchronized, HasSegment

\* The windows of OLC and of the target slide by the same rows.
LEMMA MovePass ==
  ASSUME LongWindows, KInv, FinalInv, PassInv, MoveSegmentsForward
  PROVE  PassInv'
<1>1. /\ phase = "move"
      /\ phase' = "stop" \/ (phase' = "process" /\ at' = 1)
      /\ DOMAIN grid' = DOMAIN grid
      /\ \A s \in DOMAIN grid : grid'[s] = MovedGrid(s)
  BY DEF MoveSegmentsForward
<1>2. T \in DOMAIN grid /\ "OLC" \in DOMAIN grid
  BY <1>1, AllPresent, Types DEF SourceSegments, MoveSegmentsForward
<1>3. MovedGrid(T).minInMemoryL = MovedGrid("OLC").minInMemoryL
  BY MovedTogether DEF MoveSegmentsForward
<1>4. SegmentsAreSynchronized'
  BY <1>1, <1>2, <1>3 DEF SegmentsAreSynchronized
<1>5. PassIsEven'
  BY <1>1 DEF PassIsEven, TurnOver, MoveSegmentsForward
<1>. QED
  BY <1>4, <1>5 DEF PassInv

\* Stopping modules removes windows.
LEMMA StopsPass ==
  ASSUME KInv, KInv', PassInv,
         \/ ManifestStop \/ WriterStop("WRITER") \/ AveStop \/ ColStop \/ ReaderStop
         \/ \E m \in {"ACO", "AEI", "AER", "PCL"} : IdleStop(m)
  PROVE  PassInv'
<1>1. PICK m \in Module :
        /\ Turn("stop", m) /\ StopNext /\ RemoveSegments(Syl2Adds[m])
        /\ UNCHANGED <<segmentLineCount, product>>
  BY StopsAre
<1>2. /\ DOMAIN grid' = DOMAIN grid \ Syl2Adds[m]
      /\ \A s \in DOMAIN grid' : grid'[s] = grid[s]
  BY <1>1, StopStep
<1>3. phase' \notin {"process", "move"}
  BY <1>1 DEF Turn, StopNext
<1>. QED
  BY <1>2, <1>3, StillSynchronized

\* Every step keeps the two windows together.
LEMMA StepPass ==
  ASSUME LongWindows, KInv, KInv', FinalInv, PassInv, [Next]_vars
  PROVE  PassInv'
<1>1. CASE \/ ReaderStart \/ ColStart \/ AveStart \/ WriterStart("WRITER")
           \/ \E m \in {"PCL", "AER", "AEI", "ACO", "MANIFEST"} : IdleStart(m)
  BY <1>1, StartsPass
<1>2. CASE ReaderProcess \/ AcoProcess \/ WriterProcess \/ IdleProcess("MANIFEST")
  BY <1>2, ReaderPass, AcoPass, WriterPass, ManifestPass
<1>3. CASE ColProcess \/ PclProcess \/ AveProcess \/ AerProcess \/ AeiProcess
  BY <1>3, MiddlePass
<1>4. CASE MoveSegmentsForward /\ UNCHANGED dataVars
  BY <1>4, MovePass
<1>5. CASE \/ ManifestStop \/ WriterStop("WRITER") \/ AveStop \/ ColStop \/ ReaderStop
           \/ \E m \in {"ACO", "AEI", "AER", "PCL"} : IdleStop(m)
  BY <1>5, StopsPass
<1>6. CASE RuntimeError \/ IOError
  <2>1. UNCHANGED grid /\ phase' = "failed"
    BY <1>6 DEF RuntimeError, IOError, Throw, contextVars
  <2>. QED
    BY <2>1, StillSynchronized
<1>7. CASE (Exited /\ UNCHANGED dataVars) \/ UNCHANGED vars
  <2>1. UNCHANGED <<grid, lastComputedL, phase, at>>
    BY <1>7 DEF Exited, vars, contextVars, controlVars
  <2>2. MaxInMemoryL("OLC")' = MaxInMemoryL("OLC") /\ MaxInMemoryL(T)' = MaxInMemoryL(T)
    BY <2>1 DEF MaxInMemoryL
  <2>. QED
    BY <2>1, <2>2 DEF PassInv, PassIsEven, TurnOver, SegmentsAreSynchronized, HasSegment
<1>. QED
  BY <1>1, <1>2, <1>3, <1>4, <1>5, <1>6, <1>7 DEF Next

\* The invariant behind the synchronized windows is one of the task.
LEMMA InductivePass == LongWindows => (Spec => [](KInv /\ FinalInv /\ PassInv))
<1> SUFFICES ASSUME LongWindows PROVE Spec => [](KInv /\ FinalInv /\ PassInv)
  OBVIOUS
<1>1. Init => PassInv
  BY DEF Init, TaskInit, ProcessorInit, ContextInit, PassInv, PassIsEven, TurnOver,
         SegmentsAreSynchronized, HasSegment
<1>2. KInv /\ KInv' /\ FinalInv /\ PassInv /\ [Next]_vars => PassInv'
  BY StepPass
<1>. QED
  BY <1>1, <1>2, InductiveFinal, PTL DEF Spec

\* The windows of OLC and of the target slide together, whoever requires which
\* of their rows.
THEOREM Synchronized == LongWindows => (Spec => []SegmentsAreSynchronized)
<1>1. KInv /\ FinalInv /\ PassInv => SegmentsAreSynchronized
  BY DEF PassInv
<1>. QED
  BY <1>1, InductivePass, PTL

-----------------------------------------------------------------------------
(* What the target files hold. *)

\* The file belongs to the source product that is processed and holds every
\* corrected row that the writer has seen.
FileKeepsUp ==
  /\ (phase = "start" /\ at > 8) \/ phase \in {"process", "move"} => file \subseteq Rows(product)
  /\ TurnOver(8) => 0..lastComputedL[T]["ACO"] \subseteq file
  /\ phase = "done" => file = Rows(product)

\* The program has an exit code when it has ended.
CodeAtTheEnd == exitCode # Running => phase \in {"done", "failed"}

FileInv == FileKeepsUp /\ FinalRowsReachTheFile /\ CodeAtTheEnd /\ ExitCodeIsTrue

\* When modules are stopped, each of them has computed its segments.
LEMMA StoppedWhenComputed ==
  Sch!IInv => \A m \in Module : \A s \in Syl2Works[m] \cap DOMAIN grid :
                phase = "stop" => lastComputedL[s][m] = grid[s].maxL
BY WhatIInvSays

\* The writer begins with empty files.
LEMMA StartsFile ==
  ASSUME KInv, KInv', FinalInv, FileInv,
         \/ ReaderStart \/ ColStart \/ AveStart \/ WriterStart("WRITER")
         \/ \E m \in {"PCL", "AER", "AEI", "ACO", "MANIFEST"} : IdleStart(m)
  PROVE  FileInv'
<1>1. PICK m \in Module : Sch!Start(m)
  BY StartsStep
<1>2. /\ phase = "start" /\ at \in 1..9
      /\ \/ at < 9 /\ at' = at + 1 /\ phase' = "start"
         \/ at = 9 /\ at' = 1 /\ phase' = "process"
      /\ exitCode' = exitCode
      /\ DOMAIN grid' = DOMAIN grid \cup Syl2Adds[m]
      /\ \A s \in DOMAIN grid : grid'[s] = grid[s]
      /\ \A s \in Syl2Adds[m] : grid'[s].minInMemoryL = 0
  BY <1>1, Types, PipelineIs DEF Sch!Start, Sch!Turn, Sch!StartNext
<1>3. \A s \in DOMAIN grid' : grid'[s].minInMemoryL = 0
  BY <1>2 DEF FinalInv, Fresh
<1>4. FinalRowsReachTheFile'
  BY <1>2, <1>3 DEF FinalRowsReachTheFile, HasSegment
<1>5. exitCode' = Running
  BY <1>2 DEF FileInv, CodeAtTheEnd
<1>6. CodeAtTheEnd' /\ ExitCodeIsTrue'
  BY <1>5 DEF CodeAtTheEnd, ExitCodeIsTrue, Running, OK, INCOMPLETE
<1>7. at = 8 => file' = {}
  BY <1>2, TurnIs, PipelineIs
     DEF ReaderStart, ColStart, AveStart, WriterStart, IdleStart, Turn
<1>8. at = 9 => file' = file /\ product' = product
  BY <1>2, TurnIs, PipelineIs
     DEF ReaderStart, ColStart, AveStart, WriterStart, IdleStart, Turn, dataVars
<1>9. FileKeepsUp'
  BY <1>2, <1>7, <1>8 DEF FileInv, FileKeepsUp, TurnOver, Rows
<1>. QED
  BY <1>4, <1>6, <1>9 DEF FileInv

\* A module before the writer registers its rows.
LEMMA RegisterFile ==
  ASSUME KInv, FileInv, NEW m \in Module, m \notin {"WRITER", "MANIFEST"}, Turn("process", m),
         NEW last, NEW first, Register(m, last, first),
         \A s \in DOMAIN last : last[s] \in Int,
         \A s \in DOMAIN first : first[s] \in Int,
         UNCHANGED <<product, file>>
  PROVE  FileInv'
<1>1. phase = "process" /\ at \in 1..9 /\ at < 8
  BY Types, TurnIs, PipelineIs DEF Turn
<1>2. exitCode = Running
  BY <1>1 DEF FileInv, CodeAtTheEnd
<1>3. UNCHANGED grid
  BY RegisterEffect
<1>4. \/ phase' = "failed" /\ exitCode' = FAILURE
      \/ phase' = "process" /\ at' \in 1..8 /\ exitCode' = Running
  BY <1>1, <1>2, RegisterEffect, PipelineIs DEF ProcessNext
<1>5. FinalRowsReachTheFile'
  BY <1>3, <1>4 DEF FileInv, FinalRowsReachTheFile, HasSegment
<1>6. FileKeepsUp'
  BY <1>1, <1>4 DEF FileInv, FileKeepsUp, TurnOver, Rows
<1>7. CodeAtTheEnd' /\ ExitCodeIsTrue'
  BY <1>4 DEF CodeAtTheEnd, ExitCodeIsTrue, Running, OK, INCOMPLETE, FAILURE
<1>. QED
  BY <1>5, <1>6, <1>7 DEF FileInv

\* The modules before the writer leave the files alone.
LEMMA ProcessesFile ==
  ASSUME LongWindows, KInv, FileInv,
         \/ ReaderProcess \/ ColProcess \/ PclProcess \/ AveProcess \/ AerProcess \/ AeiProcess
         \/ AcoProcess
  PROVE  FileInv'
<1>1. UNCHANGED <<product, file>>
  BY DEF ReaderProcess, ColProcess, PclProcess, AveProcess, AerProcess, AeiProcess, AcoProcess,
         dataVars
<1>2. CASE ReaderProcess
  <2> DEFINE last == [s \in Unread |-> MaxInMemoryL(s)]
             first == << >>
  <2>1. /\ Turn("process", "READER") /\ phase = "process" /\ "READER" \in Module
        /\ Register("READER", last, first)
    BY <1>2, ModulesAre DEF ReaderProcess, Turn
  <2>2. \A s \in DOMAIN last : last[s] \in Int
    <3>1. Unread \subseteq Segment
      BY Types DEF Unread
    <3>. QED
      BY <2>1, <3>1, ProcessWindows
  <2>3. \A s \in DOMAIN first : first[s] \in Int
    OBVIOUS
  <2> HIDE DEF last, first
  <2>. QED
    BY <1>1, <2>1, <2>2, <2>3, RegisterFile
<1>3. CASE AcoProcess
  <2> DEFINE l == GetLastComputableL(T, "ACO")
             last == [s \in {T} |-> l]
             first == << >>
  <2>1. /\ Turn("process", "ACO") /\ phase = "process" /\ "ACO" \in Module
        /\ Register("ACO", last, first)
    BY <1>3, ModulesAre DEF AcoProcess, Turn
  <2>2. l \in Nat
    BY <2>1, Types, LastComputable, AllPresent
  <2> HIDE DEF l
  <2>3. \A s \in DOMAIN last : last[s] \in Int
    BY <2>2
  <2>4. \A s \in DOMAIN first : first[s] \in Int
    OBVIOUS
  <2> HIDE DEF last, first
  <2>. QED
    BY <1>1, <2>1, <2>3, <2>4, RegisterFile
<1>4. CASE ColProcess \/ PclProcess \/ AveProcess \/ AerProcess \/ AeiProcess
  <2>1. PICK m \in {"COL", "PCL", "AVE", "AER", "AEI"} : \E last, first :
             /\ Turn("process", m) /\ Register(m, last, first)
             /\ \A s \in DOMAIN last : last[s] \in Int
             /\ \A s \in DOMAIN first : first[s] \in Int
    BY <1>4, MiddleRegisters
  <2>2. PICK last, first :
             /\ Turn("process", m) /\ Register(m, last, first)
             /\ \A s \in DOMAIN last : last[s] \in Int
             /\ \A s \in DOMAIN first : first[s] \in Int
    BY <2>1
  <2>3. m \in Module /\ m \notin {"WRITER", "MANIFEST"}
    BY ModulesAre
  <2>. QED
    BY <1>1, <2>2, <2>3, RegisterFile
<1>. QED
  BY <1>2, <1>3, <1>4

\* The writer keeps the rows that have left memory and adds those that have
\* been corrected.
LEMMA WriterFile ==
  ASSUME LongWindows, KInv, FinalInv, FileInv, WriterProcess
  PROVE  FileInv'
<1> DEFINE last == [s \in WrittenSegments |-> MaxInMemoryL(s)]
           first == << >>
           inMemory == grid[T].minInMemoryL..MaxInMemoryL(T)
           e == lastComputedL[T]["ACO"]
<1>1. /\ Turn("process", "WRITER") /\ phase = "process" /\ "WRITER" \in Module
      /\ Register("WRITER", last, first)
      /\ file' = (file \ inMemory) \cup (inMemory \cap final["ACO"])
      /\ UNCHANGED product
  BY ModulesAre DEF WriterProcess, Turn
<1>2. \A s \in DOMAIN last : last[s] \in Int
  <2>1. WrittenSegments \subseteq Segment
    BY Types DEF WrittenSegments, SourceSegments
  <2>. QED
    BY <1>1, <2>1, ProcessWindows
<1>3. \A s \in DOMAIN first : first[s] \in Int
  OBVIOUS
<1>4. T \in Segment /\ T \in DOMAIN grid /\ "ACO" \in Module /\ "ACO" \in Stage
      /\ grid[T].minInMemoryL \in Nat /\ MaxInMemoryL(T) \in Nat /\ e \in Int
  BY <1>1, Types, ProcessWindows, ModulesAre DEF Stage
<1>5. e <= MaxInMemoryL(T)
  BY <1>4, WhatIInvSays DEF KInv
<1>6. 0..e \subseteq final["ACO"] /\ final["ACO"] \subseteq Rows(product)
  <2>1. 0..e \subseteq final["ACO"]
    BY <1>4 DEF FinalInv, RegisteredRowsAreFinal
  <2>2. product # NoProduct
    BY <1>1, AllPresent, ProductIs DEF NoProduct
  <2>3. final["ACO"] \subseteq Rows(product)
    BY <1>4, <2>2 DEF FinalInv, TypeOK, TaskTypeOK
  <2>. QED
    BY <2>1, <2>3
<1>7. 0..(grid[T].minInMemoryL - 1) \subseteq file /\ file \subseteq Rows(product) /\ exitCode = Running
  BY <1>1, <1>4 DEF FileInv, FileKeepsUp, FinalRowsReachTheFile, HasSegment, CodeAtTheEnd
<1> HIDE DEF last, first
<1>8. /\ UNCHANGED grid
      /\ \/ phase' = "failed" /\ exitCode' = FAILURE
         \/ phase' \in {"process", "move"} /\ exitCode' = Running /\ lastComputedL'[T]["ACO"] = e
  BY <1>1, <1>2, <1>3, <1>4, <1>7, RegisterEffect DEF ProcessNext
<1>9. 0..(grid[T].minInMemoryL - 1) \subseteq file' /\ file' \subseteq Rows(product)
  BY <1>1, <1>4, <1>6, <1>7
<1>10. 0..e \subseteq file'
  <2>1. ASSUME NEW l \in 0..e PROVE l \in file'
    <3>1. CASE l < grid[T].minInMemoryL
      BY <1>4, <1>9, <3>1
    <3>2. CASE l >= grid[T].minInMemoryL
      BY <1>1, <1>4, <1>5, <1>6, <3>2
    <3>. QED
      BY <1>4, <3>1, <3>2
  <2>. QED
    BY <2>1
<1>11. FinalRowsReachTheFile'
  BY <1>8, <1>9 DEF FinalRowsReachTheFile, HasSegment
<1>12. FileKeepsUp'
  BY <1>1, <1>8, <1>9, <1>10 DEF FileKeepsUp, TurnOver, Rows
<1>13. CodeAtTheEnd' /\ ExitCodeIsTrue'
  BY <1>8 DEF CodeAtTheEnd, ExitCodeIsTrue, Running, OK, INCOMPLETE, FAILURE
<1>. QED
  BY <1>11, <1>12, <1>13 DEF FileInv

\* The manifest writer ends the pass and changes no file.
LEMMA ManifestFile ==
  ASSUME KInv, FileInv, IdleProcess("MANIFEST")
  PROVE  FileInv'
<1>1. /\ phase = "process" /\ at = 9 /\ phase' = "move"
      /\ UNCHANGED <<grid, lastComputedL, firstRequiredL, exitCode, product, file>>
  BY Types, TurnIs, PipelineIs DEF IdleProcess, Turn, ProcessNext, contextVars, dataVars
<1>. QED
  BY <1>1
     DEF FileInv, FileKeepsUp, FinalRowsReachTheFile, HasSegment, CodeAtTheEnd, ExitCodeIsTrue,
         TurnOver, Rows

\* A row leaves memory when it has been corrected, and hence written; when all
\* have been, the modules are stopped.
LEMMA MoveFile ==
  ASSUME LongWindows, KInv, KInv', FileInv, MoveSegmentsForward, UNCHANGED dataVars
  PROVE  FileInv'
<1> DEFINE e == lastComputedL[T]["ACO"]
<1>1. /\ phase = "move"
      /\ phase' = "stop" \/ (phase' = "process" /\ at' = 1)
      /\ DOMAIN grid' = DOMAIN grid
      /\ \A s \in DOMAIN grid : grid'[s] = MovedGrid(s)
      /\ UNCHANGED <<lastComputedL, exitCode, product, file>>
  BY DEF MoveSegmentsForward, dataVars
<1>2. /\ T \in Segment /\ T \in DOMAIN grid /\ ContextTypeOK /\ "ACO" \in Module
      /\ grid[T].minInMemoryL \in Nat /\ MaxInMemoryL(T) \in Nat /\ e \in Int
      /\ T \in Syl2Works["ACO"]
      /\ grid[T].maxL = product.rows["OLC"] - 1
  BY <1>1, Types, ProcessWindows, ModulesAre, WorksAre
<1>3. 0..e \subseteq file /\ 0..(grid[T].minInMemoryL - 1) \subseteq file /\ file \subseteq Rows(product)
      /\ exitCode = Running
  BY <1>1, <1>2
     DEF FileInv, FileKeepsUp, FinalRowsReachTheFile, HasSegment, CodeAtTheEnd, TurnOver
<1>4. e # None
  <2>1. Sch!IsRegistered("ACO")
    BY <1>1, <1>2, WhatIInvSays DEF KInv
  <2>. QED
    BY <1>2, <2>1, WhatRegisteredSays DEF None
<1>5. MovedGrid(T).minInMemoryL \in {grid[T].minInMemoryL, ForwardL(T)} /\ ForwardL(T) \in Int
      /\ ForwardL(T) <= e + 1
  BY <1>2, <1>4, MovedWindow, ForwardRows
<1>6. 0..(grid'[T].minInMemoryL - 1) \subseteq file
  <2>1. CASE grid'[T].minInMemoryL = grid[T].minInMemoryL
    BY <1>3, <2>1
  <2>2. CASE grid'[T].minInMemoryL = ForwardL(T)
    <3>1. 0..(ForwardL(T) - 1) \subseteq 0..e
      BY <1>2, <1>5
    <3>. QED
      BY <1>3, <2>2, <3>1
  <2>. QED
    BY <1>1, <1>2, <1>5, <2>1, <2>2
<1>7. phase' = "stop" => file = Rows(product)
  <2>1. SUFFICES ASSUME phase' = "stop" PROVE e = grid[T].maxL
    BY <1>2, <1>3 DEF Rows
  <2>2. Sch!IInv'
    BY DEF KInv
  <2>3. lastComputedL'[T]["ACO"] = grid'[T].maxL
    <3>1. (\A m \in Module : \A s \in Syl2Works[m] \cap DOMAIN grid :
             phase = "stop" => lastComputedL[s][m] = grid[s].maxL)'
      BY <2>2, StoppedWhenComputed, PTL
    <3>. QED
      BY <1>1, <1>2, <2>1, <3>1
  <2>. QED
    BY <1>1, <1>2, <2>3, MovedWindow
<1>8. FinalRowsReachTheFile'
  BY <1>1, <1>6, <1>7 DEF FinalRowsReachTheFile, HasSegment, Rows
<1>9. FileKeepsUp' /\ CodeAtTheEnd' /\ ExitCodeIsTrue'
  BY <1>1, <1>3
     DEF FileKeepsUp, TurnOver, Rows, CodeAtTheEnd, ExitCodeIsTrue, Running, OK, INCOMPLETE
<1>. QED
  BY <1>8, <1>9 DEF FileInv

\* Stopping modules leaves the contents of the files alone.
LEMMA StopsFile ==
  ASSUME KInv, FileInv,
         \/ ManifestStop \/ WriterStop("WRITER") \/ AveStop \/ ColStop \/ ReaderStop
         \/ \E m \in {"ACO", "AEI", "AER", "PCL"} : IdleStop(m)
  PROVE  FileInv'
<1>1. PICK m \in Module :
        /\ Turn("stop", m) /\ StopNext /\ RemoveSegments(Syl2Adds[m])
        /\ UNCHANGED <<segmentLineCount, product, file>>
  BY StopsAre
<1>2. /\ DOMAIN grid' = DOMAIN grid \ Syl2Adds[m]
      /\ \A s \in DOMAIN grid' : grid'[s] = grid[s]
  BY <1>1, StopStep
<1>3. /\ phase = "stop" /\ at \in 1..9
      /\ \/ phase' = "stop" /\ exitCode' = exitCode
         \/ phase' = "start" /\ at' = 1 /\ exitCode' = exitCode
         \/ phase' = "done"
  BY <1>1, Types DEF Turn, StopNext
<1>4. file = Rows(product) /\ file' = Rows(product')
  BY <1>1, <1>3 DEF FileInv, FinalRowsReachTheFile, Rows
<1>5. FinalRowsReachTheFile'
  BY <1>1, <1>2, <1>4 DEF FileInv, FinalRowsReachTheFile, HasSegment, Rows
<1>6. FileKeepsUp' /\ ExitCodeIsTrue'
  BY <1>3, <1>4 DEF FileKeepsUp, TurnOver, ExitCodeIsTrue, Rows
<1>7. CodeAtTheEnd'
  BY <1>3 DEF FileInv, CodeAtTheEnd
<1>. QED
  BY <1>5, <1>6, <1>7 DEF FileInv

\* A failure leaves the files as they are.
LEMMA FailureFile ==
  ASSUME FileInv, RuntimeError \/ IOError
  PROVE  FileInv'
<1>1. /\ phase \in {"start", "process", "stop"} /\ phase' = "failed"
      /\ exitCode' \in {ExitCodeOf(phase), FAILURE}
      /\ UNCHANGED <<grid, product, file>>
  BY DEF RuntimeError, IOError, IsFaulty, ColIsFaulty, Turn, Throw, contextVars, dataVars
<1>2. exitCode' = INCOMPLETE => phase = "stop"
  BY <1>1 DEF ExitCodeOf, FAILURE, INCOMPLETE
<1>3. exitCode' # OK
  BY <1>1 DEF ExitCodeOf, FAILURE, INCOMPLETE, OK
<1>. QED
  BY <1>1, <1>2, <1>3
     DEF FileInv, FileKeepsUp, FinalRowsReachTheFile, HasSegment, CodeAtTheEnd, ExitCodeIsTrue,
         TurnOver, Rows

\* Every step keeps what is said of the files.
LEMMA StepFile ==
  ASSUME LongWindows, KInv, KInv', FinalInv, FileInv, [Next]_vars
  PROVE  FileInv'
<1>1. CASE \/ ReaderStart \/ ColStart \/ AveStart \/ WriterStart("WRITER")
           \/ \E m \in {"PCL", "AER", "AEI", "ACO", "MANIFEST"} : IdleStart(m)
  BY <1>1, StartsFile
<1>2. CASE \/ ReaderProcess \/ ColProcess \/ PclProcess \/ AveProcess \/ AerProcess \/ AeiProcess
           \/ AcoProcess
  BY <1>2, ProcessesFile
<1>3. CASE WriterProcess \/ IdleProcess("MANIFEST")
  BY <1>3, WriterFile, ManifestFile
<1>4. CASE MoveSegmentsForward /\ UNCHANGED dataVars
  BY <1>4, MoveFile
<1>5. CASE \/ ManifestStop \/ WriterStop("WRITER") \/ AveStop \/ ColStop \/ ReaderStop
           \/ \E m \in {"ACO", "AEI", "AER", "PCL"} : IdleStop(m)
  BY <1>5, StopsFile
<1>6. CASE RuntimeError \/ IOError
  BY <1>6, FailureFile
<1>7. CASE (Exited /\ UNCHANGED dataVars) \/ UNCHANGED vars
  <2>1. UNCHANGED <<grid, lastComputedL, phase, at, exitCode, product, file>>
    BY <1>7 DEF Exited, vars, contextVars, controlVars, dataVars
  <2>. QED
    BY <2>1
       DEF FileInv, FileKeepsUp, FinalRowsReachTheFile, HasSegment, CodeAtTheEnd, ExitCodeIsTrue,
           TurnOver, Rows
<1>. QED
  BY <1>1, <1>2, <1>3, <1>4, <1>5, <1>6, <1>7 DEF Next

\* The invariant behind the contents of the files is one of the task.
LEMMA InductiveFile == LongWindows => (Spec => [](KInv /\ FinalInv /\ FileInv))
<1> SUFFICES ASSUME LongWindows PROVE Spec => [](KInv /\ FinalInv /\ FileInv)
  OBVIOUS
<1>1. Init => FileInv
  BY DEF Init, TaskInit, ProcessorInit, ContextInit, FileInv, FileKeepsUp, FinalRowsReachTheFile,
         HasSegment, CodeAtTheEnd, ExitCodeIsTrue, TurnOver, Running, OK, INCOMPLETE
<1>2. KInv /\ KInv' /\ FinalInv /\ FileInv /\ [Next]_vars => FileInv'
  BY StepFile
<1>. QED
  BY <1>1, <1>2, InductiveFinal, PTL DEF Spec

\* A row that has left memory has reached the target files in its final form,
\* and the whole product has when the modules are stopped.
THEOREM RowsReachTheFile == LongWindows => (Spec => []FinalRowsReachTheFile)
<1>1. KInv /\ FinalInv /\ FileInv => FinalRowsReachTheFile
  BY DEF FileInv
<1>. QED
  BY <1>1, InductiveFile, PTL

\* The exit codes of success and of incomplete processing are returned only
\* when the target files hold every row of the last source product.
THEOREM ExitCodesAreTrue == LongWindows => (Spec => []ExitCodeIsTrue)
<1>1. KInv /\ FinalInv /\ FileInv => ExitCodeIsTrue
  BY DEF FileInv
<1>. QED
  BY <1>1, InductiveFile, PTL

-----------------------------------------------------------------------------
(* No row is read that has left memory. *)

\* The rows of the lines that have not been collocated have not left memory.
RowsAhead ==
  Busy => \A s \in ColSources : \A l \in Rows(product) : \A r \in product.sources[s][l] :
            l > lastComputedL[T]["COL"] => grid[s].minInMemoryL <= r

\* The collocation requires these rows, after its turn and as long as there are
\* lines left.
RowsAreRequired ==
  TurnOver(2) /\ lastComputedL[T]["COL"] < grid[T].maxL =>
    \A s \in ColSources :
      /\ firstRequiredL[s]["COL"] > 0
      /\ \A l \in Rows(product) : \A r \in product.sources[s][l] :
           l > lastComputedL[T]["COL"] => firstRequiredL[s]["COL"] <= r

\* The misregistration is kept with the rows of OLC that it is for.
MisFollows ==
  Busy /\ grid["OLC_MIS"].sizeL > 1 =>
    /\ grid["OLC_MIS"] = grid["OLC"]
    /\ \A m \in Module : /\ lastComputedL["OLC_MIS"][m] = lastComputedL["OLC"][m]
                         /\ firstRequiredL["OLC_MIS"][m] = firstRequiredL["OLC"][m]

\* A product with one averaged line is not processed any further than to the
\* interpolation, and one with a single line of OLCI is such a product.
NoSecondPass ==
  Busy =>
    /\ lastComputedL[T]["AEI"] # None => grid[Avg].maxL > 0
    /\ lastComputedL[T]["COL"] = 0 => TurnOver(2)

\* The whole window is collocated, but not the whole product.
AllCollocated ==
  lastComputedL[T]["COL"] = MaxInMemoryL(T) /\ MaxInMemoryL(T) < grid[T].maxL

\* The modules get so far then that the window moves: the collocation is never
\* without a line to compute, when it would require no rows.
WindowMoves ==
  Busy /\ AllCollocated =>
    /\ TurnOver(2)
    /\ firstRequiredL[T]["COL"] > grid[T].minInMemoryL
    /\ TurnOver(3) => lastComputedL[T]["PCL"] = MaxInMemoryL(T)
    /\ TurnOver(4) => lastComputedL[Avg]["AVE"] >=
                        grid[T].minInMemoryL \div AveragingFactor + FillDistance + 1
    /\ TurnOver(5) => lastComputedL[Avg]["AER"] >= grid[T].minInMemoryL \div AveragingFactor + 1
    /\ TurnOver(6) => lastComputedL[T]["AEI"] >= grid[T].minInMemoryL

RowInv == RowsAhead /\ RowsAreRequired /\ MisFollows /\ NoSecondPass /\ WindowMoves

\* Outside of a pass nothing is claimed.
LEMMA NoPass ==
  ASSUME phase' \notin {"process", "move"}
  PROVE  RowInv'
BY DEF RowInv, RowsAhead, RowsAreRequired, MisFollows, NoSecondPass, WindowMoves, Busy, TurnOver

\* The collocation of the source product.
LEMMA CollocationIs ==
  ASSUME OrderedCollocation, LongWindows, KInv, phase \in {"process", "move"}
  PROVE  /\ product \in Products /\ ColSources = {"OLC", "SLN", "SLO"}
         /\ "OLC" \in Segment /\ "OLC_MIS" \in Segment /\ T \in Segment /\ Avg \in Segment
         /\ ColSources \subseteq Segment
         /\ Rows(product) = 0..grid[T].maxL
         /\ \A s \in ColSources : \A l \in Rows(product) : product.sources[s][l] \subseteq Nat
         /\ \A s \in ColSources : \A l \in Rows(product) : l + 1 >= NeededRows =>
              /\ 0 \notin product.sources[s][l]
              /\ \A j \in Rows(product) : \A r \in product.sources[s][j] :
                   l < j => \E q \in product.sources[s][l] : q <= r
         /\ \A l \in Rows(product) : \A r \in product.sources["OLC"][l] : l - r < segmentLineCount - 1
         /\ product.rows["OLC_MIS"] \in {1, product.rows["OLC"]}
<1>1. product \in Products /\ grid[T].maxL = product.rows["OLC"] - 1
  BY ProcessWindows
<1>2. segmentLineCount \in LineCounts
  BY DEF KInv
<1>3. Collocates(product, segmentLineCount, NeededRows)
  BY <1>1, <1>2 DEF OrderedCollocation
<1>4. \A s \in ColSources : \A l \in Rows(product) : product.sources[s][l] \subseteq Nat
  <2>1. \A s \in ColSources : \A l \in Rows(product) :
          product.sources[s][l] \subseteq 0..(product.rows[s] - 1)
    BY <1>1, ProductIs DEF Rows
  <2>. QED
    BY <2>1
<1>5. /\ ColSources = {"OLC", "SLN", "SLO"} /\ ColSources \subseteq SourceSegments
      /\ "OLC_MIS" \in SourceSegments
      /\ Segment = SourceSegments \cup {T, Avg}
  BY Types DEF ColSources, SourceSegments
<1>6. Rows(product) = 0..grid[T].maxL
  BY <1>1 DEF Rows
<1>7. /\ \A s \in ColSources : \A l \in Rows(product) : l + 1 >= NeededRows =>
           /\ 0 \notin product.sources[s][l]
           /\ \A j \in Rows(product) : \A r \in product.sources[s][j] :
                l < j => \E q \in product.sources[s][l] : q <= r
      /\ \A l \in Rows(product) : \A r \in product.sources["OLC"][l] : l - r < segmentLineCount - 1
      /\ product.rows["OLC_MIS"] \in {1, product.rows["OLC"]}
  BY <1>3 DEF Collocates
<1>. QED
  BY <1>1, <1>4, <1>5, <1>6, <1>7

\* Segments of the same size that begin with the same row have the same window.
LEMMA SameWindow ==
  ASSUME NEW g \in Grid, NEW h \in Grid, g.sizeL = h.sizeL, g.maxL = h.maxL,
         g.minInMemoryL = h.minInMemoryL
  PROVE  g = h
BY DEF Grid

\* Nothing has been computed when the first pass begins.
LEMMA FirstPass ==
  ASSUME OrderedCollocation, KInv',
         \A s \in DOMAIN grid' : grid'[s].minInMemoryL = 0,
         \A s \in Segment : lastComputedL'[s] = NoEntries /\ firstRequiredL'[s] = NoEntries,
         phase' = "process", at' = 1
  PROVE  RowInv'
<1>1. ProcessorTypeOK'
  BY StateType, PTL
<1>2. /\ DOMAIN grid' \subseteq Segment /\ grid' \in [DOMAIN grid' -> Grid]
      /\ Segment = SourceSegments \cup {T, Avg}
      /\ segmentLineCount' \in LineCounts
  BY <1>1, TaskIsSyl2 DEF ProcessorTypeOK, ContextTypeOK, KInv, Syl2Segment
<1>3. /\ \A s \in SourceSegments : s \in DOMAIN grid'
      /\ T \in DOMAIN grid'
  BY DEF KInv, Present, IsStarted
<1>4. /\ product' \in Products
      /\ \A s \in SourceSegments :
           /\ grid'[s].sizeL = IF s = "GEO" THEN product'.rows[s]
                               ELSE Smaller(product'.rows[s], segmentLineCount')
           /\ grid'[s].maxL = product'.rows[s] - 1
  BY <1>3 DEF KInv, ShapesFit, GetSegmentSize, SourceSegments
<1>5. /\ "OLC" \in SourceSegments /\ "OLC_MIS" \in SourceSegments /\ ColSources \subseteq SourceSegments
      /\ \A m \in Module : \A s \in SourceSegments \cup {T, Avg} :
           lastComputedL'[s][m] = None /\ firstRequiredL'[s][m] = None
      /\ "COL" \in Module /\ "AEI" \in Module
  BY <1>2, ModulesAre DEF SourceSegments, ColSources, NoEntries
<1>6. ~TurnOver(2)' /\ ~TurnOver(6)'
  BY DEF TurnOver
<1>7. RowsAhead'
  <2>1. ASSUME NEW s \in ColSources, NEW l \in Rows(product)', NEW r \in product'.sources[s][l]
        PROVE  0 <= r
    <3>1. l \in 0..(product'.rows["OLC"] - 1)
      BY DEF Rows
    <3>2. r \in 0..(product'.rows[s] - 1)
      BY <1>4, <3>1, ProductIs
    <3>. QED
      BY <3>2
  <2>2. \A s \in ColSources : grid'[s].minInMemoryL = 0
    BY <1>3, <1>5
  <2>. QED
    BY <2>1, <2>2 DEF RowsAhead
<1>8. MisFollows'
  <2>1. product'.rows["OLC_MIS"] \in {1, product'.rows["OLC"]}
    BY <1>2, <1>4 DEF OrderedCollocation, Collocates
  <2>2. segmentLineCount' \in Nat \ {0} /\ product'.rows["OLC_MIS"] \in Nat
    BY <1>2, <1>4, <1>5, ProductIs, TaskAssumption
  <2>3. grid'["OLC_MIS"].sizeL > 1 => product'.rows["OLC_MIS"] = product'.rows["OLC"]
    BY <1>4, <1>5, <2>1, <2>2 DEF Smaller
  <2>4. grid'["OLC_MIS"].sizeL > 1 =>
          /\ grid'["OLC_MIS"].sizeL = grid'["OLC"].sizeL
          /\ grid'["OLC_MIS"].maxL = grid'["OLC"].maxL
          /\ grid'["OLC_MIS"].minInMemoryL = grid'["OLC"].minInMemoryL
    BY <1>3, <1>4, <1>5, <2>3
  <2>5. grid'["OLC_MIS"] \in Grid /\ grid'["OLC"] \in Grid
    BY <1>2, <1>3, <1>5
  <2>. QED
    BY <1>5, <2>4, <2>5, SameWindow DEF MisFollows
<1>9. NoSecondPass'
  BY <1>5, <1>6 DEF NoSecondPass, None
<1>10. WindowMoves'
  <2>1. grid'[T] \in Grid
    BY <1>2, <1>3
  <2>2. MaxInMemoryL(T)' \in Nat
    BY <2>1 DEF Grid, MaxInMemoryL
  <2>3. lastComputedL'[T]["COL"] = None
    BY <1>5
  <2>. QED
    BY <2>2, <2>3 DEF WindowMoves, AllCollocated, None
<1>. QED
  BY <1>6, <1>7, <1>8, <1>9, <1>10 DEF RowInv, RowsAreRequired

\* The modules are started.
LEMMA StartsRows ==
  ASSUME OrderedCollocation, KInv, KInv', FinalInv,
         \/ ReaderStart \/ ColStart \/ AveStart \/ WriterStart("WRITER")
         \/ \E m \in {"PCL", "AER", "AEI", "ACO", "MANIFEST"} : IdleStart(m)
  PROVE  RowInv'
<1>1. PICK m \in Module : Sch!Start(m)
  BY StartsStep
<1>2. /\ phase = "start" /\ at \in 1..9
      /\ phase' = "start" \/ (phase' = "process" /\ at' = 1)
      /\ DOMAIN grid' = DOMAIN grid \cup Syl2Adds[m]
      /\ \A s \in DOMAIN grid : grid'[s] = grid[s]
      /\ \A s \in Syl2Adds[m] : grid'[s].minInMemoryL = 0
      /\ UNCHANGED <<lastComputedL, firstRequiredL>>
  BY <1>1, Types DEF Sch!Start, Sch!Turn, Sch!StartNext
<1>3. \A s \in DOMAIN grid' : grid'[s].minInMemoryL = 0
  BY <1>2 DEF FinalInv, Fresh
<1>4. \A s \in Segment : lastComputedL'[s] = NoEntries /\ firstRequiredL'[s] = NoEntries
  BY <1>2, WhatIInvSays DEF KInv, FinalInv, Fresh
<1>. QED
  BY <1>2, <1>3, <1>4, FirstPass, NoPass

\* The windows while modules process.
LEMMA Windows ==
  ASSUME LongWindows, KInv, phase \in {"process", "move"}
  PROVE  /\ \A s \in Segment : \A m \in Module :
              /\ lastComputedL[s][m] \in Int /\ lastComputedL[s][m] >= -1
              /\ lastComputedL[s][m] <= MaxInMemoryL(s)
              /\ firstRequiredL[s][m] \in Int
         /\ \A s \in Segment :
              /\ s \in DOMAIN grid /\ grid[s] \in Grid
              /\ grid[s].minInMemoryL \in Nat /\ grid[s].sizeL \in Nat \ {0} /\ grid[s].maxL \in Nat
              /\ MaxInMemoryL(s) = grid[s].minInMemoryL + grid[s].sizeL - 1
              /\ MaxInMemoryL(s) \in Nat
              /\ MaxInMemoryL(s) <= grid[s].maxL
         /\ ContextTypeOK /\ at \in 1..9
         /\ {"READER", "COL", "PCL", "AVE", "AER", "AEI", "ACO", "WRITER", "MANIFEST"} = Module
         /\ {"OLC", "OLC_MIS", "SLN", "SLO", T, Avg} \subseteq Segment
         /\ AveragingFactor \in Nat \ {0} /\ FillDistance \in Nat
         /\ T # Avg /\ T \notin SourceSegments /\ Avg \notin SourceSegments
<1>1. \A e \in Entry : e >= -1 /\ e \in Int
  BY DEF Entry, None
<1>2. \A s \in Segment : s \in DOMAIN grid /\ grid[s] \in Grid
  BY AllPresent, Types DEF ContextTypeOK
<1>3. \A s \in Segment : \A m \in Module : lastComputedL[s][m] <= MaxInMemoryL(s)
  BY <1>2, WhatIInvSays DEF KInv
<1>4. {"OLC", "OLC_MIS", "SLN", "SLO", T, Avg} \subseteq Segment
      /\ T # Avg /\ T \notin SourceSegments /\ Avg \notin SourceSegments
  BY Types DEF SourceSegments, T, Avg
<1>. QED
  BY <1>1, <1>2, <1>3, <1>4, Types, ProcessWindows, ModulesAre

\* What a module may register without disturbing the invariant.
LEMMA RowsRegister ==
  ASSUME LongWindows, KInv, RowInv, NEW m \in Module, Turn("process", m), UNCHANGED product,
         NEW last, NEW first, Register(m, last, first),
         \A s \in DOMAIN last : last[s] \in Int,
         \A s \in DOMAIN first : first[s] \in Int,
         grid["OLC_MIS"].sizeL > 1 =>
           /\ "OLC_MIS" \in DOMAIN last <=> "OLC" \in DOMAIN last
           /\ "OLC" \in DOMAIN last => last["OLC_MIS"] = last["OLC"]
           /\ "OLC_MIS" \in DOMAIN first <=> "OLC" \in DOMAIN first
           /\ "OLC" \in DOMAIN first => first["OLC_MIS"] = first["OLC"],
         m = "COL" =>
           /\ T \in DOMAIN last /\ last[T] >= lastComputedL[T]["COL"] /\ last[T] >= 0
           /\ last[T] < grid[T].maxL =>
                \A s \in ColSources :
                  /\ s \in DOMAIN first /\ first[s] > 0
                  /\ \A l \in Rows(product) : \A r \in product.sources[s][l] :
                       l > last[T] => first[s] <= r
           /\ last[T] = MaxInMemoryL(T) /\ MaxInMemoryL(T) < grid[T].maxL =>
                T \in DOMAIN first /\ first[T] > grid[T].minInMemoryL,
         m = "PCL" /\ AllCollocated => T \in DOMAIN last /\ last[T] = MaxInMemoryL(T),
         m = "AVE" /\ AllCollocated =>
           Avg \in DOMAIN last /\ last[Avg] >= grid[T].minInMemoryL \div AveragingFactor + FillDistance + 1,
         m = "AER" /\ AllCollocated =>
           Avg \in DOMAIN last /\ last[Avg] >= grid[T].minInMemoryL \div AveragingFactor + 1,
         m = "AEI" => grid[Avg].maxL > 0,
         m = "AEI" /\ AllCollocated => T \in DOMAIN last /\ last[T] >= grid[T].minInMemoryL
  PROVE  RowInv'
<1>1. /\ phase = "process" /\ Pipeline[at] = m /\ at \in 1..9 /\ Busy
      /\ at = 2 <=> m = "COL"
      /\ at = 3 <=> m = "PCL"
      /\ at = 4 <=> m = "AVE"
      /\ at = 5 <=> m = "AER"
      /\ at = 6 <=> m = "AEI"
  BY Types, TurnIs, PipelineIs DEF Turn, Busy
<1>2. CASE phase' = "failed"
  BY <1>2, NoPass
<1>3. CASE /\ UNCHANGED grid
           /\ ProcessNext
           /\ \A s \in Segment : \A p \in Module :
                /\ lastComputedL'[s][p] =
                     IF p = m /\ s \in DOMAIN last THEN EntryOf(last[s]) ELSE lastComputedL[s][p]
                /\ firstRequiredL'[s][p] =
                     IF p = m /\ s \in DOMAIN first THEN EntryOf(first[s]) ELSE firstRequiredL[s][p]
  <2>1. \A i \in 1..8 : TurnOver(i)' <=> (TurnOver(i) \/ at = i)
    BY <1>1, <1>3, PipelineIs DEF TurnOver, ProcessNext
  <2>2. /\ Rows(product)' = Rows(product) /\ product' = product
        /\ MaxInMemoryL(T)' = MaxInMemoryL(T) /\ Busy'
    BY <1>1, <1>3 DEF Rows, MaxInMemoryL, Busy, ProcessNext
  <2>3. /\ ColSources \subseteq Segment /\ {"OLC", "OLC_MIS", T, Avg} \subseteq Segment
        /\ {"COL", "PCL", "AVE", "AER", "AEI"} \subseteq Module
        /\ grid[T].minInMemoryL \in Nat /\ MaxInMemoryL(T) \in Nat /\ grid[T].maxL \in Nat
        /\ lastComputedL[T]["COL"] \in Int
        /\ AveragingFactor \in Nat \ {0} /\ FillDistance \in Nat
    BY <1>1, Windows DEF ColSources
  <2>4. m # "COL" => lastComputedL'[T]["COL"] = lastComputedL[T]["COL"]
    BY <1>3, <2>3
  <2>5. m = "COL" => lastComputedL'[T]["COL"] = last[T]
    BY <1>3, <2>3 DEF EntryOf
  <2>6. RowsAhead'
    <3>1. ASSUME NEW s \in ColSources, NEW l \in Rows(product), NEW r \in product.sources[s][l],
                 l > lastComputedL'[T]["COL"]
          PROVE  grid[s].minInMemoryL <= r
      <4>1. l \in Int
        BY DEF Rows
      <4>2. l > lastComputedL[T]["COL"]
        BY <2>3, <2>4, <2>5, <3>1, <4>1
      <4>. QED
        BY <1>1, <4>2 DEF RowInv, RowsAhead
    <3>. QED
      BY <1>3, <2>2, <3>1 DEF RowsAhead
  <2>7. RowsAreRequired'
    <3>1. CASE m = "COL"
      <4>1. ASSUME last[T] < grid[T].maxL, NEW s \in ColSources
            PROVE  firstRequiredL'[s]["COL"] = first[s]
        BY <1>3, <2>3, <3>1, <4>1 DEF EntryOf
      <4>. QED
        BY <1>3, <2>2, <2>5, <3>1, <4>1 DEF RowsAreRequired
    <3>2. CASE m # "COL"
      <4>1. \A s \in ColSources : firstRequiredL'[s]["COL"] = firstRequiredL[s]["COL"]
        BY <1>3, <2>3, <3>2
      <4>2. TurnOver(2)' <=> TurnOver(2)
        BY <1>1, <2>1, <3>2
      <4>. QED
        BY <1>3, <2>2, <2>4, <3>2, <4>1, <4>2 DEF RowInv, RowsAreRequired
    <3>. QED
      BY <3>1, <3>2
  <2>8. MisFollows'
    <3>1. ASSUME grid["OLC_MIS"].sizeL > 1, NEW p \in Module
          PROVE  /\ lastComputedL'["OLC_MIS"][p] = lastComputedL'["OLC"][p]
                 /\ firstRequiredL'["OLC_MIS"][p] = firstRequiredL'["OLC"][p]
      <4>1. /\ lastComputedL["OLC_MIS"][p] = lastComputedL["OLC"][p]
            /\ firstRequiredL["OLC_MIS"][p] = firstRequiredL["OLC"][p]
        BY <1>1, <3>1 DEF RowInv, MisFollows
      <4>. QED
        BY <1>3, <2>3, <3>1, <4>1
    <3>. QED
      BY <1>1, <1>3, <3>1 DEF RowInv, MisFollows
  <2>9. NoSecondPass'
    <3>1. lastComputedL'[T]["AEI"] # None => grid'[Avg].maxL > 0
      <4>1. m # "AEI" => lastComputedL'[T]["AEI"] = lastComputedL[T]["AEI"]
        BY <1>3, <2>3
      <4>. QED
        BY <1>1, <1>3, <4>1 DEF RowInv, NoSecondPass
    <3>2. lastComputedL'[T]["COL"] = 0 => TurnOver(2)'
      BY <1>1, <2>1, <2>4 DEF RowInv, NoSecondPass
    <3>. QED
      BY <3>1, <3>2 DEF NoSecondPass
  <2>10. ASSUME AllCollocated'
         PROVE  /\ TurnOver(2)'
                /\ firstRequiredL'[T]["COL"] > grid[T].minInMemoryL
                /\ TurnOver(3)' => lastComputedL'[T]["PCL"] = MaxInMemoryL(T)
                /\ TurnOver(4)' => lastComputedL'[Avg]["AVE"] >=
                     grid[T].minInMemoryL \div AveragingFactor + FillDistance + 1
                /\ TurnOver(5)' => lastComputedL'[Avg]["AER"] >=
                     grid[T].minInMemoryL \div AveragingFactor + 1
                /\ TurnOver(6)' => lastComputedL'[T]["AEI"] >= grid[T].minInMemoryL
    <3> DEFINE line == grid[T].minInMemoryL \div AveragingFactor
    <3>1. lastComputedL'[T]["COL"] = MaxInMemoryL(T) /\ MaxInMemoryL(T) < grid[T].maxL
      BY <1>3, <2>2, <2>10 DEF AllCollocated
    <3>2. line \in Nat
      BY <2>3, Division
    <3>3. CASE m = "COL"
      <4>1. first[T] > grid[T].minInMemoryL /\ T \in DOMAIN first
        BY <2>5, <3>1, <3>3
      <4>2. firstRequiredL'[T]["COL"] = first[T]
        BY <1>3, <2>3, <3>3, <4>1 DEF EntryOf
      <4>3. TurnOver(2)' /\ \A i \in {3, 4, 5, 6} : ~TurnOver(i)'
        BY <1>1, <1>3, <2>1, <3>3 DEF TurnOver
      <4>. QED
        BY <4>1, <4>2, <4>3
    <3>4. CASE m # "COL"
      <4>1. AllCollocated
        BY <2>4, <3>1, <3>4 DEF AllCollocated
      <4>2. /\ TurnOver(2)
            /\ firstRequiredL[T]["COL"] > grid[T].minInMemoryL
            /\ TurnOver(3) => lastComputedL[T]["PCL"] = MaxInMemoryL(T)
            /\ TurnOver(4) => lastComputedL[Avg]["AVE"] >= line + FillDistance + 1
            /\ TurnOver(5) => lastComputedL[Avg]["AER"] >= line + 1
            /\ TurnOver(6) => lastComputedL[T]["AEI"] >= grid[T].minInMemoryL
        BY <1>1, <4>1 DEF RowInv, WindowMoves
      <4> HIDE DEF line
      <4>3. firstRequiredL'[T]["COL"] = firstRequiredL[T]["COL"] /\ TurnOver(2)'
        BY <1>3, <2>1, <2>3, <3>4, <4>2
      <4>4. TurnOver(3)' => lastComputedL'[T]["PCL"] = MaxInMemoryL(T)
        BY <1>1, <1>3, <2>1, <2>3, <4>1, <4>2 DEF EntryOf
      <4>5. TurnOver(4)' => lastComputedL'[Avg]["AVE"] >= line + FillDistance + 1
        <5>1. CASE m = "AVE"
          <6>1. Avg \in DOMAIN last /\ last[Avg] >= line + FillDistance + 1 /\ last[Avg] \in Int
            BY <4>1, <5>1 DEF line
          <6>2. lastComputedL'[Avg]["AVE"] = last[Avg]
            BY <1>3, <2>3, <3>2, <5>1, <6>1 DEF EntryOf
          <6>. QED
            BY <6>1, <6>2
        <5>2. CASE m # "AVE"
          BY <1>1, <1>3, <2>1, <2>3, <4>2, <5>2
        <5>. QED
          BY <5>1, <5>2
      <4>6. TurnOver(5)' => lastComputedL'[Avg]["AER"] >= line + 1
        <5>1. CASE m = "AER"
          <6>1. Avg \in DOMAIN last /\ last[Avg] >= line + 1 /\ last[Avg] \in Int
            BY <4>1, <5>1 DEF line
          <6>2. lastComputedL'[Avg]["AER"] = last[Avg]
            BY <1>3, <2>3, <3>2, <5>1, <6>1 DEF EntryOf
          <6>. QED
            BY <6>1, <6>2
        <5>2. CASE m # "AER"
          BY <1>1, <1>3, <2>1, <2>3, <4>2, <5>2
        <5>. QED
          BY <5>1, <5>2
      <4>7. TurnOver(6)' => lastComputedL'[T]["AEI"] >= grid[T].minInMemoryL
        <5>1. CASE m = "AEI"
          <6>1. T \in DOMAIN last /\ last[T] >= grid[T].minInMemoryL /\ last[T] \in Int
            BY <4>1, <5>1
          <6>2. lastComputedL'[T]["AEI"] = last[T]
            BY <1>3, <2>3, <5>1, <6>1 DEF EntryOf
          <6>. QED
            BY <6>1, <6>2
        <5>2. CASE m # "AEI"
          BY <1>1, <1>3, <2>1, <2>3, <4>2, <5>2
        <5>. QED
          BY <5>1, <5>2
      <4>. QED
        BY <4>2, <4>3, <4>4, <4>5, <4>6, <4>7 DEF line
    <3>. QED
      BY <3>3, <3>4
  <2>11. WindowMoves'
    BY <1>3, <2>2, <2>10 DEF WindowMoves
  <2>. QED
    BY <2>6, <2>7, <2>8, <2>9, <2>11 DEF RowInv
<1>. QED
  BY <1>2, <1>3, RegisterEffect

\* The reader reads OLC and its misregistration together.
LEMMA ReaderRows ==
  ASSUME LongWindows, KInv, RowInv, ReaderProcess
  PROVE  RowInv'
<1> DEFINE last == [s \in Unread |-> MaxInMemoryL(s)]
           first == << >>
<1>1. /\ Turn("process", "READER") /\ phase = "process" /\ "READER" \in Module /\ Busy
      /\ Register("READER", last, first)
      /\ UNCHANGED product
  BY ModulesAre DEF ReaderProcess, Turn, Busy, dataVars
<1>2. \A s \in DOMAIN last : last[s] \in Int
  <2>1. Unread \subseteq Segment
    BY Types DEF Unread
  <2>. QED
    BY <1>1, <2>1, ProcessWindows
<1>3. \A s \in DOMAIN first : first[s] \in Int
  OBVIOUS
<1>4. ASSUME grid["OLC_MIS"].sizeL > 1
      PROVE  /\ "OLC_MIS" \in DOMAIN last <=> "OLC" \in DOMAIN last
             /\ "OLC" \in DOMAIN last => last["OLC_MIS"] = last["OLC"]
             /\ "OLC_MIS" \in DOMAIN first <=> "OLC" \in DOMAIN first
             /\ "OLC" \in DOMAIN first => first["OLC_MIS"] = first["OLC"]
  <2>1. /\ grid["OLC_MIS"] = grid["OLC"]
        /\ lastComputedL["OLC_MIS"]["READER"] = lastComputedL["OLC"]["READER"]
    BY <1>1, <1>4 DEF RowInv, MisFollows
  <2>2. MaxInMemoryL("OLC_MIS") = MaxInMemoryL("OLC")
    BY <2>1 DEF MaxInMemoryL
  <2>3. "OLC_MIS" \in Unread <=> "OLC" \in Unread
    BY <2>1, <2>2 DEF Unread, SourceSegments, HasLastComputedL, GetLastComputedL
  <2>4. DOMAIN first = {}
    OBVIOUS
  <2>. QED
    BY <2>2, <2>3, <2>4
<1> HIDE DEF last, first
<1>. QED
  BY <1>1, <1>2, <1>3, <1>4, RowsRegister

\* A product with lines left behind the window has windows of the full length.
LEMMA FullWindow ==
  ASSUME LongWindows, KInv, phase \in {"process", "move"}, MaxInMemoryL(T) < grid[T].maxL
  PROVE  /\ grid[T].sizeL = segmentLineCount
         /\ NeededRows <= grid[T].sizeL
         /\ NeededRows \in Nat /\ NeededRows >= 4
         /\ NeededRows = (FillDistance + 2) * AveragingFactor
<1>1. /\ NeededRows \in Nat /\ NeededRows >= 4
      /\ NeededRows = (FillDistance + 2) * AveragingFactor
      /\ Smaller(NeededRows, grid[T].maxL + 1) <= grid[T].sizeL
      /\ product \in Products
      /\ grid[T].maxL = product.rows["OLC"] - 1
  BY ProcessWindows
<1>2. /\ grid[T].minInMemoryL \in Nat /\ grid[T].sizeL \in Nat /\ grid[T].maxL \in Nat
      /\ MaxInMemoryL(T) = grid[T].minInMemoryL + grid[T].sizeL - 1
      /\ T \in DOMAIN grid /\ "OLC" \in DOMAIN grid /\ "OLC" \in SourceSegments
  BY Windows DEF SourceSegments
<1>3. /\ grid[T].sizeL = grid["OLC"].sizeL
      /\ grid["OLC"].sizeL = Smaller(product.rows["OLC"], segmentLineCount)
  BY <1>2 DEF KInv, ShapesFit, GetSegmentSize
<1>4. product.rows["OLC"] \in Nat /\ segmentLineCount \in Nat
  BY <1>1, ProductIs, Types
<1>. QED
  BY <1>1, <1>2, <1>3, <1>4 DEF Smaller

\* The loop of the collocation has a line as long as there are lines left, and
\* its last line is the last it registers or the one behind.
LEMMA ColLoop ==
  ASSUME LongWindows, KInv, RowInv, Turn("process", "COL")
  PROVE  /\ ColLastL \in Nat /\ ColLastL >= lastComputedL[T]["COL"]
         /\ ColLastL <= MaxInMemoryL(T)
         /\ Smaller(1, grid[T].maxL) <= ColLastL
         /\ \A l \in ColLines : /\ l \in 0..grid[T].maxL
                                /\ l > lastComputedL[T]["COL"]
                                /\ grid[T].minInMemoryL <= l /\ l <= MaxInMemoryL(T)
         /\ ColLastL < grid[T].maxL =>
              /\ ColLines # {}
              /\ Max(ColLines) = Smaller(ColLastL + 1, MaxInMemoryL(T))
              /\ Max(ColLines) \in 0..grid[T].maxL
              /\ Max(ColLines) + 1 >= NeededRows
<1> DEFINE a   == GetFirstComputableL(T, "COL")
           c   == lastComputedL[T]["COL"]
           top == MaxInMemoryL(T)
           b   == Smaller(ColLastL + 1, top)
<1>1. /\ phase = "process" /\ ~TurnOver(2) /\ "COL" \in Module /\ Busy
      /\ T \in Segment /\ T \in DOMAIN grid
      /\ grid[T].minInMemoryL \in Nat /\ grid[T].maxL \in Nat /\ top \in Nat /\ top <= grid[T].maxL
      /\ grid[T].minInMemoryL <= top
      /\ c \in Int /\ c >= -1 /\ c <= top
  <2>1. phase = "process" /\ at = 2
    BY Types, TurnIs, PipelineIs DEF Turn
  <2>2. phase = "process" /\ ~TurnOver(2) /\ Busy
    BY <2>1 DEF TurnOver, Busy
  <2>3. /\ "COL" \in Module /\ T \in Segment
    BY <2>1, Windows
  <2>4. /\ T \in DOMAIN grid /\ grid[T].sizeL \in Nat \ {0}
        /\ grid[T].minInMemoryL \in Nat /\ grid[T].maxL \in Nat /\ top \in Nat /\ top <= grid[T].maxL
        /\ top = grid[T].minInMemoryL + grid[T].sizeL - 1
        /\ c \in Int /\ c >= -1 /\ c <= top
    BY <2>1, <2>3, Windows
  <2> HIDE DEF top, c
  <2>. QED
    BY <2>2, <2>3, <2>4
<1>2. /\ ColLastL \in Int /\ LeastL(T, "COL") <= ColLastL /\ Smaller(1, grid[T].maxL) <= ColLastL
      /\ ColLastL <= top
      /\ GetLastComputableL(T, "COL") = top
  BY <1>1, ColRow
<1>3. /\ a \in Nat /\ a >= grid[T].minInMemoryL
      /\ c > 0 => a = Larger(grid[T].minInMemoryL, c + 1)
      /\ ~(c > 0) => a = grid[T].minInMemoryL
  BY <1>1 DEF GetFirstComputableL, HasLastComputedL, Larger
<1>4. c # 0
  BY <1>1 DEF RowInv, NoSecondPass
<1>5. a > c
  BY <1>1, <1>3, <1>4 DEF Larger
<1>6. ColLastL \in Nat
  BY <1>1, <1>2 DEF Smaller
<1>7. ColLines = a..b
  BY <1>2 DEF ColLines
<1>8. UnreadLines = {} => ColLastL = top
  BY <1>2 DEF ColLastL
<1>9. UnreadLines # {} => ColLastL + 1 >= a /\ ColLastL + 1 <= top
  <2>1. UnreadLines \in SUBSET Nat /\ \A l \in UnreadLines : a <= l /\ l <= top
    BY <1>1, <1>2, <1>3 DEF UnreadLines
  <2>2. ASSUME UnreadLines # {}
        PROVE  ColLastL + 1 \in UnreadLines
    <3>1. Min(UnreadLines) \in UnreadLines
      BY <2>1, <2>2, MinIs
    <3>2. PICK l \in UnreadLines : l = Min(UnreadLines)
      BY <3>1
    <3>3. l \in Nat /\ ColLastL = l - 1
      BY <2>1, <2>2, <3>2 DEF ColLastL
    <3>. QED
      BY <3>3
  <2> HIDE DEF a, top
  <2>. QED
    BY <2>1, <2>2
<1>10. ColLastL >= c
  <2> HIDE DEF a, c, top
  <2>. QED
    BY <1>1, <1>2, <1>3, <1>5, <1>6, <1>8, <1>9
<1>11. b \in Nat /\ b <= top /\ ColLastL <= b /\ b <= ColLastL + 1
  <2> HIDE DEF top
  <2>. QED
    BY <1>1, <1>2, <1>6 DEF Smaller
<1>12. \A l \in a..b : /\ l \in 0..grid[T].maxL
                       /\ l > c
                       /\ grid[T].minInMemoryL <= l /\ l <= top
  <2> HIDE DEF a, b, c, top
  <2>. QED
    BY <1>1, <1>3, <1>5, <1>11
<1>13. ASSUME ColLastL < grid[T].maxL
       PROVE  /\ ColLines # {}
              /\ Max(ColLines) = b
              /\ b \in 0..grid[T].maxL
              /\ b + 1 >= NeededRows
  <2>1. a <= b
    <3>1. CASE UnreadLines = {}
      <4>1. top < grid[T].maxL
        BY <1>8, <1>13, <3>1
      <4>2. c # top
        BY <1>1, <4>1 DEF RowInv, WindowMoves, AllCollocated
      <4> HIDE DEF a, c, top, b
      <4>3. a <= top /\ b = top
        BY <1>1, <1>3, <1>8, <1>11, <3>1, <4>2 DEF Larger
      <4>. QED
        BY <4>3
    <3>2. CASE UnreadLines # {}
      <4> HIDE DEF a, top
      <4>. QED
        BY <1>1, <1>3, <1>6, <1>9, <3>2 DEF Smaller
    <3>. QED
      BY <3>1, <3>2
  <2> HIDE DEF a, b, c, top
  <2>2. b \in ColLines /\ \A y \in ColLines : b >= y /\ y \in Nat
    BY <1>3, <1>7, <1>11, <2>1
  <2>3. Max(ColLines) \in ColLines /\ \A y \in ColLines : Max(ColLines) >= y
    <3>1. \E x \in ColLines : \A y \in ColLines : x >= y
      BY <2>2
    <3>. QED
      BY <3>1 DEF Max
  <2>4. Max(ColLines) = b
    BY <2>2, <2>3
  <2>5. b + 1 >= NeededRows
    <3>1. LeastL(T, "COL") = Smaller(NeededRows, grid[T].maxL + 1) - 1
      BY DEF LeastL
    <3>2. NeededRows \in Nat
      BY <1>1, ProcessWindows
    <3>. QED
      BY <1>1, <1>2, <1>11, <1>13, <3>1, <3>2 DEF Smaller
  <2>. QED
    BY <1>1, <1>11, <2>2, <2>4, <2>5
<1>. QED
  BY <1>2, <1>6, <1>7, <1>10, <1>12, <1>13

\* The collocation finds every row it reads in memory.
LEMMA ColFinds ==
  ASSUME OrderedCollocation, LongWindows, KInv, PassInv, RowInv, Turn("process", "COL")
  PROVE  ~ColThrows
<1>1. phase = "process" /\ Busy
  BY DEF Turn, Busy
<1>2. /\ grid["OLC"].minInMemoryL = grid[T].minInMemoryL
      /\ grid["OLC"].sizeL = grid[T].sizeL
  <2>1. T \in DOMAIN grid
    BY <1>1, Windows
  <2>. QED
    BY <2>1 DEF PassInv, SegmentsAreSynchronized, HasSegment, KInv, ShapesFit
<1>3. ASSUME NEW l \in ColLines
      PROVE  IsInMemory("OLC", l)
  BY <1>2, ColLoop DEF IsInMemory, MaxInMemoryL
<1>4. ASSUME NEW l \in ColLines, grid["OLC_MIS"].sizeL > 1
      PROVE  IsInMemory("OLC_MIS", l)
  <2>1. grid["OLC_MIS"] = grid["OLC"]
    BY <1>1, <1>4 DEF RowInv, MisFollows
  <2>. QED
    BY <1>3, <2>1 DEF IsInMemory, MaxInMemoryL
<1>5. ASSUME NEW l \in ColLines, NEW s \in ColSources, NEW r \in product.sources[s][l]
      PROVE  ~(r < grid[s].minInMemoryL)
  <2>1. l \in Rows(product) /\ l > lastComputedL[T]["COL"]
    BY <1>1, ColLoop, CollocationIs
  <2>2. grid[s].minInMemoryL <= r
    BY <1>1, <2>1 DEF RowInv, RowsAhead
  <2>3. r \in Nat /\ grid[s].minInMemoryL \in Nat
    BY <1>1, <2>1, CollocationIs, Windows
  <2>. QED
    BY <2>2, <2>3
<1>. QED
  BY <1>3, <1>4, <1>5 DEF ColThrows

\* What the collocation requires are rows that the lines left to collocate
\* need, or rows before them.
LEMMA ColRequires ==
  ASSUME OrderedCollocation, LongWindows, KInv, RowInv, Turn("process", "COL"),
         ColLastL < grid[T].maxL, NEW s \in ColSources
  PROVE  /\ ColRequiredL(s, ColLines) \in Nat
         /\ ColRequiredL(s, ColLines) > 0
         /\ \A l \in Rows(product) : \A r \in product.sources[s][l] :
              l > ColLastL => ColRequiredL(s, ColLines) <= r
         /\ \/ ColRequiredL(s, ColLines) = MaxInMemoryL(s) + 1
            \/ ColRequiredL(s, ColLines) \in product.sources[s][Max(ColLines)]
<1> DEFINE M    == Max(ColLines)
           rows == product.sources[s][M] \cup {MaxInMemoryL(s) + 1}
<1>1. phase = "process" /\ ColLastL \in Nat
  BY ColLoop DEF Turn
<1>2. /\ ColLines # {} /\ M \in 0..grid[T].maxL /\ M + 1 >= NeededRows
      /\ M = Smaller(ColLastL + 1, MaxInMemoryL(T))
  BY ColLoop
<1>3. /\ Rows(product) = 0..grid[T].maxL /\ s \in Segment
      /\ product.sources[s][M] \subseteq Nat /\ 0 \notin product.sources[s][M]
      /\ \A j \in Rows(product) : \A r \in product.sources[s][j] :
           M < j => \E q \in product.sources[s][M] : q <= r
  <2>1. /\ Rows(product) = 0..grid[T].maxL /\ s \in Segment
    BY <1>1, CollocationIs
  <2>2. M \in Rows(product)
    BY <1>2, <2>1
  <2> HIDE DEF M
  <2>. QED
    BY <1>1, <1>2, <2>1, <2>2, CollocationIs
<1>4. MaxInMemoryL(s) \in Nat /\ MaxInMemoryL(T) \in Nat
  BY <1>1, <1>3, Windows
<1>5. rows \in SUBSET Nat /\ rows # {} /\ 0 \notin rows
  BY <1>3, <1>4
<1>6. Min(rows) \in rows /\ \A y \in rows : Min(rows) <= y
  BY <1>5, MinIs
<1>7. ColRequiredL(s, ColLines) = Min(rows)
  BY <1>2 DEF ColRequiredL
<1>8. ASSUME NEW l \in Rows(product), NEW r \in product.sources[s][l], l > ColLastL
      PROVE  Min(rows) <= r
  <2>1. M <= ColLastL + 1 /\ M \in Nat /\ l \in Nat
    BY <1>1, <1>2, <1>3, <1>4 DEF Smaller
  <2>2. r \in Nat
    BY <1>1, CollocationIs
  <2>3. Min(rows) \in Nat
    BY <1>5, <1>6
  <2>4. CASE l = M
    BY <1>6, <2>4
  <2>5. CASE l # M
    <3>1. M < l
      BY <1>1, <1>8, <2>1, <2>5
    <3>2. PICK q \in product.sources[s][M] : q <= r
      BY <1>3, <3>1
    <3>3. Min(rows) <= q /\ q \in Nat
      BY <1>3, <1>6
    <3>. QED
      BY <2>2, <2>3, <3>2, <3>3
  <2>. QED
    BY <2>4, <2>5
<1> HIDE DEF rows, M
<1>9. Min(rows) \in Nat /\ Min(rows) > 0
  <2>1. PICK y \in rows : y = Min(rows)
    BY <1>6
  <2>2. y \in Nat /\ y # 0
    BY <1>5, <2>1
  <2>. QED
    BY <2>1, <2>2
<1>10. Min(rows) = MaxInMemoryL(s) + 1 \/ Min(rows) \in product.sources[s][M]
  BY <1>6 DEF rows
<1>. QED
  BY <1>7, <1>8, <1>9, <1>10 DEF M

\* When the whole window has been collocated, the collocation does not require
\* its first row.
LEMMA ColReleases ==
  ASSUME OrderedCollocation, LongWindows, KInv, PassInv, RowInv, Turn("process", "COL"),
         ColLastL = MaxInMemoryL(T), MaxInMemoryL(T) < grid[T].maxL
  PROVE  Smaller(ColRequiredL("OLC", ColLines), ColLastL) > grid[T].minInMemoryL
<1>1. phase = "process" /\ "OLC" \in ColSources
  BY DEF Turn, ColSources
<1>2. /\ grid[T].sizeL = segmentLineCount /\ NeededRows <= grid[T].sizeL
      /\ NeededRows \in Nat /\ NeededRows >= 4
  BY <1>1, FullWindow
<1>3. /\ grid[T].minInMemoryL \in Nat /\ grid[T].sizeL \in Nat /\ grid[T].maxL \in Nat
      /\ MaxInMemoryL(T) = grid[T].minInMemoryL + grid[T].sizeL - 1
      /\ T \in DOMAIN grid
  BY <1>1, Windows
<1>4. MaxInMemoryL("OLC") = MaxInMemoryL(T)
  BY <1>3 DEF PassInv, SegmentsAreSynchronized, HasSegment, KInv, ShapesFit, MaxInMemoryL
<1>5. ColLastL > grid[T].minInMemoryL /\ ColLastL \in Nat
  BY <1>2, <1>3
<1>6. Max(ColLines) = MaxInMemoryL(T) /\ Max(ColLines) \in 0..grid[T].maxL
  <2>1. Max(ColLines) = Smaller(ColLastL + 1, MaxInMemoryL(T)) /\ Max(ColLines) \in 0..grid[T].maxL
    BY ColLoop
  <2>. QED
    BY <1>2, <1>3, <2>1 DEF Smaller
<1>7. ASSUME NEW r \in product.sources["OLC"][MaxInMemoryL(T)]
      PROVE  r > grid[T].minInMemoryL
  <2>1. MaxInMemoryL(T) \in Rows(product)
    BY <1>1, <1>6, CollocationIs
  <2>2. r \in Nat /\ MaxInMemoryL(T) - r < segmentLineCount - 1
    BY <1>1, <2>1, CollocationIs
  <2>. QED
    BY <1>2, <1>3, <2>2
<1>8. /\ ColRequiredL("OLC", ColLines) \in Nat
      /\ \/ ColRequiredL("OLC", ColLines) = MaxInMemoryL("OLC") + 1
         \/ ColRequiredL("OLC", ColLines) \in product.sources["OLC"][Max(ColLines)]
  BY <1>1, ColRequires
<1>9. ColRequiredL("OLC", ColLines) > grid[T].minInMemoryL
  <2>1. CASE ColRequiredL("OLC", ColLines) = MaxInMemoryL("OLC") + 1
    BY <1>2, <1>3, <1>4, <2>1
  <2>2. CASE ColRequiredL("OLC", ColLines) \in product.sources["OLC"][Max(ColLines)]
    BY <1>6, <1>7, <2>2
  <2>. QED
    BY <1>8, <2>1, <2>2
<1>. QED
  BY <1>5, <1>9 DEF Smaller

\* The collocation requires the rows that it will need.
LEMMA ColRows ==
  ASSUME OrderedCollocation, LongWindows, KInv, PassInv, RowInv, ColProcess
  PROVE  RowInv'
<1> DEFINE first == [s \in WithMis({"OLC", "SLN", "SLO", T}) |->
                       IF s \in {"SLN", "SLO"} THEN ColRequiredL(s, ColLines)
                       ELSE Smaller(ColRequiredL("OLC", ColLines), ColLastL)]
           last  == [s \in {T} |-> ColLastL]
<1>1. /\ Turn("process", "COL") /\ phase = "process"
      /\ Register("COL", last, first)
      /\ UNCHANGED product
  BY DEF ColProcess, Turn
<1>2. /\ "COL" \in Module /\ "OLC_MIS" # T /\ "OLC" # T
      /\ grid[T].minInMemoryL \in Nat /\ grid[T].maxL \in Nat
  BY <1>1, Windows DEF SourceSegments
<1>3. ColLastL \in Nat /\ ColLastL >= lastComputedL[T]["COL"] /\ Smaller(1, grid[T].maxL) <= ColLastL
  BY <1>1, ColLoop
<1>4. \A s \in DOMAIN last : last[s] \in Int
  BY <1>3
<1>5. \A s \in DOMAIN first : first[s] \in Int
  BY <1>1, <1>3, ColRequired DEF ColSources, Smaller
<1>6. /\ {"OLC", "SLN", "SLO", T} \subseteq DOMAIN first
      /\ grid["OLC_MIS"].sizeL > 1 => "OLC_MIS" \in DOMAIN first
  BY DEF WithMis
<1>7. /\ first["OLC"] = Smaller(ColRequiredL("OLC", ColLines), ColLastL)
      /\ first[T] = first["OLC"]
      /\ first["SLN"] = ColRequiredL("SLN", ColLines)
      /\ first["SLO"] = ColRequiredL("SLO", ColLines)
      /\ "OLC_MIS" \in DOMAIN first => first["OLC_MIS"] = first["OLC"]
  BY <1>6 DEF T
<1>8. DOMAIN last = {T} /\ last[T] = ColLastL
  OBVIOUS
<1>9. Register("COL", last, first)
  BY <1>1
<1> HIDE DEF last, first
<1>10. ASSUME ColLastL < grid[T].maxL, NEW s \in ColSources
       PROVE  /\ s \in DOMAIN first /\ first[s] > 0
              /\ \A l \in Rows(product) : \A r \in product.sources[s][l] : l > ColLastL => first[s] <= r
  <2>1. /\ ColRequiredL(s, ColLines) \in Nat /\ ColRequiredL(s, ColLines) > 0
        /\ \A l \in Rows(product) : \A r \in product.sources[s][l] :
              l > ColLastL => ColRequiredL(s, ColLines) <= r
    BY <1>1, <1>10, ColRequires
  <2>2. ColLastL > 0
    BY <1>2, <1>3, <1>10 DEF Smaller
  <2>3. first[s] > 0 /\ first[s] <= ColRequiredL(s, ColLines) /\ first[s] \in Int
    BY <1>3, <1>5, <1>6, <1>7, <2>1, <2>2 DEF ColSources, Smaller
  <2>4. \A l \in Rows(product) : product.sources[s][l] \subseteq Nat
    BY <1>1, CollocationIs
  <2>. QED
    BY <1>6, <2>1, <2>3, <2>4 DEF ColSources
<1>11. last[T] = MaxInMemoryL(T) /\ MaxInMemoryL(T) < grid[T].maxL =>
         T \in DOMAIN first /\ first[T] > grid[T].minInMemoryL
  BY <1>1, <1>6, <1>7, <1>8, ColReleases
<1>12. grid["OLC_MIS"].sizeL > 1 =>
         /\ "OLC_MIS" \in DOMAIN last <=> "OLC" \in DOMAIN last
         /\ "OLC" \in DOMAIN last => last["OLC_MIS"] = last["OLC"]
         /\ "OLC_MIS" \in DOMAIN first <=> "OLC" \in DOMAIN first
         /\ "OLC" \in DOMAIN first => first["OLC_MIS"] = first["OLC"]
  BY <1>2, <1>6, <1>7, <1>8
<1>13. last[T] < grid[T].maxL =>
         \A s \in ColSources :
           /\ s \in DOMAIN first /\ first[s] > 0
           /\ \A l \in Rows(product) : \A r \in product.sources[s][l] :
                l > last[T] => first[s] <= r
  BY <1>8, <1>10
<1>14. T \in DOMAIN last /\ last[T] >= lastComputedL[T]["COL"] /\ last[T] >= 0
  BY <1>3, <1>8
<1>. QED
  BY <1>1, <1>2, <1>4, <1>5, <1>9, <1>11, <1>12, <1>13, <1>14, RowsRegister

\* The rows of the target that are collocated, the pixel classification and the
\* averaging can compute.
LEMMA CollocatedRows ==
  ASSUME LongWindows, KInv, RowInv, phase = "process", AllCollocated,
         NEW m \in {"PCL", "AVE"}, m = "AVE" => TurnOver(3)
  PROVE  GetLastComputableL(T, m) = MaxInMemoryL(T)
<1>1. /\ T \in Segment /\ T \in DOMAIN grid /\ ContextTypeOK /\ m \in Module
      /\ MaxInMemoryL(T) \in Nat /\ MaxInMemoryL(T) <= grid[T].maxL
      /\ GetLastComputableL(T, m) \in Nat
      /\ {"READER", "COL", "PCL"} \subseteq Module
  BY Windows, LastComputable
<1>2. lastComputedL[T]["READER"] = None
  <2>1. T \notin Syl2Works["READER"]
    BY Windows, WorksAre
  <2>. QED
    BY <1>1, <2>1 DEF KInv, OwnEntries
<1>3. lastComputedL[T]["COL"] = MaxInMemoryL(T)
  BY DEF AllCollocated
<1>4. m = "AVE" => lastComputedL[T]["PCL"] = MaxInMemoryL(T)
  BY DEF RowInv, WindowMoves, Busy
<1>5. \A p \in Predecessors(m) : lastComputedL[T][p] > 0 => MaxInMemoryL(T) <= lastComputedL[T][p]
  BY <1>1, <1>2, <1>3, <1>4, PredecessorsAre DEF None
<1>6. MaxInMemoryL(T) <= GetLastComputableL(T, m)
  BY <1>1, <1>5, LastComputable
<1>. QED
  BY <1>1, <1>6, LastComputable

\* Nothing is registered for OLC or its misregistration, nor required of them.
LEMMA PclRows ==
  ASSUME LongWindows, KInv, RowInv, PclProcess
  PROVE  RowInv'
<1> DEFINE last  == [s \in {T} |-> GetLastComputableL(T, "PCL")]
           first == << >>
<1>1. /\ Turn("process", "PCL") /\ phase = "process" /\ "PCL" \in Module
      /\ Register("PCL", last, first)
      /\ UNCHANGED product
  BY ModulesAre DEF PclProcess, Turn
<1>2. GetLastComputableL(T, "PCL") \in Int /\ "OLC" # T /\ "OLC_MIS" # T
  BY <1>1, TargetRows, Windows DEF SourceSegments
<1>3. /\ \A s \in DOMAIN last : last[s] \in Int
      /\ \A s \in DOMAIN first : first[s] \in Int
      /\ DOMAIN last = {T} /\ DOMAIN first = {}
      /\ last[T] = GetLastComputableL(T, "PCL")
  BY <1>2
<1>4. AllCollocated => last[T] = MaxInMemoryL(T)
  BY <1>1, <1>3, CollocatedRows
<1>5. Register("PCL", last, first)
  BY <1>1
<1> HIDE DEF last, first
<1>. QED
  BY <1>1, <1>2, <1>3, <1>4, <1>5, RowsRegister

\* From a window that has been collocated as a whole, the averaging computes
\* more lines than are filled, retrieved and interpolated for its first row.
LEMMA AveReaches ==
  ASSUME LongWindows, KInv, RowInv, Turn("process", "AVE"), AllCollocated
  PROVE  AveLastL >= grid[T].minInMemoryL \div AveragingFactor + FillDistance + 1
<1> DEFINE min   == grid[T].minInMemoryL
           top   == MaxInMemoryL(T)
           a     == AveragingFactor
           q     == min \div a
           lines == (top + 1) \div a
           last  == grid[Avg].maxL
<1>1. phase = "process" /\ TurnOver(3)
  <2>1. phase = "process" /\ at = 4
    BY Types, TurnIs, PipelineIs DEF Turn
  <2>. QED
    BY <2>1 DEF TurnOver
<1>2. GetLastComputableL(T, "AVE") = top /\ top < grid[T].maxL
  BY <1>1, CollocatedRows DEF AllCollocated
<1>3. /\ a \in Nat \ {0} /\ FillDistance \in Nat
      /\ min \in Nat /\ top \in Nat /\ grid[T].maxL \in Nat
      /\ (FillDistance + 2) * a <= top + 1 - min
      /\ last \in Nat
  <2>1. /\ NeededRows <= grid[T].sizeL /\ NeededRows = (FillDistance + 2) * a
        /\ NeededRows \in Nat
    BY <1>1, <1>2, FullWindow
  <2>2. /\ min \in Nat /\ top \in Nat /\ grid[T].maxL \in Nat /\ grid[T].sizeL \in Nat
        /\ top = min + grid[T].sizeL - 1 /\ last \in Nat
        /\ a \in Nat \ {0} /\ FillDistance \in Nat
    BY <1>1, Windows
  <2> HIDE DEF top, min
  <2>. QED
    BY <2>1, <2>2
<1>4. AveLastL = Smaller(lines - 1, last)
  BY <1>1, <1>2, AveragedSegment DEF AveLastL
<1>5. grid[T].maxL < (last + 1) * a
  <2>1. last = (grid[T].maxL + a) \div a - 1
    BY <1>1, AveragedSegment
  <2> HIDE DEF a, last
  <2>2. grid[T].maxL < ((grid[T].maxL + a) \div a) * a
    BY <1>3, LastAveragedLine
  <2>3. (grid[T].maxL + a) \div a = last + 1
    <3>1. grid[T].maxL + a \in Nat
      BY <1>3
    <3>2. (grid[T].maxL + a) \div a \in Nat
      BY <1>3, <3>1, Division
    <3>. QED
      BY <2>1, <3>2
  <2>. QED
    BY <2>2, <2>3
<1> HIDE DEF min, top, a, last
<1>6. q \in Nat /\ q * a <= min
  BY <1>3, Division
<1>7. lines \in Nat /\ lines * a <= top + 1
  BY <1>3, Division
<1> HIDE DEF q, lines
<1>8. (q + FillDistance + 2) * a <= top + 1
  <2>1. (q + FillDistance + 2) * a = q * a + (FillDistance + 2) * a
    BY <1>3, <1>6
  <2>2. q * a \in Nat /\ (FillDistance + 2) * a \in Nat
    BY <1>3, <1>6
  <2>. QED
    BY <1>3, <1>6, <2>1, <2>2
<1>9. q + FillDistance + 2 <= lines
  <2>1. q + FillDistance + 2 \in Nat /\ top + 1 \in Nat
    BY <1>3, <1>6
  <2>. QED
    BY <1>3, <1>8, <2>1, AtLeast DEF lines
<1>10. lines <= last + 1
  <2>1. CASE last + 1 < lines
    <3>1. (last + 1) * a <= lines * a
      BY <1>3, <1>7, <2>1
    <3>2. (last + 1) * a \in Nat /\ lines * a \in Nat
      BY <1>3, <1>7
    <3>3. top + 1 <= grid[T].maxL
      BY <1>2, <1>3
    <3>. QED
      BY <1>3, <1>5, <1>7, <3>1, <3>2, <3>3
  <2>. QED
    BY <1>3, <1>7, <2>1
<1>11. AveLastL >= q + FillDistance + 1
  BY <1>3, <1>4, <1>6, <1>7, <1>9, <1>10 DEF Smaller
<1>. QED
  BY <1>11 DEF q, min, a

\* The averaging requires the same rows of OLC and its misregistration.
LEMMA AveRows ==
  ASSUME LongWindows, KInv, RowInv, AveProcess
  PROVE  RowInv'
<1> DEFINE last  == [s \in {Avg} |-> AveLastL]
           first == [s \in WithMis({T, "OLC"}) |-> (AveLastL + 1) * AveragingFactor]
<1>1. /\ Turn("process", "AVE") /\ phase = "process" /\ "AVE" \in Module
      /\ Register("AVE", last, first)
      /\ UNCHANGED product
  BY ModulesAre DEF AveProcess, Turn
<1>2. AveLastL \in Int /\ (AveLastL + 1) * AveragingFactor \in Int
      /\ "OLC" # Avg /\ "OLC_MIS" # Avg
  BY <1>1, AveRow, Types, Windows DEF SourceSegments
<1>3. /\ \A s \in DOMAIN last : last[s] \in Int
      /\ \A s \in DOMAIN first : first[s] \in Int
      /\ DOMAIN last = {Avg} /\ last[Avg] = AveLastL
      /\ DOMAIN first = WithMis({T, "OLC"})
      /\ \A s \in DOMAIN first : first[s] = (AveLastL + 1) * AveragingFactor
  BY <1>2
<1>4. AllCollocated => last[Avg] >= grid[T].minInMemoryL \div AveragingFactor + FillDistance + 1
  BY <1>1, <1>3, AveReaches
<1>5. Register("AVE", last, first)
  BY <1>1
<1> HIDE DEF last, first
<1>6. grid["OLC_MIS"].sizeL > 1 =>
         /\ "OLC_MIS" \in DOMAIN last <=> "OLC" \in DOMAIN last
         /\ "OLC" \in DOMAIN last => last["OLC_MIS"] = last["OLC"]
         /\ "OLC_MIS" \in DOMAIN first <=> "OLC" \in DOMAIN first
         /\ "OLC" \in DOMAIN first => first["OLC_MIS"] = first["OLC"]
  BY <1>2, <1>3 DEF WithMis
<1>. QED
  BY <1>1, <1>3, <1>4, <1>5, <1>6, RowsRegister

\* The lines of the averaged segment that have been computed, the modules
\* behind can compute.
LEMMA AveragedLines ==
  ASSUME LongWindows, KInv, phase = "process", NEW m \in {"AER", "AEI"}, NEW x \in Nat,
         x <= lastComputedL[Avg]["AVE"],
         m = "AEI" => x <= lastComputedL[Avg]["AER"]
  PROVE  x <= GetLastComputableL(Avg, m)
<1>1. /\ Avg \in Segment /\ Avg \in DOMAIN grid /\ ContextTypeOK /\ m \in Module
      /\ {"READER", "COL", "PCL", "AVE"} \subseteq Module
      /\ MaxInMemoryL(Avg) <= grid[Avg].maxL
      /\ MaxInMemoryL(Avg) \in Nat /\ grid[Avg].maxL \in Nat
      /\ lastComputedL[Avg]["AVE"] <= MaxInMemoryL(Avg)
      /\ lastComputedL[Avg]["AVE"] \in Int
  BY Windows
<1>2. \A p \in {"READER", "COL", "PCL"} : lastComputedL[Avg][p] = None
  <2>1. \A p \in {"READER", "COL", "PCL"} : Avg \notin Syl2Works[p]
    BY Windows, WorksAre
  <2>. QED
    BY <1>1, <2>1 DEF KInv, OwnEntries
<1>3. \A p \in Predecessors(m) : lastComputedL[Avg][p] > 0 => x <= lastComputedL[Avg][p]
  BY <1>2, PredecessorsAre DEF None
<1>4. x \in Int /\ x <= MaxInMemoryL(Avg) /\ x <= grid[Avg].maxL
  BY <1>1
<1>. QED
  BY <1>1, <1>3, <1>4, LastComputable

\* The aerosol retrieval.
LEMMA AerRows ==
  ASSUME LongWindows, KInv, RowInv, AerProcess
  PROVE  RowInv'
<1> DEFINE last  == [s \in {Avg} |-> AerLastFillableL]
           first == << >>
           line  == grid[T].minInMemoryL \div AveragingFactor
<1>1. /\ Turn("process", "AER") /\ phase = "process" /\ "AER" \in Module /\ TurnOver(4) /\ Busy
      /\ Register("AER", last, first)
      /\ UNCHANGED product
  <2>1. Turn("process", "AER") /\ phase = "process" /\ at = 5
    BY Types, TurnIs, PipelineIs DEF AerProcess, Turn
  <2>. QED
    BY <2>1, ModulesAre DEF AerProcess, TurnOver, Busy
<1>2. /\ GetLastComputableL(Avg, "AER") \in Nat /\ FillDistance \in Nat
      /\ "OLC" # Avg /\ "OLC_MIS" # Avg
  BY <1>1, AveragedSegment, Windows DEF SourceSegments
<1>3. AerLastFillableL \in Int
  BY <1>2 DEF AerLastFillableL
<1>4. /\ \A s \in DOMAIN last : last[s] \in Int
      /\ \A s \in DOMAIN first : first[s] \in Int
      /\ DOMAIN last = {Avg} /\ last[Avg] = AerLastFillableL
      /\ DOMAIN first = {}
  BY <1>3
<1>5. ASSUME AllCollocated
      PROVE  last[Avg] >= line + 1
  <2>1. line \in Nat
    BY <1>1, Windows, Division
  <2>2. lastComputedL[Avg]["AVE"] >= line + FillDistance + 1 /\ lastComputedL[Avg]["AVE"] \in Int
    BY <1>1, <1>5, Windows DEF RowInv, WindowMoves
  <2> HIDE DEF line, last
  <2>3. line + FillDistance + 1 \in Nat /\ line + FillDistance + 1 <= lastComputedL[Avg]["AVE"]
    BY <1>2, <2>1, <2>2
  <2>4. line + FillDistance + 1 <= GetLastComputableL(Avg, "AER")
    BY <1>1, <2>3, AveragedLines
  <2>. QED
    BY <1>2, <1>4, <2>1, <2>4 DEF AerLastFillableL
<1>6. Register("AER", last, first)
  BY <1>1
<1> HIDE DEF last, first
<1>7. AllCollocated => last[Avg] >= grid[T].minInMemoryL \div AveragingFactor + 1
  BY <1>5
<1>. QED
  BY <1>1, <1>2, <1>4, <1>6, <1>7, RowsRegister

\* The averaged line before a line is not behind that of a later line.
LEMMA SourceLines ==
  ASSUME AveragingFactor \in Nat \ {0}, grid[Avg].maxL \in Nat,
         NEW l \in Nat, NEW k \in Nat, l <= k
  PROVE  SourceL0(l) \in Int /\ SourceL0(l) <= k \div AveragingFactor
<1> DEFINE x == Larger(l - AveragingFactor \div 2, 0)
           d == x \div AveragingFactor
<1>1. x \in Nat /\ x <= l
  <2>1. AveragingFactor \div 2 \in Nat
    BY Division
  <2>. QED
    BY <2>1 DEF Larger
<1>2. SourceL0(l) = MinMax(d, 0, grid[Avg].maxL - 1)
  BY DEF SourceL0
<1> HIDE DEF x
<1>3. d \in Nat /\ d * AveragingFactor <= x
  BY <1>1, Division
<1> HIDE DEF d
<1>4. d <= k \div AveragingFactor
  <2>1. d * AveragingFactor <= k
    <3>1. d * AveragingFactor \in Nat
      BY <1>3
    <3>. QED
      BY <1>1, <1>3, <3>1
  <2>. QED
    BY <1>3, <2>1, AtLeast
<1>5. k \div AveragingFactor \in Nat
  BY Division
<1>. QED
  BY <1>2, <1>3, <1>4, <1>5 DEF MinMax

\* With a single averaged line the interpolation throws in the first pass.
LEMMA AeiThrowsAtOnce ==
  ASSUME LongWindows, KInv, RowInv, Turn("process", "AEI"), grid[Avg].maxL = 0
  PROVE  AeiThrows
<1>1. phase = "process" /\ Busy
  BY DEF Turn, Busy
<1>2. /\ lastComputedL[T]["AEI"] = None
      /\ grid[T].minInMemoryL = 0
  <2>1. grid[T].sizeL >= grid[T].maxL + 1
    BY <1>1, OneAveragedLine
  <2>2. /\ grid[T].minInMemoryL \in Nat /\ grid[T].sizeL \in Nat /\ grid[T].maxL \in Nat
        /\ MaxInMemoryL(T) = grid[T].minInMemoryL + grid[T].sizeL - 1
        /\ MaxInMemoryL(T) <= grid[T].maxL
    BY <1>1, Windows
  <2>3. grid[T].minInMemoryL = 0
    BY <2>1, <2>2
  <2>. QED
    BY <1>1, <2>3 DEF RowInv, NoSecondPass
<1>3. GetFirstComputableL(T, "AEI") = 0
  BY <1>2 DEF GetFirstComputableL, HasLastComputedL, None
<1>4. AeiLastL \in Nat
  BY <1>1, AeiRow
<1>5. 0 \in AeiLines
  BY <1>3, <1>4 DEF AeiLines
<1>6. SourceL0(0) = -1
  <2> DEFINE x == Larger(0 - AveragingFactor \div 2, 0)
  <2>1. x \in Nat
    <3>1. AveragingFactor \div 2 \in Nat
      BY Division, Types
    <3>. QED
      BY <3>1 DEF Larger
  <2>2. x \div AveragingFactor \in Nat
    <3> HIDE DEF x
    <3>. QED
      BY <2>1, Division, Types
  <2>. QED
    BY <2>2 DEF SourceL0, MinMax
<1>. QED
  BY <1>5, <1>6 DEF AeiThrows

\* From a window that has been collocated as a whole, the interpolation
\* computes its first row.
LEMMA AeiReaches ==
  ASSUME LongWindows, KInv, RowInv, Turn("process", "AEI"), AllCollocated
  PROVE  AeiLastL >= grid[T].minInMemoryL
<1> DEFINE min  == grid[T].minInMemoryL
           late == {k \in ComputableLines("AEI") : SourceL0(k) + 1 > GetLastComputableL(Avg, "AEI")}
           rows == {GetLastComputableL(T, "AEI")} \cup {l - 1 : l \in late}
           line == min \div AveragingFactor
<1>1. /\ phase = "process" /\ Busy /\ TurnOver(2) /\ TurnOver(3) /\ TurnOver(4) /\ TurnOver(5)
  <2>1. phase = "process" /\ at = 6
    BY Types, TurnIs, PipelineIs DEF Turn
  <2>. QED
    BY <2>1 DEF TurnOver, Busy
<1>2. /\ lastComputedL[T]["COL"] = MaxInMemoryL(T)
      /\ lastComputedL[T]["PCL"] = MaxInMemoryL(T)
      /\ lastComputedL[Avg]["AVE"] >= line + FillDistance + 1
      /\ lastComputedL[Avg]["AER"] >= line + 1
  BY <1>1 DEF RowInv, WindowMoves, AllCollocated
<1>3. /\ T \in Segment /\ T \in DOMAIN grid /\ ContextTypeOK /\ "AEI" \in Module
      /\ {"READER", "COL", "PCL", "AVE", "AER"} \subseteq Module
      /\ min \in Nat /\ MaxInMemoryL(T) \in Nat /\ MaxInMemoryL(T) <= grid[T].maxL
      /\ min <= MaxInMemoryL(T) /\ grid[T].maxL \in Nat
      /\ AveragingFactor \in Nat \ {0} /\ FillDistance \in Nat
      /\ grid[Avg].maxL \in Nat
      /\ lastComputedL[Avg]["AVE"] \in Int /\ lastComputedL[Avg]["AER"] \in Int
  <2>1. /\ min \in Nat /\ MaxInMemoryL(T) = min + grid[T].sizeL - 1
        /\ grid[T].sizeL \in Nat \ {0}
    BY <1>1, Windows
  <2>. QED
    BY <1>1, <2>1, Windows
<1>4. line \in Nat
  BY <1>3, Division
<1>5. min <= GetLastComputableL(T, "AEI")
  <2>1. \A p \in {"READER", "AVE", "AER"} : lastComputedL[T][p] = None
    <3>1. \A p \in {"READER", "AVE", "AER"} : T \notin Syl2Works[p]
      BY <1>1, Windows, WorksAre
    <3>. QED
      BY <1>3, <3>1 DEF KInv, OwnEntries
  <2>2. \A p \in Predecessors("AEI") : lastComputedL[T][p] > 0 => min <= lastComputedL[T][p]
    BY <1>2, <1>3, <2>1, PredecessorsAre DEF None
  <2>3. min \in Int /\ min <= MaxInMemoryL(T) /\ min <= grid[T].maxL
    BY <1>3
  <2> HIDE DEF min
  <2>. QED
    BY <1>3, <2>2, <2>3, LastComputable
<1> HIDE DEF line
<1>6. line + 1 <= GetLastComputableL(Avg, "AEI")
  <2>1. /\ line + 1 \in Nat
        /\ line + 1 <= lastComputedL[Avg]["AVE"]
        /\ line + 1 <= lastComputedL[Avg]["AER"]
    BY <1>2, <1>3, <1>4
  <2>. QED
    BY <1>1, <2>1, AveragedLines
<1>7. GetLastComputableL(T, "AEI") \in Nat /\ GetLastComputableL(Avg, "AEI") \in Nat
  BY <1>1, TargetRows, AveragedSegment
<1>8. GetFirstComputableL(T, "AEI") \in Nat
  BY <1>3, Types DEF GetFirstComputableL, HasLastComputedL, Larger
<1>9. ASSUME NEW k \in late
      PROVE  k \in Nat /\ k > min
  <2>1. k \in Nat /\ SourceL0(k) + 1 > GetLastComputableL(Avg, "AEI")
    BY <1>7, <1>8 DEF ComputableLines
  <2>2. SourceL0(k) \in Int /\ (k <= min => SourceL0(k) <= line)
    <3>1. SourceL0(k) \in Int
      BY <1>3, <2>1, SourceLines
    <3>2. k <= min => SourceL0(k) <= min \div AveragingFactor
      BY <1>3, <2>1, SourceLines
    <3>. QED
      BY <3>1, <3>2 DEF line
  <2>. QED
    BY <1>3, <1>4, <1>6, <1>7, <2>1, <2>2
<1>10. rows \in SUBSET Nat /\ rows # {} /\ \A y \in rows : min <= y
  BY <1>3, <1>5, <1>7, <1>9
<1>11. AeiLastL = Min(rows)
  BY DEF AeiLastL
<1> HIDE DEF rows, min
<1>12. AeiLastL \in rows
  BY <1>10, <1>11, MinIs
<1>13. AeiLastL \in Nat /\ min <= AeiLastL
  BY <1>10, <1>12
<1>. QED
  BY <1>3, <1>13 DEF min

\* The interpolation.
LEMMA AeiRows ==
  ASSUME LongWindows, KInv, RowInv, AeiProcess
  PROVE  RowInv'
<1> DEFINE last  == [s \in {T} |-> AeiLastL]
           first == [s \in AeiRequires |-> AeiLastL + 1]
<1>1. /\ Turn("process", "AEI") /\ phase = "process" /\ "AEI" \in Module
      /\ ~AeiThrows
      /\ Register("AEI", last, first)
      /\ UNCHANGED product
  BY ModulesAre DEF AeiProcess, Turn
<1>2. /\ AeiLastL \in Int /\ "OLC" # T /\ "OLC_MIS" # T
      /\ grid[Avg].maxL \in Nat
  BY <1>1, AeiRow, Types, Windows DEF SourceSegments
<1>3. /\ \A s \in DOMAIN last : last[s] \in Int
      /\ \A s \in DOMAIN first : first[s] \in Int
      /\ DOMAIN last = {T} /\ last[T] = AeiLastL
      /\ DOMAIN first = WithMis({"OLC"})
      /\ \A s \in DOMAIN first : first[s] = AeiLastL + 1
  BY <1>2 DEF AeiRequires
<1>4. AllCollocated => last[T] >= grid[T].minInMemoryL
  BY <1>1, <1>3, AeiReaches
<1>5. grid[Avg].maxL > 0
  BY <1>1, <1>2, AeiThrowsAtOnce
<1>6. Register("AEI", last, first)
  BY <1>1
<1> HIDE DEF last, first
<1>7. grid["OLC_MIS"].sizeL > 1 =>
         /\ "OLC_MIS" \in DOMAIN last <=> "OLC" \in DOMAIN last
         /\ "OLC" \in DOMAIN last => last["OLC_MIS"] = last["OLC"]
         /\ "OLC_MIS" \in DOMAIN first <=> "OLC" \in DOMAIN first
         /\ "OLC" \in DOMAIN first => first["OLC_MIS"] = first["OLC"]
  BY <1>2, <1>3 DEF WithMis
<1>. QED
  BY <1>1, <1>3, <1>4, <1>5, <1>6, <1>7, RowsRegister

\* The atmospheric correction and the writer require nothing.
LEMMA AcoRows ==
  ASSUME LongWindows, KInv, RowInv, AcoProcess
  PROVE  RowInv'
<1> DEFINE last  == [s \in {T} |-> GetLastComputableL(T, "ACO")]
           first == << >>
<1>1. /\ Turn("process", "ACO") /\ phase = "process" /\ "ACO" \in Module
      /\ Register("ACO", last, first)
      /\ UNCHANGED product
  BY ModulesAre DEF AcoProcess, Turn
<1>2. GetLastComputableL(T, "ACO") \in Int /\ "OLC" # T /\ "OLC_MIS" # T
  BY <1>1, TargetRows, Windows DEF SourceSegments
<1>3. /\ \A s \in DOMAIN last : last[s] \in Int
      /\ \A s \in DOMAIN first : first[s] \in Int
      /\ DOMAIN last = {T}
      /\ DOMAIN first = {}
  BY <1>2
<1>4. Register("ACO", last, first)
  BY <1>1
<1> HIDE DEF last, first
<1>. QED
  BY <1>1, <1>2, <1>3, <1>4, RowsRegister

LEMMA WriterRows ==
  ASSUME LongWindows, KInv, RowInv, WriterProcess
  PROVE  RowInv'
<1> DEFINE last  == [s \in WrittenSegments |-> MaxInMemoryL(s)]
           first == << >>
<1>1. /\ Turn("process", "WRITER") /\ phase = "process" /\ "WRITER" \in Module
      /\ Register("WRITER", last, first)
      /\ UNCHANGED product
  BY ModulesAre DEF WriterProcess, Turn
<1>2. /\ WrittenSegments \subseteq Segment
      /\ "OLC" \notin WrittenSegments /\ "OLC_MIS" \notin WrittenSegments
  BY Types DEF WrittenSegments, SourceSegments, T
<1>3. /\ \A s \in DOMAIN last : last[s] \in Int
      /\ \A s \in DOMAIN first : first[s] \in Int
      /\ DOMAIN last = WrittenSegments
      /\ DOMAIN first = {}
  BY <1>1, <1>2, Windows
<1>4. Register("WRITER", last, first)
  BY <1>1
<1> HIDE DEF last, first
<1>. QED
  BY <1>1, <1>2, <1>3, <1>4, RowsRegister

\* The pass is over.
LEMMA ManifestRows ==
  ASSUME KInv, RowInv, IdleProcess("MANIFEST")
  PROVE  RowInv'
<1>1. /\ phase = "process" /\ at = 9 /\ phase' = "move"
      /\ UNCHANGED <<grid, lastComputedL, firstRequiredL, product>>
  BY Types, TurnIs, PipelineIs DEF IdleProcess, Turn, ProcessNext, contextVars, dataVars
<1>2. /\ Busy /\ Busy'
      /\ \A i \in 1..8 : TurnOver(i) /\ TurnOver(i)'
  BY <1>1 DEF Busy, TurnOver
<1>3. MaxInMemoryL(T)' = MaxInMemoryL(T) /\ Rows(product)' = Rows(product)
  BY <1>1 DEF MaxInMemoryL, Rows
<1>4. AllCollocated' <=> AllCollocated
  BY <1>1, <1>3 DEF AllCollocated
<1>. QED
  BY <1>1, <1>2, <1>3, <1>4
     DEF RowInv, RowsAhead, RowsAreRequired, MisFollows, NoSecondPass, WindowMoves

\* Modules are stopped when the passes are over.
LEMMA StopsRows ==
  ASSUME KInv,
         \/ ManifestStop \/ WriterStop("WRITER") \/ AveStop \/ ColStop \/ ReaderStop
         \/ \E m \in {"ACO", "AEI", "AER", "PCL"} : IdleStop(m)
  PROVE  RowInv'
<1>1. PICK m \in Module : Turn("stop", m) /\ StopNext
  BY StopsAre
<1>2. phase' \notin {"process", "move"}
  BY <1>1 DEF Turn, StopNext
<1>. QED
  BY <1>2, NoPass

\* At the end of a pass a window that has been collocated as a whole moves, if
\* there are lines behind it.
LEMMA CollocatedMoves ==
  ASSUME LongWindows, KInv, FinalInv, PassInv, RowInv, phase = "move", AllCollocated
  PROVE  ForwardL(T) > grid[T].minInMemoryL
<1> DEFINE min  == grid[T].minInMemoryL
           top  == MaxInMemoryL(T)
           a    == AveragingFactor
           line == min \div a
           ave  == lastComputedL[Avg]["AVE"]
<1>1. Busy /\ \A i \in 1..8 : TurnOver(i)
  BY DEF Busy, TurnOver
<1>2. /\ lastComputedL[T]["COL"] = top /\ top < grid[T].maxL
      /\ firstRequiredL[T]["COL"] > min
      /\ lastComputedL[T]["PCL"] = top
      /\ ave >= line + FillDistance + 1
      /\ lastComputedL[T]["AEI"] >= min
  BY <1>1 DEF RowInv, WindowMoves, AllCollocated
<1>3. lastComputedL[T]["ACO"] = lastComputedL[T]["AEI"] /\ lastComputedL[T]["WRITER"] = top
  BY <1>1 DEF PassInv, PassIsEven
<1>4. /\ T \in Segment /\ Avg \in Segment /\ T \in DOMAIN grid /\ ContextTypeOK
      /\ Module = {"READER", "COL", "PCL", "AVE", "AER", "AEI", "ACO", "WRITER", "MANIFEST"}
      /\ min \in Nat /\ top \in Nat /\ grid[T].maxL \in Nat /\ grid[T].sizeL \in Nat \ {0}
      /\ top = min + grid[T].sizeL - 1
      /\ a \in Nat \ {0} /\ FillDistance \in Nat /\ ave \in Int
      /\ \A m \in Module : lastComputedL[T][m] \in Int /\ firstRequiredL[T][m] \in Int
  BY <1>1, Windows, Types
<1>5. CommonlyComputedL(T) \in Nat /\ CommonlyComputedL(T) >= min
  <2>1. \A p \in Module : lastComputedL[T][p] # None => lastComputedL[T][p] >= min
    <3>1. \A p \in {"READER", "AVE", "AER", "MANIFEST"} : lastComputedL[T][p] = None
      <4>1. \A p \in {"READER", "AVE", "AER", "MANIFEST"} : T \notin Syl2Works[p]
        BY Windows, WorksAre
      <4>. QED
        BY <1>4, <4>1 DEF KInv, OwnEntries
    <3>2. top >= min
      BY <1>4
    <3> HIDE DEF top, min
    <3>. QED
      BY <1>2, <1>3, <1>4, <3>1, <3>2
  <2>2. /\ CommonlyComputedL(T) \in Nat
        /\ \/ CommonlyComputedL(T) = top
           \/ \E p \in Module : lastComputedL[T][p] # None /\ CommonlyComputedL(T) = lastComputedL[T][p]
    BY <1>4, ForwardRows
  <2>3. top >= min
    BY <1>4
  <2>. QED
    BY <2>1, <2>2, <2>3
<1>6. line \in Nat /\ min < line * a + a
  BY <1>4, Division
<1> HIDE DEF line, a, ave
<1>7. (ave + 1) * a > min
  <2>1. line + 1 <= ave + 1 /\ line + 1 \in Nat /\ ave + 1 \in Nat
    BY <1>2, <1>4, <1>6
  <2>2. (line + 1) * a <= (ave + 1) * a
    BY <1>4, <2>1
  <2>3. (line + 1) * a = line * a + a
    BY <1>4, <1>6
  <2>4. (ave + 1) * a \in Nat /\ line * a \in Nat
    BY <1>4, <1>6, <2>1
  <2>. QED
    BY <1>4, <1>6, <2>2, <2>3, <2>4
<1>8. GetFirstRequiredL(T) \in Nat /\ GetFirstRequiredL(T) > min
  <2>1. /\ \A p \in Module \ {"COL", "AVE"} : firstRequiredL[T][p] = None
        /\ ave # None => firstRequiredL[T]["AVE"] = (ave + 1) * a
    BY <1>1 DEF FinalInv, Requirements, ave, a
  <2>2. ave # None
    BY <1>2, <1>4, <1>6 DEF None
  <2>3. \A p \in Module : firstRequiredL[T][p] > 0 => firstRequiredL[T][p] > min
    BY <1>2, <1>7, <2>1, <2>2 DEF None
  <2>4. /\ GetFirstRequiredL(T) \in Nat
        /\ \/ GetFirstRequiredL(T) = Smaller(top + 1, grid[T].maxL)
           \/ \E p \in Module : firstRequiredL[T][p] > 0 /\ GetFirstRequiredL(T) = firstRequiredL[T][p]
    BY <1>4, ForwardRows
  <2> HIDE DEF top, min
  <2>5. Smaller(top + 1, grid[T].maxL) > min
    BY <1>2, <1>4 DEF Smaller
  <2>. QED
    BY <2>3, <2>4, <2>5
<1> HIDE DEF top
<1>9. grid[T].maxL - grid[T].sizeL + 1 > min
  BY <1>2, <1>4
<1> HIDE DEF min
<1>10. ForwardL(T) > min
  BY <1>4, <1>5, <1>8, <1>9 DEF ForwardL, Smaller
<1>. QED
  BY <1>10 DEF min

\* The misregistration keeps to the rows of OLC that it is for.
LEMMA MisMoves ==
  ASSUME KInv, RowInv, phase = "move", grid["OLC_MIS"].sizeL > 1
  PROVE  MovedGrid("OLC_MIS") = MovedGrid("OLC")
<1>1. /\ grid["OLC_MIS"] = grid["OLC"]
      /\ \A m \in Module : /\ lastComputedL["OLC_MIS"][m] = lastComputedL["OLC"][m]
                           /\ firstRequiredL["OLC_MIS"][m] = firstRequiredL["OLC"][m]
  BY DEF RowInv, MisFollows, Busy
<1>2. "OLC" \in Segment /\ "OLC_MIS" \in Segment
  BY Types DEF SourceSegments
<1>3. /\ lastComputedL["OLC_MIS"] = lastComputedL["OLC"]
      /\ firstRequiredL["OLC_MIS"] = firstRequiredL["OLC"]
  BY <1>1, <1>2, Types DEF ContextTypeOK
<1>4. /\ MaxInMemoryL("OLC_MIS") = MaxInMemoryL("OLC")
      /\ CommonlyComputedL("OLC_MIS") = CommonlyComputedL("OLC")
      /\ GetFirstRequiredL("OLC_MIS") = GetFirstRequiredL("OLC")
  BY <1>1, <1>3 DEF MaxInMemoryL, CommonlyComputedL, GetFirstRequiredL, HasFirstRequiredL
<1>. QED
  BY <1>1, <1>4 DEF MovedGrid, ForwardL

\* The windows keep the rows that the collocation will need, and move when it
\* has no line left in them.
LEMMA MoveRows ==
  ASSUME LongWindows, OrderedCollocation, KInv, FinalInv, PassInv, RowInv,
         MoveSegmentsForward, UNCHANGED dataVars
  PROVE  RowInv'
<1>1. /\ phase = "move" /\ Busy /\ TurnOver(2)
      /\ phase' = "stop" \/ (phase' = "process" /\ at' = 1)
      /\ UNCHANGED <<lastComputedL, firstRequiredL, product>>
      /\ DOMAIN grid' = DOMAIN grid
      /\ \A s \in DOMAIN grid : grid'[s] = MovedGrid(s)
  BY DEF MoveSegmentsForward, dataVars, Busy, TurnOver
<1>2. CASE phase' = "stop"
  BY <1>2, NoPass
<1>3. CASE phase' = "process" /\ at' = 1
  <2>1. Busy' /\ \A i \in 1..8 : ~TurnOver(i)'
    BY <1>3 DEF Busy, TurnOver
  <2>2. ContextTypeOK /\ \A s \in Segment : s \in DOMAIN grid
    BY <1>1, Windows
  <2>3. \A s \in Segment :
          /\ grid'[s] = MovedGrid(s)
          /\ grid'[s].sizeL = grid[s].sizeL /\ grid'[s].maxL = grid[s].maxL
          /\ grid'[s].minInMemoryL = Larger(grid[s].minInMemoryL, ForwardL(s))
          /\ ForwardL(s) \in Int /\ ForwardL(s) <= GetFirstRequiredL(s)
          /\ grid'[s].minInMemoryL \in Nat
          /\ grid'[s].minInMemoryL >= grid[s].minInMemoryL
    BY <1>1, <2>2, MovedWindow
  <2>4. /\ {"OLC", "OLC_MIS", "SLN", "SLO", T, Avg} \subseteq Segment
        /\ ColSources = {"OLC", "SLN", "SLO"}
        /\ {"COL", "AEI"} \subseteq Module
        /\ Rows(product)' = Rows(product) /\ product' = product
        /\ Rows(product) = 0..grid[T].maxL
    BY <1>1, Windows, CollocationIs DEF Rows
  <2>5. RowsAhead'
    <3>1. ASSUME NEW s \in ColSources, NEW l \in Rows(product), NEW r \in product.sources[s][l],
                 l > lastComputedL[T]["COL"]
          PROVE  grid'[s].minInMemoryL <= r
      <4>1. grid[s].minInMemoryL <= r
        BY <1>1, <3>1 DEF RowInv, RowsAhead
      <4>2. lastComputedL[T]["COL"] < grid[T].maxL
        BY <1>1, <2>4, <3>1, Windows
      <4>3. firstRequiredL[s]["COL"] > 0 /\ firstRequiredL[s]["COL"] <= r
        BY <1>1, <3>1, <4>2 DEF RowInv, RowsAreRequired
      <4>4. s \in Segment
        BY <2>4
      <4>5. /\ GetFirstRequiredL(s) \in Nat
            /\ GetFirstRequiredL(s) <= firstRequiredL[s]["COL"]
            /\ firstRequiredL[s]["COL"] \in Int
        BY <1>1, <2>2, <2>4, <4>3, <4>4, ForwardRows, Windows
      <4>6. r \in Nat
        BY <1>1, CollocationIs
      <4>7. ForwardL(s) <= r
        BY <2>3, <4>3, <4>4, <4>5, <4>6
      <4>. QED
        BY <2>3, <4>1, <4>4, <4>7 DEF Larger
    <3>. QED
      BY <1>1, <2>4, <3>1 DEF RowsAhead
  <2>6. RowsAreRequired'
    BY <2>1 DEF RowsAreRequired
  <2>7. MisFollows'
    <3>1. ASSUME grid["OLC_MIS"].sizeL > 1
          PROVE  grid'["OLC_MIS"] = grid'["OLC"]
      BY <1>1, <2>3, <2>4, <3>1, MisMoves
    <3>2. grid'["OLC_MIS"].sizeL = grid["OLC_MIS"].sizeL
      BY <2>3, <2>4
    <3>. QED
      BY <1>1, <3>1, <3>2 DEF RowInv, MisFollows
  <2>8. NoSecondPass'
    <3>1. grid[Avg].maxL > 0
      <4>1. Sch!IsRegistered("AEI") /\ T \in Syl2Works["AEI"]
        BY <1>1, <2>4, WhatIInvSays, WorksAre DEF KInv
      <4>2. lastComputedL[T]["AEI"] # None
        BY <4>1, WhatRegisteredSays DEF None
      <4>. QED
        BY <1>1, <4>2 DEF RowInv, NoSecondPass
    <3>2. MaxInMemoryL(T) > 0
      <4>1. /\ grid[T].maxL \in Nat /\ grid[T].minInMemoryL \in Nat /\ grid[T].sizeL \in Nat
            /\ MaxInMemoryL(T) = grid[T].minInMemoryL + grid[T].sizeL - 1
            /\ NeededRows \in Nat /\ NeededRows >= 4
            /\ Smaller(NeededRows, grid[T].maxL + 1) <= grid[T].sizeL
            /\ AveragingFactor \in Nat \ {0}
        BY <1>1, <2>4, ProcessWindows, Types
      <4>2. grid[Avg].maxL = (grid[T].maxL + AveragingFactor) \div AveragingFactor - 1
        BY <2>2, <2>4 DEF KInv, ShapesFit
      <4>3. grid[Avg].maxL \in Nat /\ grid[Avg].maxL <= grid[T].maxL
        BY <4>1, <4>2, LastAveragedLine
      <4>. QED
        BY <3>1, <4>1, <4>3 DEF Smaller
    <3>3. lastComputedL[T]["COL"] # 0
      <4>1. Sch!IsRegistered("COL") /\ T \in Syl2Works["COL"]
        BY <1>1, <2>4, WhatIInvSays, WorksAre DEF KInv
      <4>. QED
        BY <3>2, <4>1, WhatRegisteredSays
    <3>. QED
      BY <1>1, <2>3, <2>4, <3>1, <3>3 DEF NoSecondPass
  <2>9. ~AllCollocated'
    <3>1. SUFFICES ASSUME AllCollocated' PROVE FALSE
      OBVIOUS
    <3>2. /\ grid[T].minInMemoryL \in Nat /\ grid[T].sizeL \in Nat
          /\ MaxInMemoryL(T) = grid[T].minInMemoryL + grid[T].sizeL - 1
          /\ lastComputedL[T]["COL"] <= MaxInMemoryL(T)
      BY <1>1, <2>4, Windows
    <3>3. MaxInMemoryL(T)' = grid'[T].minInMemoryL + grid'[T].sizeL - 1
      BY DEF MaxInMemoryL
    <3>4. lastComputedL[T]["COL"] = MaxInMemoryL(T)' /\ MaxInMemoryL(T)' < grid'[T].maxL
      BY <1>1, <3>1 DEF AllCollocated
    <3>5. grid'[T].minInMemoryL = grid[T].minInMemoryL /\ MaxInMemoryL(T)' = MaxInMemoryL(T)
      <4>1. /\ grid'[T].sizeL = grid[T].sizeL
            /\ grid'[T].minInMemoryL \in Nat
            /\ grid'[T].minInMemoryL >= grid[T].minInMemoryL
        BY <2>3, <2>4
      <4>2. MaxInMemoryL(T)' <= MaxInMemoryL(T)
        BY <3>2, <3>4
      <4>. QED
        BY <3>2, <3>3, <4>1, <4>2
    <3>6. AllCollocated
      BY <2>3, <2>4, <3>4, <3>5 DEF AllCollocated
    <3>7. ForwardL(T) > grid[T].minInMemoryL
      BY <1>1, <3>6, CollocatedMoves
    <3>. QED
      BY <2>3, <2>4, <3>2, <3>5, <3>7 DEF Larger
  <2>10. WindowMoves'
    BY <2>9 DEF WindowMoves
  <2>. QED
    BY <2>5, <2>6, <2>7, <2>8, <2>10 DEF RowInv
<1>. QED
  BY <1>1, <1>2, <1>3

\* Every step keeps the rows that the collocation reads.
LEMMA StepRows ==
  ASSUME LongWindows, OrderedCollocation, KInv, KInv', FinalInv, PassInv, RowInv, [Next]_vars
  PROVE  RowInv'
<1>1. CASE \/ ReaderStart \/ ColStart \/ AveStart \/ WriterStart("WRITER")
           \/ \E m \in {"PCL", "AER", "AEI", "ACO", "MANIFEST"} : IdleStart(m)
  BY <1>1, StartsRows
<1>2. CASE ReaderProcess \/ ColProcess \/ PclProcess \/ AveProcess \/ AerProcess
  BY <1>2, ReaderRows, ColRows, PclRows, AveRows, AerRows
<1>3. CASE AeiProcess \/ AcoProcess \/ WriterProcess \/ IdleProcess("MANIFEST")
  BY <1>3, AeiRows, AcoRows, WriterRows, ManifestRows
<1>4. CASE MoveSegmentsForward /\ UNCHANGED dataVars
  BY <1>4, MoveRows
<1>5. CASE \/ ManifestStop \/ WriterStop("WRITER") \/ AveStop \/ ColStop \/ ReaderStop
           \/ \E m \in {"ACO", "AEI", "AER", "PCL"} : IdleStop(m)
  BY <1>5, StopsRows
<1>6. CASE RuntimeError \/ IOError
  <2>1. phase' = "failed"
    BY <1>6 DEF RuntimeError, IOError, Throw
  <2>. QED
    BY <2>1, NoPass
<1>7. CASE (Exited /\ UNCHANGED dataVars) \/ UNCHANGED vars
  <2>1. UNCHANGED <<grid, lastComputedL, firstRequiredL, phase, at, product>>
    BY <1>7 DEF Exited, vars, contextVars, controlVars, dataVars
  <2>2. /\ MaxInMemoryL(T)' = MaxInMemoryL(T) /\ Rows(product)' = Rows(product)
        /\ Busy' <=> Busy
        /\ \A i \in 1..8 : TurnOver(i)' <=> TurnOver(i)
    BY <2>1 DEF MaxInMemoryL, Rows, Busy, TurnOver
  <2>3. AllCollocated' <=> AllCollocated
    BY <2>1, <2>2 DEF AllCollocated
  <2>. QED
    BY <2>1, <2>2, <2>3
       DEF RowInv, RowsAhead, RowsAreRequired, MisFollows, NoSecondPass, WindowMoves
<1>. QED
  BY <1>1, <1>2, <1>3, <1>4, <1>5, <1>6, <1>7 DEF Next

\* The invariant behind the rows that are found in memory is one of the task.
LEMMA InductiveRows ==
  LongWindows /\ OrderedCollocation => (Spec => [](KInv /\ PassInv /\ RowInv))
<1> SUFFICES ASSUME LongWindows, OrderedCollocation
             PROVE  Spec => [](KInv /\ PassInv /\ RowInv)
  OBVIOUS
<1>1. Init => RowInv
  BY DEF Init, TaskInit, ProcessorInit, RowInv, RowsAhead, RowsAreRequired, MisFollows,
         NoSecondPass, WindowMoves, Busy, TurnOver
<1>2. KInv /\ KInv' /\ FinalInv /\ PassInv /\ RowInv /\ [Next]_vars => RowInv'
  BY StepRows
<1>. QED
  BY <1>1, <1>2, InductivePass, PTL DEF Spec

\* No module throws but the interpolation, and that only for a product with one
\* averaged line.
LEMMA WhatMayThrow ==
  ASSUME LongWindows, OrderedCollocation, KInv, PassInv, RowInv
  PROVE  OnlyOneAveragedLineThrows
<1>1. ~(Turn("start", "COL") /\ HasSegment(T))
  <2>1. Turn("start", "COL") => phase = "start" /\ at = 2
    BY Types, TurnIs, PipelineIs DEF Turn
  <2>. QED
    BY <2>1 DEF KInv, Present, IsStarted, HasSegment
<1>2. ~(Turn("start", "AVE") /\ HasSegment(Avg))
  <2>1. Turn("start", "AVE") => phase = "start" /\ at = 4
    BY Types, TurnIs, PipelineIs DEF Turn
  <2>. QED
    BY <2>1 DEF KInv, Present, IsStarted, HasSegment
<1>3. ~(Turn("process", "COL") /\ ColThrows)
  BY ColFinds
<1>4. ASSUME Turn("process", "AEI"), AeiThrows
      PROVE  grid[Avg].sizeL = 1
  <2>1. phase = "process"
    BY <1>4 DEF Turn
  <2>2. grid[Avg].maxL \in Nat /\ Avg \in DOMAIN grid /\ AveragingFactor \in Nat \ {0}
    BY <2>1, AveragedSegment, Types
  <2>3. PICK l \in AeiLines : SourceL0(l) < 0
    BY <1>4 DEF AeiThrows
  <2> DEFINE x == Larger(l - AveragingFactor \div 2, 0)
             d == x \div AveragingFactor
  <2>4. SourceL0(l) = MinMax(d, 0, grid[Avg].maxL - 1)
    BY DEF SourceL0
  <2>5. d < 0 \/ grid[Avg].maxL - 1 < 0
    <3> HIDE DEF d
    <3>. QED
      BY <2>2, <2>3, <2>4 DEF MinMax
  <2>6. d \in Nat
    <3>1. l \in Nat
      <4>1. GetFirstComputableL(T, "AEI") \in Nat
        <5>1. /\ grid[T].minInMemoryL \in Nat /\ T \in Segment /\ "AEI" \in Module
          BY <2>1, Windows
        <5>. QED
          BY <5>1, Types DEF GetFirstComputableL, HasLastComputedL, Larger
      <4>2. AeiLastL \in Nat
        BY <2>1, AeiRow
      <4>. QED
        BY <4>1, <4>2 DEF AeiLines
    <3>2. x \in Nat
      <4>1. AveragingFactor \div 2 \in Nat
        BY <2>2, Division
      <4>. QED
        BY <3>1, <4>1 DEF Larger
    <3> HIDE DEF x
    <3>. QED
      BY <2>2, <3>2, Division
  <2> HIDE DEF d
  <2>7. grid[Avg].maxL = 0
    BY <2>2, <2>5, <2>6
  <2>. QED
    BY <2>2, <2>7 DEF KInv, ShapesFit
<1>. QED
  BY <1>1, <1>2, <1>3, <1>4 DEF OnlyOneAveragedLineThrows, IsFaulty, ColIsFaulty

\* No module reads a row that has left memory or registers one the context
\* refuses: what the collocation requires for itself lasts until its lines are
\* computed, and the window moves on before the collocation is without a line
\* and would require nothing.  Only a single averaged line makes Aei throw.
THEOREM RowsAreInMemory ==
  LongWindows /\ OrderedCollocation => (Spec => []OnlyOneAveragedLineThrows)
<1> SUFFICES ASSUME LongWindows, OrderedCollocation
             PROVE  Spec => []OnlyOneAveragedLineThrows
  OBVIOUS
<1>1. KInv /\ PassInv /\ RowInv => OnlyOneAveragedLineThrows
  BY WhatMayThrow
<1>. QED
  BY <1>1, InductiveRows, PTL

=============================================================================
