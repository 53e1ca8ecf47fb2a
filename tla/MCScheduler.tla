---------------------------- MODULE MCScheduler ----------------------------
(***************************************************************************)
(* A small task for TLC: a reader fills the segment SRC, two modules       *)
(* compute the segment TGT one after the other, a writer writes it.  Every *)
(* call registers arbitrary rows within the contract, and the first        *)
(* required rows are arbitrary.                                            *)
(***************************************************************************)
EXTENDS Scheduler

CONSTANTS
  Sizes,      \* the shapes of the windows, as pairs of sizeL and maxL
  MaxRow,     \* the bound on the rows a module registers
  Required    \* the rows a module may require

MCPipeline == <<"reader", "first", "second", "writer">>
MCSegment  == {"SRC", "TGT"}
MCAdds     == [m \in {"reader", "first", "second", "writer"} |->
                 CASE m = "reader" -> {"SRC"} [] m = "first" -> {"TGT"} [] OTHER -> {}]
MCWorks    == [m \in {"reader", "first", "second", "writer"} |->
                 IF m = "reader" THEN {"SRC"} ELSE {"TGT"}]
MCRewriters == {"writer"}

Shapes == {NewGrid(shape[1], shape[2]) : shape \in Sizes}

\* The segments whose rows a module may require, to keep the choices few.
Requires(m) == IF m = "first" THEN {"SRC", "TGT"} ELSE IF m = "second" THEN {"SRC"} ELSE {}

MCStart(m) ==
  \E new \in [Adds[m] -> Shapes] : AddSegments(new) /\ Start(m)

MCProcess(m) ==
  /\ Turn("process", m)
  /\ \E last \in [Works[m] -> 0..MaxRow], first \in [Requires(m) -> Required] :
       /\ lastComputedL' = Registered(lastComputedL, m, last)
       /\ firstRequiredL' = Registered(firstRequiredL, m, first)
       /\ Process(m)

MCNext ==
  \/ \E m \in Module : MCStart(m) \/ MCProcess(m) \/ Stop(m)
  \/ MoveSegmentsForward
  \/ Fail
  \/ Exited

MCSizes    == {<<1, 0>>, <<3, 5>>}
MCRequired == {None, 1, 4}

MCSpec == Init /\ [][MCNext]_vars
=============================================================================
