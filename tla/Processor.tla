----------------------------- MODULE Processor -----------------------------
(***************************************************************************)
(* The main loop of a task (core/MultiSourceProcessor, core/ErrorHandler): *)
(* for every source product the modules are started in order, then all of  *)
(* them process what they can and all windows slide forward, until the     *)
(* context is completed, and then the modules are stopped in reverse       *)
(* order.  An exception ends the program with an exit code.                *)
(*                                                                         *)
(* The module holds the control state; what a module does when it is       *)
(* started, when it processes and when it is stopped is left to the        *)
(* modules that extend this one.                                           *)
(***************************************************************************)
EXTENDS Context

CONSTANT Sources   \* the number of source products of the job order

ASSUME SourcesAssumption == Sources \in Nat \ {0}

VARIABLES
  phase,      \* what the loop is doing
  at,         \* the index in Pipeline of the module whose turn it is
  source,     \* the source product being processed
  exitCode    \* what the program has returned

controlVars == <<phase, at, source, exitCode>>

Phase == {"start", "process", "move", "stop", "done", "failed"}

\* ExitCode.cpp; Running until the program ends.
Running    == "running"
OK         == "0"
INCOMPLETE == "1"
FAILURE    == "128"

Turn(p, m) == phase = p /\ Pipeline[at] = m

-----------------------------------------------------------------------------
(* The conjuncts that end the turn of a module. *)

StartNext ==
  /\ \/ at < Len(Pipeline) /\ at' = at + 1 /\ phase' = phase
     \/ at = Len(Pipeline) /\ at' = 1 /\ phase' = "process"
  /\ UNCHANGED <<source, exitCode>>

ProcessNext ==
  /\ \/ at < Len(Pipeline) /\ at' = at + 1 /\ phase' = phase
     \/ at = Len(Pipeline) /\ at' = 1 /\ phase' = "move"
  /\ UNCHANGED <<source, exitCode>>

\* Mutant: the reverse loop runs too far.
StopNextTooFar ==
  /\ at' = at - 1
  /\ UNCHANGED <<phase, source, exitCode>>

StopNext ==
  \/ /\ at > 1
     /\ at' = at - 1
     /\ UNCHANGED <<phase, source, exitCode>>
  \/ /\ at = 1 /\ source < Sources
     /\ phase' = "start"
     /\ source' = source + 1
     /\ UNCHANGED <<at, exitCode>>
  \/ /\ at = 1 /\ source = Sources
     /\ phase' = "done"
     /\ exitCode' = OK
     /\ UNCHANGED <<at, source>>

\* Mutant: the exit codes of stop() and process() are swapped.
ExitCodeSwapped(p) == IF p = "stop" THEN FAILURE ELSE INCOMPLETE

\* The end of the program in the error handler, which does not stop the
\* modules and removes nothing.  The loop annotates the exception with an exit
\* code, but only a boost::exception keeps the annotation: enable_error_info
\* annotates a copy, and the handler takes FAILURE for an exception without.
ExitCodeOf(p) == IF p = "stop" THEN INCOMPLETE ELSE FAILURE

Throw ==
  /\ phase' = "failed"
  /\ exitCode' \in {ExitCodeOf(phase), FAILURE}
  /\ UNCHANGED <<at, source>>
  /\ UNCHANGED contextVars

-----------------------------------------------------------------------------
\* The end of a pass: every window slides forward and the loop condition is
\* evaluated.
MoveSegmentsForward ==
  LET moved == [s \in DOMAIN grid |-> MovedGrid(s)]
  IN /\ phase = "move"
     /\ grid' = moved
     /\ IF IsCompleted(moved) THEN phase' = "stop" /\ at' = Len(Pipeline)
                              ELSE phase' = "process" /\ at' = 1
     /\ UNCHANGED <<lastComputedL, firstRequiredL, source, exitCode>>

\* The program has returned.
Exited ==
  /\ phase \in {"done", "failed"}
  /\ UNCHANGED controlVars
  /\ UNCHANGED contextVars

ProcessorInit ==
  /\ ContextInit
  /\ phase = "start"
  /\ at = 1
  /\ source = 1
  /\ exitCode = Running

ProcessorTypeOK ==
  /\ ContextTypeOK
  /\ phase \in Phase
  /\ at \in DOMAIN Pipeline
  /\ source \in 1..Sources
  /\ exitCode \in {Running, OK, INCOMPLETE, FAILURE}
=============================================================================
