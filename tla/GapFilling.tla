----------------------------- MODULE GapFilling -----------------------------
(***************************************************************************)
(* The parallel loop of Aer::process that fills the gaps of the aerosol    *)
(* retrieval.  Each averaged line FirstL..LastFillableL is filled by some  *)
(* thread: a pixel without a successful retrieval gets the weighted mean   *)
(* of the successful pixels at most FillDistance lines and columns away.   *)
(* These lie in lines that other threads are filling at the same time, and *)
(* nothing is locked.                                                      *)
(*                                                                         *)
(* Every line is a thread here, which covers every schedule of the loop.   *)
(* A pixel is a line and a column; the columns of all cameras are numbered *)
(* one after the other (targetN, sourceN).  An aerosol value is abstracted *)
(* to the set of retrieved pixels it was computed from; the weights, the   *)
(* background values and the number of the aerosol model, which goes the   *)
(* way of the values, are left out.                                        *)
(***************************************************************************)
EXTENDS Integers

CONSTANTS
  MaxL,           \* the last line of the averaged segment
  MaxN,           \* the last column, over all cameras
  FillDistance,   \* the n of Aer::process
  FirstL,         \* the first line that is computable in this pass
  LastL           \* the last line that is computable in this pass

ASSUME GapFillingAssumption ==
  /\ MaxL \in Nat
  /\ MaxN \in Nat
  /\ FillDistance \in Nat
  /\ FirstL \in 0..MaxL
  /\ LastL \in 0..MaxL

\* The lines around a line to be filled must have been retrieved.
LastFillableL == IF LastL < MaxL THEN LastL - FillDistance ELSE LastL

Line   == FirstL..LastFillableL
Column == 0..MaxN
Pixel  == (0..MaxL) \X Column

\* The flags of the aerosol retrieval that the loop looks at.
Flag == {"SUCCESS", "FILLED"}

\* What a thread reads of a pixel whose values are being written.
Torn == {<<-1, -1>>}

VARIABLES
  flags,    \* pixel -> its flags
  value,    \* pixel -> the retrieved pixels its aerosol values stem from
  thread    \* line -> the local variables of the thread that fills it

fillingVars == <<flags, value, thread>>

IsSet(p, f) == f \in flags[p]

-----------------------------------------------------------------------------
(* The source positions of a pixel, in the order of the two inner loops.   *)

IsValidPosition(q) == q \in Pixel

IsLastPosition(t, l) ==
  t.sourceL = l + FillDistance /\ t.sourceN = t.n + FillDistance

\* The thread after it has dealt with its source position.
NextPosition(t, l) ==
  CASE IsLastPosition(t, l) -> [t EXCEPT !.pc = "put"]
    [] t.sourceN = t.n + FillDistance /\ t.sourceL < l + FillDistance ->
         [t EXCEPT !.pc = "scan", !.sourceL = @ + 1, !.sourceN = t.n - FillDistance]
    [] OTHER -> [t EXCEPT !.pc = "scan", !.sourceN = @ + 1]

\* The thread after it has dealt with its target pixel.
NextPixel(t) ==
  IF t.n < MaxN THEN [t EXCEPT !.pc = "take", !.n = @ + 1] ELSE [t EXCEPT !.pc = "done"]

-----------------------------------------------------------------------------
(* The steps of the thread that fills line l. *)

\* A pixel that has been retrieved successfully is left alone.
KeepPixel(l) ==
  LET t == thread[l]
  IN /\ t.pc = "take"
     /\ IsSet(<<l, t.n>>, "SUCCESS")
     /\ thread' = [thread EXCEPT ![l] = NextPixel(t)]
     /\ UNCHANGED <<flags, value>>

\* Mutant: every pixel is filled.
TakeEveryPixel(l) ==
  LET t == thread[l]
  IN /\ t.pc = "take"
     /\ thread' = [thread EXCEPT ![l] =
          [t EXCEPT !.pc = "scan", !.mean = {},
                    !.sourceL = l - FillDistance, !.sourceN = t.n - FillDistance]]
     /\ UNCHANGED <<flags, value>>

\* The mean starts with background values.
TakePixel(l) ==
  LET t == thread[l]
  IN /\ t.pc = "take"
     /\ ~IsSet(<<l, t.n>>, "SUCCESS")
     /\ thread' = [thread EXCEPT ![l] =
          [t EXCEPT !.pc = "scan", !.mean = {},
                    !.sourceL = l - FillDistance, !.sourceN = t.n - FillDistance]]
     /\ UNCHANGED <<flags, value>>

SkipPosition(l) ==
  LET t == thread[l]
  IN /\ t.pc = "scan"
     /\ ~IsValidPosition(<<t.sourceL, t.sourceN>>)
     /\ thread' = [thread EXCEPT ![l] = NextPosition(t, l)]
     /\ UNCHANGED <<flags, value>>

\* getPixel reads the aerosol values before it reads the flags.
ReadValue(l) ==
  LET t == thread[l]
  IN /\ t.pc = "scan"
     /\ IsValidPosition(<<t.sourceL, t.sourceN>>)
     /\ thread' = [thread EXCEPT ![l] =
          [t EXCEPT !.pc = "flags", !.seen = value[<<t.sourceL, t.sourceN>>]]]
     /\ UNCHANGED <<flags, value>>

\* Mutant: filled pixels are taken for sources, too.
IsSourceIfFilled(q) == IsSet(q, "SUCCESS") \/ IsSet(q, "FILLED")

\* The pixels that contribute to the mean.
IsSource(q) == IsSet(q, "SUCCESS")

ReadFlags(l) ==
  LET t == thread[l]
      mean == IF IsSource(<<t.sourceL, t.sourceN>>) THEN t.mean \cup t.seen ELSE t.mean
  IN /\ t.pc = "flags"
     /\ thread' = [thread EXCEPT ![l] = NextPosition([t EXCEPT !.mean = mean], l)]
     /\ UNCHANGED <<flags, value>>

\* putPixel writes the flags before it writes the aerosol values, ...
PutFlags(l) ==
  LET t == thread[l]
  IN /\ t.pc = "put"
     /\ flags' = [flags EXCEPT ![<<l, t.n>>] = @ \cup {"FILLED"}]
     /\ thread' = [thread EXCEPT ![l].pc = "putValue"]
     /\ UNCHANGED value

\* ... and these one after the other.
PutFirstValue(l) ==
  LET t == thread[l]
  IN /\ t.pc = "putValue"
     /\ value' = [value EXCEPT ![<<l, t.n>>] = Torn]
     /\ thread' = [thread EXCEPT ![l].pc = "putRest"]
     /\ UNCHANGED flags

PutLastValue(l) ==
  LET t == thread[l]
  IN /\ t.pc = "putRest"
     /\ value' = [value EXCEPT ![<<l, t.n>>] = t.mean]
     /\ thread' = [thread EXCEPT ![l] = NextPixel(t)]
     /\ UNCHANGED flags

\* The end of the parallel loop: all threads have joined.
Joined ==
  /\ \A l \in Line : thread[l].pc = "done"
  /\ UNCHANGED fillingVars

-----------------------------------------------------------------------------
\* The lines up to LastL have been retrieved, and those before FirstL have been
\* filled in an earlier pass.
FillingInit ==
  /\ flags \in [Pixel -> {{}, {"SUCCESS"}, {"FILLED"}}]
  /\ \A p \in Pixel :
       /\ IsSet(p, "FILLED") => p[1] < FirstL
       /\ IsSet(p, "SUCCESS") => p[1] <= LastL
  /\ value = [p \in Pixel |-> {p}]
  /\ thread = [l \in Line |-> [pc |-> "take", n |-> 0, sourceL |-> l, sourceN |-> 0,
                               mean |-> {}, seen |-> {}]]

Step(l) ==
  \/ KeepPixel(l) \/ TakePixel(l)
  \/ SkipPosition(l) \/ ReadValue(l) \/ ReadFlags(l)
  \/ PutFlags(l) \/ PutFirstValue(l) \/ PutLastValue(l)

FillingNext == (\E l \in Line : Step(l)) \/ Joined

FillingSpec == FillingInit /\ [][FillingNext]_fillingVars

-----------------------------------------------------------------------------
(* Properties. *)

Thread ==
  [pc : {"take", "scan", "flags", "put", "putValue", "putRest", "done"},
   n : Column, sourceL : Int, sourceN : Int,
   mean : SUBSET (Int \X Int), seen : SUBSET (Int \X Int)]

\* Flags, values and the variables of the threads are what Aer::process makes them;
\* in particular no thread leaves the columns of the grid.
FillingTypeOK ==
  /\ flags \in [Pixel -> SUBSET Flag]
  /\ value \in [Pixel -> SUBSET (Int \X Int)]
  /\ thread \in [Line -> Thread]

IsNear(p, q) ==
  /\ p[1] - FillDistance <= q[1] /\ q[1] <= p[1] + FillDistance
  /\ p[2] - FillDistance <= q[2] /\ q[2] <= p[2] + FillDistance

\* The successful pixels around p: what p is filled from by a single thread.
Sources(p) == {q \in Pixel : IsNear(p, q) /\ IsSet(q, "SUCCESS")}

IsDone(p) ==
  p[1] \in Line /\ (p[2] < thread[p[1]].n \/ thread[p[1]].pc = "done")

\* Whatever the schedule, a gap is filled from exactly the successful pixels
\* around it: as if there were one thread.  In particular no filled value is
\* used to fill another gap, and no value is seen that is half written.
FillingIsDeterministic ==
  \A p \in Pixel : IsDone(p) /\ ~IsSet(p, "SUCCESS") =>
    value[p] = Sources(p) /\ IsSet(p, "FILLED")

\* The loop writes no pixel other threads may take values from, and no line
\* but those it is to fill.
SourcesAreNotWritten ==
  [][\A p \in Pixel : IsSet(p, "SUCCESS") \/ p[1] \notin Line =>
       flags'[p] = flags[p] /\ value'[p] = value[p]]_fillingVars
=============================================================================
