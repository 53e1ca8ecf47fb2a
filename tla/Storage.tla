------------------------------ MODULE Storage -------------------------------
(***************************************************************************)
(* The memory of a segment (core/SwathSegment, core/MapSegment,            *)
(* core/GridImpl, core/AbstractAccessor, core/MapAccessor) between the     *)
(* reader, the modules and the writer.                                     *)
(*                                                                         *)
(* A variable of a segment is a flat array of sizeK * sizeL * sizeM        *)
(* samples: the rows in memory of every camera, one camera after the       *)
(* other.  Sliding the window shifts the samples of each camera.  The      *)
(* segment of a map has all its rows in memory and never slides.           *)
(***************************************************************************)
EXTENDS Integers, FiniteSetsExt

CONSTANTS
  Shape,   \* the shapes of segments: [sizeK, sizeL, sizeM, maxL, dims, isMap]
  Chunk,   \* how many samples the file behind a map is extended by at a time
  Fill     \* the fill value

ASSUME ChunkAssumption == Chunk \in Nat \ {0}

ASSUME ShapeAssumption ==
  \A s \in Shape :
     /\ {s.sizeK, s.sizeL, s.sizeM} \subseteq Nat \ {0}
     /\ s.maxL \in Nat
     /\ s.sizeL - 1 <= s.maxL
     /\ s.isMap => s.sizeL - 1 = s.maxL
     /\ s.dims \in 1..3
     /\ s.dims < 3 => s.sizeK = 1
     /\ s.dims < 2 => s.maxL = 0

VARIABLES
  shape,          \* the shape of the segment, which never changes
  minInMemoryL,   \* the first row in memory
  accessors,      \* name of a variable -> its flat array
  lastReadL,      \* the last row the reader has registered, or -1
  file            \* the target file: position -> sample

vars == <<shape, minInMemoryL, accessors, lastReadL, file>>

StrideK == shape.sizeM * shape.sizeL
StrideL == shape.sizeM

MaxInMemoryL == minInMemoryL + shape.sizeL - 1

Positions == (0..shape.sizeK - 1) \X (0..shape.maxL) \X (0..shape.sizeM - 1)
InMemory  == {p \in Positions : p[2] \in minInMemoryL..MaxInMemoryL}

\* Positions outside the window make getIndex throw.
GetIndex(p) == p[1] * StrideK + (p[2] - minInMemoryL) * StrideL + p[3]

Size    == shape.sizeK * StrideK
Indexes == 0..Size - 1

-----------------------------------------------------------------------------
(* What the source product holds at a position, and what a module makes of *)
(* a sample.                                                               *)
SourceValue(p) == <<"read", p>>
Result(v)      == IF v = Fill THEN Fill ELSE <<"computed", v>>

SwathArray == [i \in Indexes |-> Fill]

\* The samples of a map are those of a file that is mapped to memory.  It is
\* filled chunk by chunk, each behind the one before; only as much as has been
\* written can be addressed.
ChunkStarts == {i \in Indexes : i % Chunk = 0}

MapArray ==
  [i \in UNION {s..(s + Min({Chunk, Size - s}) - 1) : s \in ChunkStarts} |-> Fill]

NewArray == IF shape.isMap THEN MapArray ELSE SwathArray

\* The segment throws when it already has a variable of that name.
IsUnique(n) == n \notin DOMAIN accessors

AddVariable(n) ==
  /\ IsUnique(n)
  /\ accessors' = [v \in DOMAIN accessors \cup {n} |-> IF v = n THEN NewArray ELSE accessors[v]]
  /\ UNCHANGED <<shape, minInMemoryL, lastReadL, file>>

-----------------------------------------------------------------------------
(* Reading and writing: the netCDF library runs through a hyperslab with   *)
(* the last dimension varying fastest and through the buffer sample by     *)
(* sample.                                                                 *)

CountVector(lines) ==
  CASE shape.dims = 3 -> <<shape.sizeK, lines, shape.sizeM>>
    [] shape.dims = 2 -> <<lines, shape.sizeM>>
    [] shape.dims = 1 -> <<shape.sizeM>>

StartVector(line) ==
  CASE shape.dims = 3 -> <<0, line, 0>>
    [] shape.dims = 2 -> <<line, 0>>
    [] shape.dims = 1 -> <<0>>

\* The position of the product that the coordinates of a file stand for.
PositionOf(coords) ==
  CASE shape.dims = 3 -> coords
    [] shape.dims = 2 -> <<0, coords[1], coords[2]>>
    [] shape.dims = 1 -> <<0, 0, coords[1]>>

\* How many samples of a hyperslab follow when a coordinate grows by one.
Weight(count, d) ==
  LET Count(e) == IF e \in DOMAIN count THEN count[e] ELSE 1
  IN  Count(d + 1) * Count(d + 2)

\* The position of the i-th sample of the hyperslab that starts at start.
HyperslabPosition(start, count, i) ==
  PositionOf([d \in DOMAIN count |-> start[d] + ((i \div Weight(count, d)) % count[d])])

Transferred ==
  [i \in Indexes |->
     HyperslabPosition(StartVector(minInMemoryL),
                       CountVector(MaxInMemoryL - minInMemoryL + 1), i)]

\* The reader reads the whole window again unless its last row has been read.
\* An entry of 0 reads like no entry.
Read ==
  /\ "source" \in DOMAIN accessors
  /\ lastReadL <= 0 \/ lastReadL < MaxInMemoryL
  /\ accessors' = [accessors EXCEPT !["source"] =
                     [i \in Indexes |-> SourceValue(Transferred[i])]]
  /\ lastReadL' = MaxInMemoryL
  /\ UNCHANGED <<shape, minInMemoryL, file>>

\* A module computes a row in memory from samples of the same row.
Put(l) ==
  /\ {"source", "result"} \subseteq DOMAIN accessors
  /\ l \in minInMemoryL..MaxInMemoryL
  /\ accessors' = [accessors EXCEPT !["result"] =
       [i \in Indexes |->
          IF \E p \in InMemory : p[2] = l /\ GetIndex(p) = i
            THEN Result(accessors["source"][i]) ELSE @[i]]]
  /\ UNCHANGED <<shape, minInMemoryL, lastReadL, file>>

Write ==
  /\ "result" \in DOMAIN accessors
  /\ file' = [p \in Positions |->
                LET from == {i \in Indexes : Transferred[i] = p}
                IN  IF from = {} THEN file[p]
                    ELSE accessors["result"][CHOOSE i \in from : TRUE]]
  /\ UNCHANGED <<shape, minInMemoryL, accessors, lastReadL>>

-----------------------------------------------------------------------------
(* Sliding the window. *)

\* Mutants: the array is shifted as a whole, or the rows that enter keep what
\* lay behind the samples moved.
ShiftedAsOne(array, n) ==
  [i \in Indexes |-> IF i < Size - n * StrideL THEN array[i + n * StrideL] ELSE Fill]

ShiftedWithoutFill(array, n) ==
  [i \in Indexes |-> IF i % StrideK < StrideK - n * StrideL THEN array[i + n * StrideL] ELSE array[i]]

Shifted(array, n) ==
  [i \in Indexes |-> IF i % StrideK < StrideK - n * StrideL THEN array[i + n * StrideL] ELSE Fill]

\* Mutant: the window may leave its segment at the end.
MoveForwardUnclamped(l) ==
  /\ ~ shape.isMap
  /\ l \in minInMemoryL..MaxInMemoryL + 1
  /\ minInMemoryL' = l
  /\ accessors' = [n \in DOMAIN accessors |-> Shifted(accessors[n], l - minInMemoryL)]
  /\ UNCHANGED <<shape, lastReadL, file>>

\* Moving a window throws unless l lies in it or directly behind it.
MoveForward(l) ==
  /\ ~ shape.isMap
  /\ l \in minInMemoryL..MaxInMemoryL + 1
  /\ minInMemoryL' = Min({l, shape.maxL - shape.sizeL + 1})
  /\ accessors' = [n \in DOMAIN accessors |-> Shifted(accessors[n], minInMemoryL' - minInMemoryL)]
  /\ UNCHANGED <<shape, lastReadL, file>>

-----------------------------------------------------------------------------
Init ==
  /\ shape \in Shape
  /\ minInMemoryL = 0
  /\ accessors = [n \in {} |-> [i \in Indexes |-> Fill]]
  /\ lastReadL = -1
  /\ file = [p \in Positions |-> Fill]

Next ==
  \/ \E n \in {"source", "result"} : AddVariable(n)
  \/ Read
  \/ \E l \in 0..shape.maxL : Put(l)
  \/ Write
  \/ \E l \in 0..shape.maxL + 1 : MoveForward(l)

Spec == Init /\ [][Next]_vars

-----------------------------------------------------------------------------
(* Properties. *)

\* The window stays within the segment, and every array has one sample for
\* each pixel of the window (GridImpl, SwathSegment::moveForward).
TypeOK ==
  /\ shape \in Shape
  /\ minInMemoryL \in 0..shape.maxL - shape.sizeL + 1
  /\ \A n \in DOMAIN accessors : DOMAIN accessors[n] = Indexes
  /\ lastReadL \in -1..shape.maxL
  /\ DOMAIN file = Positions

\* The position an index of the arrays stands for and the content the window
\* gives a variable; positions outside the window hold the fill value.
Content(n) ==
  [p \in Positions |-> IF p \in InMemory THEN accessors[n][GetIndex(p)] ELSE Fill]

Abstract == INSTANCE RowStore WITH
  window  <- minInMemoryL..MaxInMemoryL,
  content <- [n \in DOMAIN accessors |-> Content(n)],
  target  <- file

\* To its users a segment is an array over all rows of the product: neither
\* the shifting of the flat arrays nor the transfer of whole windows from and
\* to files moves a sample to another camera, row or column, loses one whose
\* row is still in memory or brings one back that has left it.
ImplementsRowStore == Abstract!Spec

\* No sample that was read for one position is ever found at, or written to
\* the file at, another one.
SamplesStayInPlace ==
  /\ \A p \in Positions : file[p] \in {Fill, Result(SourceValue(p))}
  /\ \A n \in DOMAIN accessors : \A p \in InMemory :
       accessors[n][GetIndex(p)] \in {Fill, SourceValue(p), Result(SourceValue(p))}
=============================================================================
