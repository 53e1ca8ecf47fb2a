------------------------------ MODULE Product -------------------------------
(***************************************************************************)
(* The files of a task (reader/SynL1Reader, writer/AbstractWriter,         *)
(* writer/VgtWriter, writer/ManifestWriter, writer/SegmentWriter,          *)
(* core/NetCDF): which variables of which source file are read, which      *)
(* files and variables the writers define and write for every source       *)
(* product of the job order, and what the manifest says about them.        *)
(* Variables are identified by names, ids and files; rows are left to      *)
(* Task, samples to Storage.                                               *)
(***************************************************************************)
EXTENDS Configuration

CONSTANTS
  Layouts,       \* what the directory of a source product may hold
  Breakpoints    \* whether the segment writer is among the modules

ASSUME BreakpointsAssumption == Breakpoints \in BOOLEAN

VARIABLES
  turn,        \* what the loop over the source products is doing
  input,       \* the number of the source product
  layouts,     \* of every source product so far, what its directory holds:
               \* file -> its variables: [name, dims, attributes]
  sourceIds,   \* name of a variable -> the id the reader uses
  segments,    \* segment -> the names of its variables
  samples,     \* what has been read: <<segment, variable, file, name in file>>
  objects,     \* id of an object in the context -> the file it was read from
  targetIds,   \* name of a variable -> the id the writer uses
  coordinateL, \* coordinate segment -> the last row the writer has registered
  disk,        \* target file -> its variables and those that are written
  breakpoints, \* the same for the files of the segment writer
  manifest     \* the files with a sum in the manifest

readerVars == <<layouts, sourceIds, samples>>
writerVars == <<targetIds, coordinateL, disk, breakpoints, manifest>>

inputVars == <<document, resources, configuration>>

vars == <<configurationVars, turn, input, segments, objects, readerVars, writerVars>>

Turn(t) == stage = "processing" /\ turn = t

Step(next) == turn' = next /\ UNCHANGED <<stage, exitCode>>

\* The loop annotates what start() and process() throw with FAILURE.
Fail == End(FAILURE) /\ UNCHANGED turn

EmptyMap == [x \in {} |-> x]

Put(map, key, value) == [x \in DOMAIN map \cup {key} |-> IF x = key THEN value ELSE map[x]]

\* map::insert keeps the entry of a key that is there.
Insert(map, key, value) == IF key \in DOMAIN map THEN map ELSE Put(map, key, value)

-----------------------------------------------------------------------------
(* netCDF. *)

NoVariable == 0

\* The id of a variable is its position in the file.
GetVariableId(variables, name) ==
  IF HasElement(variables, name) THEN PositionOf(variables, name) ELSE NoVariable

NewFile == [variables |-> << >>, written |-> {}, closed |-> FALSE]

\* Defining a variable whose name is in use fails.
DefineVariable(f, name) == [f EXCEPT !.variables = Append(@, name)]

PutData(f, id) == [f EXCEPT !.written = @ \cup {f.variables[id]}]

-----------------------------------------------------------------------------
(* SynL1Reader. *)

\* Mutant: a dimension that is known keeps its size.
AddUnknownDimension(dims, d) == IF HasElement(dims, d.name) THEN dims ELSE Append(dims, d)

AddDimension(dims, d) ==
  IF HasElement(dims, d.name)
    THEN [dims EXCEPT ![PositionOf(dims, d.name)] = d]
    ELSE Append(dims, d)

\* Attributes are added one by one; one with the same name takes the new value.
AddAttributes(old, new) == {o \in old : \A a \in new : a.name # o.name} \cup new

\* The descriptor v after the reader has looked at the variable of the file.
\* What the descriptor has under other names stays.
Described(v, variable) ==
  [v EXCEPT !.dims = FoldLeft(AddDimension, v.dims, variable.dims),
            !.attributes = AddAttributes(v.attributes, variable.attributes)]

SourceVariables == UNION {Range(s.variables) : s \in Range(dictionary.source)}

\* The number of lines of a segment must be a number.
IsNumber(text) == text \in {"", "400"}

ReaderStartThrows(files) ==
  \/ ~ IsNumber(GetDynamicProcessingParameter(configuration, "Segment_Line_Count"))
  \/ \E v \in SourceVariables :
       \/ v.file \notin DOMAIN files
       \/ GetVariableId(files[v.file], v.ncName) = NoVariable
       \/ Len(GetElement(files[v.file], v.ncName).dims) \notin 1..3

\* The variables in the order in which the reader meets them.
SourceList == FlattenSeq([i \in DOMAIN dictionary.source |-> dictionary.source[i].variables])

\* Mutant: the id of a variable is its place among those of the segment.
IdsByPlace(files) ==
  FoldLeft(LAMBDA ids, s : FoldLeft(LAMBDA m, v : Put(m, v.name, PositionOf(s.variables, v.name)),
                                    ids, s.variables),
           EmptyMap, dictionary.source)

\* The ids are kept by the names of the variables, whatever their files: of two
\* variables with one name the last one counts.
SourceIds(files) ==
  FoldLeft(LAMBDA ids, v : Put(ids, v.name, GetVariableId(files[v.file], v.ncName)),
           EmptyMap, SourceList)

DescribedSegments(files) ==
  [i \in DOMAIN dictionary.source |->
     [name      |-> dictionary.source[i].name,
      variables |-> [j \in DOMAIN dictionary.source[i].variables |->
                       LET v == dictionary.source[i].variables[j]
                       IN  Described(v, GetElement(files[v.file], v.ncName))]]]

VariableNames(s) == {v.name : v \in Range(s.variables)}

AddSegments(map, descriptors) ==
  FoldLeft(LAMBDA m, s : Put(m, s.name, VariableNames(s)), map, descriptors)

ReaderStart ==
  /\ Turn("reader start")
  /\ input <= Len(configuration.processor.inputs)
  /\ \E files \in Layouts :
       /\ layouts' = Append(layouts, files)
       /\ IF ReaderStartThrows(files)
            THEN Fail /\ UNCHANGED <<dictionary, segments, sourceIds>>
            ELSE /\ dictionary' = [dictionary EXCEPT !.source = DescribedSegments(files)]
                 /\ segments' = AddSegments(segments, dictionary.source)
                 /\ sourceIds' = SourceIds(files)
                 /\ Step("target start")
  /\ UNCHANGED <<inputVars, input, samples, objects, writerVars>>

\* The directory of the source product that is processed.
layout == Last(layouts)

\* What is read for v is selected by the id.
ReadVariable(v) == layout[v.file][sourceIds[v.name]]

\* The dimensions of the descriptor give the number of starts and counts.
ReadThrows ==
  \E v \in SourceVariables :
     Len(v.dims) \notin 1..3 \/ sourceIds[v.name] \notin DOMAIN layout[v.file]

\* Starts and counts for another number of dimensions than the variable has.
\* Whether netCDF objects depends on sizes; if not, other samples are read.
Misread ==
  \E v \in SourceVariables :
    /\ sourceIds[v.name] \in DOMAIN layout[v.file]
    /\ Len(v.dims) # Len(ReadVariable(v).dims)

ReadSucceeds ==
  /\ ~ ReadThrows
  /\ samples' = UNION {{<<s.name, v.name, v.file, ReadVariable(v).name>> :
                           v \in Range(s.variables)} : s \in Range(dictionary.source)}
  /\ Step("write")

Read ==
  /\ Turn("read")
  /\ \/ ReadSucceeds
     \/ (ReadThrows \/ Misread) /\ Fail /\ UNCHANGED samples
  /\ UNCHANGED <<inputVars, dictionary, input, segments, layouts, sourceIds, objects, writerVars>>

ReaderStop ==
  /\ Turn("reader stop")
  /\ segments' = [s \in DOMAIN segments \ {d.name : d \in Range(dictionary.source)} |-> segments[s]]
  /\ sourceIds' = EmptyMap
  /\ samples' = {}
  /\ input' = input + 1
  /\ Step("reader start")
  /\ UNCHANGED <<inputVars, dictionary, layouts, objects, writerVars>>

-----------------------------------------------------------------------------
(* The modules between the reader and the writers: they take auxiliary     *)
(* data and add the segments of the target product.                        *)

TargetSegments == SelectSeq(dictionary.target, LAMBDA s : s.name # "CRS")

IsMap == HasElement(dictionary.target, "VGT")

\* The composition keeps its segments from source to source, the projection
\* cannot be started again, and the collocation removes its segment.
KeepsSegments == IsMap /\ ~ HasElement(dictionary.target, "VGT_TP")

HasTarget == \E s \in Range(TargetSegments) : s.name \in DOMAIN segments

AuxFileNames(id) == {p[2] : p \in {q \in Range(configuration.aux) : q[1] = id}}

\* An object that is in the context is not read again.
GetAuxdataProvider(id) ==
  IF id \in DOMAIN objects THEN objects
  ELSE Put(objects, id, CHOOSE f \in AuxFileNames(id) : TRUE)

TargetStart ==
  /\ Turn("target start")
  /\ IF (HasTarget /\ ~ KeepsSegments) \/ ("AUX" \notin DOMAIN objects /\ AuxFileNames("AUX") = {})
       THEN Fail /\ UNCHANGED <<segments, objects>>
       ELSE /\ segments' = AddSegments(segments, TargetSegments)
            /\ objects' = GetAuxdataProvider("AUX")
            /\ Step("writer start")
  /\ UNCHANGED <<inputVars, dictionary, input, readerVars, writerVars>>

\* Of the ten segments of the projection one is removed.
RemovedSegments ==
  IF ~ IsMap THEN {d.name : d \in Range(TargetSegments)}
  ELSE IF KeepsSegments THEN {} ELSE {"VGT"}

TargetStop ==
  /\ Turn("target stop")
  /\ segments' = [s \in DOMAIN segments \ RemovedSegments |-> segments[s]]
  /\ Step("reader stop")
  /\ UNCHANGED <<inputVars, dictionary, input, objects, readerVars, writerVars>>

-----------------------------------------------------------------------------
(* AbstractWriter and VgtWriter. *)

CoordinateSegments == {"VGT_LAT", "VGT_LON"}
TiePointCoordinateSegments == {"VGT_LAT_TP", "VGT_LON_TP"}

\* The segments the writer writes files for.
WrittenSegments ==
  SelectSeq(dictionary.target,
            LAMBDA s : /\ s.name \notin CoordinateSegments \cup TiePointCoordinateSegments \cup {"CRS"}
                       /\ s.name \in DOMAIN segments)

\* The segments with the coordinates of a file that holds segment s.
CoordinatesOf(s) ==
  SelectSeq(dictionary.target,
            LAMBDA c : c.name \in (IF s = "VGT_TP" THEN TiePointCoordinateSegments
                                                  ELSE CoordinateSegments))

CoordinateNames(s) ==
  FlattenSeq([i \in DOMAIN CoordinatesOf(s) |->
                [j \in DOMAIN CoordinatesOf(s)[i].variables |-> CoordinatesOf(s)[i].variables[j].name]])

\* A new file of a map defines the coordinates and the reference system first.
CreateFile(s) ==
  [NewFile EXCEPT !.variables = IF IsMap THEN CoordinateNames(s) \o <<"crs">> ELSE << >>]

\* w is what the writer has opened: [files, ids].
Define(w, s, v) ==
  LET f == IF v.file \in DOMAIN w.files THEN w.files[v.file] ELSE CreateFile(s)
  IN  [files |-> Put(w.files, v.file, DefineVariable(f, v.ncName)),
       ids   |-> Insert(w.ids, v.name, Len(f.variables) + 1)]

DefineSegment(w, s) == FoldLeft(LAMBDA x, v : Define(x, s.name, v), w, s.variables)

Defined == FoldLeft(DefineSegment, [files |-> EmptyMap, ids |-> EmptyMap], WrittenSegments)

\* A name that is in use cannot be defined again.
DefineThrows ==
  \E f \in DOMAIN Defined.files : ~ IsInjective(Defined.files[f].variables)

\* Creating a file truncates the one of an earlier source product.
WriterStart ==
  /\ Turn("writer start")
  /\ IF configuration.processor.outputs = Nothing \/ DefineThrows
       THEN Fail /\ UNCHANGED <<disk, targetIds>>
       ELSE /\ disk' = [f \in DOMAIN disk \cup DOMAIN Defined.files |->
                          IF f \in DOMAIN Defined.files THEN Defined.files[f] ELSE disk[f]]
            /\ targetIds' = Defined.ids
            /\ Step(IF Breakpoints THEN "breakpoint start" ELSE "read")
  /\ UNCHANGED <<inputVars, dictionary, input, segments, objects, readerVars,
                 coordinateL, breakpoints, manifest>>

\* Mutant: an entry of 0 counts as an entry.
LastComputedLWithZero(l) == l

\* Entries that are not greater than zero read like no entry.
LastComputedL(l) == IF l > 0 THEN l ELSE -1

\* The coordinates of a file, which have one row each, are written along with
\* its variables unless their only row has been registered.
PutCoordinates(w, s, file) ==
  FoldLeft(LAMBDA x, c :
             IF LastComputedL(x.last[c.name]) < 0
               THEN [disk |-> [x.disk EXCEPT ![file].written = @ \cup VariableNames(c)],
                     last |-> [x.last EXCEPT ![c.name] = 0]]
               ELSE x,
           w, IF IsMap THEN CoordinatesOf(s) ELSE << >>)

WriteVariable(w, s, v) ==
  PutCoordinates([w EXCEPT !.disk = Put(@, v.file, PutData(@[v.file], targetIds[v.name]))], s, v.file)

WriteSegment(w, s) ==
  FoldLeft(LAMBDA x, v : IF v.name \in segments[s.name] THEN WriteVariable(x, s.name, v) ELSE x,
           w, s.variables)

Write ==
  /\ Turn("write")
  /\ LET w == FoldLeft(WriteSegment, [disk |-> disk, last |-> coordinateL], WrittenSegments)
     IN  disk' = w.disk /\ coordinateL' = w.last
  /\ Step(IF Breakpoints THEN "breakpoint write" ELSE "manifest stop")
  /\ UNCHANGED <<inputVars, dictionary, input, segments, objects, readerVars,
                 targetIds, breakpoints, manifest>>

WriterStop ==
  /\ Turn("writer stop")
  /\ disk' = [f \in DOMAIN disk |-> [disk[f] EXCEPT !.closed = TRUE]]
  /\ targetIds' = EmptyMap
  /\ Step("target stop")
  /\ UNCHANGED <<inputVars, dictionary, input, segments, objects, readerVars,
                 coordinateL, breakpoints, manifest>>

-----------------------------------------------------------------------------
(* SegmentWriter, which tests add behind the writer: a file for every      *)
(* segment with all the variables it has by then.                          *)

BreakpointStart ==
  /\ Turn("breakpoint start")
  /\ breakpoints' = [s \in DOMAIN segments |-> [NewFile EXCEPT !.variables = SetToSeq(segments[s])]]
  /\ Step("read")
  /\ UNCHANGED <<inputVars, dictionary, input, segments, objects, readerVars,
                 targetIds, coordinateL, disk, manifest>>

\* Variables that have been added later are skipped.
BreakpointWrite ==
  /\ Turn("breakpoint write")
  /\ breakpoints' = [s \in DOMAIN breakpoints |->
                       [breakpoints[s] EXCEPT !.written = @ \cup (segments[s] \cap Range(breakpoints[s].variables))]]
  /\ Step("manifest stop")
  /\ UNCHANGED <<inputVars, dictionary, input, segments, objects, readerVars,
                 targetIds, coordinateL, disk, manifest>>

BreakpointStop ==
  /\ Turn("breakpoint stop")
  /\ breakpoints' = [s \in DOMAIN breakpoints |-> [breakpoints[s] EXCEPT !.closed = TRUE]]
  /\ Step("writer stop")
  /\ UNCHANGED <<inputVars, dictionary, input, segments, objects, readerVars,
                 targetIds, coordinateL, disk, manifest>>

-----------------------------------------------------------------------------
(* ManifestWriter: every netCDF file in the target directory gets its sum  *)
(* in the place the template keeps for it.                                 *)

ManifestStop ==
  /\ Turn("manifest stop")
  /\ manifest' = resources.placeholders \cap DOMAIN disk
  /\ Step(IF Breakpoints THEN "breakpoint stop" ELSE "writer stop")
  /\ UNCHANGED <<inputVars, dictionary, input, segments, objects, readerVars,
                 targetIds, coordinateL, disk, breakpoints>>

\* Mutant: the last source product is left out.
FinishEarly ==
  /\ Turn("reader start")
  /\ input >= Len(configuration.processor.inputs)
  /\ End(OK)
  /\ UNCHANGED <<inputVars, dictionary, turn, input, segments, objects, readerVars, writerVars>>

\* All source products are done.
Finish ==
  /\ Turn("reader start")
  /\ input > Len(configuration.processor.inputs)
  /\ End(OK)
  /\ UNCHANGED <<inputVars, dictionary, turn, input, segments, objects, readerVars, writerVars>>

-----------------------------------------------------------------------------
Init ==
  /\ ConfigurationInit
  /\ turn = "reader start"
  /\ input = 1
  /\ layouts = << >>
  /\ sourceIds = EmptyMap
  /\ segments = EmptyMap
  /\ samples = {}
  /\ objects = EmptyMap
  /\ targetIds = EmptyMap
  /\ coordinateL = [c \in CoordinateSegments \cup TiePointCoordinateSegments |-> -1]
  /\ disk = EmptyMap
  /\ breakpoints = EmptyMap
  /\ manifest = {}

Next ==
  \/ Configure /\ UNCHANGED <<turn, input, segments, objects, readerVars, writerVars>>
  \/ ReaderStart \/ Read \/ ReaderStop
  \/ TargetStart \/ TargetStop
  \/ WriterStart \/ Write \/ WriterStop
  \/ BreakpointStart \/ BreakpointWrite \/ BreakpointStop
  \/ ManifestStop
  \/ Finish

Spec == Init /\ [][Next]_vars

-----------------------------------------------------------------------------
(* Properties. *)

\* The task has an exit code when it has ended and only then, and is never past
\* its last source product; what is written has been defined before.
TypeOK ==
  /\ stage \in {"job order", "logging", "dictionary", "processing", "ended"}
  /\ exitCode \in {Running, OK, FAILURE, Aborted}
  /\ (stage = "ended") = (exitCode # Running)
  /\ stage = "processing" => input \in 1..Len(configuration.processor.inputs) + 1
  /\ \A f \in DOMAIN disk : disk[f].written \subseteq Range(disk[f].variables)

HasTexts(list, field) == \A i \in DOMAIN list : list[i][field] # ""

\* Names and values of a job order, and ids and names of auxiliary files, are
\* selected by separate queries.  Still every parameter has the value that is
\* given along with it, and every id its file, unless an element has no name.
ParametersAreTheirOwn ==
  configuration # Nothing =>
    /\ HasTexts(document.parameters, "name") =>
         configuration.parameters =
           [i \in DOMAIN document.parameters |->
              <<document.parameters[i].name, document.parameters[i].value>>]
    /\ document.hasAux /\ HasTexts(document.aux, "id") =>
         configuration.aux =
           [i \in DOMAIN document.aux |-> <<document.aux[i].id, document.aux[i].name>>]

\* The reader keeps ids by the names of variables only.  Still it reads from
\* every file the variable that is meant, unless variables with one name have
\* different ids in their files.
ReadsWhatItNames ==
  \A s \in samples :
    \/ \E v \in SourceVariables : v.name = s[2] /\ v.file = s[3] /\ v.ncName = s[4]
    \/ \E v, w \in SourceVariables :
         /\ v.name = s[2] /\ w.name = s[2]
         /\ GetVariableId(layout[v.file], v.ncName) # GetVariableId(layout[w.file], w.ncName)

\* The variable of the source product that v describes, as the dictionary's
\* document has it and as the source products so far have it, in this order.
Accounts(v) ==
  LET documents == {d \in Range(resources.source) : d.file = v.file}
  IN  <<CHOOSE w \in UNION {Range(d.variables) : d \in documents} : w.name = v.name>>
        \o [i \in 1..input |-> GetElement(layouts[i][v.file], v.ncName)]

\* The elements no later set of the sequence has another element for.
Latest(said) ==
  UNION {{x \in said[i] : \A j \in i + 1..Len(said) : \A y \in said[j] : y.name # x.name} :
           i \in DOMAIN said}

\* The dictionary outlives a source product and is only added to.  While a
\* source product is processed, the descriptor of a variable has every dimension
\* and attribute that the dictionary's document or a source product so far has
\* given the variable, each as the last of them that uses its name gives it,
\* and no others.  So it is what the present source product says exactly when
\* no other name has been used before.
DictionaryFollowsTheSource ==
  stage = "processing" /\ turn # "reader start" =>
    \A v \in SourceVariables :
      LET accounts == Accounts(v)
      IN  /\ Range(v.dims) = Latest([i \in DOMAIN accounts |-> Range(accounts[i].dims)])
          /\ v.attributes = Latest([i \in DOMAIN accounts |-> accounts[i].attributes])

\* Whatever has been defined in a file is written before the file is closed,
\* the coordinates of the map in every file of every source product included;
\* crs has attributes only.
EveryVariableIsWritten ==
  /\ \A f \in DOMAIN disk : disk[f].closed => disk[f].written = Range(disk[f].variables) \ {"crs"}
  /\ \A s \in DOMAIN breakpoints :
       breakpoints[s].closed => breakpoints[s].written = Range(breakpoints[s].variables)

\* A task that says it has succeeded has left all the files its manifest has
\* a place for, closed and summed, for the last of its source products.
SuccessMeansAProduct ==
  exitCode = OK /\ configuration.processor.inputs # Nothing =>
    /\ manifest = resources.placeholders
    /\ DOMAIN disk = resources.placeholders
    /\ \A f \in DOMAIN disk : disk[f].closed
=============================================================================
