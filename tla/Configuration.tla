--------------------------- MODULE Configuration ----------------------------
(***************************************************************************)
(* How a task is configured (util/BasicTask, util/JobOrderParser,          *)
(* core/IpfConfiguration, util/DictionaryParser, core/Dictionary): the job *)
(* order and the file with the auxiliary data it names are parsed, then    *)
(* the log is created, then the dictionary of the products is parsed.      *)
(*                                                                         *)
(* Documents are modelled by what the queries of the parsers select from   *)
(* them.  An element without text and an attribute that is missing are     *)
(* the empty string, which the queries for lists do not select.            *)
(***************************************************************************)
EXTENDS Integers, SequencesExt

CONSTANTS
  Setups,       \* the job orders and dictionaries a task may find
  LogMayFail,   \* whether the log file may not be created
  NoDocument    \* what a path refers to that is no valid document

ASSUME LogAssumption == LogMayFail \in BOOLEAN

VARIABLES
  document,        \* the job order
  resources,       \* the documents of the dictionary, as the directories list them
  stage,           \* what the task is doing
  configuration,   \* the configuration in the job order, once it is parsed
  dictionary,      \* the segment descriptors of the source and the target product
  exitCode         \* what the task has returned

configurationVars == <<document, resources, stage, configuration, dictionary, exitCode>>

Nothing == << >>

\* ExitCode.cpp; a task that throws out of main is aborted.
Running == "running"
OK      == "0"
FAILURE == "128"
Aborted == "aborted"

End(code) == stage' = "ended" /\ exitCode' = code

-----------------------------------------------------------------------------
(* The job order. *)

NonEmpty(list) == SelectSeq(list, LAMBDA text : text # "")

\* Two lists that are selected by two queries are joined by position.
Field(list, field) == NonEmpty([i \in DOMAIN list |-> list[i][field]])

JoinThrows(keys, values) == Len(keys) > Len(values)

\* Mutant: the last value goes with the first key.
JoinReversed(keys, values) ==
  [i \in DOMAIN keys |-> <<keys[i], values[Len(values) + 1 - i]>>]

Join(keys, values) == [i \in DOMAIN keys |-> <<keys[i], values[i]>>]

ProcessingParameters(d) == Join(Field(d.parameters, "name"), Field(d.parameters, "value"))

\* The first parameter of that name counts; a name without one reads empty.
GetDynamicProcessingParameter(c, name) ==
  LET found == {i \in DOMAIN c.parameters : c.parameters[i][1] = name}
  IN  IF found = {} THEN "" ELSE c.parameters[Min(found)][2]

\* A job order need not name a file with auxiliary data.
AuxFiles(d) ==
  IF d.aux = NoDocument \/ ~ d.hasAux THEN Nothing
  ELSE Join(Field(d.aux, "id"), Field(d.aux, "name"))

HasDuplicates(pairs) == \E i, j \in DOMAIN pairs : i # j /\ pairs[i][1] = pairs[j][1]

LogLevels == {"DEBUG", "INFO", "PROGRESS", "WARNING", "ERROR"}

LogLevel(d) == IF d.logLevel \in LogLevels THEN d.logLevel ELSE "INFO"

\* Every sub-list of a processor is parsed, its first processor is used.
IpfProcessor(d) == [inputs |-> d.inputs, outputs |-> d.outputs]

JobOrderThrows(d) ==
  \/ d = NoDocument
  \/ JoinThrows(Field(d.parameters, "name"), Field(d.parameters, "value"))
  \/ d.hasAux /\ d.aux = NoDocument
  \/ d.hasAux /\ JoinThrows(Field(d.aux, "id"), Field(d.aux, "name"))
  \/ HasDuplicates(AuxFiles(d))

ParseJobOrder ==
  /\ stage = "job order"
  /\ IF JobOrderThrows(document)
       THEN End(FAILURE) /\ UNCHANGED configuration
       ELSE /\ configuration' =
                 [parameters |-> ProcessingParameters(document),
                  aux        |-> AuxFiles(document),
                  logLevel   |-> LogLevel(document),
                  processor  |-> IpfProcessor(document)]
            /\ stage' = "logging"
            /\ UNCHANGED exitCode
  /\ UNCHANGED <<document, resources, dictionary>>

CreateLogging ==
  /\ stage = "logging"
  /\ \/ stage' = "dictionary" /\ UNCHANGED exitCode
     \/ LogMayFail /\ End(FAILURE)
  /\ UNCHANGED <<document, resources, configuration, dictionary>>

-----------------------------------------------------------------------------
(* The dictionary: a directory for the source and one for the target       *)
(* product hold a document for every file of the product; they are read in *)
(* the order the directories list them.                                    *)

\* An element of a descriptor, or of a list of descriptors, by its name.
HasElement(elements, name) == \E i \in DOMAIN elements : elements[i].name = name

PositionOf(elements, name) == CHOOSE i \in DOMAIN elements : elements[i].name = name

GetElement(elements, name) == elements[PositionOf(elements, name)]

\* The descriptor of the variable v of document d.
NewVariableDescriptor(d, v) ==
  [name |-> v.name, ncName |-> IF v.ncName = "" THEN v.name ELSE v.ncName,
   file |-> d.file, dims |-> v.dims, attributes |-> v.attributes]

\* Adding an element to a segment throws when its name is taken.
AddVariableDescriptor(segments, d, v) ==
  IF HasElement(segments, v.segment)
    THEN [segments EXCEPT ![PositionOf(segments, v.segment)].variables =
            Append(@, NewVariableDescriptor(d, v))]
    ELSE Append(segments, [name      |-> v.segment,
                           variables |-> <<NewVariableDescriptor(d, v)>>])

ParseVariables(segments, d) ==
  FoldLeft(LAMBDA s, v : AddVariableDescriptor(s, d, v), segments, d.variables)

ParseProduct(documents) == FoldLeft(ParseVariables, Nothing, documents)

ProductThrows(documents) ==
  \/ \E i \in DOMAIN documents : documents[i] = NoDocument
  \/ \E s \in Range(ParseProduct(documents)) :
       \E i, j \in DOMAIN s.variables : i # j /\ s.variables[i].name = s.variables[j].name

\* Nothing catches what the parser of the dictionary throws.
ParseDictionary ==
  /\ stage = "dictionary"
  /\ IF ProductThrows(resources.source) \/ ProductThrows(resources.target)
       THEN End(Aborted) /\ UNCHANGED dictionary
       ELSE /\ dictionary' = [source |-> ParseProduct(resources.source),
                              target |-> ParseProduct(resources.target)]
            /\ stage' = "processing"
            /\ UNCHANGED exitCode
  /\ UNCHANGED <<document, resources, configuration>>

-----------------------------------------------------------------------------
\* A task that is given no job order ends at once.
ConfigurationInit ==
  /\ \E s \in Setups : document = s.document /\ resources = s.resources
  /\ configuration = Nothing
  /\ dictionary = [source |-> Nothing, target |-> Nothing]
  /\ \/ stage = "job order" /\ exitCode = Running
     \/ stage = "ended" /\ exitCode = FAILURE

Configure == ParseJobOrder \/ CreateLogging \/ ParseDictionary
=============================================================================
