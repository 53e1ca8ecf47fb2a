# Verification of the Sentinel-3 synergy processors

TLA+ modules, TLC runs and TLAPS proofs about the processors of this
repository (`src/src/main/cpp`): SYN L2 (`tasks/syl2.cpp`), VGT-P
(`tasks/vgtp.cpp`) and VGT-S (`tasks/vgts.cpp`).

A processor is a pipeline of modules that work on products far larger than
memory. The question that is hard to test is therefore not what a module puts
into a pixel but *which rows it may touch when*: every module sees only the
rows of a window, the windows of some fifteen segments slide independently, and
a module must neither read a row that is not computed yet, nor one that has
left memory, nor let the pipeline come to rest. That is what most of these
modules are about. Others follow a single pixel through the pipeline, the
samples of a window through its memory, the variables of a product through its
files, and the control of the numerical algorithms.

## The system

| component | state it keeps | operations | what makes it correct |
|---|---|---|---|
| `core/Context`, `core/GridImpl`, `core/SwathSegment` | segments with their windows, last computed rows and first required rows per segment and module | add and remove segments, register rows, ask for computable rows, slide the windows | no window leaves its segment, no row leaves memory too early, progress is never undone |
| `core/MultiSourceProcessor`, `core/ErrorHandler`, `util/BasicTask` | the turn of a module, the source product, the exit code | start, process and stop all modules for every source; turn an exception into an exit code | it ends, and only when everything is computed; the exit code is true |
| `reader/SynL1Reader` | open files, segments it added | adds the source segments, reads the windows | every row in memory has been read |
| `modules/Col` | maps of accessors | collocates OLCI and SLSTR rows on the SYN grid | reads source rows in memory only, keeps those it needs |
| `modules/Pcl`, `modules/Aco` | none | row by row on the SYN grid | after their predecessors |
| `modules/Ave`, `modules/Aer`, `modules/Aei` | the averaged segment | average 8 x 8 pixels, retrieve aerosol and fill gaps over 120 averaged lines, interpolate back | across two segments with different rows |
| `writer/AbstractWriter` and its subclasses, `writer/ManifestWriter` | open files | write the rows in memory; close the files; sum them | the last version of each row reaches the file |
| `modules/Vbm`, `Vfl`, `Vac` | cached tie points | map to VGT bands, flag, correct, row by row on the SYN grid | each row once and in this order |
| `modules/Vco`, `writer/VgtWriter` | the map, which outlives a source product | compose the pixels of all sources on the map; write it | every pixel found for the map is compared with it, though only a window is in memory |
| `modules/Vpr` | map segments | project one product on a map and on a map of tie points | as `Vco`; the pixels tile the map; a second source does not replace the first |
| `core/*Accessor`, `core/MapSegment` | the values of a window | add, read, put, write, shift rows | samples keep their positions when the window slides |
| `util/Min`, `util/MultiMin`, `util/ErrorMetric` | brackets, directions | minimise a function of one or of eight variables | never worse than the guess, in range |
| `core/LookupTable`, `core/TiePointInterpolator` | tables, sorted tie points | find the vertices or tie points to interpolate between | inside of the table, the nearest ones |
| `util/JobOrderParser`, `util/DictionaryParser`, `core/Dictionary` | configuration, dictionary | parse documents, look up descriptors | values go with their names |
| `core/NetCDF`, auxiliary data, logging, Java tools | | input and output | modelled as far as reader and writers depend on it |

The components interact by calls of one thread. The main loop calls the
modules; the modules call the context, and share data through the segments and
through the rows they register. Some modules use parallel loops inside of one
call; the lines of these loops are independent, except in the gap filling of
`Aer`, which reads lines that other threads write (module `GapFilling`). Files and
disks fail by exceptions, which end the program.

## Modules

| module | models |
|---|---|
| `Context` | the processing context: windows, registered progress, computable rows, sliding, completion |
| `Processor` | EXTENDS `Context`: the main loop over sources and modules, exceptions and exit codes |
| `Scheduler` | EXTENDS `Processor`: the abstract specification, modules that keep the contract of `core/Module.h` and are arbitrary otherwise |
| `SchedulerProofs` | EXTENDS `Scheduler`: the theorems |
| `Task` | EXTENDS `Processor`: what the tasks share, the reader, `Col`, `Pcl`, the files and the manifest, failures |
| `Syl2` | EXTENDS `Task`: the SYN L2 task with `Ave`, `Aer`, `Aei`, `Aco` and its writer; implements `Scheduler` |
| `ContextProofs` | EXTENDS `Context`: the lemmas about its operators that the proofs about the tasks share |
| `Syl2Proofs` | EXTENDS `Syl2` and `ContextProofs`: the theorems, among them that it implements `Scheduler` |
| `Mapping` | EXTENDS `Task`: what the VGT tasks share, `Vbm`, `Vfl`, the writer, and the procedure by which `Vco` and `Vpr` fill a map |
| `Vgts` | EXTENDS `Mapping`: the VGT-S task with `Vac` and `Vco` |
| `Vgtp` | EXTENDS `Mapping`: the VGT-P task with `Vpr` |
| `MappingProofs` | EXTENDS `Mapping` and `ContextProofs`: what the turns the VGT tasks share keep |
| `VgtsProofs`, `VgtpProofs` | EXTEND `Vgts` or `Vgtp`, and `MappingProofs`: the theorems |
| `SynPixel` | the pixels of a SYN L2 product through `Pcl`, `Ave`, `Aer`, `Aei` and `Aco` |
| `VgtPixel` | one pixel of the VGT-S map through `Vbm`, `Vfl`, `Vac` and `Vco` |
| `PixelProofs` | EXTENDS `SynPixel` and `VgtPixel`, which share no name: the theorems about both |
| `GapFilling` | the threads of the gap filling in `Aer::process` and their reads and writes of pixels |
| `RowStore` | the abstract specification of a segment: an array over all rows of the product |
| `Storage` | the flat arrays of a window, how they are read, put, shifted and written; implements `RowStore` |
| `Configuration` | the job order, the dictionary, and how a task ends before its loop |
| `Product` | EXTENDS `Configuration`: the files and variables that are read, defined, written and summed |
| `Minimum` | bracketing and Brent's method as the retrieval uses them |
| `Powell` | Powell's method over the angular parameters |
| `Lookup` | layout and lookup of tables of any dimension |
| `TiePoints` | which tie points a pixel is interpolated from |
| `MapCoordinates` | the coordinates of the maps and their bounds |
| `AlgorithmProofs` | EXTENDS `Storage` and `GapFilling`, with instances of `Lookup`, `TiePoints`, `MapCoordinates`, `Minimum` and `Powell`: the theorems about the seven |
| `MCScheduler`, `MCSyl2`, `MCSyl2Long`, `MCMapping`, `MCVgts`, `MCVgtp`, `MCStorage`, `MCProduct`, `MCVgtPixel`, `MCSynPixel` | small instances for TLC |

### Context

`grid[s]` is the grid of a segment (`sizeL`, `maxL`, `minInMemoryL`; the first
row of every segment of the tasks is 0). `lastComputedL` and `firstRequiredL`
are the two maps of the context; `None` stands for a missing entry.
Two details of the code are kept on purpose, since they decide what the
scheduling does: `hasLastComputedL` and `hasFirstRequiredL` take an entry of 0
for no entry (`Context.cpp:217-223`), but `moveForward` and `isCompleted` do not
(`Context.cpp:163-172, 125-130`); and a module that has no entry restrains
nobody. The operators carry the names of the methods. `ForwardL(s)` is the row
`moveForward` computes and `MovedGrid(s)` the grid after it. That
`SwathSegment::moveForward` and `GridImpl::moveForward` never throw for this row
is part of `WindowsInBounds`.

### Processor

One step per call: `phase` and `at` say whose turn it is. `StartNext`,
`ProcessNext` and `StopNext` end a turn, `MoveSegmentsForward` is the end of a
pass with the loop condition, `Throw` is an exception. An exception ends the
program in `ErrorHandler::handleError`, which calls `exit`: modules are not
stopped. `Throw` chooses between the exit code the loop attaches and 128: only a
`boost::exception` carries the attached code, for any other exception
`enable_error_info` annotates a copy (`MultiSourceProcessor.h:33-38`).

### Scheduler

`Adds`, `Works` and `Rewriters` describe a task: the segments a module adds, the
segments whose progress it registers, and the modules (the writers) that handle
the whole window in every pass. When it processes, a module registers any row
for each of its segments that `MayRegister` allows and sets any first required
rows. `MayRegister` is the contract: no row before the one registered, none
beyond the computable one, and no row 0, which would be taken for nothing,
unless the segment has one row.

### Task and Syl2

Each `start`, `process` and `stop` of each module is one action (modules without
one use `IdleStart`, `IdleProcess`, `IdleStop`). Rows are modelled and values
are not: `final[st]` is the set of rows the stage `st` has computed from rows
that were final and in memory at that moment, `file` the set of rows whose last
written version is final. A row that is computed from a row that was missing is
not final; the code does not notice this, and the properties forbid it.

`product` is what is read from the files: the rows of each source segment and,
for every line of the SYN grid, the source rows its pixels are collocated with.
In `Col::process` the loop bound changes inside of the loop and the requirement
is reset in every line; `ColLines`, `ColLastL` and `ColRequiredL` are these
effects in closed form.

Abstracted: columns, cameras and values; the copies of attributes into the
dictionary; OLC_INFO, SLN_INFO and SLO_INFO are one segment `INFO`, the tie-point
segments and OLC_TIME one segment `TP`, since they are treated alike; an
exception leaves everything as it was before the call, since nothing looks at
it afterwards.

### Mapping, Vgts and Vgtp

The source product of a run also has a position: `north` and `south` are the
latitudes of its rows, in tenths of a row of the map and growing to the south,
and `found[l]` are the source rows `PixelFinder` returns for the pixels of row
`l` of the map. `MCMapping` computes them from a tilted swath, with the code's
limit of 0.7 rows of the map; `Margin` is the distance at which the code takes
two regions for disjoint, 0.5 rows in `Vco` and 1.5 in `Vpr`.

`Vco::process` and `Vpr::process` are two copies of one procedure, and
`Mapping` has the parts they share. A pass has three outcomes, one action each:
the source has passed the map, has not reached it, or the rows that can be
finished are mapped (`VcoCompletes`, `VcoWaits`, `VcoComposes` and their
counterparts; the loop bound that changes inside of the loop is again in closed
form). `composed` holds the source rows that were compared with the map from
final rows; `inTime` are the rows within the sensing time of the job order.
The map segment and the four coordinate segments (one in the model) are added
by the first source and stay; `VcoStop` takes back the progress of `Vco`.
`VprStop` removes the map only, so that `VprStart` finds nine segments that are
there already and throws for a second source: the program fails before the
files of the first are replaced. `Vpr` also projects on the map of tie points,
every `Subsampling`-th row and column of the map.

`Vfl` registers nothing and flags every row in memory in every pass (`FlagAgain`).
`final["VFL"]` therefore loses a row when it is flagged after its correction in
VGT-S, and not in VGT-P, which corrects nothing.

### SynPixel

`Syl2` says which rows are computed when; this module follows what becomes of
pixels. `averaged` is the segment of blocks with their flags, the channels that
have an averaged radiance, the aerosol and its model; `pixel` are the flags and
the stored reflectances and errors. `Col` brings any number of further rows, so
that every way of cutting a product into passes is explored, and each module
then computes what its predecessor lets it, with its own loop bounds.
The aerosol of a block is abstracted to the set of blocks it is the mean of: its
own when the retrieval succeeds, that of its successful neighbours when it is
filled. Whether there is a minimum is `outcome`, but only as far as the code
leaves it open: `FindMinimum` has the condition on the radiances and the case in
which the metric is 0 / 0. `Corner` has the weights of `Aei` as the code computes
them, truncated to 0 or 1. `Errors` has the second loop of `Aco`, which looks at
the working arrays of the row and so at the last pixel that had a radiance.

### VgtPixel

One pixel of the map and the observations that compete for it. An observation
is mapped (`Vbm`), then flagged, corrected and compared (`Vfl`, `Vac`, `Compare`)
once for each pass its row stays in memory. Reflectances and NDVI are integers in
the resolution of the thresholds and of the comparison; `Quantised` is what
`setDouble` and `getDouble` make of an NDVI that is stored in a byte. The
correction chooses among the values the instance allows, or the fill value,
which is smaller than every threshold. `map[s]` is the observation a sample of
the map was copied from; `measured`, `source` and `best` are history variables.

### Storage and RowStore

`accessors[n]` is the flat array of a variable and `GetIndex` the index
`GridImpl` computes. `Shifted` is `AbstractAccessor::shift`, camera by camera,
with the fill value in what is new; reading and writing transfer the whole
window, with the start and count vectors of one to three dimensions. The file
behind a map grows in chunks (`MapArray`). `RowStore` knows neither windows
nor indices: an array over all positions, of which some rows are held. The
conversions of values (`setDouble` and the like) are left out.

### Configuration and Product

`Configuration` has the queries of the parsers as what they select from a
document: an element without text is not selected, and the lists are then
joined by position. `Product` has the loop of a task as far as files are
concerned: the reader finds the file of each variable, keeps its id and
completes the dictionary; the target module adds the segments of the map; the
writers define, write and close files; the manifest sums those it has a place
for. The dictionary and the objects in the context outlive a source product,
everything else is made anew. `layouts` keeps what the directories of the source
products hold, so that `DictionaryFollowsTheSource` can say where a dimension or an
attribute of a descriptor comes from. Reading with a wrong number of starts and
counts (`Misread`) fails or reads other samples; which of both depends on
sizes and is left open. Rows are those of `Task`, samples those of `Storage`.

### GapFilling

`Aer::process` fills the gaps of the aerosol retrieval in a parallel loop over
lines, and a line takes values from 120 lines on either side. `Syl2` says which
lines are filled when; this module looks into the one call. `flags` and `value`
are the shared segment, `thread[l]` the local variables of the thread that
fills line `l` (targetM and targetK as one column `n`, as the code itself does
with `targetN`). `getPixel` and `putPixel` are not atomic: the values of a pixel
are read before its flags (`ReadValue`, `ReadFlags`), the flags are written
before the values (`PutFlags`), and the values one after the other
(`PutFirstValue`, `PutLastValue`; what is read in between is `Torn`). A value is
abstracted to the set of retrieved pixels it was computed from. Each line has a
thread of its own, which covers the schedules of any number of threads: one
that fills several lines takes them one after the other. The tie points, the
weights and the interpolators `getPixel` also uses are local or constant.

### Minimum, Powell, Lookup, TiePoints and MapCoordinates

The numerics are modelled where control and indices can go wrong, with numbers
that are integers in some unit. `Minimum` has `Min::brack` and `Min::brent` with
their two callers; where Brent's method evaluates the function next is any
point of the bracket. `Powell` has the iteration of `MultiMin::powell` and the
direction it discards; a search along a direction is what `Minimum` proves
about it. `Lookup` has the constructor of `LookupTableImpl` (strides, offsets), the
bisection and the index of the first vertex, one dimension at a time. `TiePoints`
has the window of `TiePointInterpolator::prepare`, its size computed without a
sign as in the code, and the insertion of the nearest tie points. `MapCoordinates`
has the loops of `Vco` and `Vpr` over the coordinates and their bounds.

## Properties and runs

| run | instance | checks |
|---|---|---|
| `scheduler` | four modules, two segments, each of one row or of 6 rows in windows of 3, two sources, arbitrary progress, some first required rows, failures | `TypeOK`, `WindowsInBounds`, `NoRowLost`, `PipelineOrder`, `StopsWhenComputed`, `NothingLeftBehind`, `ProgressIsKept` |
| `syl2` | averaging factor 2, gaps filled over 1 line, windows of 7 and 8 rows, two sources of 2 to 14 rows, with and without misregistration, collocated rows up to one row behind or ahead; every call may fail | `TypeOK`, `RegisteredRowsAreFinal`, `SegmentsAreSynchronized`, `FinalRowsReachTheFile`, `OnlyOneAveragedLineThrows`, `ExitCodeIsTrue`, `Terminates`, `KeepsTheContract` |
| `vgts` | a map of 4 rows, two sources of 11, 17 or 26 rows in windows of 8 that begin before, on or behind the map, a source row is 0.4 rows of the map and the swath is tilted by 1.4; every call may fail | `RegisteredRowsAreFinal`, `CompositeIsComplete`, `OnlyTheEdgesThrow`, `Terminates` |
| `vgtp` | a map of 5 rows and one of 3 rows of tie points, two sources as in `vgts` | `ProjectionIsComplete`, `NoProjectionIsLost`, `OnlyTheEdgesThrow` |
| `gaps` | 5 lines of 2 columns, two of them filled by two threads, all initial flags, fill distance 1 | `FillingIsDeterministic`, `SourcesAreNotWritten` |
| `syn_pixels` | 5 rows of 3 pixels in 3 x 2 blocks, at most one pixel that is not clear land, one retrieval that fails or one that succeeds | `TypeOK`, `AerosolIsThatOfOnePass`, `OnlyClearLandIsCorrected`, `ReflectancesHaveErrors` |
| `pixels` | three observations, each in memory for one or two passes | `CompositeTypeOK`, `CompositeIsOneObservation`, `WithinOneStepOfTheBest`, `NoCloudIsComposed` |
| `storage` | seven shapes of segments, swaths and maps of one to three dimensions | `TypeOK`, `SamplesStayInPlace`, `ImplementsRowStore` |
| `product` | job orders with missing texts, three dictionaries and some faulty ones, up to three source products that differ in the names, number and sizes of dimensions, in attributes and in the order of variables | `ParametersAreTheirOwn`, `ReadsWhatItNames`, `DictionaryFollowsTheSource`, `EveryVariableIsWritten`, `SuccessMeansAProduct` |
| `livelock` | the constants of the code, the default window of 400 rows, a product of 2000 rows | `Terminates` is violated |
| `manifest` | as `syl2`, one source | `ManifestSumsClosedFiles` is violated |
| `flags` | as `pixels` | `FlagsAreThoseOfTheMeasurement` is violated |

The type invariants of `Vgts`, `Vgtp` and `Product` are stated for the reader and
are not among the properties of the runs; that of `GapFilling` is proved instead.

Why the bounds are enough. What matters to the scheduling is the order of the
rows at which windows, segments and look-aheads end. In `syl2`, with the
averaging factor 2, the window of 7 rows is the smallest that works: the gap
filling needs (FillDistance + 2) * AveragingFactor rows, plus the look-ahead of
the collocation. 7 rows are therefore the tightest case and 8 rows one that is
not; with smaller windows `RegisteredRowsAreFinal`, `FinalRowsReachTheFile`,
`KeepsTheContract` and `Terminates` fail, which is what the run `livelock` shows for
the constants of the code, where the bound is (120 + 2) * 8 = 976 rows plus the
look-ahead. `LongWindows` in `Syl2` is this bound as a formula, the hypothesis of
the theorems about `Syl2`; `MCSyl2Long` assumes it, and `OrderedCollocation` with
it, so that TLC evaluates both for the products of the run. Products of 5 rows fit into one window, those of 8, 11 and 14 rows
need several passes and end in the middle or at the end of an averaged line;
the product of 2 rows has a single averaged line and reaches the one exception
a module throws by itself. In `scheduler`, a window of 3 rows is the smallest
that can slide over a row a module has not computed, and the segment of one row
is the one whose last row is row 0. In `gaps` the two filled lines are within each
other's fill distance, one line has been filled before and one has been
retrieved but is not filled yet; the proofs say that nothing depends on these
numbers.

In `vgts` a row of the map wants source rows that are 3 or 4 rows apart, and the
next row of the map some of the same and some that are further on, so that
finished and unfinished rows share source rows; a window of 8 rows
holds what two rows of the map want. The sources that begin 5 rows north of the
map let `Vco` wait first, those 4 rows south of its first row let it complete at
once. The position 2.2 rows north of the map makes a pass finish row 0 only,
which is one of the two edges `OnlyTheEdgesThrow` is about; the other, a map that
is completed while lines are left to collocate, needs sources of 26 rows. A source
that begins between 0.5 and 0.7 rows behind the last row of the map (36 tenths) is left out: there
`CompositeIsComplete` fails, since the two limits in the code differ. In `Vpr` the
margin is larger than the search and there is no such gap.

`syn_pixels` has blocks that are complete and blocks that are not in each
direction, rows that are filled from both sides, and every way to cut the rows
into passes; a second unclear pixel would only affect blocks in which the first
one has no part, or the same block again. In `pixels` the values lie on
either side of each threshold and of each rounding step that is compared; three
observations let one that has replaced a better one, within a rounding step, be
replaced in turn. `storage` has more rows than the window holds
by more than one window, so that every row is entered and left; `AlgorithmProofs`
shows that the arithmetic of `GetIndex` has no further cases.
`product` has up to three source products for each kind of target. Any two of
the complete layouts differ in the dimensions or the attributes of a variable,
by name or by value, so that what one leaves in a descriptor is added to,
replaced or kept by the next; the dictionary's document gives one variable an
attribute, as the one of the repository does for `longitude`.

Fairness. The program is one thread that is not waiting for anything, so
`Spec` of `Syl2`, `Vgts` and `Vgtp` has weak fairness of `Next`: some step is taken
as long as one is enabled. Nothing is assumed about which one; in every state but
those with a choice of input or failure only one is enabled.

### What the violated runs say

* `livelock`: `Aer` registers its last line minus 120. With windows shorter than
  976 rows the rows the averaging still needs and those the interpolation
  waits for no longer fit into one window; no module can proceed, no window
  slides and `isCompleted` stays false. The job orders of the repository document
  the range [8, 2000] with the default 2000; the code's default is 400.
* `manifest`: `ManifestWriter` comes after the writer in the pipeline and modules
  are stopped in reverse order, so that the checksums are those of files that
  have not been closed yet.
* `flags`: `Vfl` tells the context nothing. A row that is still in memory in the
  next pass, because `Col` or `Vco` requires it, is flagged anew, by thresholds on
  reflectances that `Vac` has corrected in the meantime. `Vco` compares the
  observation again, with the NDVI the map stores rounded down: the same
  observation wins against itself and is copied again, with its new flags.

### Other things to know

* Row 0. `Context.h` promises a first row that has not been computed, and last
  rows that all preceding modules have computed; an entry of 0 and a missing
  entry do not count. If row 0 of the map is all a pass of `Vco` can finish, the
  progress 0 is taken for none, the source window slides, and the next pass asks
  for rows that have left memory. The exception ends the program with 128.
  `Scheduler` therefore demands of modules not to register row 0 of a longer
  segment; `KeepsTheContract` checks that those of SYN L2 do not with windows that
  are long enough, and `OnlyTheEdgesThrow` that nothing else goes wrong in the VGT
  tasks but what comes next. `Vpr` has the same code.
* `Col` registers the rows it still needs after its loop over lines; without a line
  to collocate it registers 0, which reads like no requirement (`Context.cpp:221-223`).
  The window of the collocated segment stays for a pass when the row that
  completes the map still requires its first row. In the next pass `Col` has no
  lines, the windows of SLSTR slide as far as they can, and the pass after that
  asks for rows that have left memory, with an exception that ends the program.
  TLC finds this in the run `vgts` with sources of 26 rows, if the second
  disjunct of `ThrowsAtTheEdgesOnly` is left out.
* `Vco` requires the row after the window when it finds nothing in the window for
  the first row it cannot finish (`Vco.cpp:175`). If the window that slides there still
  lies before what is left of the map, `Vco` waits, "Processing will be completed
  later" (`Vco.cpp:154-156`), with the requirement as it is: the first row of the
  window. The window does not slide any more and the loop does not end; `Vpr` has the
  same code. It takes a swath for which nothing is found in rows of the map whose
  latitudes it has, as one that comes onto the map from its side, and `Terminates`
  of the run `vgts` fails if `found` is made empty for the first 8 rows of a map of
  10; the products of the run have no such gap.
* The reader adds dimensions and attributes to a descriptor or gives them a new
  value, but removes none (`SynL1Reader.cpp:124-133`,
  `SynL1Reader.cpp:210-217`). What the dictionary says of a variable is what the
  source product says only as long as no earlier source product has used a name
  this one does not use, which is the exact content of
  `DictionaryFollowsTheSource`. Otherwise dimensions that are left over change
  the number of starts and counts (`SynL1Reader.cpp:187-189`): with more than
  three the reader fails, with fewer it fails or reads other samples
  (`Misread`). Attributes that are left over, as an `add_offset` only the first
  product has, apply to the samples of the next. Products of one kind use the
  same names; nothing in the code demands it.
* A second source product makes VGT-P fail in `Vpr::start`, by what the first
  has left behind. That is what keeps the files of the first.
* The weights of `Aei` are 0 or 1, since `minMax` returns `long`: the pixels of a
  row take values and flags from one averaged pixel, and not always from the one
  they lie in. `OnlyClearLandIsCorrected` bounds how far away it is.
* `Aco` stores an error wherever its working array holds a value in [0, 1], also
  when the pixel has no reflectance and the array holds that of another pixel or
  the zero of the beginning. The converse, that a reflectance has its error, is
  `ReflectancesHaveErrors`.
* With radiances of OLCI only, the angular part of the error metric is 0 / 0, so
  that `findMinimum` finds nothing although it was meant to search; `Succeeds`
  demands two channels for this reason.
* Clouds that `Vac` has replaced by fill values are flagged clear in the next
  pass. They stay out of the composite because they have no NDVI.
* With fewer than 200 tie points the window of `TiePointInterpolator::prepare`
  reaches beyond the last one.
* `Vpr` bounds tie points by half a pixel of the map and not by half the distance
  of two tie points, so that `PixelsTileTheMap` is stated for the map only.

## Proofs


`SchedulerProofs` proves, for every pipeline, every set of segments, every
assignment of segments to modules and every number of sources, that `Spec` of
`Scheduler` implies each of the properties of the run `scheduler`. The
assumptions are those of the modules: the pipeline is a non-empty sequence
(`PipelineAssumption`), there is a source (`SourcesAssumption`), and segments are
added by one module each, and only segments that are added are worked on
(`ContractAssumption`). A pipeline may even hold a module twice.

The argument. None of the properties is inductive alone. `IInv` adds

* `OwnedOnly`, `NoStrayEntries`: the segments in the context are those of modules
  that were started and not stopped, and only they have entries;
* `ComputedInReach`: no registered row is beyond the end of the window;
* `StartingFresh`, `PassRegistered`: a window stays at row 0 until the first
  pass is over, and in a pass each module that has had its turn has an entry for
  each of its segments, so that after a pass the minimum that `moveForward`
  takes over the entries is the minimum over all modules;
* `StoppingOrder`: what holds of the segments while modules are stopped.

`PassRegistered` is the heart: `Context::moveForward` and `isCompleted` look at
the modules with an entry only, and it is the order of start, process and move
that makes this enough. `PipelineOrder` needs that a registered row is greater
than 0 or the only one, which is the condition in `MayRegister`. Lemmas state
what `Min`, `ForwardL` and `GetLastComputableL` return and bound, then one theorem
for each step of `Next` preserves `IInv`.

`AlgorithmProofs` proves about `GapFilling`, for every number of lines and columns, every fill
distance and every range of computable lines, that `FillingSpec` of `GapFilling`
implies the three properties of the run `gaps`. The invariant `FillingInv` says that a
successful pixel keeps its value (`SourcesKeepTheirValue`), and of each thread
that its mean holds exactly the sources it has passed (`ScanIsRight`), that
what it has read of a successful pixel is the pixel's value (`SeenIsRight`),
that the mean is complete when it is written (`MeanIsRight`), and that it only
writes to gaps (`TargetIsGap`). `PassesOneByOne` shows that the two inner loops
visit each position of the box once, and `OthersAreNotDisturbed` that the step
of one thread preserves what holds of the others, which leaves one lemma for
each action.

`Syl2Proofs` proves, for all source products, averaging factors greater than one
and fill distances, that `Spec` of `Syl2` implements `Scheduler`
(`ContractIsKept`), so that the theorems of `SchedulerProofs` hold of the SYN L2
task, and six properties of the run `syl2`. Besides the assumptions of the
modules (`TaskAssumption`, `ProductsAssumption`, `Syl2Assumption`, `TaskIsSyl2`)
all of them have the hypothesis `LongWindows`: windows that hold the rows the gap
filling and the interpolation need before a first row can be computed, or the
whole product. Without it they are false; the default window of the code does
not satisfy it, that of the job orders does. Five invariants are inductive, each
with the help of some before it:

* `KInv`: the invariant of `SchedulerProofs` for the task, and what the contract
  depends on: which segments there are and of which size, and how far each
  module gets in the first pass, so that none registers row 0 or no row.
* `FinalInv`: a registered row is final. The heart is that the rows which `Ave`,
  `Aer` and `Aei` are going to read are still in memory, which follows from the
  first required rows they have set for the other segment.
* `PassInv`: the reader and the writer end each pass at the end of the window,
  and the correction at the row of the interpolation; therefore the same
  entries decide how far `OLC` and `SYN_COLLOCATED` slide, and they stay together.
* `FileInv`: the file holds the rows that have left memory, and at the end all.
* `RowInv`, for `RowsAreInMemory` (`OnlyOneAveragedLineThrows`): the source rows of
  the lines that have not been collocated have not left memory (`RowsAhead`), and
  after its turn the collocation requires them (`RowsAreRequired`), since it
  requires those of the last line of its loop and later lines come from no
  earlier rows. That only holds while the loop has a line: without one `Col`
  requires row 0, which reads like nothing. `WindowMoves` says why it always has
  one: when the whole window has been collocated, the averaging, the gap filling
  and the interpolation get past its first row in the same pass, nobody requires
  that row, and the window slides. `MisFollows` keeps the misregistration with the
  rows of `OLC`, and `NoSecondPass` that a product with one averaged line gets no
  further than to the exception of `Aei`.

`RowsAreInMemory` has a second hypothesis, `OrderedCollocation`: behind the rows
that a first window must hold, no line comes from row 0 or from rows before
those of an earlier line, OLCI channels are displaced by less than a window, and
the misregistration has one row or as many as `OLC` (`Collocates`). The code relies on
this without saying so; a product that breaks it lets a window slide past a row
that `Col` asks for later, which ends the program.

`VgtsProofs` and `VgtpProofs` prove, for any number of sources, any map and all
source products, the three invariants of the run `vgts` and those of the run `vgtp`.
Besides the assumptions of the modules they have the hypothesis `LongWindows` of
`Mapping`, which says of a product and a window what the tasks rely on. There is
a number k of lines that can be collocated from the first n rows, of which the
window has room for, and later lines come from rows that are not further behind
(`Collocates`). The rows of the product run from north to south, what is found for
a row of the map lies within the margin of the code (but for the last row of the
product), the source rows of a row of the map fit into a window and, if they
begin with row 0, into the first k, and those of later rows of the map do not
begin earlier (`Maps`). The code assumes all of this without saying so; TLC
evaluates the hypothesis for the products of the runs (`MCVgts`, `MCVgtp`).
`VgtpKeepsItsProjection` also has `AllAreMapped`: of a product that misses the map
nothing is left that could be lost. The invariant that is inductive is `Basics`:

* `TypesFit`, `Tracked`: the segments of the context and their sizes, and which
  module has registered what, as the program gets on in the pipeline;
* `RegisteredAreFinal`, with `Flagged` for the rows that are flagged again, whose
  progress nobody registers;
* `MapInv`: no row of the window lies before what the rest of the map needs. The
  rows of the map beyond the progress of the mapper find rows in the window or
  after it, since the mapper has required them, or since the window has not
  reached the map; it makes no difference whether the map is entered from the
  north, or the product lies on it or behind it;
* `WindowInv`, for `OnlyTheEdgesThrow`: as long as rows of the map are left, the
  source rows of the lines that have not been collocated have not left memory
  (`RowsAhead`), the collocation requires them (`RowsAreRequired`), and `OLC` and the
  collocated rows slide together, the misregistration not before them
  (`WindowsFit`). As in SYN L2 this needs a line to collocate in each pass. Here it
  depends on the map (`WindowMoves`): the first row of a window that is collocated
  as a whole is required neither by the collocation nor by the mapper, whose
  first unfinished row has a source row ahead of the window and fits into one.
  The exception is a mapper that waits and still requires that row from an earlier
  pass (`Stalled`, the case of `Vco.cpp:154-156` above, in which the task does not
  end); then no window slides and nothing is read. When the map is done nothing
  of this holds any more, which is the second edge.

`VgtsProofs` adds that the map holds what was found for the rows that are done
(`Composition`), through all sources, `VgtpProofs` the same of the two maps
(`Projection`), that a map that is left behind makes the next start throw
(`Leftover`), and that only this one does (`FirstIsFree`). `MappingProofs` has one
lemma for each turn, `ContextProofs` those about the operators of `Context`.

`PixelProofs` proves the four properties of the run `syn_pixels` for every
grid, scene, fill distance and outcome of the retrievals, without further
hypotheses. `Inv` has three parts: `RowsInv` orders the rows the modules have
registered, `AveragedInv` states each averaged pixel as a function of the scene
alone, first as the retrieval and then as the filling leaves it, and `PixelInv`
what a pixel may hold as a function of its row and of the averaged pixels. That
the filling of a later pass reads nothing an earlier one has filled
(`FilledIs`) makes the aerosol independent of the passes, and `CornerIs` bounds
how far away the averaged pixel is that the truncated weights select.

`AlgorithmProofs` proves the properties of the run `storage` for segments of any shape
and chunks of any size: among them that `Spec` of `Storage` implements `RowStore`.
It rests on the arithmetic of the flat arrays: each index is that of one camera,
row and column (`Flatten`, `Unflatten`), `GetIndex` and the order in which the
NetCDF library runs through a hyperslab of one, two or three dimensions are
inverse to each other (`TransferredIs`), and shifting by rows moves each sample to
the index that its position has in the new window (`SlidSample`). One lemma for
each operation states what it does to the sample of a position; the invariant
`InPlace` (which values a position may hold) and the refinement, action by
action, follow from these.

`PixelProofs` proves the four properties of the run `pixels` for any number of
observations and passes and any reflectances and NDVIs. `CompositeInv` consists of
the types, `NdviIsOfCorrectedBands` (an observation has an NDVI only if it was
not flagged as cloud and both bands have been corrected, so that `B2` and `B3` are copied
whenever the NDVI is), `ByteIsOfTheBest` (the stored byte is that of the best
observation so far, up to the rounding) and the two properties about the
composite. The rounding is in three lemmas, `QuantisedIsByte`, `RoundedAlike` and
`RoundingIsMonotone`; `ByteBoundsTheBest` derives `WithinOneStepOfTheBest`.

The numerics have no small instance, since their numbers, dimensions or tables
are unbounded, and are proved only, in `AlgorithmProofs`:

* `Minimum`: for every function and guess, even if the guess
  is no bracket, which `findMinimum` does not make sure of. The invariant adds
  what `brack` keeps while it goes downhill (`BrackIsDownhill`) and the range of
  the ends (`EndsAreInRange`). `Powell`: the residual never rises, from `PowellInv`,
  in which an iteration without a decrease is one that ends the search, so that
  the index 0 is never used.
* `Lookup`: the offset of the first vertex plus the largest offset
  stays in the table, from `StridesAreProducts`, `ReachIsSum` and `OriginIsInTable`.
* `TiePoints`: what is kept is sorted (`IsSorted`), was in the
  window (`KeptAreScanned`), and nothing nearer was (`ScannedAreKept`).
  `MapCoordinates`: what has been written so far is right (`CoordinatesAreSet`,
  `BoundsAreSet`).

Checked by TLC only:

* `Configuration` and `Product`, which fold over sequences: what they compute is
  an induction over data, which is beyond the prover.
* Liveness (`Terminates`) and what depends on `ENABLED`.

## What could follow

1. The contract of `Scheduler` for VGT: `Vfl` and `Vco` do not keep it as it stands,
   one since it registers nothing, the other since its map outlives a source.
2. Separate tie-point segments in `Task`, and which of them are in memory when
   `Aco` interpolates and when `Vbm` takes its copy.
3. Collocations that are missing for whole windows.

## Not modelled

Values of floating-point numbers: radiances, the error metric, the linear part of
the angular residual, radiative transfer, interpolated values, the search of
`DirectLocator`. The narrow types, the scaling and the aliases of accessors. The
evaluation of XML queries and the contents of auxiliary files, which are input.
The calls of the NetCDF library one by one. Exceptions thrown in a parallel
loop, whose effect the code leaves to the run time. Logging;
`core/Processor.cpp`, which no task uses; the Java tools that prepare auxiliary
data.
