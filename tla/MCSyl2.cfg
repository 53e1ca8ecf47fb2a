SPECIFICATION Spec
CONSTANTS
  Pipeline <- Syl2Pipeline
  Segment <- Syl2Segment
  Sources = 2
  AveragingFactor = 2
  FillDistance = 1
  LineCounts = {7, 8}
  RowCounts = {2, 5, 8, 11, 14}
  SlsRows = {0}
  OlcOffsets <- MCOlcOffsets
  SlsOffsets <- MCSlsOffsets
  Products <- MCProducts
  MayFail = TRUE
INVARIANTS
  TypeOK
  RegisteredRowsAreFinal
  SegmentsAreSynchronized
  FinalRowsReachTheFile
  OnlyOneAveragedLineThrows
  ExitCodeIsTrue
PROPERTIES
  Terminates
  KeepsTheContract
