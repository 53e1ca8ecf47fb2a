SPECIFICATION Spec
CONSTANTS
  Pipeline <- Syl2Pipeline
  Segment <- Syl2Segment
  Sources = 1
  AveragingFactor = 2
  FillDistance = 1
  LineCounts = {7}
  RowCounts = {5, 8, 11, 14}
  SlsRows = {0}
  OlcOffsets <- MCOlcOffsets
  SlsOffsets <- MCSlsOffsets
  Products <- MCProducts
  MayFail = FALSE
INVARIANTS
  ManifestSumsClosedFiles
