SPECIFICATION Spec
CONSTANTS
  Pipeline <- Syl2Pipeline
  Segment <- Syl2Segment
  Sources = 1
  AveragingFactor = 8
  FillDistance = 120
  LineCounts = {400}
  RowCounts = {2000}
  SlsRows = {0}
  OlcOffsets = {{0}}
  SlsOffsets = {{0}}
  Products <- MCProducts
  MayFail = FALSE
PROPERTIES
  Terminates
