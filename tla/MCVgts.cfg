SPECIFICATION Spec
CONSTANTS
  Pipeline <- VgtsPipeline
  Segment <- VgtsSegment
  Mapper = "VCO"
  Margin = 5
  Sources = 2
  MaxTargetL = 3
  LineCounts = {8}
  RowCounts = {11, 17, 26}
  FirstRows <- MCFirstRows
  LateRows <- MCLateRows
  SlsOffsets <- MCSlsOffsets
  Products <- MCProducts
  MayFail = TRUE
INVARIANTS
  RegisteredRowsAreFinal
  CompositeIsComplete
  OnlyTheEdgesThrow
PROPERTIES
  Terminates
