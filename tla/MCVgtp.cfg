SPECIFICATION Spec
CONSTANTS
  Pipeline <- VgtpPipeline
  Segment <- VgtpSegment
  Mapper = "VPR"
  Margin = 15
  Subsampling = 2
  Sources = 2
  MaxTargetL = 4
  LineCounts = {8}
  RowCounts = {11, 17, 26}
  FirstRows <- MCNearRows
  LateRows <- MCLateRows
  SlsOffsets <- MCSlsOffsets
  Products <- MCProducts
  MayFail = TRUE
INVARIANTS
  ProjectionIsComplete
  NoProjectionIsLost
  OnlyTheEdgesThrow
