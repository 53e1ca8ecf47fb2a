SPECIFICATION MCSpec
CONSTANTS
  Pipeline <- MCPipeline
  Segment <- MCSegment
  Adds <- MCAdds
  Works <- MCWorks
  Rewriters <- MCRewriters
  Sources = 2
  MaxRow = 5
  Sizes <- MCSizes
  Required <- MCRequired
INVARIANTS
  TypeOK
  WindowsInBounds
  NoRowLost
  PipelineOrder
  StopsWhenComputed
  NothingLeftBehind
PROPERTIES
  ProgressIsKept
