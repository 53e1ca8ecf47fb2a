CONSTANTS
  Fill = Fill
  Chunk = 4
  Shape <- MCShape
SPECIFICATION Spec
INVARIANTS
  TypeOK
  SamplesStayInPlace
PROPERTY ImplementsRowStore
\* A window that has reached the end slides no further.
CHECK_DEADLOCK FALSE
