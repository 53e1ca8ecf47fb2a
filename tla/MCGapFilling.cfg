SPECIFICATION FillingSpec
CONSTANTS
  MaxL = 4
  MaxN = 1
  FillDistance = 1
  FirstL = 1
  LastL = 3
INVARIANTS
  FillingIsDeterministic
PROPERTIES
  SourcesAreNotWritten
