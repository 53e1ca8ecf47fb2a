CONSTANTS
  NoDocument = NoDocument
  LogMayFail = TRUE
  Breakpoints = TRUE
  Setups <- MCSetups
  Layouts <- MCLayouts
SPECIFICATION Spec
INVARIANTS
  ParametersAreTheirOwn
  ReadsWhatItNames
  DictionaryFollowsTheSource
  EveryVariableIsWritten
  SuccessMeansAProduct
\* The program ends.
CHECK_DEADLOCK FALSE
