CONSTANTS
  MaxL = 4
  MaxM = 2
  Factor = 2
  FillDistance = 1
  Scenes <- MCScenes
  Outcomes <- MCOutcomes
  NoValue = NoValue
  NoModel = NoModel
SPECIFICATION Spec
INVARIANTS
  TypeOK
  AerosolIsThatOfOnePass
  OnlyClearLandIsCorrected
  ReflectancesHaveErrors
\* The product ends.
CHECK_DEADLOCK FALSE
