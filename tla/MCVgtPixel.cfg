CONSTANTS
  Observations = 3
  MaxPasses = 2
  Reflectance <- MCReflectance
  Ndvi <- MCNdvi
SPECIFICATION CompositeSpec
INVARIANTS
  CompositeTypeOK
  CompositeIsOneObservation
  WithinOneStepOfTheBest
  NoCloudIsComposed
\* The last observation is the end.
CHECK_DEADLOCK FALSE
