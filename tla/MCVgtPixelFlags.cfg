CONSTANTS
  Observations = 3
  MaxPasses = 2
  Reflectance <- MCReflectance
  Ndvi <- MCNdvi
SPECIFICATION CompositeSpec
INVARIANTS
  FlagsAreThoseOfTheMeasurement
CHECK_DEADLOCK FALSE
