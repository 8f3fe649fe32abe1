CONSTANTS
  Theories <- MCTheories
  IndVar <- MCIndVar
  Placeholders <- MCPlaceholders
  EndsWithOne <- MCEndsWithOne
  Extractors = {"veg", "egg"}
  ExampleDepth = 2
  TimeLimit = FALSE
SPECIFICATION SpecConjectures
INVARIANT TypeOK
INVARIANT ValuesAreInstances
INVARIANT AllTermsCreated
INVARIANT ConjecturesAreRight
INVARIANT GeneralBeforeInstance
INVARIANT RepresentativesAreSmallest
CHECK_DEADLOCK FALSE
