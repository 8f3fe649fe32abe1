CONSTANTS
  Theories <- MCTheories
  IndVar <- MCIndVar
  Placeholders <- MCPlaceholders
  EndsWithOne <- MCEndsWithOne
  Extractors = {"veg", "egg"}
  ExampleDepth = 2
  TimeLimit = TRUE
SPECIFICATION SpecConjectures
INVARIANT KeysAreRelevant
CHECK_DEADLOCK FALSE
