CONSTANTS
  NClasses <- MCClasses
  Node <- MCNode
  Rules <- MCRules
  Entries <- MCEntries
  Configs <- MCConfigs
  Worlds <- MCWorlds
  Equations <- MCEquations
  True = 2
SPECIFICATION SpecChecks
INVARIANT TypeOK
INVARIANT SaturatedIsClosed
INVARIANT CleanUnlessTimedOut
INVARIANT EqualFollows
INVARIANT MergedIsFound
PROPERTY ImplementsRewriting
PROPERTY Terminates
