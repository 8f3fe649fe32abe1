CONSTANTS
  Classes <- MCClasses
  Vars <- MCVars
  NoId = NoId
  Disagree = Disagree
  Unbound = Unbound
  Queries <- MCQueries
SPECIFICATION SpecSearch
INVARIANT FindsItsMatches
INVARIANT PanicsOnlyForForeignVariable
CHECK_DEADLOCK FALSE
