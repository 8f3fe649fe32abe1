CONSTANTS
  Main = "main"
  Theories <- MCTheories
  Arrows <- MCArrows
  CliOpts <- MCCliOpts
SPECIFICATION SpecProgram
INVARIANT TypeOK
INVARIANT IncludesAreSpliced
INVARIANT SplittersUnblock
INVARIANT InitialGraphFits
INVARIANT GoalsInductOnEachVariable
INVARIANT BuiltInRulesHold
PROPERTY Terminates
CHECK_DEADLOCK FALSE
