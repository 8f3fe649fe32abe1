SPECIFICATION Spec
CONSTANTS
  o = o
  Value <- MCValue
  World <- MCWorld
  Ind <- MCInd
  Smaller <- MCSmaller
  BaseCases <- ZeroCase
  StepCases <- SuccCase
  Built <- MCBuilt
  Op <- MCOp
  LeafOp = {"var"}
  OtherVars = {o}
  Holds <- MCHolds
  Splits <- MCSplits
  Requests <- OnlyZero
INVARIANTS
  RulesHold
