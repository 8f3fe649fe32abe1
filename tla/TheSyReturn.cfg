CONSTANTS
  nat = nat  lst = lst  o1 = o1  s1 = s1  s2 = s2
  gen = gen  g1 = g1  g2 = g2  none = none
  NTerms = 3
  Cost <- MCCost
  TieOrders <- MCTieOrders
  Level <- MCLevel
  MaxDepth = 2
  Datatypes <- MCDatatypes
  ExampleOf <- MCExampleOf
  Lemma <- MCLemma
  Generalized <- Generalizes
  Goals <- TwoGoals
  ProofMode = TRUE
  ExploreSplit = TRUE
  Rule <- MCRule
  OrigRules <- TheCallersRules
  SystemRws <- TheSystemRules
  RulesOf <- MCRulesOf
  Derives <- MCDerives
SPECIFICATION Spec
INVARIANT ReturnsPreviousAndNewRules
