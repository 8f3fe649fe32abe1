CONSTANTS
  NClasses <- MCClasses
  Node <- MCNode
  Adapters <- OneAdapter
  Patterns <- OnePattern
  SplitDepth = 1
  EntryGraphs <- OneEntryGraph
  Rewritten <- MCRewritten
  Worlds <- MCWorlds
SPECIFICATION Spec
INVARIANT ConclusionsHold
