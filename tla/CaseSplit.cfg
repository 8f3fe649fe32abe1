CONSTANTS
  NClasses <- MCClasses
  Node <- MCNode
  Adapters <- EachAdapter
  Patterns <- MCPatterns
  SplitDepth = 2
  EntryGraphs <- MCEntryGraphs
  Rewritten <- MCRewritten
  Worlds <- NoWorlds
SPECIFICATION Spec
INVARIANT TypeOK
INVARIANT BackOnItsBranch
INVARIANT EnclosingCasesAssumed
INVARIANT NeverSplitAgain
PROPERTY OnlySharedConclusions
