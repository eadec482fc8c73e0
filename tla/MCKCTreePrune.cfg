SPECIFICATION PruneSpec
CONSTANTS
  Nodes <- MCNodes
  Inputs <- MCInputs
  prune_size = 1
INVARIANTS
  PrunedIsForest
  QuestionsResolve
  LargeGoWithChildren
PROPERTIES
  PruneEnds
