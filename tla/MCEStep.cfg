SPECIFICATION ESpec
CONSTANTS
  Nodes <- MCNodes
  NoParent = 0
  Trees <- MCTrees
  MaxRecords = 2
  MaxUpdated = 2
INVARIANTS
  ETypeOK
  NotedIsFinal
  EvidenceOnce
PROPERTIES
  EStepEnds
