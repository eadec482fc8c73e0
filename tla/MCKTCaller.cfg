SPECIFICATION Spec
CONSTANTS
  s1 = s1
  s2 = s2
  root = root
  a = a
  x = x
  NoStudent = NoStudent
  None = None
  Students = {s1, s2}
  FirstStudent = s1
  KCs = {root, a}
  RawKCs = {a, x}
  Base <- MCBase
  burn_in_size = 1
  BURN_IN_SIZE = 1
  WINDOW_SIZE = 0
  NUM_SAMPLE_STUDENTS = 0
  DatasetSizes <- MCDatasetSizes
  DatasetParams <- MCDatasetParams
  kcMapping <- MCMapping
  PathToRoot <- MCPath
  MaxObs = 1
  MaxTodo = 2
  MaxUpdates = 2
  MaxSizeAsked = 2
INVARIANTS
  TypeOK
  ActualFilesConsistent
  AnswersFlowDown
PROPERTIES
  HistoryNeverRewritten
  AssumptionIsolation
