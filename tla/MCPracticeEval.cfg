SPECIFICATION EvalSpec
CONSTANTS
  s1 = s1
  s2 = s2
  s3 = s3
  root = root
  a = a
  b = b
  NoStudent = NoStudent
  None = None
  Students = {s1, s2, s3}
  FirstStudent = s1
  KCs = {root, a, b}
  RawKCs = {a, b}
  Base <- MCBase
  burn_in_size = 1
  BURN_IN_SIZE = 1
  WINDOW_SIZE = 3
  NUM_SAMPLE_STUDENTS = 1
  DatasetSizes <- MCDatasetSizes
  DatasetParams <- MCDatasetParams
  kcMapping <- MCMapping
  PathToRoot <- MCPath
  Order <- MCOrder
  Candidates = {a, b}
  Rounds = 3
INVARIANTS
  NoLeak
  EvidenceComplete
  ScanFromSameState
  RoundsBuildOnEachOther
PROPERTIES
  ImplementsSession
  EveryStudentGraded
