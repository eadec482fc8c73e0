SPECIFICATION Spec
CONSTANTS
  s1 = s1
  s2 = s2
  None = None
  Students = {s1, s2}
  Tested = {s1}
  Base <- MCBase
  burn_in_size = 1
  Default = default
  RunPaths = {run}
  MaxAnswers = 4
INVARIANTS
  TypeOK
  AnswersKept
  FreshBaseline
  CacheIsTheFile
