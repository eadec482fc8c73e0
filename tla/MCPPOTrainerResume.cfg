SPECIFICATION Spec
CONSTANTS
  Configs <- MCConfigs
  Ranks = {r1, r2}
  LastStep = 7
  MaxLaunches = 3
  None = None
  Empty = Empty
CHECK_DEADLOCK FALSE
INVARIANTS
  ResumesAutomatically
