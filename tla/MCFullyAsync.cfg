SPECIFICATION Spec
CONSTANTS
  Configs <- MCConfigs
  Total = 4
  None = None
CHECK_DEADLOCK FALSE
INVARIANTS
  TypeOK
  OnePlace
  OutstandingBound
  SynchronousMode
  WeightsFollow
PROPERTIES
  TrainingEnds
  ImplementsStream
