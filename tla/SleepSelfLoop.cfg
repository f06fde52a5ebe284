SPECIFICATION Spec
CONSTANTS
  NumNodes = 3
  NumLessons = 1
  NumTraits = 0
  Edge = {e1}
  Jobs <- DefaultJobs
  CheckpointNodeLimit = 2
  CheckpointLessonLimit = 1
  WeightMergeCap = 100
  WeakEdgeThreshold = 35
  WeakEdgeDecay = 10
  StaleEdgeDays = 14
  IsolatedImportance = 35
  IsolatedConfidence = 45
  ReinforcementThreshold = 2
  LessonIncrement = 4
  RecallThreshold = 1
  ConfidenceIncrement = 3
  ImportanceIncrement = 2
  InitStatus = {"Active"}
  InitImportance = {30, 32, 34}
  InitConfidence = {40}
  InitWeight = {15}
  InitSupport <- SomeSupport
  MaxRuns = 2
  MaxRecall = 0
  Elapsed = {5, 15}
INVARIANT NoSelfLoops
CHECK_DEADLOCK FALSE
