\* Graphs of up to four edges, five kinds of hits, two hops.
SPECIFICATION Spec
CONSTANTS
  n1 = n1
  n2 = n2
  n3 = n3
  n4 = n4
  n5 = n5
  n6 = n6
  l1 = l1
  l2 = l2
  l3 = l3
  MaxEdges = 4
  Node <- MCNode
  Lesson <- MCLesson
  Recency <- MCRecency
  Importance <- MCImportance
  Confidence <- MCConfidence
  Supporting <- MCSupporting
  LessonConfidence <- MCLessonConfidence
  Reinforcements <- MCReinforcements
  Request <- MCRequest
  Imagined = {n5}
  Goal = {n4}
  RequestedGoals <- MCRequestedGoals
  DesiredScenarios = {0, 2, 9}
  VectorLimit = 2
  CoreNodeLimit = 3
  NeighborLimit = 2
  LessonLimit = 2
  MinScore = 2000
  MaxHops = 2
  MaxCandidates = 3
  LexicalWeight = 30
  VectorWeight = 30
  EdgeStrengthWeight = 15
  RecencyWeight = 10
  ImportanceWeight = 10
  ConfidenceWeight = 5
  DefaultScenarioCount = 3
  MaxScenarios = 4
  MaxBasisNodes = 3
  MaxLessons = 1
INVARIANTS
  TypeOK
  ExpansionExact
  ScenariosAnswerQuery
  LinkedLessonsFirst
  ClustersAreComponents
  BasisConnected
CHECK_DEADLOCK FALSE
