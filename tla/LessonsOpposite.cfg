\* A lesson with a negation cue is reinforced by the statement without it.
SPECIFICATION Spec
CONSTANTS
  a1 = a1
  a2 = a2
  m1 = m1
  m2 = m2
  m3 = m3
  m4 = m4
  m5 = m5
  m6 = m6
  s1 = s1
  s2 = s2
  n = n
  v = v
  Agent <- MCAgent
  Memory <- MCMemory
  Statement <- MCStatement
  Says <- MCSays
  InferredType <- MCInferredType
  Importance <- MCImportance
  Confidence <- MCConfidence
  Overlap <- MCOverlap
  Negated <- MCNegated
  NoType = "None"
  Batch <- MCBatch
  MinMemoryImportance = 45
  MinSimilarityForReinforcement = 75
  MinSimilarityForRefinement = 45
  ConfidenceIncrement = 8
  RefinementConfidenceIncrement = 4
  TypeBonus = 15
  MinSimilarity = 30
  MinOverlap = 45
  MaxRounds = 3
  MaxFailures = 0
INVARIANT OppositeNeverReinforces
CHECK_DEADLOCK FALSE
