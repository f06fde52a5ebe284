\* Two agents, three validated outcomes, one failed call; a policy so steep
\* that three outcomes reach the ends of the scale.
SPECIFICATION Spec
CONSTANTS
  a1 = a1
  a2 = a2
  Agent <- MCAgent
  TraitType = {"Practicality", "Caution"}
  Outcome <- MCOutcome
  LearningRate = 40
  MaxStepPerOutcome = 30000
  ConfidenceIncrement = 25
  MinimumStartStrength = 50000
  MaxOutcomes = 3
  MaxFailures = 1
INVARIANTS
  TypeOK
  DriftBounded
  OneTraitPerTypeUnlessRaced
  CountedOnceUnlessRaced
  OneSidedHistory
CHECK_DEADLOCK FALSE
