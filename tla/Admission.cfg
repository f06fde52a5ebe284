\* Three calls over seven events, the default policy.
SPECIFICATION Spec
CONSTANTS
  i1 = i1
  i2 = i2
  i3 = i3
  Ingestion = {i1, i2, i3}
  Event <- MCEvent
  Short <- MCShort
  NoDuplicate = NoDuplicate
  MaxFailures = 1
  MinTotal = 55
  MinConnectedness = 25
  MinRootImportance = 80
  MergeSimilarity = 24948
  AttachSimilarity = 18018
SYMMETRY Interchangeable
INVARIANTS
  TypeOK
  TwinsOnlyByRace
  WorthyIsKept
CHECK_DEADLOCK FALSE
