\* Two openers, three migrations, two failures or crashes;
\* whoever fails to open opens again.
SPECIFICATION FairSpec
CONSTANTS
  p1 = p1
  p2 = p2
  Opener <- MCOpener
  LastVersion = 2
  Statements <- MCStatements
  Config <- MCConfig
  MaxFailures = 2
INVARIANTS
  TypeOK
  RecordedInstalled
  LocalOnlyServesSchema
  RetryMeetsNoConflict
PROPERTIES
  SchemaApplied
  OpenEventually
