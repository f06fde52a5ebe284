\* Two nodes of three revisions, three failures or crashes, one direct write.
SPECIFICATION Spec
CONSTANTS
  n1 = n1
  n2 = n2
  Node <- MCNode
  MaxRevision = 3
  MaxFailures = 3
  MaxDirect = 1
INVARIANTS
  TypeOK
  TrailsStore
  OkIsSearchable
  InSyncUnlessFailed
PROPERTY SearchNeverGoesBack
