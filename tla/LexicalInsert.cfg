\* A failed insert that is called again and again may never reach the index.
SPECIFICATION FairSpec
CONSTANTS
  n1 = n1
  n2 = n2
  Node <- MCNode
  MaxRevision = 1
  MaxFailures = 1
  MaxDirect = 0
PROPERTY InsertedIsIndexed
