SPECIFICATION Spec
CONSTANTS
  GroupSize = 2
  GroupCount = 2
  TryLimit = 2
  MaxCopies = 1
  MaxUploads = 1
  BatchAware = FALSE
INVARIANTS
  TypeOK
  RecvNeverBlocks
  LastIsMissing
  GroupsArrived
\* After MaxUploads uploads nothing is left to do.
CHECK_DEADLOCK FALSE
