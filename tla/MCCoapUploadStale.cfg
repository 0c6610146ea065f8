SPECIFICATION Spec
CONSTANTS
  GroupSize = 2
  GroupCount = 1
  TryLimit = 2
  MaxCopies = 1
  MaxUploads = 2
  BatchAware = TRUE
INVARIANTS
  GroupsArrived
\* After MaxUploads uploads nothing is left to do.
CHECK_DEADLOCK FALSE
