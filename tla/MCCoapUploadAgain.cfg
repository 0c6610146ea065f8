SPECIFICATION Spec
CONSTANTS
  GroupSize = 2
  GroupCount = 2
  TryLimit = 0
  MaxCopies = 1
  MaxUploads = 3
  BatchAware = TRUE
INVARIANTS
  GroupsBacked
\* After MaxUploads uploads nothing is left to do.
CHECK_DEADLOCK FALSE
