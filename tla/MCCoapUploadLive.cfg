SPECIFICATION ResponsiveSpec
CONSTANTS
  GroupSize = 3
  GroupCount = 1
  TryLimit = 3
  MaxCopies = 1
  MaxUploads = 1
  BatchAware = FALSE
PROPERTIES
  UploadEnds
\* After MaxUploads uploads nothing is left to do.
CHECK_DEADLOCK FALSE
