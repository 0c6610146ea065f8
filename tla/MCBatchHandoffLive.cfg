SPECIFICATION FairSpec
CONSTANTS
  PAYLOAD_COUNT = 2
  GROUP_SIZE = 1
  MaxFlushes = 2
  MaxBatches = 2
PROPERTIES
  DeliversLatest
