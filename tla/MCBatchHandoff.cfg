SPECIFICATION Spec
CONSTANTS
  PAYLOAD_COUNT = 4
  GROUP_SIZE = 2
  MaxFlushes = 2
  MaxBatches = 4
INVARIANTS
  TypeOK
  BufferContents
  DatagramIntact
  NoLostBatch
  AtMostThreeUploads
PROPERTIES
  PublishesLatest
