SPECIFICATION Spec
CONSTANTS
  PAYLOAD_SIZE = 128
  Triples = 23
  MaxCount = 32
  PayloadBytes = 148
  TemporaryBytes = 150
  TripleWidths = {3, 9}
  TphWidths = {3, 15}
  StampWidths = {1, 9}
INVARIANTS
  TypeOK
  SizeExact
  AlwaysEncodable
  PayloadFits
  AtMostTwoFlushes
