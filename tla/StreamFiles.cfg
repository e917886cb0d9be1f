SPECIFICATION FairSpec
CONSTANTS
  BufferSize = 2
  MaxRecords = 4
  MaxFiles = 3
  MaxFailures = 1
INVARIANTS
  TypeOK
  SegmentsInOrder
  RecordsKept
PROPERTY
  StreamsFollow
CHECK_DEADLOCK FALSE
