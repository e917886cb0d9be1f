SPECIFICATION FairSpec
CONSTANTS
  Starts = {0, 3, 7, 8}
  Ends = {2, 6, 10}
  StreamWords = 12
  BlockWords = 2
  BufWords = 5
  Chunk = 2
  FileEvents = 2
  QueueCap = 2
  NumEvents = 3
  MaxTimeouts = 1
  MaxLost = 1
INVARIANTS
  TypeOK
  WholeEvents
  EventsConserved
  DiskOrder
  MarkerBalance
PROPERTIES
  StopEndsThreads
  EventLimitEnds
