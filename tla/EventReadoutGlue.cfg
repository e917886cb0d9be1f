SPECIFICATION Spec
CONSTANTS
  Starts = {0, 3, 6, 9, 12, 15}
  Ends = {2, 5, 8, 11, 14, 17}
  StreamWords = 16
  BlockWords = 2
  BufWords = 7
  Chunk = 2
  FileEvents = 2
  QueueCap = 2
  NumEvents = 4
  MaxTimeouts = 2
  MaxLost = 2
INVARIANT
  NeverGlued
