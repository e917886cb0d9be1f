SPECIFICATION Spec
CONSTANTS
  Starts = {0, 3, 6, 9, 12, 15}
  Ends = {2, 5, 8, 11, 14, 17}
  StreamWords = 16
  BlockWords = 2
  BufWords = 6
  Chunk = 3
  FileEvents = 3
  QueueCap = 2
  NumEvents = 4
  MaxTimeouts = 0
  MaxLost = 2
INVARIANT
  CompleteEventsSurvive
