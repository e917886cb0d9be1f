SPECIFICATION FairSpec
CONSTANTS
  Commanders = {net}
  Status = status
  QueueCap = 1
  MaxRuns = 2
INVARIANTS
  TypeOK
  QuietReset
  RunStartsClean
  NeverTerminates
  RunIsOwned
PROPERTIES
  DiskStopEndsRun
  StopReturns
