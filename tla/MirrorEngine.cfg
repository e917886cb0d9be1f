SPECIFICATION FairSpec
CONSTANTS
  Files <- OneEach
  TofRun = 9
  Backlog <- TpcThere
  MaxVersion <- TofGrows
  MaxStarts = 2
INVARIANTS
  PendingExact
  ByteBalance
PROPERTIES
  Mirrored
  ShutdownReturns
CHECK_DEADLOCK FALSE
