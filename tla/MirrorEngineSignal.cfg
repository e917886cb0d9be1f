SPECIFICATION FairSpec
CONSTANTS
  Files <- OneEach
  TofRun = 9
  Backlog <- Nothing
  MaxVersion <- Once
  MaxStarts = 1
PROPERTY
  SignalEndsDaemon
CHECK_DEADLOCK FALSE
