SPECIFICATION FairSpec
CONSTANTS
  Units = {"tpc"}
  Apart = TRUE
  MaxStarts = 1
  MaxFaults = 1
INVARIANTS
  SleepersWoken
  StatusAsAsked
  UnitsEnd
PROPERTIES
  DaemonEnds
  StopReachesDaemon
  OrchestratorEnds
CHECK_DEADLOCK FALSE
