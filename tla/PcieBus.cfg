SPECIFICATION FairSpec
CONSTANTS
  Pollers = {status}
  MaxPps = 3
  MaxPolls = 1
  MaxWire = 2
INVARIANTS
  TriggersQuiet
PROPERTIES
  PpsGenuine
  StopEndsTriggers
CHECK_DEADLOCK FALSE
