SPECIFICATION Spec
CONSTANTS
  MaxLevel = 2
  SwitchReserve = 1
  StartReserve = 2
  MaxId = 2
  MaxIndex = 2
INVARIANTS
  TypeOK
  SelectionAgrees
  RunsKeepTheirFiles
  OneFilePerNumber
PROPERTY
  SwitchUsesRoom
