SPECIFICATION Spec
CONSTANTS
  Item = {a, b, c}
  Size = 4
  NoItem = NoItem
INVARIANTS
  TypeOK
  NoSlotRace
  LiveConstructed
PROPERTY
  FifoSpec
