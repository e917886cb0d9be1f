SPECIFICATION Spec
CONSTANTS
  Commanders = {net}
  Status = status
  QueueCap = 1
  MaxRuns = 1
INVARIANT
  OneConsumer
