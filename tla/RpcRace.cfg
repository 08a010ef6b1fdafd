SPECIFICATION Spec
CONSTANTS
  b1 = b1
  b2 = b2
  b3 = b3
  e1 = e1
  e2 = e2
  Batches = {b1, b2}
  Engines = {e1, e2}
  Payload <- MCPayload
  Workload <- Simulating
  NoEngine = NoEngine
  StartAlone = FALSE
  ForkBlockNumber = 1
  FirstBlockless = 5
  MaxRequests = 4
SYMMETRY BatchSymmetry
CHECK_DEADLOCK FALSE
PROPERTY AcknowledgedStaysLocal
