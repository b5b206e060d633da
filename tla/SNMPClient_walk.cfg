\* One collecting v2c walk with one slot and room for two rows, over three.
CONSTANTS
  None = None
  a = a
  b = b
  dev1 = dev1
  dev2 = dev2
  Op <- One
  DeviceOf <- OneDevice
  Kind <- OneWalk
  Version <- OneV2
  Configured <- One
  Capacity <- One2
  Fit <- One1
  MaxPending = 1
  MaxID = 3
  Retries = 1
  TimeoutMs = 1
  WalkDeadline = 3
  ClockModulus = 4
  MaxStall = 1
  Rows = 3
  CellOutcomes = {"Success"}
  StopAfterCancel = FALSE

SPECIFICATION Spec

INVARIANTS
  WalkInOrder
  TimeoutsAreServed

PROPERTIES
  NoEarlyTimeout
