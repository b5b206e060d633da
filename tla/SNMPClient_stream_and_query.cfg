\* A query and a streaming walk compete for one slot, callbacks included.
CONSTANTS
  None = None
  a = a
  b = b
  dev1 = dev1
  dev2 = dev2
  Op <- Two
  DeviceOf <- TwoDevices
  Kind <- QueryAndStream
  Version <- TwoV2
  Configured <- Two
  Capacity <- Two1
  Fit <- Two1
  MaxPending = 1
  MaxID = 2
  Retries = 0
  TimeoutMs = 1
  WalkDeadline = 1
  ClockModulus = 2
  MaxStall = 1
  Rows = 1
  CellOutcomes = {"Success"}
  StopAfterCancel = FALSE

SPECIFICATION Spec

INVARIANTS
  EndsOnce
  TakenOnce
  DestructorDrains
  RunStartsAtRoot

PROPERTIES
  ImplementsContract
