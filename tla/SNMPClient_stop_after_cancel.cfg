\* A stream callback may cancel its walk and then return false.
CONSTANTS
  None = None
  a = a
  b = b
  dev1 = dev1
  dev2 = dev2
  Op <- One
  DeviceOf <- OneDevice
  Kind <- OneStream
  Version <- OneV2
  Configured <- One
  Capacity <- One1
  Fit <- One1
  MaxPending = 1
  MaxID = 2
  Retries = 0
  TimeoutMs = 1
  WalkDeadline = 1
  ClockModulus = 2
  MaxStall = 1
  Rows = 1
  CellOutcomes = {"Success"}
  StopAfterCancel = TRUE

SPECIFICATION Spec

INVARIANTS
  TakenOnce
