\* A query of one cell and a SET of two, of two devices, pending together.
CONSTANTS
  None = None
  a = a
  b = b
  dev1 = dev1
  dev2 = dev2
  Op <- Two
  DeviceOf <- TwoDevices
  Kind <- QueryAndSet
  Version <- TwoV2
  Configured <- Two
  Capacity <- OneAndTwo
  Fit <- Two1
  MaxPending = 2
  MaxID = 2
  Retries = 1
  TimeoutMs = 1
  WalkDeadline = 1
  ClockModulus = 2
  MaxStall = 1
  Rows = 0
  CellOutcomes = {"Success"}
  StopAfterCancel = FALSE

SPECIFICATION Spec

INVARIANTS
  SlotAgreement
  ValuesBelongToRun
  Retransmissions
