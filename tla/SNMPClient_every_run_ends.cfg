\* A v2c query and a v1 walk compete for one slot under fair scheduling.
CONSTANTS
  None = None
  a = a
  b = b
  dev1 = dev1
  dev2 = dev2
  Op <- Two
  DeviceOf <- TwoDevices
  Kind <- QueryAndWalk
  Version <- V2AndV1
  Configured <- Two
  Capacity <- Two1
  Fit <- Two1
  MaxPending = 1
  MaxID = 2
  Retries = 0
  TimeoutMs = 1
  WalkDeadline = 1
  ClockModulus = 2
  MaxStall = 1
  Rows = 1
  CellOutcomes = {"Success"}
  StopAfterCancel = FALSE

SPECIFICATION FairSpec

PROPERTIES
  EveryRunEnds
