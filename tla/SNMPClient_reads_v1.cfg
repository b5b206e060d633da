\* One v1 query of up to three cells in one packet, each request sent twice,
\* under fair scheduling.
CONSTANTS
  None = None
  a = a
  b = b
  dev1 = dev1
  dev2 = dev2
  Op <- One
  DeviceOf <- OneDevice
  Kind <- OneQuery
  Version <- OneV1
  Configured <- One
  Capacity <- One3
  Fit <- One3
  MaxPending = 1
  MaxID = 4
  Retries = 1
  TimeoutMs = 1
  WalkDeadline = 1
  ClockModulus = 2
  MaxStall = 1
  Rows = 0
  CellOutcomes = {"Success"}
  StopAfterCancel = FALSE

SPECIFICATION FairSpec

INVARIANTS
  RequestIdentity

PROPERTIES
  EveryRunEnds
