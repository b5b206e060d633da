\* One v2c query of up to three cells, two to a packet.
CONSTANTS
  None = None
  a = a
  b = b
  dev1 = dev1
  dev2 = dev2
  Op <- One
  DeviceOf <- OneDevice
  Kind <- OneQuery
  Version <- OneV2
  Configured <- One
  Capacity <- One3
  Fit <- One2
  MaxPending = 1
  MaxID = 5
  Retries = 0
  TimeoutMs = 1
  WalkDeadline = 1
  ClockModulus = 2
  MaxStall = 1
  Rows = 0
  CellOutcomes = {"Success", "Missing"}
  StopAfterCancel = FALSE

SPECIFICATION Spec

INVARIANTS
  IInv
  BatchesInOrder
  OutcomeIsHonest
  RequestBudget

PROPERTIES
  CellsSettleOnce
