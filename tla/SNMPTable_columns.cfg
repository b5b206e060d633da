\* A table of two columns and two rows over three indices, one of them too
\* long for a row, read twice.
CONSTANTS
  Rows = 2
  Columns = 2
  Indices = 3
  TooLong = {3}
  NoName = NoName
  Name <- Names
  AnyType = AnyType
  Type = {"Counter64", "Counter32", "NoSuchInstance", "String"}
  Offered <- Columns3
  Bindings <- Outcomes
  WalkOutcomes = {"Success", "Timeout"}
  MaxRuns = 2

SPECIFICATION FairSpec

INVARIANTS
  TableInv
  RowsJoined
  OutcomeIsHonest

PROPERTIES
  CellsStay
  EveryTableEnds
  ImplementsContract

CHECK_DEADLOCK FALSE
