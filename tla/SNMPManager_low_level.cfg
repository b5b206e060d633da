\* Two registrations of up to two objects shared by two builders.
CONSTANTS
  Callback = {c1, c2}
  Builder = {b1, b2}
  Peer = {p}
  Name = {n1, n2}
  Transport = {u}
  ID = {i1, i2, i3}
  MaxPending = 2
  SerialModulus = 2
  MaxListed = 2
  MaxBindings = 2
  Fates = {"value", "unusable", "wrongType"}
  Free = Free
  None = None

SYMMETRY Interchangeable

SPECIFICATION Spec

INVARIANTS
  ManagerInv
  ReferencesAccounted
  EntriesDiffer
  SendsAreTracked

PROPERTIES
  LateRepliesAreDropped
  ImplementsMatching
