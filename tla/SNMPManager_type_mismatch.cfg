\* Two registrations in one request whose reply has a value of another type.
CONSTANTS
  Callback = {c1, c2}
  Builder = {b1}
  Peer = {p}
  Name = {n1, n2}
  Transport = {u}
  ID = {1, 2}
  MaxPending = 2
  SerialModulus = 2
  MaxListed = 2
  MaxBindings = 2
  Fates = {"value", "unusable", "wrongType"}
  Free = Free
  None = None

SPECIFICATION Spec

INVARIANT
  MatchingRepliesConsume
