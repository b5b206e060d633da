\* Two values, a payload more than they hold, and two datagrams from the agent.
SPECIFICATION Spec
CONSTANTS
  Base = 16
  WordOctets = 2
  LongOctets = 3
  Counter64Octets = 3
  AddressOctets = 2
  MaxOctets = 9
  MaxOID = 9
  ArcOctets = 2
  RootSpan = 4
  MaxArc = 31
  MaxArcs = 4
  MaxGeneric = 6
  Types <- MCTypes
  Tag <- MCTag
  UptimeOID <- MCUptime
  TrapOID <- MCTrap
  Value = {v1, v2}
  Payload = {p1, p2, p3}
  None = None
  MaxValueOctets = 3
  Event <- MCEvent
  Genuine <- MCGenuine
  MessageOf <- MCMessageOf
  Community <- MCCommunity
  Settings <- MCSettings
  MaxSends = 2
SYMMETRY Alike
INVARIANTS
  PayloadsCounted
  ValuesKeepTheirBytes
  AcknowledgedIsAccepted
  OnlyNotificationsAccepted
