\* Four-bit octets: a word of two, an unsigned long of three.
SPECIFICATION FairSpec
CONSTANTS
  Base = 16
  WordOctets = 2
  LongOctets = 3
  Counter64Octets = 3
  AddressOctets = 2
  MaxOctets = 9
  MaxOID = 9
  ArcOctets = 2
  RootSpan = 4
  MaxArc = 31
  MaxArcs = 4
  MaxGeneric = 6
  MaxDepth = 5
  Types <- MCTypes
  Tag <- MCTag
  UptimeOID <- MCUptime
  TrapOID <- MCTrap
  Datagrams <- MCDatagrams
  Again <- MCAgain
INVARIANTS
  ParserInv
  NothingLeaks
  DecodesTheMessage
  Reserialises
PROPERTIES
  ParseEnds
