---------------------------- MODULE MCSNMPClient ----------------------------
(***************************************************************************)
(* Small instances of SNMPClient for TLC.  Each configuration chooses one  *)
(* of the casts of operations below.                                       *)
(***************************************************************************)
EXTENDS SNMPClientProperties, TLC

CONSTANTS a, b,         \* operations
          dev1, dev2    \* devices

All(S, v) == [o \in S |-> v]
Pair(x, y) == [o \in {a, b} |-> IF o = a THEN x ELSE y]

One == {a}
Two == {a, b}

OneQuery == All(One, "query")
OneSet == All(One, "set")
OneWalk == All(One, "walk")
OneStream == All(One, "stream")
TwoQueries == All(Two, "query")
QueryAndSet == Pair("query", "set")
QueryAndWalk == Pair("query", "walk")
QueryAndStream == Pair("query", "stream")

OneV1 == All(One, "v1")
OneV2 == All(One, "v2c")
TwoV2 == All(Two, "v2c")
V2AndV1 == Pair("v2c", "v1")

OneDevice == All(One, dev1)
SameDevice == All(Two, dev1)
TwoDevices == Pair(dev1, dev2)

One1 == All(One, 1)
One2 == All(One, 2)
One3 == All(One, 3)
Two1 == All(Two, 1)
Two2 == All(Two, 2)
OneAndTwo == Pair(1, 2)
=============================================================================
