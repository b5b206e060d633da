------------------------------ MODULE Messages ------------------------------
(***************************************************************************)
(* The message shapes the library accepts, over decoded trees: a           *)
(* constructed value is a record of its type and its children ("kids").    *)
(* The parser of replies and the notification handler each test the shape  *)
(* of a tree before they use a field of it.                                *)
(***************************************************************************)
EXTENDS BER

CONSTANTS
  UptimeOID, TrapOID,   \* the names the first two bindings must have
  MaxGeneric            \* 6

Shape(v) == [i \in 1..Len(v.kids) |-> v.kids[i].type]

\* isValidBindingType(): v1 has neither Counter64 nor exceptions.
IsValidBindingType(type, version2) ==
  \/ type \in {"Integer", "Octets", "OID", "Null", "Address", "Opaque"} \cup Unsigned
  \/ version2 /\ type \in {"Counter64"} \cup Exceptions

ValidBinding(b, version2) ==
  /\ b.type = "Structure" /\ Len(b.kids) = 2
  /\ b.kids[1].type = "OID"
  /\ IsValidBindingType(b.kids[2].type, version2)

Version(m) == m.kids[1].number
PDU(m) == m.kids[3]
Bindings(m) == PDU(m).kids[Len(PDU(m).kids)].kids

IsMessage(m) ==
  /\ Len(m.kids) = 3
  /\ m.kids[1].type = "Integer" /\ m.kids[2].type = "Octets"

\* What parseFrom() requires before it lists the bindings.  The v1 trap has
\* another shape and is not one of these.
IsReply(m) ==
  /\ IsMessage(m)
  /\ Version(m) <= 1
  /\ PDU(m).type \in PDUs \ {"Trap"}
  /\ Version(m) = 0 => PDU(m).type \notin {"GetBulkRequest", "InformRequest", "Trapv2"}
  /\ Shape(PDU(m)) = <<"Integer", "Integer", "Integer", "Structure">>

\* A 32-bit field that is negative once it is an int32_t.
Negative(n) == (n % Power(Base, WordOctets)) * 2 >= Power(Base, WordOctets)

\* An Integer keeps its low word, and its sign fills an unsigned long again.
StoredNumber(n) ==
  LET low == n % Power(Base, WordOctets)
  IN  IF Negative(n) THEN low + Power(Base, LongOctets) - Power(Base, WordOctets) ELSE low

ValidTrap(pdu) ==
  /\ Shape(pdu) = <<"OID", "Address", "Integer", "Integer", "Timestamp", "Structure">>
  /\ ~Negative(pdu.kids[3].number) /\ pdu.kids[3].number <= MaxGeneric
  /\ ~Negative(pdu.kids[4].number)

\* copyValue() fails for an exception, so that read() does.
ReadableAs(b, name, type) == b.kids[1].arcs = name /\ b.kids[2].type = type

ValidV2(m) ==
  /\ Shape(PDU(m)) = <<"Integer", "Integer", "Integer", "Structure">>
  /\ PDU(m).kids[2].number = 0 /\ PDU(m).kids[3].number = 0
  /\ \A i \in 1..Len(Bindings(m)) : ValidBinding(Bindings(m)[i], TRUE)
  /\ Len(Bindings(m)) >= 2
  /\ ReadableAs(Bindings(m)[1], UptimeOID, "Timestamp")
  /\ ReadableAs(Bindings(m)[2], TrapOID, "OID")

IsNotification_AnyCommunity(m, community) ==
  /\ IsMessage(m)
  /\ \/ /\ Version(m) = 0 /\ PDU(m).type = "Trap"
        /\ ValidTrap(PDU(m))
        /\ \A i \in 1..Len(Bindings(m)) : ValidBinding(Bindings(m)[i], FALSE)
     \/ /\ Version(m) = 1 /\ PDU(m).type \in {"Trapv2", "InformRequest"}
        /\ ValidV2(m)

\* What notify() requires before it calls the handler.
IsNotification(m, community) ==
  /\ IsMessage(m)
  /\ m.kids[2].octets = community
  /\ \/ /\ Version(m) = 0 /\ PDU(m).type = "Trap"
        /\ ValidTrap(PDU(m))
        /\ \A i \in 1..Len(Bindings(m)) : ValidBinding(Bindings(m)[i], FALSE)
     \/ /\ Version(m) = 1 /\ PDU(m).type \in {"Trapv2", "InformRequest"}
        /\ ValidV2(m)
=============================================================================
