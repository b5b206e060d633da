---------------------- MODULE SNMPGetResponseProperties ----------------------
(***************************************************************************)
(* What a datagram becomes, whatever its sender put in it and wherever the *)
(* memory runs out.  A message that a peer serialised is a datagram with   *)
(* the value it was made of ("from") and whether it is a valid reply.      *)
(***************************************************************************)
EXTENDS SNMPGetResponse

\* serialise() of a whole tree, and of a SET request, whose last value is
\* appended by appendValue().
RECURSIVE Encoding(_)
Encoding(v) ==
  IF v.type \in Constructed
    THEN SerialisedStructure(v.type, [i \in 1..Len(v.kids) |-> Encoding(v.kids[i])], MaxLength)
    ELSE Serialised(v, MaxLength)

SetEncoding(m) ==
  LET b == Bindings(m)[1]
      binding == SerialisedStructure("Structure",
        <<Encoding(b.kids[1]), AppendedValue(b.kids[2], MaxLength)>>, MaxLength)
      list == SerialisedStructure("Structure", <<binding>>, MaxLength)
      head == [i \in 1..3 |-> Encoding(PDU(m).kids[i])]
  IN  SerialisedStructure("Structure",
        <<Encoding(m.kids[1]), Encoding(m.kids[2]),
          SerialisedStructure(PDU(m).type, Append(head, list), MaxLength)>>, MaxLength)

\* The value v is decoded as d.
RECURSIVE DecodedAs(_, _)
DecodedAs(d, v) ==
  /\ d.type = v.type
  /\ CASE v.type \in Constructed ->
            /\ Len(d.kids) = Len(v.kids)
            /\ \A i \in 1..Len(v.kids) : DecodedAs(d.kids[i], v.kids[i])
       [] v.type = "Integer" -> d.number = StoredNumber(v.number)
       [] OTHER -> d = v

-----------------------------------------------------------------------------
(***************************************************************************)
(* Invariants.                                                             *)
(***************************************************************************)
\* A message is read back as the values it was made of, negative numbers and
\* boundary lengths included, every binding of it is listed, and parseFrom()
\* accepts exactly the messages that are valid replies, unless memory ran out.
DecodesTheMessage ==
  (phase \in {"accepted", "rejected"} /\ "from" \in DOMAIN datagram) =>
    /\ phase = "accepted" =>
         /\ DecodedAs(packet, datagram.from)
         /\ Len(varBinds.values) = Len(Bindings(datagram.from))
    /\ ~starved => (phase = "accepted" <=> datagram.valid)

\* A tree that was decoded can be serialised again into the octets it came in:
\* notify() acknowledges an INFORM in the buffer that received it, and has
\* already handed the event to the application when it does.
Reserialises ==
  phase = "decoded" =>
    LET again == Encoding(packet)
    IN  again # Failed /\ Len(again) <= Len(Buffer)

-----------------------------------------------------------------------------
(***************************************************************************)
(* Liveness.                                                               *)
(***************************************************************************)
\* Every call of parseFrom() returns, however the lengths in the datagram are
\* nested and whichever allocations fail.
ParseEnds == [](phase = "decoding" => <>(phase \in {"accepted", "rejected"}))
=============================================================================
