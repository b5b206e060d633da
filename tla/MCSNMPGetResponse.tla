-------------------------- MODULE MCSNMPGetResponse --------------------------
(***************************************************************************)
(* Octets of four bits.  Datagrams are every short sequence of octets that *)
(* starts like a message, and serialised messages: replies that are valid, *)
(* and replies with one thing wrong.                                       *)
(***************************************************************************)
EXTENDS SNMPGetResponseProperties

MCTypes == {"Integer", "Octets", "Null", "OID", "Structure", "Address", "Counter32",
            "Counter64", "Opaque", "NoSuchObject", "GetResponse", "SetRequest",
            "Trap", "InformRequest"}
MCTag == [y \in MCTypes |->
  CASE y = "Integer" -> 2 [] y = "Octets" -> 4 [] y = "Null" -> 5 [] y = "OID" -> 6
    [] y = "Structure" -> 3 [] y = "Address" -> 7 [] y = "Counter32" -> 1
    [] y = "Counter64" -> 8 [] y = "Opaque" -> 9 [] y = "NoSuchObject" -> 10
    [] y = "GetResponse" -> 11 [] y = "Trap" -> 12 [] y = "InformRequest" -> 13
    [] y = "SetRequest" -> 14]
MCUptime == <<1, 3>>
MCTrap == <<1, 2>>

Alphabet == {0, 1, 2, 3, 6, 9, 11}
Raw == {[octets |-> <<3>> \o s] : s \in UNION {[1..n -> Alphabet] : n \in 0..5}}

-----------------------------------------------------------------------------
Node(type, kids) == [type |-> type, kids |-> kids]
Num(n) == [type |-> "Integer", number |-> n]
Name(arcs) == [type |-> "OID", arcs |-> arcs]
Text(s) == [type |-> "Octets", octets |-> s]
Bind2(name, v) == Node("Structure", <<name, v>>)

\* Numbers at the boundaries of signs and octets, in all the widths.
Edges == {0, 7, 8, 127, 128, 255}
Values ==
  {Num(n) : n \in Edges \cup {4096 - n : n \in 1..128}} \cup
  {[type |-> "Counter32", number |-> n] : n \in Edges} \cup
  {Name(a) : a \in {<<0, 0>>, <<1, 3>>, <<2, 31>>, <<2, 0, 31>>, <<1, 3, 7, 8>>}} \cup
  {Text(s) : s \in {<< >>, <<8>>, <<0, 15>>, [i \in 1..8 |-> i]}} \cup
  {[type |-> "Opaque", octets |-> s] : s \in {<< >>, [i \in 1..9 |-> i]}} \cup
  {[type |-> "Address", octets |-> <<15, 0>>], [type |-> "Null"]}
V2Values ==
  {[type |-> "Counter64", number |-> n] : n \in Edges \cup {2048, 4095}} \cup
  {[type |-> "NoSuchObject"]}

Reply(version, pdu, bindings) ==
  Node("Structure", <<Num(version), Text(<<5>>),
    Node(pdu, <<Num(200), Num(0), Num(0), Node("Structure", bindings)>>)>>)

One(v) == <<Bind2(Name(<<1, 3>>), v)>>
Valid ==
  {Reply(version, "GetResponse", One(v)) : version \in 0..1, v \in Values} \cup
  {Reply(1, "GetResponse", One(v)) : v \in V2Values} \cup
  {Reply(0, "GetResponse", << >>),
   Reply(1, "InformRequest", One(Num(1)) \o One(Num(2)))}

Wrong ==
  {Reply(0, "GetResponse", One(v)) : v \in V2Values} \cup
  {Reply(2, "GetResponse", << >>), Reply(4095, "GetResponse", << >>),
   Reply(0, "InformRequest", << >>), Reply(1, "Trap", << >>),
   Reply(1, "GetResponse", <<Num(1)>>),
   Reply(1, "GetResponse", One(Num(1)) \o <<Node("Structure", <<Num(1), Num(1)>>)>>),
   Reply(1, "GetResponse", <<Node("Structure", <<Name(<<1, 3>>)>>)>>),
   Reply(1, "GetResponse", One(Node("Structure", << >>))),
   Reply(1, "GetResponse", One(Node("Structure", <<Node("Structure", << >>)>>))),
   Node("Structure", <<Num(1), Text(<<5>>)>>),
   Node("Structure", <<Text(<<5>>), Num(1), Node("GetResponse", << >>)>>),
   Node("Structure", <<Num(1), Text(<<5>>), Node("GetResponse", <<Num(1)>>)>>)}

Sent(m, valid) == [octets |-> Encoding(m), from |-> m, valid |-> valid]

\* A SET of a value the client agreed to send.
Settable == {v \in Values \cup V2Values : AppendedValue(v, MaxLength) # Failed}
Set(v) == [octets |-> SetEncoding(Reply(1, "SetRequest", One(v))),
           from |-> Reply(1, "SetRequest", One(v)), valid |-> TRUE]
Longest == Text([i \in 1..MaxOctets |-> i])

MCDatagrams ==
  Raw \cup {Sent(m, TRUE) : m \in Valid} \cup {Sent(m, FALSE) : m \in Wrong}
      \cup {Set(v) : v \in Settable} \cup {[Set(Longest) EXCEPT !.valid = FALSE]}
MCAgain == {Sent(Reply(1, "GetResponse", One(Num(8))), TRUE), [octets |-> <<3, 0>>]}
=============================================================================
