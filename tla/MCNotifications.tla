--------------------------- MODULE MCNotifications ---------------------------
(***************************************************************************)
(* Notifications of two communities, one of a third that the sketch never  *)
(* registers, and messages with one thing wrong.                           *)
(***************************************************************************)
EXTENDS Notifications, TLC

MCTypes == {"Structure"}
MCTag == [y \in MCTypes |-> 3]
MCUptime == <<1, 3>>
MCTrap == <<1, 2>>
MCCommunity == {<<1>>, <<2>>}
MCSettings == {<< >>, <<3, 4>>, <<1, 2, 3, 4>>}

Node(type, kids) == [type |-> type, kids |-> kids]
Num(n) == [type |-> "Integer", number |-> n]
Ticks(n) == [type |-> "Timestamp", number |-> n]
Name(arcs) == [type |-> "OID", arcs |-> arcs]
Text(s) == [type |-> "Octets", octets |-> s]
Pair(name, v) == Node("Structure", <<Name(name), v>>)

V2(c, pdu, error, bindings) ==
  Node("Structure", <<Num(1), Text(c),
    Node(pdu, <<Num(7), Num(error), Num(0), Node("Structure", bindings)>>)>>)
V1(version, generic, bindings) ==
  Node("Structure", <<Num(version), Text(<<1>>),
    Node("Trap", <<Name(<<1, 3>>), [type |-> "Address", octets |-> <<1, 2>>],
      Num(generic), Num(0), Ticks(5), Node("Structure", bindings)>>)>>)

Uptime == Pair(MCUptime, Ticks(5))
TrapName == Pair(MCTrap, Name(<<1, 5>>))
Binding3 == Pair(<<1, 4>>, Text(<<6, 7>>))
Counter == Pair(<<1, 4>>, [type |-> "Counter64", number |-> 1])
Gone == [type |-> "NoSuchObject"]

MCMessageOf ==
  [inform |-> V2(<<1>>, "InformRequest", 0, <<Uptime, TrapName, Binding3>>),
   inform2 |-> V2(<<2>>, "InformRequest", 0, <<Uptime, TrapName>>),
   trap2 |-> V2(<<2>>, "Trapv2", 0, <<Uptime, TrapName, Counter>>),
   trap1 |-> V1(0, 6, <<Binding3>>),
   stranger |-> V2(<<1, 2>>, "InformRequest", 0, <<Uptime, TrapName>>),
   failed |-> V2(<<1>>, "InformRequest", 1, <<Uptime, TrapName>>),
   nameless |-> V2(<<1>>, "InformRequest", 0, <<Uptime>>),
   swapped |-> V2(<<1>>, "InformRequest", 0, <<TrapName, Uptime>>),
   missing |-> V2(<<1>>, "InformRequest", 0, <<Uptime, Pair(MCTrap, Gone)>>),
   nested |-> V2(<<1>>, "InformRequest", 0, <<Uptime, TrapName, Pair(<<1, 4>>, Node("Structure", << >>))>>),
   reply |-> V2(<<1>>, "GetResponse", 0, <<Uptime, TrapName>>),
   generic |-> V1(0, 7, << >>),
   negative |-> V1(0, 4095, << >>),
   wide |-> V1(0, 6, <<Counter>>),
   version |-> V1(1, 6, << >>),
   longer |-> Node("Structure", Append(V2(<<1>>, "InformRequest", 0, <<Uptime, TrapName>>).kids, Num(1)))]
MCEvent == DOMAIN MCMessageOf
MCGenuine ==
  [event : {"inform", "trap1"}, community : {<<1>>}]
    \cup [event : {"inform2", "trap2"}, community : {<<2>>}]
Alike == Permutations(Payload) \cup Permutations(Value)
=============================================================================
