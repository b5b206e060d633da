--------------------------- MODULE SNMPGetResponse ---------------------------
(***************************************************************************)
(* Parsing a datagram: ComplexType::decode() of src/src/BER.cpp builds the *)
(* tree on the call stack, and SNMPGetResponse::parseFrom() checks its     *)
(* shape and lists its bindings.  Every `new (std::nothrow)` may fail, and *)
(* every failure unwinds the calls.                                        *)
(*                                                                         *)
(* "calls" are the active decode() calls, each on the octets at + 1..end,  *)
(* and "lists" the children of the object each of them fills.  "live"      *)
(* counts the blocks that are allocated and not yet deleted: objects, list *)
(* nodes and binding wrappers.                                             *)
(***************************************************************************)
EXTENDS Messages

CONSTANTS
  Datagrams,      \* what the peer may send: records with a field octets
  Again,          \* bound: the ones a used parser is called with
  MaxDepth        \* 32 nested decode() calls

ASSUME ParserAssumption ==
  /\ MaxDepth \in Nat \ {0}
  /\ Again \subseteq Datagrams
  /\ \A d \in Datagrams : d.octets \in Seq(Octet)

VARIABLES datagram, phase, calls, lists, packet, varBinds, live, starved

vars == <<datagram, phase, calls, lists, packet, varBinds, live, starved>>

Phases == {"idle", "decoding", "failing", "decoded", "binding", "accepted", "rejected"}

None == [type |-> "None", kids |-> << >>, blocks |-> 0]
Nothing == [octets |-> << >>]
NoBinds == [nodes |-> 0, values |-> << >>]

\* The sum of a sequence of numbers.
Total(numbers) ==
  LET upto[i \in 0..Len(numbers)] == IF i = 0 THEN 0 ELSE upto[i - 1] + numbers[i]
  IN  upto[Len(numbers)]

\* Blocks a value owns, and the blocks of an object with a list of children.
Blocks(v) == IF v.type \in Constructed \cup {"None"} THEN v.blocks ELSE 1
Owned(kids) == 1 + Total([i \in 1..Len(kids) |-> 1 + Blocks(kids[i])])

Object(type, kids) == [type |-> type, kids |-> kids, blocks |-> Owned(kids)]
Call(type, at, end) == [type |-> type, at |-> at, end |-> end]

Buffer == datagram.octets
Depth == Len(calls)
Top == calls[Depth]
Popped(stack) == SubSeq(stack, 1, Len(stack) - 1)

Init ==
  /\ datagram = Nothing
  /\ phase = "idle"
  /\ calls = << >>
  /\ lists = << >>
  /\ packet = None
  /\ varBinds = NoBinds
  /\ live = 0
  /\ starved = FALSE

-----------------------------------------------------------------------------
\* The destructor, and receive() which deletes both before notify(): the
\* wrappers are deleted and the values they borrow go with the tree.
Released == live - Blocks(packet) - varBinds.nodes - Len(varBinds.values)

Release ==
  /\ phase \in {"accepted", "rejected"}
  /\ phase' = "idle"
  /\ packet' = None
  /\ varBinds' = NoBinds
  /\ live' = Released
  /\ datagram' = Nothing
  /\ starved' = FALSE
  /\ UNCHANGED <<calls, lists>>

\* The start of parseFrom(), on a new parser or a used one, and of decode()
\* on the whole message.
Parse(d, memory) ==
  LET h == ReadHeader(d.octets, 0, Len(d.octets))
  IN  /\ phase \in {"idle", "accepted", "rejected"}
      /\ datagram' = d
      /\ varBinds' = NoBinds
      /\ IF Len(d.octets) < 2 \/ d.octets[1] # Tag["Structure"] \/ ~memory
           THEN /\ phase' = "rejected"
                /\ packet' = None
                /\ live' = Released
                /\ starved' = ~memory
                /\ UNCHANGED <<calls, lists>>
           ELSE /\ live' = Released + 1
                /\ starved' = FALSE
                /\ IF h.ok
                     THEN /\ phase' = "decoding"
                          /\ packet' = None
                          /\ calls' = <<Call("Structure", h.header, h.header + h.length)>>
                          /\ lists' = << << >> >>
                     ELSE /\ phase' = "rejected"
                          /\ packet' = Object("Structure", << >>)
                          /\ UNCHANGED <<calls, lists>>

-----------------------------------------------------------------------------
(***************************************************************************)
(* decode().                                                               *)
(***************************************************************************)
ChildHeader == ReadHeader(Buffer, Top.at, Top.end)
ChildType == TypeOf(Buffer[Top.at + 1])
ChildEnd == Top.at + ChildHeader.header + ChildHeader.length
Child == FromBuffer(ChildType, SubSeq(Buffer, Top.at + ChildHeader.header + 1, ChildEnd))

AtChild == phase = "decoding" /\ Top.at < Top.end

Decodable ==
  /\ ChildHeader.ok
  /\ ChildType \in Types
  /\ FixedLength(ChildType, ChildHeader.length)

\* A bad header or tag: nothing is allocated for the child.
Malformed ==
  /\ AtChild
  /\ ~Decodable
  /\ phase' = "failing"
  /\ UNCHANGED <<datagram, calls, lists, packet, varBinds, live, starved>>

\* addValueToList() owns the child either way: without a list node it deletes
\* it.  "below" are the calls up to the one that decodes the child's parent.
Discarded_Kept(child) == 0
Discarded(child) == Blocks(child)

AddValue(child, below, kids, end, node) ==
  IF node
    THEN /\ calls' = [below EXCEPT ![Len(below)].at = end]
         /\ lists' = [kids EXCEPT ![Len(kids)] = Append(@, child)]
         /\ UNCHANGED phase
    ELSE /\ calls' = below
         /\ lists' = kids
         /\ phase' = "failing"

\* A child without children: one that its decoder refuses is deleted again.
DecodePrimitive(object, node) ==
  /\ AtChild
  /\ Decodable /\ ChildType \notin Constructed
  /\ IF object /\ Child # Invalid
       THEN /\ AddValue(Child, calls, lists, ChildEnd, node)
            /\ live' = live + (IF node THEN 2 ELSE 1 - Discarded(Child))
            /\ starved' = (starved \/ ~node)
       ELSE /\ phase' = "failing"
            /\ starved' = (starved \/ ~object)
            /\ UNCHANGED <<calls, lists, live>>
  /\ UNCHANGED <<datagram, packet, varBinds>>

\* A child with children: decode() calls itself, and a call that would be too
\* deep fails at once.
DecodeStructure(object) ==
  /\ AtChild
  /\ Decodable /\ ChildType \in Constructed
  /\ IF object /\ Depth < MaxDepth
       THEN /\ calls' = Append(calls, Call(ChildType, Top.at + ChildHeader.header, ChildEnd))
            /\ lists' = Append(lists, << >>)
            /\ live' = live + 1
            /\ UNCHANGED phase
       ELSE phase' = "failing" /\ UNCHANGED <<calls, lists, live>>
  /\ starved' = (starved \/ ~object)
  /\ UNCHANGED <<datagram, packet, varBinds>>

AtEnd == phase = "decoding" /\ Top.at = Top.end
Filled == Object(Top.type, lists[Depth])

\* decode() returns true at the end of its contents, to the decode() of the
\* parent or to parseFrom().
ReturnChild(node) ==
  /\ AtEnd /\ Depth > 1
  /\ AddValue(Filled, Popped(calls), Popped(lists), Top.end, node)
  /\ live' = live + (IF node THEN 1 ELSE 0 - Discarded(Filled))
  /\ starved' = (starved \/ ~node)
  /\ UNCHANGED <<datagram, packet, varBinds>>

ReturnPacket ==
  /\ AtEnd /\ Depth = 1
  /\ phase' = "decoded"
  /\ packet' = Filled
  /\ calls' = << >> /\ lists' = << >>
  /\ UNCHANGED <<datagram, varBinds, live, starved>>

AfterFailure_Retries(caller) == IF caller = 0 THEN "rejected" ELSE "decoding"
AfterFailure(caller) == IF caller = 0 THEN "rejected" ELSE "failing"

\* decode() returns false: its caller deletes the object and fails too.  What
\* was read of the whole message stays with the parser.
Unwind ==
  /\ phase = "failing"
  /\ calls' = Popped(calls) /\ lists' = Popped(lists)
  /\ phase' = AfterFailure(Depth - 1)
  /\ IF Depth = 1
       THEN packet' = Filled /\ UNCHANGED live
       ELSE live' = live - Blocks(Filled) /\ UNCHANGED packet
  /\ UNCHANGED <<datagram, varBinds, starved>>

-----------------------------------------------------------------------------
(***************************************************************************)
(* The rest of parseFrom().                                                *)
(***************************************************************************)
CheckShape(memory) ==
  /\ phase = "decoded"
  /\ IF IsReply(packet) /\ memory
       THEN /\ phase' = "binding"
            /\ varBinds' = [nodes |-> 1, values |-> << >>]
            /\ live' = live + 1
       ELSE phase' = "rejected" /\ UNCHANGED <<varBinds, live>>
  /\ starved' = (starved \/ (IsReply(packet) /\ ~memory))
  /\ UNCHANGED <<datagram, calls, lists, packet>>

AtBinding == phase = "binding" /\ Len(varBinds.values) < Len(Bindings(packet))

RejectBinding ==
  LET i == Len(varBinds.values) + 1
  IN  /\ AtBinding
      /\ ~ValidBinding(Bindings(packet)[i], Version(packet) = 1)
      /\ phase' = "rejected"
      /\ UNCHANGED <<datagram, calls, lists, packet, varBinds, live, starved>>

\* A binding takes a wrapper and then the empty node after it.
Bind(memory) ==
  LET i == Len(varBinds.values) + 1
  IN  /\ AtBinding
      /\ ValidBinding(Bindings(packet)[i], Version(packet) = 1)
      /\ varBinds' = [nodes |-> varBinds.nodes + memory \div 2,
                      values |-> IF memory = 0 THEN varBinds.values
                                               ELSE Append(varBinds.values, i)]
      /\ live' = live + memory
      /\ phase' = IF memory = 2 THEN "binding" ELSE "rejected"
      /\ starved' = (starved \/ memory < 2)
      /\ UNCHANGED <<datagram, calls, lists, packet>>

Accept ==
  /\ phase = "binding" /\ ~AtBinding
  /\ phase' = "accepted"
  /\ UNCHANGED <<datagram, calls, lists, packet, varBinds, live, starved>>

Step ==
  \/ Malformed \/ ReturnPacket \/ Unwind \/ RejectBinding \/ Accept
  \/ \E object, node \in BOOLEAN : DecodePrimitive(object, node)
  \/ \E memory \in BOOLEAN :
       DecodeStructure(memory) \/ ReturnChild(memory) \/ CheckShape(memory)
  \/ \E memory \in 0..2 : Bind(memory)

Next ==
  \/ \E d \in IF phase = "idle" THEN Datagrams ELSE Again, memory \in BOOLEAN :
       Parse(d, memory)
  \/ Step
  \/ Release

Spec == Init /\ [][Next]_vars

\* parseFrom() runs to its end once it is called.
FairSpec == Spec /\ WF_vars(Step)

-----------------------------------------------------------------------------
\* A stack of calls on octets of one buffer, each inside the contents of the
\* call below it.
Nested(stack, octets) ==
  /\ stack \in Seq([type : Constructed, at : Nat, end : Nat])
  /\ Len(stack) <= MaxDepth
  /\ \A i \in 1..Len(stack) : stack[i].at <= stack[i].end /\ stack[i].end <= octets
  /\ \A i \in 1..(Len(stack) - 1) :
       stack[i].at < stack[i + 1].at /\ stack[i + 1].end <= stack[i].end

\* No length a peer sends takes the decoder past the end of the datagram, or
\* past the end of the value it is inside of, and calls nest at most MaxDepth
\* deep: the framing rules of readBERHeader() and decode(), and the unwinding
\* of its calls.
ParserInv ==
  /\ datagram.octets \in Seq(Octet)
  /\ phase \in Phases
  /\ phase \in {"decoding", "failing"} <=> calls # << >>
  /\ Nested(calls, Len(Buffer))

\* The blocks of the objects that active calls fill.
OwnedBy(stack) == Total([i \in 1..Len(stack) |-> Owned(stack[i])])

\* Every block the parser allocated and has not deleted belongs to the object
\* of an active call, to the tree or to the list of bindings, exactly once,
\* and none is left after the parser is released: the unwinding of decode(),
\* the ownership of addValueToList() and the deletions of parseFrom() and
\* receive(), with an allocation failing anywhere.
NothingLeaks ==
  live = OwnedBy(lists) + Blocks(packet) + varBinds.nodes + Len(varBinds.values)
=============================================================================
