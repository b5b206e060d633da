------------------------ MODULE SNMPGetResponseProofs ------------------------
(***************************************************************************)
(* The decoder stays inside the datagram and leaks nothing, for every      *)
(* datagram, every size of octet, every depth limit and every failure of   *)
(* an allocation.                                                          *)
(*                                                                         *)
(* ParserInv says that each call decodes octets inside the contents of its *)
(* caller.  It is inductive as it stands, since readBERHeader() never      *)
(* accepts a value that ends after the octets it was given (HeaderFits).   *)
(*                                                                         *)
(* NothingLeaks needs ParserInv, for the phases in which calls are active, *)
(* and Holding: each call fills a list of its own, and the parser has no   *)
(* tree and no bindings while calls are active.  Blocks are sums over      *)
(* lists of children: a recursive function on sequences is the sum of its  *)
(* terms (TotalIs) by the least index at which it would not be.            *)
(***************************************************************************)
EXTENDS SNMPGetResponse, BERProofs

Calls == [type : Constructed, at : Nat, end : Nat]

LEMMA DepthNat == MaxDepth \in Nat \ {0}
BY ParserAssumption DEF ParserAssumption

-----------------------------------------------------------------------------
(***************************************************************************)
(* Stacks of calls.                                                        *)
(***************************************************************************)
LEMMA PopNested ==
  ASSUME NEW stack, NEW n \in Nat, Nested(stack, n), stack # << >>
  PROVE  /\ Len(stack) \in Nat \ {0}
         /\ stack[Len(stack)] \in Calls
         /\ Nested(Popped(stack), n)
         /\ Len(Popped(stack)) = Len(stack) - 1
         /\ \A i \in 1..(Len(stack) - 1) : Popped(stack)[i] = stack[i]
<1>1. stack \in Seq(Calls) /\ Len(stack) \in Nat \ {0}
  BY DEF Nested, Calls
<1>2. stack[Len(stack)] \in Calls
  BY <1>1
<1>3. /\ Popped(stack) \in Seq(Calls)
      /\ Len(Popped(stack)) = Len(stack) - 1
      /\ \A i \in 1..(Len(stack) - 1) : Popped(stack)[i] = stack[i]
  <2> DEFINE n1 == Len(stack) - 1
  <2>1. n1 \in Nat /\ \A i \in 1..n1 : stack[i] \in Calls
    BY <1>1
  <2>2. /\ SubSeq(stack, 1, n1) \in Seq(Calls)
        /\ Len(SubSeq(stack, 1, n1)) = IF 1 <= n1 THEN n1 - 1 + 1 ELSE 0
        /\ \A i \in 1..(n1 - 1 + 1) : SubSeq(stack, 1, n1)[i] = stack[1 + i - 1]
    <3> HIDE DEF n1
    <3> QED
      BY <2>1, SubSeqProperties
  <2>3. /\ SubSeq(stack, 1, n1) \in Seq(Calls)
        /\ Len(SubSeq(stack, 1, n1)) = n1
        /\ \A i \in 1..n1 : SubSeq(stack, 1, n1)[i] = stack[i]
    <3>1. n1 - 1 + 1 = n1 /\ (IF 1 <= n1 THEN n1 - 1 + 1 ELSE 0) = n1
      <4> HIDE DEF n1
      <4>1. n1 - 1 + 1 = n1 /\ (~(1 <= n1) => n1 = 0)
        BY <2>1
      <4> QED
        BY <4>1
    <3>2. \A i \in 1..n1 : 1 + i - 1 = i
      BY <2>1
    <3> HIDE DEF n1
    <3> QED
      BY <2>1, <2>2, <3>1, <3>2
  <2> QED
    BY <2>3 DEF Popped
<1>4. Len(Popped(stack)) <= MaxDepth
  <2>1. Len(stack) <= MaxDepth
    BY DEF Nested
  <2> QED
    BY <2>1, <1>1, <1>3, DepthNat
<1>5. \A i \in 1..Len(Popped(stack)) :
        Popped(stack)[i].at <= Popped(stack)[i].end /\ Popped(stack)[i].end <= n
  <2> SUFFICES ASSUME NEW i \in 1..(Len(stack) - 1)
               PROVE  stack[i].at <= stack[i].end /\ stack[i].end <= n
    BY <1>3
  <2>1. i \in 1..Len(stack)
    BY <1>1
  <2> QED
    BY <2>1 DEF Nested
<1>6. \A i \in 1..(Len(Popped(stack)) - 1) :
        /\ Popped(stack)[i].at < Popped(stack)[i + 1].at
        /\ Popped(stack)[i + 1].end <= Popped(stack)[i].end
  <2>1. Len(Popped(stack)) - 1 = Len(stack) - 2
    BY <1>1, <1>3
  <2>2. ASSUME NEW i \in 1..(Len(stack) - 2)
        PROVE  /\ Popped(stack)[i].at < Popped(stack)[i + 1].at
               /\ Popped(stack)[i + 1].end <= Popped(stack)[i].end
    <3>1. i \in 1..(Len(stack) - 1) /\ i + 1 \in 1..(Len(stack) - 1)
      BY <1>1
    <3>2. Popped(stack)[i] = stack[i] /\ Popped(stack)[i + 1] = stack[i + 1]
      BY <1>3, <3>1
    <3>3. stack[i].at < stack[i + 1].at /\ stack[i + 1].end <= stack[i].end
      BY <3>1 DEF Nested
    <3> QED
      BY <3>2, <3>3
  <2> QED
    BY <2>1, <2>2
<1> QED
  BY <1>1, <1>2, <1>3, <1>4, <1>5, <1>6 DEF Nested, Calls

\* addValueToList() moves the last call on, inside its own contents.
LEMMA AdvanceNested ==
  ASSUME NEW stack, NEW n \in Nat, Nested(stack, n), stack # << >>,
         NEW e \in Nat,
         stack[Len(stack)].at <= e, e <= stack[Len(stack)].end
  PROVE  LET moved == [stack EXCEPT ![Len(stack)].at = e]
         IN  Nested(moved, n) /\ moved # << >>
<1> DEFINE moved == [stack EXCEPT ![Len(stack)].at = e]
           last == stack[Len(stack)]
<1>1. stack \in Seq(Calls) /\ Len(stack) \in Nat \ {0} /\ last \in Calls
  BY PopNested DEF Nested, Calls
<1>2. [last EXCEPT !.at = e] \in Calls
  BY <1>1 DEF Calls
<1>3. moved \in Seq(Calls) /\ Len(moved) = Len(stack)
  BY <1>1, <1>2
<1>4. \A i \in 1..Len(stack) : i # Len(stack) => moved[i] = stack[i]
  BY <1>1
<1>5. moved[Len(stack)].at = e /\ moved[Len(stack)].end = last.end
  BY <1>1 DEF Calls
<1>6. last.at \in Nat /\ last.end \in Nat /\ last.end <= n
  BY <1>1 DEF Nested, Calls
<1> HIDE DEF moved, last
<1>7. \A i \in 1..Len(moved) : moved[i].at <= moved[i].end /\ moved[i].end <= n
  <2> SUFFICES ASSUME NEW i \in 1..Len(stack)
               PROVE  moved[i].at <= moved[i].end /\ moved[i].end <= n
    BY <1>3
  <2>1. CASE i = Len(stack)
    BY <2>1, <1>5, <1>6 DEF last
  <2>2. CASE i # Len(stack)
    BY <2>2, <1>4 DEF Nested
  <2> QED
    BY <2>1, <2>2
<1>8. \A i \in 1..(Len(moved) - 1) :
        moved[i].at < moved[i + 1].at /\ moved[i + 1].end <= moved[i].end
  <2> SUFFICES ASSUME NEW i \in 1..(Len(stack) - 1)
               PROVE  moved[i].at < moved[i + 1].at /\ moved[i + 1].end <= moved[i].end
    BY <1>3
  <2>1. stack[i].at < stack[i + 1].at /\ stack[i + 1].end <= stack[i].end
    BY DEF Nested
  <2>2. i \in 1..Len(stack) /\ i # Len(stack) /\ i + 1 \in 1..Len(stack)
    BY <1>1
  <2>3. moved[i] = stack[i] /\ stack[i] \in Calls
    BY <2>2, <1>1, <1>4
  <2>4. CASE i + 1 = Len(stack)
    <3>1. moved[i].at \in Nat /\ moved[i].at < last.at /\ last.end <= moved[i].end
      BY <2>1, <2>3, <2>4 DEF last, Calls
    <3>2. last.at <= e
      BY DEF last
    <3> QED
      BY <3>1, <3>2, <2>4, <1>5, <1>6
  <2>5. CASE i + 1 # Len(stack)
    BY <2>5, <2>1, <2>2, <2>3, <1>4
  <2> QED
    BY <2>4, <2>5
<1>9. Len(moved) <= MaxDepth /\ moved # << >>
  BY <1>1, <1>3 DEF Nested
<1> QED
  BY <1>3, <1>7, <1>8, <1>9 DEF Nested, Calls, moved

\* decode() calls itself on octets after its own header.
LEMMA PushNested ==
  ASSUME NEW stack, NEW n \in Nat, Nested(stack, n), stack # << >>,
         Len(stack) < MaxDepth,
         NEW c \in Calls,
         stack[Len(stack)].at < c.at, c.at <= c.end, c.end <= stack[Len(stack)].end
  PROVE  Nested(Append(stack, c), n) /\ Append(stack, c) # << >>
<1> DEFINE more == Append(stack, c)
<1>1. stack \in Seq(Calls) /\ Len(stack) \in Nat \ {0}
  BY PopNested DEF Nested, Calls
<1>2. /\ more \in Seq(Calls) /\ Len(more) = Len(stack) + 1
      /\ more[Len(stack) + 1] = c
      /\ \A i \in 1..Len(stack) : more[i] = stack[i]
  BY <1>1
<1> HIDE DEF more
<1>3. c.end <= n
  <2>1. Len(stack) \in 1..Len(stack) /\ stack[Len(stack)] \in Calls
    BY <1>1
  <2>2. stack[Len(stack)].end <= n
    BY <2>1 DEF Nested
  <2>3. c.end \in Nat /\ stack[Len(stack)].end \in Nat
    BY <2>1 DEF Calls
  <2> QED
    BY <2>2, <2>3
<1>4. \A i \in 1..Len(more) : more[i].at <= more[i].end /\ more[i].end <= n
  <2> SUFFICES ASSUME NEW i \in 1..(Len(stack) + 1)
               PROVE  more[i].at <= more[i].end /\ more[i].end <= n
    BY <1>2
  <2>1. CASE i = Len(stack) + 1
    BY <2>1, <1>2, <1>3
  <2>2. CASE i \in 1..Len(stack)
    BY <2>2, <1>2 DEF Nested
  <2> QED
    BY <2>1, <2>2, <1>1
<1>5. \A i \in 1..(Len(more) - 1) :
        more[i].at < more[i + 1].at /\ more[i + 1].end <= more[i].end
  <2> SUFFICES ASSUME NEW i \in 1..Len(stack)
               PROVE  more[i].at < more[i + 1].at /\ more[i + 1].end <= more[i].end
    BY <1>1, <1>2
  <2>1. CASE i = Len(stack)
    BY <2>1, <1>1, <1>2
  <2>2. CASE i \in 1..(Len(stack) - 1)
    <3>1. i + 1 \in 1..Len(stack)
      BY <2>2, <1>1
    <3> QED
      BY <3>1, <2>2, <1>2 DEF Nested
  <2> QED
    BY <2>1, <2>2, <1>1
<1>6. Len(more) <= MaxDepth /\ more # << >>
  BY <1>1, <1>2, DepthNat
<1> QED
  BY <1>2, <1>4, <1>5, <1>6 DEF Nested, Calls, more

-----------------------------------------------------------------------------
(***************************************************************************)
(* The steps of the parser.                                                *)
(***************************************************************************)
LEMMA InitInv == Init => ParserInv
<1> SUFFICES ASSUME Init PROVE ParserInv
  OBVIOUS
<1>1. datagram.octets = << >> /\ phase = "idle" /\ calls = << >>
  BY DEF Init, Nothing
<1>2. Nested(calls, Len(Buffer))
  BY <1>1, DepthNat DEF Nested
<1> QED
  BY <1>1, <1>2 DEF ParserInv, Phases

\* What every step has of the invariant.
LEMMA Known ==
  ASSUME ParserInv
  PROVE  /\ Buffer \in Seq(Octet) /\ Len(Buffer) \in Nat
         /\ calls # << >> =>
              /\ Depth \in Nat \ {0} /\ Top \in Calls
              /\ Top.at <= Top.end /\ Top.end <= Len(Buffer)
<1>1. Buffer \in Seq(Octet) /\ Len(Buffer) \in Nat /\ Nested(calls, Len(Buffer))
  BY DEF ParserInv, Buffer
<1>2. ASSUME calls # << >>
      PROVE  Depth \in Nat \ {0} /\ Top \in Calls
  BY <1>1, <1>2, PopNested DEF Depth, Top
<1>3. ASSUME calls # << >>
      PROVE  Top.at <= Top.end /\ Top.end <= Len(Buffer)
  <2>1. Depth \in 1..Depth
    BY <1>2, <1>3
  <2> QED
    BY <2>1, <1>1 DEF Nested, Top, Depth
<1> QED
  BY <1>1, <1>2, <1>3

\* The child that is decoded lies in the contents of the last call.
LEMMA ChildFits ==
  ASSUME ParserInv, AtChild, Decodable
  PROVE  /\ Top.at + ChildHeader.header \in Nat /\ ChildEnd \in Nat
         /\ Top.at < Top.at + ChildHeader.header
         /\ Top.at + ChildHeader.header <= ChildEnd
         /\ ChildEnd <= Top.end
<1>1. calls # << >>
  BY DEF AtChild, ParserInv
<1>2. /\ Buffer \in Seq(Octet) /\ Top.at \in Nat /\ Top.end \in Nat
      /\ Top.at <= Top.end /\ Top.end <= Len(Buffer)
  BY <1>1, Known DEF Calls
<1>3. ChildHeader.ok
  BY DEF Decodable
<1>4. /\ ChildHeader.header \in Nat /\ ChildHeader.header >= 2
      /\ ChildHeader.length \in Nat
      /\ Top.at + ChildHeader.header + ChildHeader.length <= Top.end
  BY <1>2, <1>3, HeaderFits DEF ChildHeader
<1> QED
  BY <1>2, <1>4 DEF ChildEnd

\* A step that leaves the datagram alone keeps the invariant if it leaves a
\* nested stack, empty exactly in the phases without calls.
LEMMA Keeps ==
  ASSUME ParserInv, UNCHANGED datagram, phase' \in Phases,
         phase' \in {"decoding", "failing"} <=> calls' # << >>,
         Nested(calls', Len(Buffer))
  PROVE  ParserInv'
BY DEF ParserInv, Nested, Buffer

\* A child is appended, or deleted with its caller failing.
LEMMA AddValueKeeps ==
  ASSUME ParserInv, UNCHANGED datagram, phase = "decoding",
         NEW child, NEW below, NEW kids, NEW e \in Nat, NEW node,
         Nested(below, Len(Buffer)), below # << >>,
         below[Len(below)].at <= e, e <= below[Len(below)].end,
         AddValue(child, below, kids, e, node)
  PROVE  ParserInv'
<1>1. Len(Buffer) \in Nat
  BY Known
<1>2. CASE node
  <2>1. calls' = [below EXCEPT ![Len(below)].at = e] /\ phase' = "decoding"
    BY <1>2 DEF AddValue
  <2>2. Nested(calls', Len(Buffer)) /\ calls' # << >>
    BY <1>1, <2>1, AdvanceNested
  <2> QED
    BY <2>1, <2>2, Keeps DEF Phases
<1>3. CASE ~node
  BY <1>3, Keeps DEF AddValue, Phases
<1> QED
  BY <1>2, <1>3

LEMMA ParseKeeps ==
  ASSUME ParserInv, NEW d \in Datagrams, NEW memory, Parse(d, memory)
  PROVE  ParserInv'
<1> DEFINE h == ReadHeader(d.octets, 0, Len(d.octets))
<1>1. d.octets \in Seq(Octet) /\ datagram' = d /\ Len(d.octets) \in Nat
  BY ParserAssumption DEF ParserAssumption, Parse
<1>2. calls = << >>
  BY DEF ParserInv, Parse
<1>3. CASE phase' = "rejected" /\ UNCHANGED calls
  <2>1. Nested(calls', Len(d.octets))
    BY <1>2, <1>3, DepthNat DEF Nested
  <2> QED
    BY <1>1, <1>2, <1>3, <2>1 DEF ParserInv, Buffer, Nested, Phases
<1>4. CASE /\ h.ok /\ phase' = "decoding"
           /\ calls' = <<Call("Structure", h.header, h.header + h.length)>>
  <2>1. /\ h.header \in Nat /\ h.length \in Nat
        /\ h.header + h.length <= Len(d.octets)
    <3>1. /\ h.header \in Nat /\ h.header >= 2 /\ h.length \in Nat
          /\ 0 + h.header + h.length <= Len(d.octets)
      BY <1>1, <1>4, HeaderFits
    <3> QED
      BY <3>1, <1>1
  <2> HIDE DEF h
  <2>2. /\ calls' \in Seq(Calls) /\ Len(calls') = 1
        /\ calls'[1].at = h.header /\ calls'[1].end = h.header + h.length
    BY <1>4, <2>1 DEF Call, Calls, Constructed
  <2>3. Nested(calls', Len(d.octets)) /\ calls' # << >>
    <3>1. \A i \in 1..Len(calls') : calls'[i].at <= calls'[i].end /\ calls'[i].end <= Len(d.octets)
      BY <2>1, <2>2
    <3>2. Len(calls') <= MaxDepth /\ calls' # << >>
      <4>1. Len(calls') = 1 /\ Len(<< >>) = 0
        BY <2>2
      <4>2. calls' # << >>
        BY <4>1
      <4>3. 1 <= MaxDepth
        BY DepthNat
      <4> QED
        BY <4>1, <4>2, <4>3
    <3>3. \A i \in 1..(Len(calls') - 1) : FALSE
      BY <2>2
    <3> QED
      BY <2>2, <3>1, <3>2, <3>3 DEF Nested, Calls
  <2> QED
    BY <1>1, <1>4, <2>3 DEF ParserInv, Buffer, Nested, Phases
<1> QED
  BY <1>3, <1>4 DEF Parse

LEMMA StepKeeps == ParserInv /\ Step => ParserInv'
<1> SUFFICES ASSUME ParserInv, Step PROVE ParserInv'
  OBVIOUS
<1>1. /\ Nested(calls, Len(Buffer)) /\ Len(Buffer) \in Nat
      /\ phase \in {"decoding", "failing"} <=> calls # << >>
  BY Known DEF ParserInv
<1>2. CASE Malformed
  BY <1>1, <1>2, Keeps DEF Malformed, AtChild, Phases
<1>3. ASSUME NEW object, NEW node, DecodePrimitive(object, node)
      PROVE  ParserInv'
  <2>1. phase = "decoding" /\ calls # << >> /\ UNCHANGED datagram
    BY <1>1, <1>3 DEF DecodePrimitive, AtChild
  <2>2. CASE object /\ Child # Invalid
    <3>1. AddValue(Child, calls, lists, ChildEnd, node)
      BY <1>3, <2>2 DEF DecodePrimitive
    <3>2. ChildEnd \in Nat /\ Top.at <= ChildEnd /\ ChildEnd <= Top.end
      <4>1. Top.at \in Nat
        BY <2>1, Known DEF Calls
      <4>2. /\ Top.at + ChildHeader.header \in Nat /\ ChildEnd \in Nat
            /\ Top.at < Top.at + ChildHeader.header
            /\ Top.at + ChildHeader.header <= ChildEnd
            /\ ChildEnd <= Top.end
        BY <1>3, ChildFits DEF DecodePrimitive
      <4> QED
        BY <4>1, <4>2
    <3> QED
      BY <1>1, <2>1, <3>1, <3>2, AddValueKeeps DEF Top, Depth
  <2>3. CASE ~(object /\ Child # Invalid)
    BY <1>1, <1>3, <2>1, <2>3, Keeps DEF DecodePrimitive, Phases
  <2> QED
    BY <2>2, <2>3
<1>4. ASSUME NEW object, DecodeStructure(object)
      PROVE  ParserInv'
  <2>1. phase = "decoding" /\ calls # << >> /\ UNCHANGED datagram
    BY <1>1, <1>4 DEF DecodeStructure, AtChild
  <2>2. CASE object /\ Depth < MaxDepth
    <3> DEFINE c == Call(ChildType, Top.at + ChildHeader.header, ChildEnd)
    <3>1. calls' = Append(calls, c) /\ phase' = phase /\ ChildType \in Constructed
      BY <1>4, <2>2 DEF DecodeStructure
    <3>2. /\ Top.at + ChildHeader.header \in Nat /\ ChildEnd \in Nat
          /\ Top.at < Top.at + ChildHeader.header
          /\ Top.at + ChildHeader.header <= ChildEnd
          /\ ChildEnd <= Top.end
      BY <1>4, ChildFits DEF DecodeStructure
    <3>3. /\ c \in Calls /\ c.at = Top.at + ChildHeader.header /\ c.end = ChildEnd
      BY <3>1, <3>2 DEF Call, Calls
    <3> HIDE DEF c
    <3>4. Nested(calls', Len(Buffer)) /\ calls' # << >>
      BY <1>1, <2>1, <2>2, <3>1, <3>2, <3>3, PushNested DEF Top, Depth
    <3> QED
      BY <2>1, <3>1, <3>4, Keeps DEF Phases
  <2>3. CASE ~(object /\ Depth < MaxDepth)
    BY <1>1, <1>4, <2>1, <2>3, Keeps DEF DecodeStructure, Phases
  <2> QED
    BY <2>2, <2>3
<1>5. ASSUME NEW node, ReturnChild(node)
      PROVE  ParserInv'
  <2>1. phase = "decoding" /\ calls # << >> /\ UNCHANGED datagram /\ Depth > 1
    BY <1>1, <1>5 DEF ReturnChild, AtEnd
  <2> DEFINE below == Popped(calls)
  <2>2. /\ Depth \in Nat \ {0} /\ Nested(below, Len(Buffer))
        /\ Len(below) = Depth - 1
        /\ below[Depth - 1] = calls[Depth - 1]
    BY <1>1, <2>1, PopNested DEF Depth
  <2>3. below # << >> /\ below[Len(below)] = calls[Depth - 1]
    BY <2>1, <2>2
  <2>4. calls[Depth - 1].at < Top.at /\ Top.end <= calls[Depth - 1].end
    <3>1. Depth - 1 \in 1..(Len(calls) - 1) /\ Depth - 1 + 1 = Depth
      BY <2>1, <2>2 DEF Depth
    <3>2. /\ calls[Depth - 1].at < calls[Depth - 1 + 1].at
          /\ calls[Depth - 1 + 1].end <= calls[Depth - 1].end
      BY <1>1, <3>1 DEF Nested
    <3> QED
      BY <3>1, <3>2 DEF Top
  <2>5. /\ Top.at \in Nat /\ Top.end \in Nat /\ Top.at <= Top.end
        /\ calls[Depth - 1] \in Calls
    <3>1. calls \in Seq(Calls) /\ Depth - 1 \in 1..Len(calls)
      BY <1>1, <2>1, <2>2 DEF Nested, Calls, Depth
    <3>2. calls[Depth - 1] \in Calls
      BY <3>1
    <3>3. Top \in Calls /\ Top.at <= Top.end
      BY <2>1, Known
    <3> QED
      BY <3>2, <3>3 DEF Calls
  <2>6. below[Len(below)].at <= Top.end /\ Top.end <= below[Len(below)].end
    BY <2>3, <2>4, <2>5 DEF Calls
  <2>7. AddValue(Filled, below, Popped(lists), Top.end, node)
    BY <1>5 DEF ReturnChild
  <2> HIDE DEF below
  <2> QED
    BY <2>1, <2>2, <2>3, <2>5, <2>6, <2>7, AddValueKeeps
<1>6. CASE ReturnPacket
  <2>1. Nested(<< >>, Len(Buffer))
    BY DepthNat DEF Nested
  <2> QED
    BY <1>6, <2>1, Keeps DEF ReturnPacket, Phases
<1>7. CASE Unwind
  <2>1. phase = "failing" /\ calls # << >> /\ UNCHANGED datagram
    BY <1>1, <1>7 DEF Unwind
  <2>2. /\ Nested(Popped(calls), Len(Buffer)) /\ Depth \in Nat \ {0}
        /\ Len(Popped(calls)) = Depth - 1
    BY <1>1, <2>1, PopNested DEF Depth
  <2>3. Popped(calls) = << >> <=> Depth - 1 = 0
    <3>1. Popped(calls) \in Seq(Calls)
      BY <2>2 DEF Nested, Calls
    <3> QED
      BY <3>1, <2>2
  <2>4. calls' = Popped(calls) /\ phase' = AfterFailure(Depth - 1)
    BY <1>7 DEF Unwind
  <2> QED
    BY <2>1, <2>2, <2>3, <2>4, Keeps DEF AfterFailure, Phases
<1>8. ASSUME UNCHANGED <<datagram, calls>>,
             phase \in {"decoded", "binding"},
             phase' \in {"binding", "accepted", "rejected"}
      PROVE  ParserInv'
  BY <1>1, <1>8, Keeps DEF Phases
<1>9. ASSUME NEW memory, CheckShape(memory) \/ Bind(memory)
      PROVE  ParserInv'
  BY <1>8, <1>9 DEF CheckShape, Bind, AtBinding
<1>10. CASE RejectBinding \/ Accept
  BY <1>8, <1>10 DEF RejectBinding, Accept, AtBinding
<1> QED
  BY <1>2, <1>3, <1>4, <1>5, <1>6, <1>7, <1>9, <1>10 DEF Step

\* The decoder of ComplexType::decode() and readBERHeader() never reads past
\* the datagram or the value it is inside of, and never nests too deep.
THEOREM DecoderStaysInside == Spec => []ParserInv
<1>1. ParserInv /\ [Next]_vars => ParserInv'
  <2> SUFFICES ASSUME ParserInv, [Next]_vars PROVE ParserInv'
    OBVIOUS
  <2>1. ASSUME NEW d \in Datagrams, NEW memory, Parse(d, memory)
        PROVE  ParserInv'
    BY <2>1, ParseKeeps
  <2>2. CASE Step
    BY <2>2, StepKeeps
  <2>3. CASE Release
    <3>1. Nested(<< >>, 0)
      BY DepthNat DEF Nested
    <3>2. calls = << >> /\ calls' = << >> /\ phase' = "idle" /\ datagram'.octets = << >>
      BY <2>3 DEF Release, Nothing, ParserInv
    <3> QED
      BY <3>1, <3>2 DEF ParserInv, Phases, Buffer, Nested
  <2>4. CASE UNCHANGED vars
    BY <2>4 DEF vars, ParserInv, Buffer, Nested
  <2>5. Again \subseteq Datagrams
    BY ParserAssumption DEF ParserAssumption
  <2> QED
    BY <2>1, <2>2, <2>3, <2>4, <2>5 DEF Next
<1> QED
  BY <1>1, InitInv, PTL DEF Spec

-----------------------------------------------------------------------------
(***************************************************************************)
(* Sums of sequences.                                                      *)
(***************************************************************************)
\* f[i] is the sum of the first i numbers of w.
Sums(f, w, n) ==
  /\ f \in [0..n -> Nat]
  /\ f[0] = 0
  /\ \A i \in 1..n : f[i] = f[i - 1] + w[i]

LEMMA SumsExist ==
  ASSUME NEW w \in Seq(Nat), NEW n \in 0..Len(w)
  PROVE  \E f : Sums(f, w, n)
<1> DEFINE Bad == {k \in 0..Len(w) : ~ \E f : Sums(f, w, k)}
<1> SUFFICES ASSUME Bad # {} PROVE FALSE
  OBVIOUS
<1>1. Bad \in SUBSET Nat /\ Len(w) \in Nat
  OBVIOUS
<1> HIDE DEF Bad
<1>2. PICK k \in Bad : \A j \in Bad : k <= j
  BY <1>1, SmallestExists
<1>3. k \in 0..Len(w) /\ ~ \E f : Sums(f, w, k)
  BY <1>2 DEF Bad
<1>4. CASE k = 0
  <2>1. Sums([i \in 0..0 |-> 0], w, 0)
    BY DEF Sums
  <2> QED
    BY <1>3, <1>4, <2>1
<1>5. CASE k # 0
  <2>1. k - 1 \in 0..Len(w) /\ k \in 1..Len(w)
    BY <1>1, <1>3, <1>5
  <2>2. k - 1 \notin Bad
    BY <1>2, <2>1
  <2>3. PICK f : Sums(f, w, k - 1)
    BY <2>1, <2>2 DEF Bad
  <2> DEFINE g == [i \in 0..k |-> IF i = k THEN f[k - 1] + w[k] ELSE f[i]]
  <2>4. /\ f \in [0..(k - 1) -> Nat] /\ f[0] = 0 /\ w[k] \in Nat
        /\ \A i \in 1..(k - 1) : f[i] = f[i - 1] + w[i]
    BY <2>1, <2>3 DEF Sums
  <2>5. g \in [0..k -> Nat] /\ g[0] = 0
    BY <2>1, <2>4
  <2>6. ASSUME NEW i \in 1..k PROVE g[i] = g[i - 1] + w[i]
    <3>1. CASE i = k
      BY <2>1, <2>4, <3>1
    <3>2. CASE i # k
      <4>1. i \in 1..(k - 1) /\ i - 1 \in 0..(k - 1) /\ i - 1 # k
        BY <2>1, <3>2
      <4>2. g[i] = f[i] /\ g[i - 1] = f[i - 1]
        BY <2>1, <4>1
      <4> QED
        BY <2>4, <4>1, <4>2
    <3> QED
      BY <3>1, <3>2
  <2> HIDE DEF g
  <2>7. Sums(g, w, k)
    BY <2>5, <2>6 DEF Sums
  <2> QED
    BY <1>3, <2>7
<1> QED
  BY <1>4, <1>5

LEMMA SumsAgree ==
  ASSUME NEW w, NEW v, NEW n \in Nat, NEW m \in Nat, NEW f, NEW g,
         Sums(f, w, n), Sums(g, v, m),
         NEW k \in 0..n, k <= m, \A i \in 1..k : w[i] = v[i]
  PROVE  f[k] = g[k]
<1> DEFINE Bad == {j \in 0..k : f[j] # g[j]}
<1> SUFFICES ASSUME Bad # {} PROVE FALSE
  OBVIOUS
<1>1. Bad \in SUBSET Nat
  OBVIOUS
<1> HIDE DEF Bad
<1>2. PICK j \in Bad : \A i \in Bad : j <= i
  BY <1>1, SmallestExists
<1>3. j \in 0..k /\ f[j] # g[j]
  BY <1>2 DEF Bad
<1>4. j # 0
  BY <1>3 DEF Sums
<1>5. j \in 1..k /\ j - 1 \in 0..k
  BY <1>3, <1>4
<1>6. f[j - 1] = g[j - 1]
  <2>1. j - 1 \notin Bad
    BY <1>2, <1>5
  <2> QED
    BY <1>5, <2>1 DEF Bad
<1>7. j \in 1..n /\ j \in 1..m
  BY <1>5
<1>8. f[j] = f[j - 1] + w[j] /\ g[j] = g[j - 1] + v[j] /\ w[j] = v[j]
  BY <1>5, <1>7 DEF Sums
<1> QED
  BY <1>3, <1>6, <1>8

LEMMA TotalIs ==
  ASSUME NEW w \in Seq(Nat)
  PROVE  \E f : Sums(f, w, Len(w)) /\ Total(w) = f[Len(w)]
<1> DEFINE n == Len(w)
           Body(f) == [i \in 0..n |-> IF i = 0 THEN 0 ELSE f[i - 1] + w[i]]
           up == CHOOSE f : f = Body(f)
<1>1. n \in Nat /\ n \in 0..Len(w)
  OBVIOUS
<1> HIDE DEF n
<1>2. PICK f : Sums(f, w, n)
  BY <1>1, SumsExist
<1>3. f = Body(f)
  BY <1>1, <1>2 DEF Sums
<1>4. up = Body(up)
  BY <1>3
<1>5. Total(w) = up[n]
  BY DEF Total, n
<1> HIDE DEF up
<1> DEFINE Bad == {j \in 0..n : up[j] # f[j]}
<1>6. Bad = {}
  <2> SUFFICES ASSUME Bad # {} PROVE FALSE
    OBVIOUS
  <2>1. Bad \in SUBSET Nat
    BY <1>1
  <2> HIDE DEF Bad
  <2>2. PICK j \in Bad : \A i \in Bad : j <= i
    BY <2>1, SmallestExists
  <2>3. j \in 0..n /\ up[j] # f[j]
    BY <2>2 DEF Bad
  <2>4. up[j] = IF j = 0 THEN 0 ELSE up[j - 1] + w[j]
    BY <1>4, <2>3
  <2>5. f[j] = IF j = 0 THEN 0 ELSE f[j - 1] + w[j]
    BY <1>3, <2>3
  <2>6. j # 0 => up[j - 1] = f[j - 1]
    <3> SUFFICES ASSUME j # 0 PROVE up[j - 1] = f[j - 1]
      OBVIOUS
    <3>1. j - 1 \in 0..n
      BY <1>1, <2>3
    <3>2. j - 1 \notin Bad
      BY <2>2, <2>3, <3>1
    <3> QED
      BY <3>1, <3>2 DEF Bad
  <2> QED
    BY <2>3, <2>4, <2>5, <2>6
<1>7. up[n] = f[n]
  BY <1>1, <1>6
<1> QED
  BY <1>2, <1>5, <1>7 DEF n

LEMMA TotalEmpty == Total(<< >>) = 0
<1>1. << >> \in Seq(Nat) /\ Len(<< >>) = 0
  OBVIOUS
<1>2. PICK f : Sums(f, << >>, 0) /\ Total(<< >>) = f[0]
  BY <1>1, TotalIs
<1> QED
  BY <1>2 DEF Sums

LEMMA TotalAppend ==
  ASSUME NEW w \in Seq(Nat), NEW x \in Nat
  PROVE  Total(w) \in Nat /\ Total(Append(w, x)) = Total(w) + x
<1> DEFINE v == Append(w, x)
           n == Len(w)
<1>1. /\ v \in Seq(Nat) /\ Len(v) = n + 1 /\ n \in Nat /\ v[n + 1] = x
      /\ \A i \in 1..n : w[i] = v[i]
  OBVIOUS
<1> HIDE DEF v, n
<1>2. PICK f : Sums(f, w, n) /\ Total(w) = f[n]
  BY TotalIs DEF n
<1>3. PICK g : Sums(g, v, n + 1) /\ Total(v) = g[n + 1]
  BY <1>1, TotalIs
<1>4. f[n] = g[n]
  <2>1. n + 1 \in Nat /\ n \in 0..n /\ n <= n + 1
    BY <1>1
  <2> QED
    BY <1>1, <1>2, <1>3, <2>1, SumsAgree
<1>5. g[n + 1] = g[n] + x
  <2>1. n + 1 \in 1..(n + 1) /\ (n + 1) - 1 = n
    BY <1>1
  <2> QED
    BY <1>1, <1>3, <2>1 DEF Sums
<1>6. f[n] \in Nat
  BY <1>1, <1>2 DEF Sums
<1> QED
  BY <1>2, <1>3, <1>4, <1>5, <1>6 DEF v

-----------------------------------------------------------------------------
(***************************************************************************)
(* The blocks of objects, and of the objects that active calls fill.       *)
(***************************************************************************)
\* A list of children whose blocks can be counted, and a stack of such lists.
Counted(kids) == \E S : kids \in Seq(S) /\ \A v \in S : Blocks(v) \in Nat
Stack(ls) == \E T : ls \in Seq(T) /\ \A kids \in T : Counted(kids)

LEMMA OwnedEmpty == Counted(<< >>) /\ Owned(<< >>) = 1
<1>1. << >> \in Seq({}) /\ Len(<< >>) = 0
  OBVIOUS
<1>2. [i \in 1..Len(<< >>) |-> 1 + Blocks(<< >>[i])] = << >>
  BY <1>1
<1>3. Owned(<< >>) = 1 + 0
  BY <1>2, TotalEmpty DEF Owned
<1>4. Counted(<< >>)
  <2> DEFINE S == {}
  <2>1. << >> \in Seq(S) /\ \A v \in S : Blocks(v) \in Nat
    BY <1>1
  <2> HIDE DEF S
  <2> QED
    BY <2>1, Zenon DEF Counted
<1> QED
  BY <1>3, <1>4

LEMMA OwnedAppend ==
  ASSUME NEW kids, NEW v, Counted(kids), Blocks(v) \in Nat
  PROVE  /\ Counted(Append(kids, v))
         /\ Owned(kids) \in Nat
         /\ Owned(Append(kids, v)) = Owned(kids) + 1 + Blocks(v)
<1>1. PICK S : kids \in Seq(S) /\ \A u \in S : Blocks(u) \in Nat
  BY DEF Counted
<1> DEFINE more == Append(kids, v)
           n == Len(kids)
           w == [i \in 1..n |-> 1 + Blocks(kids[i])]
           x == 1 + Blocks(v)
<1>2. /\ more \in Seq(S \cup {v}) /\ Len(more) = n + 1 /\ n \in Nat
      /\ more[n + 1] = v /\ \A i \in 1..n : more[i] = kids[i]
  BY <1>1
<1>3. Counted(more)
  BY <1>1, <1>2 DEF Counted
<1>4. w \in Seq(Nat) /\ Len(w) = n /\ x \in Nat
  <2>1. \A i \in 1..n : 1 + Blocks(kids[i]) \in Nat
    BY <1>1
  <2> QED
    BY <1>2, <2>1
<1> HIDE DEF more
<1>5. [i \in 1..Len(more) |-> 1 + Blocks(more[i])] = Append(w, x)
  <2>1. Append(w, x) = [i \in 1..(n + 1) |-> IF i = n + 1 THEN x ELSE w[i]]
    BY <1>4
  <2>2. ASSUME NEW i \in 1..(n + 1)
        PROVE  1 + Blocks(more[i]) = IF i = n + 1 THEN x ELSE w[i]
    <3>1. CASE i = n + 1
      BY <1>2, <3>1
    <3>2. CASE i # n + 1
      <4>1. i \in 1..n
        BY <1>2, <3>2
      <4> QED
        BY <1>2, <3>2, <4>1
    <3> QED
      BY <3>1, <3>2
  <2> HIDE DEF w, x
  <2> QED
    BY <1>2, <2>1, <2>2
<1>6. Owned(kids) = 1 + Total(w) /\ Owned(more) = 1 + Total(Append(w, x))
  BY <1>5 DEF Owned
<1> HIDE DEF w
<1>7. Total(w) \in Nat /\ Total(Append(w, x)) = Total(w) + x
  BY <1>4, TotalAppend
<1>8. Owned(kids) \in Nat /\ Owned(more) = Owned(kids) + 1 + Blocks(v)
  BY <1>6, <1>7
<1> QED
  BY <1>3, <1>8 DEF more

LEMMA OwnedNat ==
  ASSUME NEW kids, Counted(kids)
  PROVE  Owned(kids) \in Nat
<1>1. Blocks([type |-> "Null"]) = 1
  BY DEF Blocks, Constructed, PDUs
<1> QED
  BY <1>1, OwnedAppend

LEMMA OwnedByEmpty == Stack(<< >>) /\ OwnedBy(<< >>) = 0
<1>1. << >> \in Seq({}) /\ Len(<< >>) = 0
  OBVIOUS
<1>2. [i \in 1..Len(<< >>) |-> Owned(<< >>[i])] = << >>
  BY <1>1
<1>3. OwnedBy(<< >>) = 0
  BY <1>2, TotalEmpty DEF OwnedBy
<1>4. Stack(<< >>)
  <2> DEFINE T == {}
  <2>1. << >> \in Seq(T) /\ \A kids \in T : Counted(kids)
    BY <1>1
  <2> HIDE DEF T
  <2> QED
    BY <2>1, Zenon DEF Stack
<1> QED
  BY <1>3, <1>4

LEMMA OwnedByAppend ==
  ASSUME NEW ls, NEW kids, Stack(ls), Counted(kids)
  PROVE  /\ Stack(Append(ls, kids))
         /\ OwnedBy(ls) \in Nat
         /\ OwnedBy(Append(ls, kids)) = OwnedBy(ls) + Owned(kids)
<1>1. PICK T : ls \in Seq(T) /\ \A k \in T : Counted(k)
  BY DEF Stack
<1> DEFINE more == Append(ls, kids)
           n == Len(ls)
           w == [i \in 1..n |-> Owned(ls[i])]
           x == Owned(kids)
<1>2. /\ more \in Seq(T \cup {kids}) /\ Len(more) = n + 1 /\ n \in Nat
      /\ more[n + 1] = kids /\ \A i \in 1..n : more[i] = ls[i]
  BY <1>1
<1>3. Stack(more)
  BY <1>1, <1>2 DEF Stack
<1>4. w \in Seq(Nat) /\ Len(w) = n /\ x \in Nat
  <2>1. \A i \in 1..n : Owned(ls[i]) \in Nat
    BY <1>1, OwnedNat
  <2>2. x \in Nat
    BY OwnedNat
  <2> HIDE DEF x
  <2> QED
    BY <1>2, <2>1, <2>2
<1> HIDE DEF more
<1>5. [i \in 1..Len(more) |-> Owned(more[i])] = Append(w, x)
  <2>1. Append(w, x) = [i \in 1..(n + 1) |-> IF i = n + 1 THEN x ELSE w[i]]
    BY <1>4
  <2>2. ASSUME NEW i \in 1..(n + 1)
        PROVE  Owned(more[i]) = IF i = n + 1 THEN x ELSE w[i]
    <3>1. CASE i = n + 1
      BY <1>2, <3>1
    <3>2. CASE i # n + 1
      <4>1. i \in 1..n
        BY <1>2, <3>2
      <4> QED
        BY <1>2, <3>2, <4>1
    <3> QED
      BY <3>1, <3>2
  <2> HIDE DEF w, x
  <2> QED
    BY <1>2, <2>1, <2>2
<1>6. OwnedBy(ls) = Total(w) /\ OwnedBy(more) = Total(Append(w, x))
  BY <1>5 DEF OwnedBy
<1> HIDE DEF w
<1>7. Total(w) \in Nat /\ Total(Append(w, x)) = Total(w) + x
  BY <1>4, TotalAppend
<1>8. OwnedBy(ls) \in Nat /\ OwnedBy(more) = OwnedBy(ls) + x
  BY <1>6, <1>7
<1> QED
  BY <1>3, <1>8 DEF more

LEMMA OwnedByNat ==
  ASSUME NEW ls, Stack(ls)
  PROVE  OwnedBy(ls) \in Nat
BY OwnedEmpty, OwnedByAppend

LEMMA PopSeq ==
  ASSUME NEW S, NEW s \in Seq(S), s # << >>
  PROVE  /\ Popped(s) \in Seq(S) /\ Len(Popped(s)) = Len(s) - 1
         /\ \A i \in 1..(Len(s) - 1) : Popped(s)[i] = s[i]
<1> DEFINE n == Len(s) - 1
<1>1. n \in Nat /\ Len(s) = n + 1 /\ \A i \in 1..n : s[i] \in S
  OBVIOUS
<1>2. Popped(s) = SubSeq(s, 1, n)
  BY DEF Popped
<1> HIDE DEF n
<1>3. /\ SubSeq(s, 1, n) \in Seq(S)
      /\ Len(SubSeq(s, 1, n)) = IF 1 <= n THEN n - 1 + 1 ELSE 0
      /\ \A i \in 1..(n - 1 + 1) : SubSeq(s, 1, n)[i] = s[1 + i - 1]
  BY <1>1, SubSeqProperties
<1>4. n - 1 + 1 = n /\ (~(1 <= n) => n = 0) /\ \A i \in 1..n : 1 + i - 1 = i
  BY <1>1
<1>5. Len(SubSeq(s, 1, n)) = n /\ \A i \in 1..n : SubSeq(s, 1, n)[i] = s[i]
  BY <1>3, <1>4
<1> QED
  BY <1>2, <1>3, <1>5 DEF n

\* The last list of a stack, and the rest of it.
LEMMA StackTop ==
  ASSUME NEW ls, Stack(ls), ls # << >>
  PROVE  /\ Stack(Popped(ls)) /\ Counted(ls[Len(ls)])
         /\ Len(ls) \in Nat \ {0} /\ Len(Popped(ls)) = Len(ls) - 1
         /\ OwnedBy(ls) = OwnedBy(Popped(ls)) + Owned(ls[Len(ls)])
<1>1. PICK T : ls \in Seq(T) /\ \A k \in T : Counted(k)
  BY DEF Stack
<1> DEFINE n == Len(ls)
           top == ls[n]
           below == SubSeq(ls, 1, n - 1)
<1>2. n \in Nat \ {0} /\ top \in T
  BY <1>1
<1>3. /\ below \in Seq(T) /\ Len(below) = n - 1
      /\ ls = Append(below, top)
  <2>1. below \in Seq(T) /\ Len(below) = n - 1
        /\ \A i \in 1..(n - 1) : below[i] = ls[i]
    BY <1>1, PopSeq DEF Popped
  <2>2. /\ Len(Append(below, top)) = n /\ Append(below, top) \in Seq(T)
        /\ \A i \in 1..n : Append(below, top)[i] = ls[i]
    <3> HIDE DEF below, n
    <3>1. Append(below, top) \in Seq(T) /\ Len(Append(below, top)) = n
      BY <1>2, <2>1
    <3>2. ASSUME NEW i \in 1..n PROVE Append(below, top)[i] = ls[i]
      <4>1. CASE i = n
        BY <1>2, <2>1, <4>1
      <4>2. CASE i # n
        BY <1>2, <2>1, <4>2
      <4> QED
        BY <4>1, <4>2
    <3> QED
      BY <3>1, <3>2
  <2> HIDE DEF below
  <2>3. ls = Append(below, top)
    BY <1>1, <1>2, <2>2
  <2> QED
    BY <2>1, <2>3
<1> HIDE DEF below
<1>4. Stack(below) /\ Counted(top)
  BY <1>1, <1>2, <1>3 DEF Stack
<1>5. OwnedBy(Append(below, top)) = OwnedBy(below) + Owned(top)
  BY <1>4, OwnedByAppend
<1>6. Popped(ls) = below
  BY DEF Popped, below
<1> QED
  BY <1>2, <1>3, <1>4, <1>5, <1>6

\* A child is added to the last list of a stack.
LEMMA StackGrows ==
  ASSUME NEW ls, Stack(ls), ls # << >>, NEW v, Blocks(v) \in Nat
  PROVE  LET more == [ls EXCEPT ![Len(ls)] = Append(@, v)]
         IN  /\ Stack(more) /\ Len(more) = Len(ls)
             /\ OwnedBy(more) = OwnedBy(ls) + 1 + Blocks(v)
<1>1. PICK T : ls \in Seq(T) /\ \A k \in T : Counted(k)
  BY DEF Stack
<1> DEFINE n == Len(ls)
           kids == Append(ls[n], v)
           more == [ls EXCEPT ![n] = kids]
<1>2. n \in Nat \ {0} /\ Counted(ls[n])
  BY <1>1
<1>3. Counted(kids) /\ Owned(kids) = Owned(ls[n]) + 1 + Blocks(v)
      /\ Owned(ls[n]) \in Nat
  BY <1>2, OwnedAppend
<1> HIDE DEF kids
<1>4. more \in Seq(T \cup {kids}) /\ Len(more) = n /\ more[n] = kids
      /\ \A i \in 1..(n - 1) : more[i] = ls[i]
  BY <1>1, <1>2
<1>5. Stack(more) /\ more # << >>
  <2>1. \A k \in T \cup {kids} : Counted(k)
    BY <1>1, <1>3
  <2> HIDE DEF more
  <2>2. Stack(more)
    BY <1>4, <2>1, Zenon DEF Stack
  <2>3. more # << >>
    BY <1>2, <1>4
  <2> QED
    BY <2>2, <2>3
<1>6. Popped(more) = Popped(ls)
  <2>1. Popped(more) = SubSeq(more, 1, n - 1) /\ Popped(ls) = SubSeq(ls, 1, n - 1)
    BY <1>4 DEF Popped
  <2> HIDE DEF more
  <2>2. SubSeq(more, 1, n - 1) = SubSeq(ls, 1, n - 1)
    BY <1>1, <1>2, <1>4
  <2> QED
    BY <2>1, <2>2
<1> HIDE DEF more, n
<1>7. /\ OwnedBy(more) = OwnedBy(Popped(ls)) + Owned(kids)
      /\ OwnedBy(ls) = OwnedBy(Popped(ls)) + Owned(ls[n])
      /\ OwnedBy(Popped(ls)) \in Nat
  BY <1>4, <1>5, <1>6, StackTop, OwnedByNat DEF n
<1>8. OwnedBy(more) = OwnedBy(ls) + 1 + Blocks(v)
  BY <1>3, <1>7
<1> QED
  BY <1>4, <1>5, <1>8 DEF more, kids, n

\* A child without children is one block.
LEMMA ChildBlocks ==
  ASSUME ChildType \notin Constructed, Child # Invalid
  PROVE  Blocks(Child) = 1
<1> DEFINE c == SubSeq(Buffer, Top.at + ChildHeader.header + 1, ChildEnd)
           t == ChildType
<1>1. Child = FromBuffer(t, c)
  BY DEF Child
<1> HIDE DEF c, t
<1>2. \A u : IntegerValue(u, c) = Invalid \/ IntegerValue(u, c).type = u
  BY DEF IntegerValue
<1>3. Counter64Value(c) = Invalid \/ Counter64Value(c).type = "Counter64"
  BY DEF Counter64Value
<1>4. OIDValue(c) = Invalid \/ OIDValue(c).type = "OID"
  BY DEF OIDValue
<1>5. \A u : OctetsValue(u, c) = Invalid \/ OctetsValue(u, c).type = u
  BY DEF OctetsValue
<1>6. \/ FromBuffer(t, c) = Invalid
      \/ FromBuffer(t, c).type \in {"Integer", "Counter64", "OID", "Octets", "Opaque",
                                    "Address", "Null"} \cup Unsigned \cup Exceptions
  BY <1>2, <1>3, <1>4, <1>5 DEF FromBuffer
<1>7. Child.type \notin Constructed \cup {"None"}
  BY <1>1, <1>6 DEF Constructed, PDUs, Unsigned, Exceptions
<1> QED
  BY <1>7 DEF Blocks

-----------------------------------------------------------------------------
(***************************************************************************)
(* What the steps do to the blocks.                                        *)
(***************************************************************************)
\* Each active call fills a list, and while calls are active the parser holds
\* neither a tree nor a list of bindings.
Holding ==
  /\ Stack(lists) /\ Len(lists) = Len(calls)
  /\ Blocks(packet) \in Nat
  /\ varBinds \in [nodes : Nat, values : Seq(Nat)]
  /\ calls # << >> => packet = None /\ varBinds = NoBinds
  /\ phase = "decoded" => varBinds = NoBinds

LeakInv == Holding /\ NothingLeaks

LEMMA NoneIsEmpty ==
  /\ Blocks(None) = 0
  /\ NoBinds \in [nodes : Nat, values : Seq(Nat)]
  /\ NoBinds.nodes = 0 /\ Len(NoBinds.values) = 0
BY DEF Blocks, None, NoBinds

\* While calls are active, the blocks are those of the objects they fill.
LEMMA Active ==
  ASSUME ParserInv, LeakInv, calls # << >>
  PROVE  /\ Depth \in Nat \ {0} /\ lists # << >> /\ Len(lists) = Depth
         /\ packet = None /\ varBinds = NoBinds
         /\ live = OwnedBy(lists) /\ OwnedBy(lists) \in Nat
         /\ Counted(lists[Depth])
         /\ Blocks(Filled) = Owned(lists[Depth]) /\ Owned(lists[Depth]) \in Nat
<1>1. Depth \in Nat \ {0} /\ Top \in Calls
  BY Known
<1>2. /\ Stack(lists) /\ Len(lists) = Depth
      /\ packet = None /\ varBinds = NoBinds
  BY DEF LeakInv, Holding, Depth
<1>3. lists # << >>
  BY <1>1, <1>2
<1>4. OwnedBy(lists) \in Nat
  BY <1>2, OwnedByNat
<1>5. live = OwnedBy(lists)
  <2>1. live = OwnedBy(lists) + Blocks(None) + NoBinds.nodes + Len(NoBinds.values)
    BY <1>2 DEF LeakInv, NothingLeaks
  <2> QED
    BY <2>1, <1>4, NoneIsEmpty
<1>6. Counted(lists[Depth])
  BY <1>2, <1>3, StackTop
<1>7. Blocks(Filled) = Owned(lists[Depth])
  BY <1>1 DEF Blocks, Filled, Object, Calls
<1> QED
  BY <1>1, <1>2, <1>3, <1>4, <1>5, <1>6, <1>7, OwnedNat

\* The stack of lists without the last.
LEMMA ActivePopped ==
  ASSUME ParserInv, LeakInv, calls # << >>
  PROVE  /\ Stack(Popped(lists)) /\ OwnedBy(Popped(lists)) \in Nat
         /\ Len(Popped(lists)) = Depth - 1 /\ Len(Popped(calls)) = Depth - 1
         /\ Popped(calls) \in Seq(Calls)
         /\ OwnedBy(lists) = OwnedBy(Popped(lists)) + Owned(lists[Depth])
<1>1. lists # << >> /\ Len(lists) = Depth /\ Stack(lists)
  BY Active DEF LeakInv, Holding
<1>2. Popped(calls) \in Seq(Calls) /\ Len(Popped(calls)) = Depth - 1
  <2>1. Nested(calls, Len(Buffer)) /\ Len(Buffer) \in Nat
    BY Known DEF ParserInv
  <2>2. calls \in Seq(Calls)
    BY <2>1 DEF Nested, Calls
  <2> QED
    BY <2>2, PopSeq DEF Depth
<1> QED
  BY <1>1, <1>2, StackTop, OwnedByNat

\* A step of the decoder that leaves calls and lists of one length accounts
\* for the blocks if it accounts for those of the lists.
LEMMA DecodingKeeps ==
  ASSUME ParserInv, LeakInv, calls # << >>, UNCHANGED <<packet, varBinds>>,
         Stack(lists'), Len(lists') = Len(calls'), live' = OwnedBy(lists')
  PROVE  LeakInv'
<1>1. packet' = None /\ varBinds' = NoBinds
  BY Active
<1>2. OwnedBy(lists') \in Nat
  BY OwnedByNat
<1>3. NothingLeaks'
  <2>1. live' = OwnedBy(lists') + Blocks(None) + NoBinds.nodes + Len(NoBinds.values)
    BY <1>2, NoneIsEmpty
  <2> QED
    BY <1>1, <2>1 DEF NothingLeaks
<1>4. Holding'
  BY <1>1, NoneIsEmpty DEF Holding
<1> QED
  BY <1>3, <1>4 DEF LeakInv

\* addValueToList() accounts for the child it takes.
LEMMA AddValueOwns ==
  ASSUME NEW child, Blocks(child) \in Nat,
         NEW below \in Seq(Calls), NEW kids, Stack(kids), kids # << >>,
         Len(kids) = Len(below), NEW e, NEW node \in BOOLEAN,
         AddValue(child, below, kids, e, node)
  PROVE  /\ Stack(lists') /\ Len(lists') = Len(calls')
         /\ OwnedBy(lists') = OwnedBy(kids) + IF node THEN 1 + Blocks(child) ELSE 0
<1>1. OwnedBy(kids) \in Nat
  BY OwnedByNat
<1>2. CASE node
  <2>1. /\ calls' = [below EXCEPT ![Len(below)].at = e]
        /\ lists' = [kids EXCEPT ![Len(kids)] = Append(@, child)]
    BY <1>2 DEF AddValue
  <2>2. Stack(lists') /\ Len(lists') = Len(kids)
        /\ OwnedBy(lists') = OwnedBy(kids) + 1 + Blocks(child)
    BY <2>1, StackGrows
  <2>3. Len(calls') = Len(below)
    BY <2>1
  <2> QED
    BY <1>1, <1>2, <2>2, <2>3
<1>3. CASE ~node
  <2>1. calls' = below /\ lists' = kids
    BY <1>3 DEF AddValue
  <2> QED
    BY <1>1, <1>3, <2>1
<1> QED
  BY <1>2, <1>3

LEMMA PrimitiveOwns ==
  ASSUME ParserInv, LeakInv, NEW object \in BOOLEAN, NEW node \in BOOLEAN,
         DecodePrimitive(object, node)
  PROVE  LeakInv'
<1>1. calls # << >> /\ UNCHANGED <<packet, varBinds>>
  BY DEF DecodePrimitive, AtChild, ParserInv
<1>2. /\ live = OwnedBy(lists) /\ OwnedBy(lists) \in Nat
      /\ Stack(lists) /\ Len(lists) = Len(calls) /\ lists # << >>
  BY <1>1, Active DEF LeakInv, Holding
<1>3. CASE object /\ Child # Invalid
  <2>1. Blocks(Child) = 1
    BY <1>3, ChildBlocks DEF DecodePrimitive
  <2>2. AddValue(Child, calls, lists, ChildEnd, node)
    BY <1>3 DEF DecodePrimitive
  <2>3. live' = live + (IF node THEN 2 ELSE 0)
    BY <1>3, <2>1 DEF DecodePrimitive, Discarded
  <2>4. calls \in Seq(Calls)
    BY DEF ParserInv, Nested, Calls
  <2>5. /\ Stack(lists') /\ Len(lists') = Len(calls')
        /\ OwnedBy(lists') = OwnedBy(lists) + IF node THEN 1 + 1 ELSE 0
    BY <1>2, <2>1, <2>2, <2>4, AddValueOwns
  <2>6. live' = OwnedBy(lists')
    BY <1>2, <2>3, <2>5
  <2> QED
    BY <1>1, <2>5, <2>6, DecodingKeeps
<1>4. CASE ~(object /\ Child # Invalid)
  <2>1. UNCHANGED <<calls, lists, live>>
    BY <1>4 DEF DecodePrimitive
  <2> QED
    BY <1>1, <1>2, <2>1, DecodingKeeps
<1> QED
  BY <1>3, <1>4

LEMMA StructureOwns ==
  ASSUME ParserInv, LeakInv, NEW object \in BOOLEAN, DecodeStructure(object)
  PROVE  LeakInv'
<1>1. calls # << >> /\ UNCHANGED <<packet, varBinds>>
  BY DEF DecodeStructure, AtChild, ParserInv
<1>2. /\ live = OwnedBy(lists) /\ OwnedBy(lists) \in Nat
      /\ Stack(lists) /\ Len(lists) = Len(calls) /\ lists # << >>
  BY <1>1, Active DEF LeakInv, Holding
<1>3. CASE object /\ Depth < MaxDepth
  <2>1. /\ calls' = Append(calls, Call(ChildType, Top.at + ChildHeader.header, ChildEnd))
        /\ lists' = Append(lists, << >>) /\ live' = live + 1
    BY <1>3 DEF DecodeStructure
  <2>2. Stack(lists') /\ OwnedBy(lists') = OwnedBy(lists) + 1
    BY <1>2, <2>1, OwnedEmpty, OwnedByAppend
  <2>3. Len(lists') = Len(calls')
    <3>1. calls \in Seq(Calls)
      BY DEF ParserInv, Nested, Calls
    <3>2. PICK T : lists \in Seq(T)
      BY <1>2 DEF Stack
    <3>3. Len(Append(lists, << >>)) = Len(lists) + 1
      BY <3>2, AppendProperties
    <3>4. Len(calls') = Len(calls) + 1
      BY <2>1, <3>1, AppendProperties
    <3> QED
      BY <1>2, <2>1, <3>3, <3>4
  <2>4. live' = OwnedBy(lists')
    BY <1>2, <2>1, <2>2
  <2> QED
    BY <1>1, <2>2, <2>3, <2>4, DecodingKeeps
<1>4. CASE ~(object /\ Depth < MaxDepth)
  <2>1. UNCHANGED <<calls, lists, live>>
    BY <1>4 DEF DecodeStructure
  <2> QED
    BY <1>1, <1>2, <2>1, DecodingKeeps
<1> QED
  BY <1>3, <1>4

LEMMA ReturnChildOwns ==
  ASSUME ParserInv, LeakInv, NEW node \in BOOLEAN, ReturnChild(node)
  PROVE  LeakInv'
<1>1. calls # << >> /\ UNCHANGED <<packet, varBinds>> /\ Depth > 1
  BY DEF ReturnChild, AtEnd, ParserInv
<1>2. /\ live = OwnedBy(lists) /\ Depth \in Nat
      /\ Blocks(Filled) = Owned(lists[Depth]) /\ Owned(lists[Depth]) \in Nat
  BY <1>1, Active
<1>3. /\ Stack(Popped(lists)) /\ OwnedBy(Popped(lists)) \in Nat
      /\ Len(Popped(lists)) = Depth - 1 /\ Len(Popped(calls)) = Depth - 1
      /\ Popped(calls) \in Seq(Calls)
      /\ OwnedBy(lists) = OwnedBy(Popped(lists)) + Owned(lists[Depth])
  BY <1>1, ActivePopped
<1>4. Popped(lists) # << >>
  BY <1>1, <1>2, <1>3
<1>5. AddValue(Filled, Popped(calls), Popped(lists), Top.end, node)
  BY DEF ReturnChild
<1>6. /\ Stack(lists') /\ Len(lists') = Len(calls')
      /\ OwnedBy(lists') = OwnedBy(Popped(lists))
                             + IF node THEN 1 + Blocks(Filled) ELSE 0
  BY <1>2, <1>3, <1>4, <1>5, AddValueOwns
<1>7. live' = live + (IF node THEN 1 ELSE 0 - Blocks(Filled))
  BY DEF ReturnChild, Discarded
<1>8. live' = OwnedBy(lists')
  BY <1>2, <1>3, <1>6, <1>7
<1> QED
  BY <1>1, <1>6, <1>8, DecodingKeeps

\* The last call leaves the tree to the parser.
LEMMA LastCall ==
  ASSUME ParserInv, LeakInv, calls # << >>, Depth = 1,
         packet' = Filled, UNCHANGED <<varBinds, live>>,
         calls' = << >>, lists' = << >>
  PROVE  LeakInv'
<1>1. /\ live = OwnedBy(lists) /\ varBinds = NoBinds
      /\ Blocks(Filled) = Owned(lists[Depth]) /\ Owned(lists[Depth]) \in Nat
  BY Active
<1>2. /\ Stack(Popped(lists)) /\ Len(Popped(lists)) = 0
      /\ OwnedBy(lists) = OwnedBy(Popped(lists)) + Owned(lists[Depth])
  BY ActivePopped
<1>3. Popped(lists) = << >>
  <2>1. PICK T : Popped(lists) \in Seq(T)
    BY <1>2 DEF Stack
  <2> QED
    BY <1>2, <2>1, EmptySeq
<1>4. Stack(lists') /\ OwnedBy(lists') = 0 /\ Len(lists') = Len(calls')
  BY OwnedByEmpty
<1>5. NothingLeaks'
  <2>1. live' = Blocks(Filled)
    BY <1>1, <1>2, <1>3, OwnedByEmpty
  <2>2. live' = 0 + Blocks(packet') + NoBinds.nodes + Len(NoBinds.values)
    BY <1>1, <2>1, NoneIsEmpty
  <2> QED
    BY <1>1, <1>4, <2>2 DEF NothingLeaks
<1>6. Holding'
  BY <1>1, <1>4, NoneIsEmpty DEF Holding
<1> QED
  BY <1>5, <1>6 DEF LeakInv

LEMMA ReturnPacketOwns ==
  ASSUME ParserInv, LeakInv, ReturnPacket
  PROVE  LeakInv'
<1>1. calls # << >>
  BY DEF ReturnPacket, AtEnd, ParserInv
<1> QED
  BY <1>1, LastCall DEF ReturnPacket

LEMMA UnwindOwns ==
  ASSUME ParserInv, LeakInv, Unwind
  PROVE  LeakInv'
<1>1. calls # << >>
  BY DEF Unwind, ParserInv
<1>2. /\ Depth \in Nat \ {0} /\ live = OwnedBy(lists)
      /\ Blocks(Filled) = Owned(lists[Depth]) /\ Owned(lists[Depth]) \in Nat
  BY <1>1, Active
<1>3. /\ Stack(Popped(lists)) /\ OwnedBy(Popped(lists)) \in Nat
      /\ Len(Popped(lists)) = Depth - 1 /\ Len(Popped(calls)) = Depth - 1
      /\ Popped(calls) \in Seq(Calls)
      /\ OwnedBy(lists) = OwnedBy(Popped(lists)) + Owned(lists[Depth])
  BY <1>1, ActivePopped
<1>4. calls' = Popped(calls) /\ lists' = Popped(lists) /\ UNCHANGED varBinds
  BY DEF Unwind
<1>5. CASE Depth = 1
  <2>1. calls' = << >>
    BY <1>3, <1>4, <1>5, EmptySeq
  <2>2. lists' = << >>
    <3>1. PICK T : Popped(lists) \in Seq(T)
      BY <1>3 DEF Stack
    <3> QED
      BY <1>3, <1>4, <1>5, <3>1, EmptySeq
  <2>3. packet' = Filled /\ UNCHANGED live
    BY <1>5 DEF Unwind
  <2> QED
    BY <1>1, <1>4, <1>5, <2>1, <2>2, <2>3, LastCall
<1>6. CASE Depth # 1
  <2>1. live' = live - Blocks(Filled) /\ UNCHANGED packet
    BY <1>6 DEF Unwind
  <2>2. live' = OwnedBy(lists')
    BY <1>2, <1>3, <1>4, <2>1
  <2> QED
    BY <1>1, <1>3, <1>4, <2>1, <2>2, DecodingKeeps
<1> QED
  BY <1>5, <1>6

\* Without active calls there are no lists, and what is deleted is all there is.
LEMMA Inactive ==
  ASSUME ParserInv, LeakInv, calls = << >>
  PROVE  /\ lists = << >> /\ Stack(lists) /\ OwnedBy(lists) = 0
         /\ Released = 0
         /\ live = Blocks(packet) + varBinds.nodes + Len(varBinds.values)
<1>1. Stack(lists) /\ Len(lists) = 0
  BY DEF LeakInv, Holding
<1>2. lists = << >>
  <2>1. PICK T : lists \in Seq(T)
    BY <1>1 DEF Stack
  <2> QED
    BY <1>1, <2>1, EmptySeq
<1>3. OwnedBy(lists) = 0
  BY <1>2, OwnedByEmpty
<1>4. /\ Blocks(packet) \in Nat /\ varBinds.nodes \in Nat
      /\ Len(varBinds.values) \in Nat
  BY DEF LeakInv, Holding
<1>5. live = Blocks(packet) + varBinds.nodes + Len(varBinds.values)
  BY <1>3, <1>4 DEF LeakInv, NothingLeaks
<1>6. Released = 0
  BY <1>4, <1>5 DEF Released
<1> QED
  BY <1>1, <1>2, <1>3, <1>5, <1>6

\* A step without active calls accounts for the blocks if it accounts for
\* those of the tree and of the list of bindings.
LEMMA InactiveKeeps ==
  ASSUME ParserInv, LeakInv, calls = << >>, UNCHANGED <<calls, lists>>,
         Blocks(packet') \in Nat,
         varBinds' \in [nodes : Nat, values : Seq(Nat)],
         phase' = "decoded" => varBinds' = NoBinds,
         live' = Blocks(packet') + varBinds'.nodes + Len(varBinds'.values)
  PROVE  LeakInv'
<1>1. lists' = << >> /\ Stack(lists') /\ OwnedBy(lists') = 0 /\ Len(lists') = Len(calls')
  BY Inactive
<1>2. NothingLeaks'
  <2>1. varBinds'.nodes \in Nat /\ Len(varBinds'.values) \in Nat
    OBVIOUS
  <2> QED
    BY <1>1, <2>1 DEF NothingLeaks
<1>3. Holding'
  BY <1>1 DEF Holding
<1> QED
  BY <1>2, <1>3 DEF LeakInv

LEMMA ParseOwns ==
  ASSUME ParserInv, LeakInv, NEW d \in Datagrams, NEW memory \in BOOLEAN,
         Parse(d, memory)
  PROVE  LeakInv'
<1> DEFINE h == ReadHeader(d.octets, 0, Len(d.octets))
<1>1. calls = << >> /\ varBinds' = NoBinds
  BY DEF Parse, ParserInv
<1>2. lists = << >> /\ Released = 0
  BY <1>1, Inactive
<1>3. CASE phase' = "rejected" /\ packet' = None /\ live' = Released
           /\ UNCHANGED <<calls, lists>>
  BY <1>1, <1>2, <1>3, NoneIsEmpty, InactiveKeeps
<1>4. CASE phase' = "rejected" /\ packet' = Object("Structure", << >>)
           /\ live' = Released + 1 /\ UNCHANGED <<calls, lists>>
  <2>1. Blocks(packet') = 1
    BY <1>4, OwnedEmpty DEF Blocks, Object, Constructed
  <2> QED
    BY <1>1, <1>2, <1>4, <2>1, NoneIsEmpty, InactiveKeeps
<1>5. CASE /\ packet' = None /\ live' = Released + 1 /\ phase' = "decoding"
           /\ calls' = <<Call("Structure", h.header, h.header + h.length)>>
           /\ lists' = << << >> >>
  <2>1. lists' = Append(<< >>, << >>)
    BY <1>5
  <2>2. Stack(lists') /\ OwnedBy(lists') = 0 + 1
    BY <2>1, OwnedByEmpty, OwnedEmpty, OwnedByAppend
  <2>3. Len(lists') = Len(calls')
    BY <1>5
  <2>4. NothingLeaks'
    BY <1>1, <1>2, <1>5, <2>2, NoneIsEmpty DEF NothingLeaks
  <2>5. Holding'
    BY <1>1, <1>5, <2>2, <2>3, NoneIsEmpty DEF Holding
  <2> QED
    BY <2>4, <2>5 DEF LeakInv
<1> QED
  BY <1>3, <1>4, <1>5 DEF Parse

LEMMA CheckShapeOwns ==
  ASSUME ParserInv, LeakInv, NEW memory \in BOOLEAN, CheckShape(memory)
  PROVE  LeakInv'
<1>1. /\ calls = << >> /\ varBinds = NoBinds /\ Blocks(packet) \in Nat
      /\ UNCHANGED <<calls, lists, packet>>
  BY DEF CheckShape, ParserInv, LeakInv, Holding
<1>2. live = Blocks(packet)
  <2>1. live = Blocks(packet) + varBinds.nodes + Len(varBinds.values)
    BY <1>1, Inactive
  <2> QED
    BY <1>1, <2>1, NoneIsEmpty
<1>3. CASE phase' = "binding" /\ varBinds' = [nodes |-> 1, values |-> << >>]
           /\ live' = live + 1
  BY <1>1, <1>2, <1>3, InactiveKeeps
<1>4. CASE phase' = "rejected" /\ UNCHANGED <<varBinds, live>>
  BY <1>1, <1>2, <1>4, NoneIsEmpty, InactiveKeeps
<1> QED
  BY <1>3, <1>4 DEF CheckShape

LEMMA BindOwns ==
  ASSUME ParserInv, LeakInv, NEW memory \in 0..2, Bind(memory)
  PROVE  LeakInv'
<1> DEFINE nodes == varBinds.nodes
           values == varBinds.values
           more == IF memory = 0 THEN values ELSE Append(values, Len(values) + 1)
<1>1. /\ calls = << >> /\ UNCHANGED <<calls, lists, packet>>
      /\ Blocks(packet) \in Nat /\ nodes \in Nat /\ values \in Seq(Nat)
      /\ phase' # "decoded"
  BY DEF Bind, AtBinding, ParserInv, LeakInv, Holding
<1>2. live = Blocks(packet) + nodes + Len(values)
  BY <1>1, Inactive
<1>3. /\ varBinds' = [nodes |-> nodes + memory \div 2, values |-> more]
      /\ live' = live + memory
  BY DEF Bind
<1>4. more \in Seq(Nat) /\ Len(more) = Len(values) + (IF memory = 0 THEN 0 ELSE 1)
  <2> HIDE DEF values
  <2>1. Len(values) + 1 \in Nat /\ Len(values) \in Nat
    BY <1>1
  <2>2. /\ Append(values, Len(values) + 1) \in Seq(Nat)
        /\ Len(Append(values, Len(values) + 1)) = Len(values) + 1
    BY <1>1, <2>1, AppendProperties
  <2> QED
    BY <1>1, <2>1, <2>2
<1>5. memory \div 2 \in Nat
      /\ memory = memory \div 2 + (IF memory = 0 THEN 0 ELSE 1)
  OBVIOUS
<1> HIDE DEF nodes, values, more
<1>6. /\ varBinds' \in [nodes : Nat, values : Seq(Nat)]
      /\ live' = Blocks(packet) + varBinds'.nodes + Len(varBinds'.values)
  BY <1>1, <1>2, <1>3, <1>4, <1>5
<1> QED
  BY <1>1, <1>6, InactiveKeeps

LEMMA ReleaseOwns ==
  ASSUME ParserInv, LeakInv, Release
  PROVE  LeakInv'
<1>1. calls = << >>
  BY DEF Release, ParserInv
<1>2. /\ packet' = None /\ varBinds' = NoBinds /\ live' = 0
      /\ UNCHANGED <<calls, lists>>
  BY <1>1, Inactive DEF Release
<1> QED
  BY <1>1, <1>2, NoneIsEmpty, InactiveKeeps

\* A step that allocates and deletes nothing.
LEMMA IdleOwns ==
  ASSUME ParserInv, LeakInv, UNCHANGED <<calls, lists, packet, varBinds, live>>,
         phase' = "decoded" => phase = "decoded"
  PROVE  LeakInv'
BY DEF LeakInv, Holding, NothingLeaks

LEMMA StepOwns ==
  ASSUME ParserInv, LeakInv, Step
  PROVE  LeakInv'
<1>1. CASE Malformed \/ RejectBinding \/ Accept
  BY <1>1, IdleOwns DEF Malformed, RejectBinding, Accept
<1>2. CASE ReturnPacket \/ Unwind
  BY <1>2, ReturnPacketOwns, UnwindOwns
<1>3. ASSUME NEW object \in BOOLEAN, NEW node \in BOOLEAN, DecodePrimitive(object, node)
      PROVE  LeakInv'
  BY <1>3, PrimitiveOwns
<1>4. ASSUME NEW memory \in BOOLEAN,
             DecodeStructure(memory) \/ ReturnChild(memory) \/ CheckShape(memory)
      PROVE  LeakInv'
  BY <1>4, StructureOwns, ReturnChildOwns, CheckShapeOwns
<1>5. ASSUME NEW memory \in 0..2, Bind(memory)
      PROVE  LeakInv'
  BY <1>5, BindOwns
<1> QED
  BY <1>1, <1>2, <1>3, <1>4, <1>5 DEF Step

LEMMA LeakInvHolds == Spec => []LeakInv
<1>1. Init => LeakInv
  <2> SUFFICES ASSUME Init PROVE LeakInv
    OBVIOUS
  <2>1. /\ phase = "idle" /\ calls = << >> /\ lists = << >>
        /\ packet = None /\ varBinds = NoBinds /\ live = 0
    BY DEF Init
  <2>2. Holding
    BY <2>1, NoneIsEmpty, OwnedByEmpty DEF Holding
  <2>3. NothingLeaks
    BY <2>1, NoneIsEmpty, OwnedByEmpty DEF NothingLeaks
  <2> QED
    BY <2>2, <2>3 DEF LeakInv
<1>2. ParserInv /\ LeakInv /\ [Next]_vars => LeakInv'
  <2> SUFFICES ASSUME ParserInv, LeakInv, [Next]_vars PROVE LeakInv'
    OBVIOUS
  <2>1. ASSUME NEW d \in Datagrams, NEW memory \in BOOLEAN, Parse(d, memory)
        PROVE  LeakInv'
    BY <2>1, ParseOwns
  <2>2. Again \subseteq Datagrams
    BY ParserAssumption DEF ParserAssumption
  <2>3. CASE UNCHANGED vars
    BY <2>3, IdleOwns DEF vars
  <2> QED
    BY <2>1, <2>2, <2>3, StepOwns, ReleaseOwns DEF Next
<1> QED
  BY <1>1, <1>2, DecoderStaysInside, PTL DEF Spec

\* Whatever a peer sends, and whichever allocations fail, every block that
\* ComplexType::decode() and parseFrom() allocated and have not deleted is
\* owned exactly once, and releasing the parser deletes them all.
THEOREM ParserLeaksNothing == Spec => []NothingLeaks
<1>1. LeakInv => NothingLeaks
  BY DEF LeakInv
<1> QED
  BY <1>1, LeakInvHolds, PTL

-----------------------------------------------------------------------------
(***************************************************************************)
(* The tree is what the octets say.                                        *)
(*                                                                         *)
(* A reading is a value and the octets at + 1..end of a buffer that it was *)
(* read from.  A set T of readings accounts for itself if each of them has *)
(* a header for exactly those octets, and contents that are the readings   *)
(* of its children one after the other, or those its class accepts.        *)
(***************************************************************************)
Reading(value, at, end) == [value |-> value, at |-> at, end |-> end]

\* The octets at + 1..end are a header of the type and contents after "from".
Framing(buf, type, at, from, end) ==
  /\ at \in Nat /\ from \in Nat /\ end \in Nat
  /\ at < from /\ from <= end /\ end <= Len(buf)
  /\ ReadHeader(buf, at, end) = [ok |-> TRUE, header |-> from - at, length |-> end - from]
  /\ TypeOf(buf[at + 1]) = type

\* The children were read from + 1..upto, one after the other.
Row(T, kids, from, upto) ==
  /\ \E S : kids \in Seq(S)
  /\ \E cut \in [0..Len(kids) -> Nat] :
       /\ cut[0] = from /\ cut[Len(kids)] = upto
       /\ \A i \in 1..Len(kids) : Reading(kids[i], cut[i - 1], cut[i]) \in T

Whole(buf, T, v, from, end) ==
  IF v.type \in Constructed
    THEN v = Object(v.type, v.kids) /\ Row(T, v.kids, from, end)
    ELSE v = FromBuffer(v.type, SubSeq(buf, from + 1, end)) /\ v # Invalid

Read(buf, T) ==
  \A r \in T : \E from \in Nat :
    Framing(buf, r.value.type, r.at, from, r.end) /\ Whole(buf, T, r.value, from, r.end)

\* Each active call has read children of the object it fills up to where it is,
\* and the object began where the call below it is.
Opened(buf, T, call, at, kids) ==
  \E from \in Nat :
    Framing(buf, call.type, at, from, call.end) /\ Row(T, kids, from, call.at)

Filling(buf, T, stack, ls) ==
  \A i \in 1..Len(stack) :
    Opened(buf, T, stack[i], IF i = 1 THEN 0 ELSE stack[i - 1].at, ls[i])

Tree(T) ==
  /\ Read(Buffer, T)
  /\ Filling(Buffer, T, calls, lists)
  /\ phase \in {"decoded", "binding", "accepted"} =>
       \E n \in Nat : Reading(packet, 0, n) \in T

TreeInv == \E T : Tree(T)

LEMMA RowMore ==
  ASSUME NEW T, NEW U, T \subseteq U, NEW kids, NEW from, NEW upto,
         Row(T, kids, from, upto)
  PROVE  Row(U, kids, from, upto)
BY DEF Row

LEMMA RowEmpty ==
  ASSUME NEW T, NEW from \in Nat
  PROVE  Row(T, << >>, from, from)
<1> DEFINE cut == [i \in 0..0 |-> from]
<1>1. << >> \in Seq({}) /\ Len(<< >>) = 0
  OBVIOUS
<1>2. cut \in [0..0 -> Nat] /\ cut[0] = from
  OBVIOUS
<1> HIDE DEF cut
<1>3. \A i \in 1..0 : FALSE
  OBVIOUS
<1> QED
  BY <1>1, <1>2, <1>3 DEF Row

LEMMA RowAppend ==
  ASSUME NEW T, NEW kids, NEW from, NEW upto, Row(T, kids, from, upto),
         NEW v, NEW e \in Nat, Reading(v, upto, e) \in T
  PROVE  Row(T, Append(kids, v), from, e)
<1> DEFINE n == Len(kids)
           more == Append(kids, v)
<1>1. PICK S : kids \in Seq(S)
  BY DEF Row
<1>2. PICK cut \in [0..n -> Nat] :
        /\ cut[0] = from /\ cut[n] = upto
        /\ \A i \in 1..n : Reading(kids[i], cut[i - 1], cut[i]) \in T
  BY DEF Row
<1>3. /\ n \in Nat /\ more \in Seq(S \cup {v}) /\ Len(more) = n + 1
      /\ more[n + 1] = v /\ \A i \in 1..n : more[i] = kids[i]
  BY <1>1
<1> HIDE DEF more, n
<1> DEFINE new == [i \in 0..(n + 1) |-> IF i = n + 1 THEN e ELSE cut[i]]
<1>4. /\ new \in [0..(n + 1) -> Nat] /\ new[0] = from /\ new[n + 1] = e
      /\ \A i \in 0..n : new[i] = cut[i]
  BY <1>2, <1>3
<1> HIDE DEF new
<1>5. ASSUME NEW i \in 1..(n + 1) PROVE Reading(more[i], new[i - 1], new[i]) \in T
  <2>1. CASE i = n + 1
    <3>1. i - 1 = n /\ n \in 0..n
      BY <1>3, <2>1
    <3>2. more[i] = v /\ new[i - 1] = upto /\ new[i] = e
      BY <1>2, <1>3, <1>4, <2>1, <3>1
    <3> QED
      BY <3>2
  <2>2. CASE i # n + 1
    <3>1. i \in 1..n /\ i - 1 \in 0..n /\ i \in 0..n
      BY <1>3, <2>2
    <3>2. more[i] = kids[i] /\ new[i - 1] = cut[i - 1] /\ new[i] = cut[i]
      BY <1>3, <1>4, <3>1
    <3> QED
      BY <1>2, <3>1, <3>2
  <2> QED
    BY <2>1, <2>2
<1>6. Row(T, more, from, e)
  <2>1. \E R : more \in Seq(R)
    BY <1>3
  <2> QED
    BY <1>3, <1>4, <1>5, <2>1 DEF Row
<1> QED
  BY <1>6 DEF more

\* More readings leave what was read as it is.
LEMMA ReadMore ==
  ASSUME NEW buf, NEW T, Read(buf, T), NEW r, NEW from \in Nat,
         Framing(buf, r.value.type, r.at, from, r.end),
         Whole(buf, T, r.value, from, r.end)
  PROVE  Read(buf, T \cup {r})
<1> DEFINE U == T \cup {r}
<1>1. T \subseteq U
  OBVIOUS
<1> HIDE DEF U
<1>2. \A v, f, e : Whole(buf, T, v, f, e) => Whole(buf, U, v, f, e)
  BY <1>1, RowMore DEF Whole
<1>3. \A q \in U : q \in T \/ q = r
  BY DEF U
<1>4. Read(buf, U)
  BY <1>2, <1>3 DEF Read
<1> QED
  BY <1>4 DEF U

LEMMA FillingMore ==
  ASSUME NEW buf, NEW T, NEW U, T \subseteq U, NEW stack, NEW ls,
         Filling(buf, T, stack, ls)
  PROVE  Filling(buf, U, stack, ls)
<1>1. \A kids, from, upto : Row(T, kids, from, upto) => Row(U, kids, from, upto)
  BY RowMore
<1> QED
  BY <1>1 DEF Filling, Opened

\* addValueToList() appends what was read from where the last call is.
LEMMA FillingAdvance ==
  ASSUME NEW buf, NEW T, NEW stack \in Seq(Calls), stack # << >>,
         NEW ls, Stack(ls), Len(ls) = Len(stack), Filling(buf, T, stack, ls),
         NEW v, NEW e \in Nat, Reading(v, stack[Len(stack)].at, e) \in T
  PROVE  Filling(buf, T, [stack EXCEPT ![Len(stack)].at = e],
                         [ls EXCEPT ![Len(ls)] = Append(@, v)])
<1> DEFINE n == Len(stack)
           last == stack[n]
           moved == [stack EXCEPT ![n].at = e]
           more == [ls EXCEPT ![n] = Append(@, v)]
<1>1. n \in Nat \ {0} /\ last \in Calls
  OBVIOUS
<1>2. PICK S : ls \in Seq(S)
  BY DEF Stack
<1>3. /\ Len(moved) = n /\ moved[n] = [last EXCEPT !.at = e]
      /\ \A i \in 1..(n - 1) : moved[i] = stack[i]
  BY <1>1
<1>4. /\ more[n] = Append(ls[n], v) /\ \A i \in 1..(n - 1) : more[i] = ls[i]
  BY <1>1, <1>2
<1>5. moved[n].at = e /\ moved[n].end = last.end /\ moved[n].type = last.type
  BY <1>1, <1>3 DEF Calls
<1> HIDE DEF moved, more
<1>6. ASSUME NEW i \in 1..n
      PROVE  Opened(buf, T, moved[i], IF i = 1 THEN 0 ELSE moved[i - 1].at, more[i])
  <2> DEFINE at == IF i = 1 THEN 0 ELSE stack[i - 1].at
  <2>1. (IF i = 1 THEN 0 ELSE moved[i - 1].at) = at
    <3>1. CASE i = 1
      BY <3>1
    <3>2. CASE i # 1
      <4>1. i - 1 \in 1..(n - 1)
        BY <1>1, <3>2
      <4> QED
        BY <1>3, <3>2, <4>1
    <3> QED
      BY <3>1, <3>2
  <2>2. Opened(buf, T, stack[i], at, ls[i])
    BY DEF Filling
  <2> HIDE DEF at
  <2>3. CASE i = n
    <3>1. PICK from \in Nat : /\ Framing(buf, last.type, at, from, last.end)
                              /\ Row(T, ls[n], from, last.at)
      BY <2>2, <2>3 DEF Opened
    <3>2. Row(T, Append(ls[n], v), from, e)
      BY <3>1, RowAppend
    <3> QED
      BY <1>4, <1>5, <2>1, <2>3, <3>1, <3>2 DEF Opened
  <2>4. CASE i # n
    <3>1. i \in 1..(n - 1)
      BY <1>1, <2>4
    <3> QED
      BY <1>3, <1>4, <2>1, <2>2, <3>1
  <2> QED
    BY <2>3, <2>4
<1>7. Filling(buf, T, moved, more)
  BY <1>3, <1>6 DEF Filling
<1> QED
  BY <1>7 DEF moved, more

\* decode() calls itself at a header.
LEMMA FillingPush ==
  ASSUME NEW buf, NEW T, NEW stack \in Seq(Calls), stack # << >>,
         NEW ls, Stack(ls), Len(ls) = Len(stack), Filling(buf, T, stack, ls),
         NEW c \in Calls,
         Framing(buf, c.type, stack[Len(stack)].at, c.at, c.end)
  PROVE  Filling(buf, T, Append(stack, c), Append(ls, << >>))
<1> DEFINE n == Len(stack)
           grown == Append(stack, c)
           more == Append(ls, << >>)
<1>1. n \in Nat \ {0}
  OBVIOUS
<1>2. PICK S : ls \in Seq(S)
  BY DEF Stack
<1>3. /\ Len(grown) = n + 1 /\ grown[n + 1] = c
      /\ \A i \in 1..n : grown[i] = stack[i]
  BY <1>1
<1>4. more[n + 1] = << >> /\ \A i \in 1..n : more[i] = ls[i]
  BY <1>1, <1>2
<1> HIDE DEF grown, more
<1>5. ASSUME NEW i \in 1..(n + 1)
      PROVE  Opened(buf, T, grown[i], IF i = 1 THEN 0 ELSE grown[i - 1].at, more[i])
  <2> DEFINE at == IF i = 1 THEN 0 ELSE stack[i - 1].at
  <2>1. (IF i = 1 THEN 0 ELSE grown[i - 1].at) = at
    <3>1. CASE i = 1
      BY <3>1
    <3>2. CASE i # 1
      <4>1. i - 1 \in 1..n
        BY <1>1, <3>2
      <4> QED
        BY <1>3, <3>2, <4>1
    <3> QED
      BY <3>1, <3>2
  <2>2. CASE i = n + 1
    <3>1. at = stack[n].at
      BY <1>1, <2>2
    <3>2. Row(T, << >>, c.at, c.at) /\ c.at \in Nat
      BY RowEmpty DEF Calls
    <3> HIDE DEF at
    <3> QED
      BY <1>3, <1>4, <2>1, <2>2, <3>1, <3>2 DEF Opened
  <2>3. CASE i # n + 1
    <3>1. i \in 1..n
      BY <1>1, <2>3
    <3>2. Opened(buf, T, stack[i], at, ls[i])
      BY <3>1 DEF Filling
    <3> HIDE DEF at
    <3> QED
      BY <1>3, <1>4, <2>1, <3>1, <3>2
  <2> QED
    BY <2>2, <2>3
<1>6. Filling(buf, T, grown, more)
  BY <1>3, <1>5 DEF Filling
<1> QED
  BY <1>6 DEF grown, more

\* decode() returns.
LEMMA FillingPop ==
  ASSUME NEW buf, NEW T, NEW stack \in Seq(Calls), stack # << >>,
         NEW ls, Stack(ls), Len(ls) = Len(stack), Filling(buf, T, stack, ls)
  PROVE  Filling(buf, T, Popped(stack), Popped(ls))
<1> DEFINE n == Len(stack)
<1>1. n \in Nat \ {0} /\ ls # << >>
  BY EmptySeq
<1>2. PICK S : ls \in Seq(S)
  BY DEF Stack
<1>3. /\ Len(Popped(stack)) = n - 1
      /\ \A i \in 1..(n - 1) : Popped(stack)[i] = stack[i] /\ Popped(ls)[i] = ls[i]
  BY <1>1, <1>2, PopSeq
<1>4. ASSUME NEW i \in 1..(n - 1)
      PROVE  Opened(buf, T, Popped(stack)[i],
                    IF i = 1 THEN 0 ELSE Popped(stack)[i - 1].at, Popped(ls)[i])
  <2>1. i \in 1..n /\ (i # 1 => i - 1 \in 1..(n - 1))
    BY <1>1
  <2>2. Opened(buf, T, stack[i], IF i = 1 THEN 0 ELSE stack[i - 1].at, ls[i])
    BY <2>1 DEF Filling
  <2>3. CASE i = 1
    BY <1>3, <2>2, <2>3
  <2>4. CASE i # 1
    <3>1. Popped(stack)[i - 1] = stack[i - 1]
      BY <1>3, <2>1, <2>4
    <3> QED
      BY <1>3, <2>2, <2>4, <3>1
  <2> QED
    BY <2>3, <2>4
<1> QED
  BY <1>3, <1>4 DEF Filling

\* The header of a child frames the octets that its decoder is given.
LEMMA ChildFraming ==
  ASSUME ParserInv, AtChild, Decodable
  PROVE  Framing(Buffer, ChildType, Top.at, Top.at + ChildHeader.header, ChildEnd)
<1>1. calls # << >>
  BY DEF AtChild, ParserInv
<1>2. /\ Buffer \in Seq(Octet) /\ Top.at \in Nat /\ Top.end \in Nat
      /\ Top.at <= Top.end /\ Top.end <= Len(Buffer) /\ Len(Buffer) \in Nat
  BY <1>1, Known DEF Calls
<1>3. ChildHeader.ok /\ ReadHeader(Buffer, Top.at, Top.end).ok
  BY DEF Decodable, ChildHeader
<1>4. /\ ChildHeader.header \in Nat /\ ChildHeader.header >= 2
      /\ ChildHeader.length \in Nat
      /\ Top.at + ChildHeader.header + ChildHeader.length <= Top.end
  BY <1>2, <1>3, HeaderFits DEF ChildHeader
<1>5. ChildHeader = [ok |-> TRUE, header |-> ChildHeader.header, length |-> ChildHeader.length]
  <2>1. \/ ChildHeader = [ok |-> FALSE, header |-> 0, length |-> 0]
        \/ \E h, l : ChildHeader = [ok |-> TRUE, header |-> h, length |-> l]
    BY DEF ChildHeader, ReadHeader
  <2> QED
    BY <1>3, <2>1
<1>6. ReadHeader(Buffer, Top.at, ChildEnd) = ChildHeader
  <2>1. ChildEnd \in Nat /\ Top.at + ChildHeader.header + ChildHeader.length <= ChildEnd
    BY <1>2, <1>4 DEF ChildEnd
  <2> QED
    BY <1>2, <1>3, <2>1, HeaderExact DEF ChildHeader
<1>7. /\ (Top.at + ChildHeader.header) - Top.at = ChildHeader.header
      /\ ChildEnd - (Top.at + ChildHeader.header) = ChildHeader.length
      /\ Top.at < Top.at + ChildHeader.header
      /\ Top.at + ChildHeader.header <= ChildEnd
      /\ ChildEnd <= Len(Buffer)
      /\ Top.at + ChildHeader.header \in Nat /\ ChildEnd \in Nat
  BY <1>2, <1>4 DEF ChildEnd
<1> QED
  BY <1>2, <1>5, <1>6, <1>7 DEF Framing, ChildType

\* A step of the decoder with a tree of its own.
LEMMA Decoding ==
  ASSUME NEW T, Read(Buffer, T), Filling(Buffer, T, calls', lists'),
         UNCHANGED datagram, phase' \notin {"decoded", "binding", "accepted"}
  PROVE  TreeInv'
<1>1. Tree(T)'
  BY DEF Tree, Buffer
<1> QED
  BY <1>1 DEF TreeInv

\* addValueToList() of a child that was read.
LEMMA AddValueReads ==
  ASSUME NEW T, Read(Buffer, T), UNCHANGED datagram, phase = "decoding",
         NEW below \in Seq(Calls), below # << >>,
         NEW kids, Stack(kids), Len(kids) = Len(below),
         Filling(Buffer, T, below, kids),
         NEW child, NEW e \in Nat, NEW node, AddValue(child, below, kids, e, node),
         Reading(child, below[Len(below)].at, e) \in T
  PROVE  TreeInv'
<1>1. CASE node
  <2>1. /\ calls' = [below EXCEPT ![Len(below)].at = e]
        /\ lists' = [kids EXCEPT ![Len(kids)] = Append(@, child)]
        /\ phase' = "decoding"
    BY <1>1 DEF AddValue
  <2>2. Filling(Buffer, T, calls', lists')
    BY <2>1, FillingAdvance
  <2> QED
    BY <2>1, <2>2, Decoding
<1>2. CASE ~node
  BY <1>2, Decoding DEF AddValue
<1> QED
  BY <1>1, <1>2

\* What the steps of the decoder know.
LEMMA Stacks ==
  ASSUME ParserInv, LeakInv, calls # << >>
  PROVE  /\ calls \in Seq(Calls) /\ Stack(lists) /\ Len(lists) = Len(calls)
         /\ Depth \in Nat \ {0} /\ Depth = Len(calls) /\ Top = calls[Len(calls)]
         /\ Top.type \in Constructed /\ Top.at \in Nat /\ Top.end \in Nat
         /\ UNCHANGED datagram => Buffer' = Buffer
<1>1. Depth \in Nat \ {0} /\ Top \in Calls
  BY Known
<1> QED
  BY <1>1 DEF ParserInv, Nested, Calls, LeakInv, Holding, Depth, Top, Buffer

LEMMA PrimitiveReads ==
  ASSUME ParserInv, LeakInv, TreeInv, NEW object, NEW node, DecodePrimitive(object, node)
  PROVE  TreeInv'
<1>1. /\ phase = "decoding" /\ calls # << >> /\ UNCHANGED datagram
      /\ AtChild /\ Decodable /\ ChildType \notin Constructed
  BY DEF DecodePrimitive, AtChild, ParserInv
<1>2. PICK T : Tree(T)
  BY DEF TreeInv
<1>3. Read(Buffer, T) /\ Filling(Buffer, T, calls, lists)
  BY <1>2 DEF Tree
<1>4. CASE object /\ Child # Invalid
  <2> DEFINE from == Top.at + ChildHeader.header
             r == Reading(Child, Top.at, ChildEnd)
             U == T \cup {r}
  <2>1. Framing(Buffer, ChildType, Top.at, from, ChildEnd)
    BY <1>1, ChildFraming
  <2>2. Child.type = ChildType
    BY <1>4, FromBufferType DEF Child
  <2>3. Whole(Buffer, T, Child, from, ChildEnd)
    BY <1>1, <1>4, <2>2 DEF Whole, Child
  <2>4. r.value = Child /\ r.at = Top.at /\ r.end = ChildEnd
    BY DEF Reading
  <2>5. from \in Nat /\ ChildEnd \in Nat
    BY <2>1 DEF Framing
  <2> HIDE DEF r, from
  <2>6. Read(Buffer, U)
    BY <1>3, <2>1, <2>2, <2>3, <2>4, <2>5, ReadMore
  <2>7. Filling(Buffer, U, calls, lists) /\ r \in U
    BY <1>3, FillingMore
  <2>8. AddValue(Child, calls, lists, ChildEnd, node)
    BY <1>4 DEF DecodePrimitive
  <2> HIDE DEF U
  <2>9. Reading(Child, calls[Len(calls)].at, ChildEnd) \in U
    BY <2>7 DEF r, Top, Depth
  <2> QED
    BY <1>1, <2>5, <2>6, <2>7, <2>8, <2>9, Stacks, AddValueReads
<1>5. CASE ~(object /\ Child # Invalid)
  BY <1>3, <1>5, Decoding DEF DecodePrimitive
<1> QED
  BY <1>4, <1>5

LEMMA StructureReads ==
  ASSUME ParserInv, LeakInv, TreeInv, NEW object, DecodeStructure(object)
  PROVE  TreeInv'
<1>1. /\ phase = "decoding" /\ calls # << >> /\ UNCHANGED datagram
      /\ AtChild /\ Decodable /\ ChildType \in Constructed
  BY DEF DecodeStructure, AtChild, ParserInv
<1>2. PICK T : Read(Buffer, T) /\ Filling(Buffer, T, calls, lists)
  BY DEF TreeInv, Tree
<1>3. CASE object /\ Depth < MaxDepth
  <2> DEFINE from == Top.at + ChildHeader.header
             c == Call(ChildType, from, ChildEnd)
  <2>1. Framing(Buffer, ChildType, Top.at, from, ChildEnd)
    BY <1>1, ChildFraming
  <2>2. /\ c.type = ChildType /\ c.at = from /\ c.end = ChildEnd /\ c \in Calls
    BY <1>1, <2>1 DEF Call, Calls, Framing
  <2>3. calls' = Append(calls, c) /\ lists' = Append(lists, << >>) /\ phase' = phase
    BY <1>3 DEF DecodeStructure
  <2> HIDE DEF c, from
  <2>4. Framing(Buffer, c.type, calls[Len(calls)].at, c.at, c.end)
    BY <2>1, <2>2 DEF Top, Depth
  <2>5. Filling(Buffer, T, calls', lists')
    BY <1>1, <1>2, <2>2, <2>3, <2>4, Stacks, FillingPush
  <2> QED
    BY <1>1, <1>2, <2>3, <2>5, Decoding
<1>4. CASE ~(object /\ Depth < MaxDepth)
  BY <1>2, <1>4, Decoding DEF DecodeStructure
<1> QED
  BY <1>3, <1>4

\* The object that the last call has filled, where it began.
LEMMA FilledReads ==
  ASSUME ParserInv, LeakInv, AtEnd,
         NEW T, Read(Buffer, T), Filling(Buffer, T, calls, lists)
  PROVE  LET r == Reading(Filled, IF Depth = 1 THEN 0 ELSE calls[Depth - 1].at, Top.end)
         IN  Read(Buffer, T \cup {r})
<1> DEFINE at == IF Depth = 1 THEN 0 ELSE calls[Depth - 1].at
           r == Reading(Filled, at, Top.end)
<1>1. calls # << >> /\ Top.at = Top.end
  BY DEF AtEnd, ParserInv
<1>2. /\ Depth \in 1..Len(calls) /\ Top = calls[Depth] /\ Top.type \in Constructed
  BY <1>1, Stacks
<1>3. Opened(Buffer, T, Top, at, lists[Depth])
  BY <1>2 DEF Filling
<1> HIDE DEF at
<1>4. PICK from \in Nat : /\ Framing(Buffer, Top.type, at, from, Top.end)
                          /\ Row(T, lists[Depth], from, Top.at)
  BY <1>3 DEF Opened
<1>5. Filled.type = Top.type /\ Filled.kids = lists[Depth]
      /\ Filled = Object(Filled.type, Filled.kids)
  BY DEF Filled, Object
<1>6. Whole(Buffer, T, Filled, from, Top.end)
  BY <1>1, <1>2, <1>4, <1>5 DEF Whole
<1>7. r.value = Filled /\ r.at = at /\ r.end = Top.end
  BY DEF Reading
<1> HIDE DEF r
<1>8. Read(Buffer, T \cup {r})
  BY <1>4, <1>5, <1>6, <1>7, ReadMore
<1> QED
  BY <1>8 DEF r, at

LEMMA ReturnChildReads ==
  ASSUME ParserInv, LeakInv, TreeInv, NEW node, ReturnChild(node)
  PROVE  TreeInv'
<1>1. /\ phase = "decoding" /\ calls # << >> /\ UNCHANGED datagram
      /\ AtEnd /\ Depth > 1
  BY DEF ReturnChild, AtEnd, ParserInv
<1>2. PICK T : Read(Buffer, T) /\ Filling(Buffer, T, calls, lists)
  BY DEF TreeInv, Tree
<1> DEFINE below == Popped(calls)
           kids == Popped(lists)
           r == Reading(Filled, calls[Depth - 1].at, Top.end)
           U == T \cup {r}
<1>3. /\ Depth \in Nat /\ Depth = Len(calls) /\ Depth > 1
      /\ calls \in Seq(Calls) /\ Stack(lists) /\ Len(lists) = Len(calls)
      /\ Top.end \in Nat
  BY <1>1, Stacks
<1>4. Depth # 1
  BY <1>3
<1>5. Read(Buffer, U) /\ r \in U
  BY <1>1, <1>2, <1>4, FilledReads
<1>6. Filling(Buffer, U, calls, lists)
  BY <1>2, FillingMore
<1> HIDE DEF r, U
<1>7. Filling(Buffer, U, below, kids)
  BY <1>1, <1>3, <1>6, FillingPop
<1>8. /\ below \in Seq(Calls) /\ Len(below) = Depth - 1
      /\ below[Depth - 1] = calls[Depth - 1]
  <2>1. Depth - 1 \in 1..(Len(calls) - 1)
    BY <1>3
  <2> QED
    BY <1>1, <1>3, <2>1, PopSeq
<1>9. Stack(kids) /\ Len(kids) = Depth - 1
  BY <1>1, <1>3, ActivePopped
<1>10. AddValue(Filled, below, kids, Top.end, node)
  BY DEF ReturnChild
<1> HIDE DEF below, kids
<1>11. below # << >> /\ Reading(Filled, below[Len(below)].at, Top.end) \in U
  BY <1>3, <1>5, <1>8 DEF r
<1> QED
  BY <1>1, <1>3, <1>5, <1>7, <1>8, <1>9, <1>10, <1>11, AddValueReads

LEMMA ReturnPacketReads ==
  ASSUME ParserInv, LeakInv, TreeInv, ReturnPacket
  PROVE  TreeInv'
<1>1. PICK T : Read(Buffer, T) /\ Filling(Buffer, T, calls, lists)
  BY DEF TreeInv, Tree
<1> DEFINE r == Reading(Filled, 0, Top.end)
<1>2. /\ AtEnd /\ Depth = 1 /\ calls # << >> /\ packet' = Filled /\ UNCHANGED datagram
      /\ calls' = << >> /\ lists' = << >>
  BY DEF ReturnPacket, AtEnd, ParserInv
<1>3. Read(Buffer, T \cup {r}) /\ Top.end \in Nat
  BY <1>1, <1>2, FilledReads, Stacks
<1> HIDE DEF r
<1>4. PICK U : U = T \cup {r}
  OBVIOUS
<1>5. Filling(Buffer, U, << >>, << >>) /\ Buffer' = Buffer
  BY <1>2 DEF Filling, Buffer
<1>6. Reading(packet', 0, Top.end) \in U /\ Read(Buffer, U)
  BY <1>2, <1>3, <1>4 DEF r
<1>7. Tree(U)'
  BY <1>2, <1>3, <1>5, <1>6 DEF Tree
<1> QED
  BY <1>7 DEF TreeInv

LEMMA StepReads ==
  ASSUME ParserInv, LeakInv, TreeInv, Step
  PROVE  TreeInv'
<1>1. PICK T : Tree(T)
  BY DEF TreeInv
<1>2. Read(Buffer, T) /\ Filling(Buffer, T, calls, lists)
  BY <1>1 DEF Tree
<1>3. CASE Malformed
  BY <1>2, <1>3, Decoding DEF Malformed
<1>4. CASE Unwind
  <2>1. calls # << >> /\ calls' = Popped(calls) /\ lists' = Popped(lists)
        /\ UNCHANGED datagram /\ phase' \in {"failing", "rejected"}
    BY <1>4 DEF Unwind, ParserInv, AfterFailure
  <2>2. Filling(Buffer, T, calls', lists')
    BY <1>2, <2>1, Stacks, FillingPop
  <2> QED
    BY <1>2, <2>1, <2>2, Decoding
<1>5. ASSUME UNCHANGED <<datagram, calls, lists, packet>>,
             phase \in {"decoded", "binding", "accepted"}
      PROVE  TreeInv'
  BY <1>1, <1>5 DEF Tree, TreeInv, Buffer
<1>6. ASSUME NEW memory, CheckShape(memory) \/ Bind(memory)
      PROVE  TreeInv'
  BY <1>5, <1>6 DEF CheckShape, Bind, AtBinding
<1>7. CASE RejectBinding \/ Accept
  BY <1>5, <1>7 DEF RejectBinding, Accept, AtBinding
<1> QED
  BY <1>3, <1>4, <1>6, <1>7, PrimitiveReads, StructureReads, ReturnChildReads,
     ReturnPacketReads DEF Step

\* The start of parseFrom() reads the header of the whole message.
LEMMA ParseReads ==
  ASSUME ParserInv, LeakInv, NEW d \in Datagrams, NEW memory, Parse(d, memory)
  PROVE  TreeInv'
<1> DEFINE h == ReadHeader(d.octets, 0, Len(d.octets))
           T == {}
<1>1. /\ d.octets \in Seq(Octet) /\ datagram' = d /\ Len(d.octets) \in Nat
      /\ calls = << >>
  BY ParserAssumption DEF ParserAssumption, Parse, ParserInv
<1>2. Read(d.octets, T)
  BY DEF Read
<1> HIDE DEF T
<1>3. CASE phase' = "rejected" /\ UNCHANGED calls
  <2>1. Filling(d.octets, T, calls', lists')
    BY <1>1, <1>3 DEF Filling
  <2>2. Tree(T)'
    BY <1>1, <1>2, <1>3, <2>1 DEF Tree, Buffer
  <2> QED
    BY <2>2 DEF TreeInv
<1>4. CASE /\ ~(Len(d.octets) < 2) /\ d.octets[1] = Tag["Structure"]
           /\ h.ok /\ phase' = "decoding"
           /\ calls' = <<Call("Structure", h.header, h.header + h.length)>>
           /\ lists' = << << >> >>
  <2>1. /\ h.header \in Nat /\ h.header >= 2 /\ h.length \in Nat
        /\ 0 + h.header + h.length <= Len(d.octets)
    BY <1>1, <1>4, HeaderFits
  <2> DEFINE end == h.header + h.length
  <2>2. end \in Nat /\ end <= Len(d.octets) /\ h.header <= end /\ 0 < h.header
        /\ end - h.header = h.length /\ h.header - 0 = h.header
    BY <1>1, <2>1
  <2>3. h = [ok |-> TRUE, header |-> h.header, length |-> h.length]
    <3>1. \/ h = [ok |-> FALSE, header |-> 0, length |-> 0]
          \/ \E k, l : h = [ok |-> TRUE, header |-> k, length |-> l]
      BY DEF ReadHeader
    <3> QED
      BY <1>4, <3>1
  <2>4. ReadHeader(d.octets, 0, end) = h
    <3>1. 0 + h.header + h.length <= end /\ 0 <= Len(d.octets) /\ h.ok
      BY <1>1, <1>4, <2>1, <2>2
    <3> HIDE DEF end
    <3> QED
      BY <1>1, <2>2, <3>1, HeaderExact
  <2>5. TypeOf(d.octets[0 + 1]) = "Structure"
    BY <1>4, CodecAssumption DEF TypeOf, CodecAssumption
  <2> HIDE DEF h, end
  <2>6. Framing(d.octets, "Structure", 0, h.header, end)
    BY <2>1, <2>2, <2>3, <2>4, <2>5 DEF Framing
  <2>7. Row(T, << >>, h.header, h.header)
    BY <2>1, RowEmpty
  <2>8. /\ Len(calls') = 1 /\ calls'[1].type = "Structure" /\ calls'[1].at = h.header
        /\ calls'[1].end = end /\ lists'[1] = << >>
    BY <1>4 DEF Call, end
  <2>9. Filling(d.octets, T, calls', lists')
    <3>1. Opened(d.octets, T, calls'[1], 0, lists'[1])
      BY <2>1, <2>6, <2>7, <2>8 DEF Opened
    <3> QED
      BY <2>8, <3>1 DEF Filling
  <2>10. Tree(T)'
    BY <1>1, <1>2, <1>4, <2>9 DEF Tree, Buffer
  <2> QED
    BY <2>10 DEF TreeInv
<1> QED
  BY <1>3, <1>4 DEF Parse

LEMMA TreeInvHolds == Spec => [](ParserInv /\ LeakInv /\ TreeInv)
<1>1. Init => TreeInv
  <2> SUFFICES ASSUME Init PROVE TreeInv
    OBVIOUS
  <2>1. Tree({})
    BY DEF Init, Tree, Read, Filling
  <2> QED
    BY <2>1 DEF TreeInv
<1>2. ParserInv /\ LeakInv /\ TreeInv /\ [Next]_vars => TreeInv'
  <2> SUFFICES ASSUME ParserInv, LeakInv, TreeInv, [Next]_vars PROVE TreeInv'
    OBVIOUS
  <2>1. Again \subseteq Datagrams
    BY ParserAssumption DEF ParserAssumption
  <2>2. CASE Release
    <3>1. calls' = << >> /\ phase' = "idle"
      BY <2>2 DEF Release, ParserInv
    <3>2. Tree({})'
      BY <3>1 DEF Tree, Read, Filling
    <3> QED
      BY <3>2 DEF TreeInv
  <2>3. CASE UNCHANGED vars
    BY <2>3 DEF vars, TreeInv, Tree, Buffer
  <2> QED
    BY <2>1, <2>2, <2>3, StepReads, ParseReads DEF Next
<1> QED
  BY <1>1, <1>2, DecoderStaysInside, LeakInvHolds, PTL DEF Spec

-----------------------------------------------------------------------------
(***************************************************************************)
(* The octets say one thing only.                                          *)
(***************************************************************************)
LEMMA CutsGrow ==
  ASSUME NEW n \in Nat, NEW cut \in [0..n -> Nat],
         \A i \in 1..n : cut[i - 1] < cut[i]
  PROVE  \A i, j \in 0..n : i < j => cut[i] < cut[j]
<1> SUFFICES ASSUME NEW i \in 0..n PROVE \A j \in 0..n : i < j => cut[i] < cut[j]
  OBVIOUS
<1> DEFINE Bad == {j \in 0..n : i < j /\ ~(cut[i] < cut[j])}
<1> SUFFICES ASSUME Bad # {} PROVE FALSE
  OBVIOUS
<1>1. Bad \in SUBSET Nat
  OBVIOUS
<1> HIDE DEF Bad
<1>2. PICK j \in Bad : \A k \in Bad : j <= k
  BY <1>1, SmallestExists
<1>3. j \in 0..n /\ i < j /\ ~(cut[i] < cut[j])
  BY <1>2 DEF Bad
<1>4. j \in 1..n /\ j - 1 \in 0..n /\ cut[j - 1] < cut[j]
  BY <1>3
<1>5. j - 1 \notin Bad
  BY <1>2, <1>3
<1>6. i = j - 1 \/ cut[i] < cut[j - 1]
  BY <1>3, <1>4, <1>5 DEF Bad
<1>7. cut[i] \in Nat /\ cut[j - 1] \in Nat /\ cut[j] \in Nat
  BY <1>3, <1>4
<1>8. CASE i = j - 1
  <2>1. cut[i] < cut[j]
    BY <1>4, <1>8
  <2> QED
    BY <1>3, <2>1
<1>9. CASE cut[i] < cut[j - 1]
  <2>1. cut[i] < cut[j]
    BY <1>4, <1>7, <1>9
  <2> QED
    BY <1>3, <2>1
<1> QED
  BY <1>6, <1>8, <1>9

\* Two readings that begin at one place have the same header.
LEMMA FramingUnique ==
  ASSUME NEW buf \in Seq(Octet), NEW at, NEW type, NEW from, NEW end,
         Framing(buf, type, at, from, end),
         NEW u, NEW f, NEW e, Framing(buf, u, at, f, e)
  PROVE  type = u /\ from = f /\ end = e
<1>1. /\ at \in Nat /\ from \in Nat /\ end \in Nat /\ f \in Nat /\ e \in Nat
      /\ at < from /\ from <= end /\ end <= Len(buf)
      /\ at < f /\ f <= e /\ e <= Len(buf)
  BY DEF Framing
<1>2. /\ ReadHeader(buf, at, end) = [ok |-> TRUE, header |-> from - at, length |-> end - from]
      /\ ReadHeader(buf, at, e) = [ok |-> TRUE, header |-> f - at, length |-> e - f]
  BY DEF Framing
<1>3. ReadHeader(buf, at, end) = ReadHeader(buf, at, e)
  <2>1. ReadHeader(buf, at, end).ok /\ ReadHeader(buf, at, e).ok
    BY <1>2
  <2>2. end \in 0..Len(buf) /\ e \in 0..Len(buf)
    BY <1>1
  <2> QED
    BY <1>1, <2>1, <2>2, HeaderUnique
<1>4. from - at = f - at /\ end - from = e - f
  BY <1>2, <1>3
<1>5. type = u
  BY DEF Framing
<1> QED
  BY <1>1, <1>4, <1>5

\* The first n children end at the cuts.
CutAt(T, kids, cut, n) ==
  /\ \A i \in 1..n : Reading(kids[i], cut[i - 1], cut[i]) \in T
  /\ \A i, j \in 0..n : i < j => cut[i] < cut[j]

\* The places where the children of one object end.
LEMMA RowCuts ==
  ASSUME NEW buf \in Seq(Octet), NEW T, Read(buf, T),
         NEW kids, NEW from, NEW end, Row(T, kids, from, end)
  PROVE  \E n \in Nat : n = Len(kids) /\ \E cut \in [0..n -> Nat] :
           cut[0] = from /\ cut[n] = end /\ CutAt(T, kids, cut, n)
<1> DEFINE n == Len(kids)
<1>1. n \in Nat
  BY DEF Row
<1>2. PICK cut \in [0..n -> Nat] :
        /\ cut[0] = from /\ cut[n] = end
        /\ \A i \in 1..n : Reading(kids[i], cut[i - 1], cut[i]) \in T
  BY DEF Row
<1> HIDE DEF n
<1>3. ASSUME NEW i \in 1..n PROVE cut[i - 1] < cut[i]
  <2> DEFINE r == Reading(kids[i], cut[i - 1], cut[i])
  <2>1. r \in T /\ r.at = cut[i - 1] /\ r.end = cut[i]
    BY <1>2 DEF Reading
  <2> HIDE DEF r
  <2>2. PICK f \in Nat : Framing(buf, r.value.type, r.at, f, r.end)
    BY <2>1 DEF Read
  <2> QED
    BY <2>1, <2>2 DEF Framing
<1>4. \A i, j \in 0..n : i < j => cut[i] < cut[j]
  BY <1>1, <1>3, CutsGrow
<1>5. CutAt(T, kids, cut, n)
  BY <1>2, <1>4 DEF CutAt
<1>6. n = Len(kids)
  BY DEF n
<1> QED
  BY <1>1, <1>2, <1>5, <1>6

\* Of two rows of children over the same octets, the second has a child
\* wherever the first has one, read from the same octets.
LEMMA RowsMatch ==
  ASSUME NEW buf \in Seq(Octet), NEW T, NEW U, Read(buf, T), Read(buf, U),
         NEW n \in Nat, NEW m \in Nat, NEW k, NEW l,
         NEW c \in [0..n -> Nat], NEW d \in [0..m -> Nat],
         c[0] = d[0], c[n] = d[m], CutAt(T, k, c, n), CutAt(U, l, d, m)
  PROVE  \A i \in 0..n : i <= m /\ c[i] = d[i]
<1> DEFINE Bad == {i \in 0..n : ~(i <= m /\ c[i] = d[i])}
<1> SUFFICES ASSUME Bad # {} PROVE FALSE
  OBVIOUS
<1>1. Bad \in SUBSET Nat
  OBVIOUS
<1> HIDE DEF Bad
<1>2. PICK i \in Bad : \A j \in Bad : i <= j
  BY <1>1, SmallestExists
<1>3. i \in 0..n /\ ~(i <= m /\ c[i] = d[i])
  BY <1>2 DEF Bad
<1>4. i # 0
  BY <1>3
<1>5. i \in 1..n /\ i - 1 \in 0..n /\ i - 1 < n /\ n \in 0..n
  BY <1>3, <1>4
<1>6. i - 1 <= m /\ c[i - 1] = d[i - 1]
  <2>1. i - 1 \notin Bad
    BY <1>2, <1>3
  <2> QED
    BY <1>5, <2>1 DEF Bad
<1>7. i <= m
  <2>1. c[i - 1] < c[n] /\ c[i - 1] \in Nat /\ c[n] \in Nat
    BY <1>5 DEF CutAt
  <2>2. i - 1 # m
    BY <1>6, <2>1
  <2> QED
    BY <1>5, <1>6, <2>2
<1> DEFINE p == Reading(k[i], c[i - 1], c[i])
           q == Reading(l[i], d[i - 1], d[i])
<1>8. /\ p \in T /\ p.at = c[i - 1] /\ p.end = c[i]
      /\ q \in U /\ q.at = d[i - 1] /\ q.end = d[i]
  BY <1>5, <1>7 DEF Reading, CutAt
<1> HIDE DEF p, q
<1>9. PICK f \in Nat : Framing(buf, p.value.type, p.at, f, p.end)
  BY <1>8 DEF Read
<1>10. PICK g \in Nat : Framing(buf, q.value.type, q.at, g, q.end)
  BY <1>8 DEF Read
<1>11. p.end = q.end
  BY <1>6, <1>8, <1>9, <1>10, FramingUnique
<1> QED
  BY <1>3, <1>7, <1>8, <1>11

\* Children that agree one by one make rows that agree.
LEMMA RowsAgree ==
  ASSUME NEW buf \in Seq(Octet), NEW T, NEW U, Read(buf, T), Read(buf, U),
         NEW k, NEW l, NEW from, NEW end,
         Row(T, k, from, end), Row(U, l, from, end),
         \A p \in T, q \in U : p.at = q.at /\ from <= p.at /\ p.end <= end => p.value = q.value
  PROVE  k = l
<1>1. PICK n \in Nat : n = Len(k) /\ \E c \in [0..n -> Nat] :
        c[0] = from /\ c[n] = end /\ CutAt(T, k, c, n)
  BY RowCuts
<1>2. PICK c \in [0..n -> Nat] : c[0] = from /\ c[n] = end /\ CutAt(T, k, c, n)
  BY <1>1
<1>3. PICK m \in Nat : m = Len(l) /\ \E d \in [0..m -> Nat] :
        d[0] = from /\ d[m] = end /\ CutAt(U, l, d, m)
  <2>1. buf \in Seq(Octet) /\ Read(buf, U) /\ Row(U, l, from, end)
    OBVIOUS
  <2> QED
    BY ONLY <2>1, RowCuts
<1>4. PICK d \in [0..m -> Nat] : d[0] = from /\ d[m] = end /\ CutAt(U, l, d, m)
  BY <1>3
<1>5. (\E S : k \in Seq(S)) /\ (\E R : l \in Seq(R))
  BY DEF Row
<1>6. c[0] = d[0] /\ c[n] = d[m]
  BY <1>2, <1>4
<1>7. \A i \in 0..n : i <= m /\ c[i] = d[i]
  BY <1>2, <1>4, <1>6, RowsMatch
<1>8. \A i \in 0..m : i <= n /\ d[i] = c[i]
  <2>1. d[0] = c[0] /\ d[m] = c[n]
    BY <1>6
  <2>2. CutAt(T, k, c, n) /\ CutAt(U, l, d, m)
    BY <1>2, <1>4
  <2> QED
    BY <2>1, <2>2, RowsMatch
<1>9. n = m
  <2>1. n \in 0..n /\ m \in 0..m
    BY <1>1, <1>3
  <2> QED
    BY <1>7, <1>8, <2>1
<1>10. ASSUME NEW i \in 1..n PROVE k[i] = l[i]
  <2> DEFINE p == Reading(k[i], c[i - 1], c[i])
             q == Reading(l[i], d[i - 1], d[i])
  <2>1. i \in 1..m /\ i - 1 \in 0..n /\ i \in 0..n /\ n \in 0..n /\ 0 \in 0..n
    BY <1>9
  <2>2. c[i - 1] = d[i - 1]
    BY <1>7, <2>1
  <2>3. /\ p \in T /\ p.at = c[i - 1] /\ p.end = c[i] /\ p.value = k[i]
        /\ q \in U /\ q.at = d[i - 1] /\ q.value = l[i]
    BY <1>2, <1>4, <2>1 DEF Reading, CutAt
  <2> HIDE DEF p, q
  <2>4. from <= c[i - 1] /\ c[i] <= end
    <3>1. c[0] \in Nat /\ c[i - 1] \in Nat /\ c[i] \in Nat /\ c[n] \in Nat
      BY <2>1
    <3>2. i - 1 = 0 \/ c[0] < c[i - 1]
      BY <1>2, <2>1 DEF CutAt
    <3>3. i = n \/ c[i] < c[n]
      BY <1>2, <2>1 DEF CutAt
    <3> QED
      BY <1>2, <3>1, <3>2, <3>3
  <2> QED
    BY <2>2, <2>3, <2>4
<1>11. Len(k) = Len(l) /\ \A i \in 1..Len(k) : k[i] = l[i]
  BY <1>1, <1>3, <1>9, <1>10
<1>12. k = [i \in 1..Len(k) |-> k[i]] /\ l = [i \in 1..Len(l) |-> l[i]]
  BY <1>5
<1> QED
  BY <1>11, <1>12

\* Two readings that begin at one place of a buffer are the same, and so the
\* octets determine the tree: there is no second way to understand them.
LEMMA ReadingsAgree ==
  ASSUME NEW buf \in Seq(Octet), NEW T, NEW U, Read(buf, T), Read(buf, U)
  PROVE  \A r \in T, s \in U : r.at = s.at => r.value = s.value /\ r.end = s.end
<1>1. ASSUME NEW r \in T, NEW s \in U, r.at = s.at
      PROVE  \E from \in Nat :
               /\ Framing(buf, r.value.type, r.at, from, r.end)
               /\ r.value.type = s.value.type /\ r.end = s.end
               /\ Whole(buf, T, r.value, from, r.end)
               /\ Whole(buf, U, s.value, from, s.end)
  <2>1. PICK f \in Nat : /\ Framing(buf, r.value.type, r.at, f, r.end)
                         /\ Whole(buf, T, r.value, f, r.end)
    BY DEF Read
  <2>2. PICK g \in Nat : /\ Framing(buf, s.value.type, s.at, g, s.end)
                         /\ Whole(buf, U, s.value, g, s.end)
    BY DEF Read
  <2>3. r.value.type = s.value.type /\ f = g /\ r.end = s.end
    BY <1>1, <2>1, <2>2, FramingUnique
  <2> QED
    BY <2>1, <2>2, <2>3
<1> DEFINE Bad == {n \in Nat : \E r \in T, s \in U :
                     r.at = s.at /\ r.end - r.at = n /\ r.value # s.value}
<1>2. Bad = {}
  <2> SUFFICES ASSUME Bad # {} PROVE FALSE
    OBVIOUS
  <2>1. Bad \in SUBSET Nat
    OBVIOUS
  <2> HIDE DEF Bad
  <2>2. PICK n \in Bad : \A j \in Bad : n <= j
    BY <2>1, SmallestExists
  <2>3. PICK r \in T, s \in U : r.at = s.at /\ r.end - r.at = n /\ r.value # s.value
    BY <2>2 DEF Bad
  <2>4. PICK from \in Nat :
          /\ Framing(buf, r.value.type, r.at, from, r.end)
          /\ r.value.type = s.value.type /\ r.end = s.end
          /\ Whole(buf, T, r.value, from, r.end)
          /\ Whole(buf, U, s.value, from, s.end)
    BY <1>1, <2>3
  <2>5. CASE r.value.type \notin Constructed
    BY <2>3, <2>4, <2>5 DEF Whole
  <2>6. CASE r.value.type \in Constructed
    <3>1. /\ r.value = Object(r.value.type, r.value.kids)
          /\ s.value = Object(s.value.type, s.value.kids)
          /\ Row(T, r.value.kids, from, r.end) /\ Row(U, s.value.kids, from, r.end)
      BY <2>4, <2>6 DEF Whole
    <3>2. ASSUME NEW p \in T, NEW q \in U,
                 p.at = q.at, from <= p.at, p.end <= r.end
          PROVE  p.value = q.value
      <4>1. PICK f \in Nat : Framing(buf, p.value.type, p.at, f, p.end)
        BY <1>1, <3>2
      <4>2. /\ p.at \in Nat /\ p.end \in Nat /\ p.at < p.end
            /\ r.at \in Nat /\ r.end \in Nat /\ r.at < from
        BY <2>4, <4>1 DEF Framing
      <4> DEFINE len == p.end - p.at
      <4>3. len \in Nat /\ len < r.end - r.at
        BY <3>2, <4>2
      <4>4. len \notin Bad
        BY <2>1, <2>2, <2>3, <4>3
      <4> QED
        BY <3>2, <4>3, <4>4 DEF Bad
    <3>3. r.value.kids = s.value.kids
      BY <2>4, <3>1, <3>2, RowsAgree
    <3> QED
      BY <2>3, <2>4, <3>1, <3>3
  <2> QED
    BY <2>5, <2>6
<1>3. ASSUME NEW r \in T, NEW s \in U, r.at = s.at
      PROVE  r.value = s.value
  <2>1. PICK from \in Nat : Framing(buf, r.value.type, r.at, from, r.end)
    BY <1>1, <1>3
  <2>2. r.end - r.at \in Nat
    BY <2>1 DEF Framing
  <2> QED
    BY <1>2, <1>3, <2>2
<1> QED
  BY <1>1, <1>3

-----------------------------------------------------------------------------
(***************************************************************************)
(* What the decoder hands on.                                              *)
(***************************************************************************)
\* The tree that parseFrom() and notify() work on is a reading of the datagram
\* from its first octet, and every reading that begins there has this value.
Understood ==
  phase \in {"decoded", "binding", "accepted"} =>
    /\ \E T : Read(Buffer, T) /\ \E n \in 0..Len(Buffer) : Reading(packet, 0, n) \in T
    /\ \A T : Read(Buffer, T) => \A r \in T : r.at = 0 => r.value = packet

\* What ComplexType::decode() builds is the tree that the octets say, and they
\* say no other: tags, lengths, the order of the children and every value are
\* those of the datagram, whatever it holds, however often the parser is used
\* again and whichever allocations failed before.
THEOREM PacketIsTheReading == Spec => []Understood
<1>1. ParserInv /\ TreeInv => Understood
  <2> SUFFICES ASSUME ParserInv, TreeInv, phase \in {"decoded", "binding", "accepted"}
               PROVE  /\ \E T : Read(Buffer, T)
                           /\ \E n \in 0..Len(Buffer) : Reading(packet, 0, n) \in T
                      /\ \A T : Read(Buffer, T) => \A r \in T : r.at = 0 => r.value = packet
    BY DEF Understood
  <2>1. Buffer \in Seq(Octet)
    BY DEF ParserInv, Buffer
  <2>2. PICK T : Tree(T)
    BY DEF TreeInv
  <2>3. PICK n \in Nat : Read(Buffer, T) /\ Reading(packet, 0, n) \in T
    BY <2>2 DEF Tree
  <2> DEFINE p == Reading(packet, 0, n)
  <2>4. p \in T /\ p.value = packet /\ p.at = 0 /\ p.end = n
    BY <2>3 DEF Reading
  <2> HIDE DEF p
  <2>5. n \in 0..Len(Buffer)
    <3>1. PICK from \in Nat : Framing(Buffer, p.value.type, p.at, from, p.end)
      BY <2>3, <2>4 DEF Read
    <3> QED
      BY <2>1, <2>4, <3>1 DEF Framing
  <2>6. ASSUME NEW U, Read(Buffer, U), NEW r \in U, r.at = 0 PROVE r.value = packet
    BY <2>1, <2>3, <2>4, <2>6, ReadingsAgree
  <2> QED
    BY <2>3, <2>5, <2>6
<1> QED
  BY <1>1, TreeInvHolds, PTL

-----------------------------------------------------------------------------
(***************************************************************************)
(* What parseFrom() accepts, and what it lists.                            *)
(***************************************************************************)
\* A valid reply, whatever its version.
ValidReply(v) ==
  /\ v.type = "Structure" /\ IsReply(v)
  /\ \A i \in 1..Len(Bindings(v)) : ValidBinding(Bindings(v)[i], Version(v) = 1)

\* A message was tagged as one, its shape was checked before its bindings are
\* used, and the bindings listed so far are its first ones.
Listed ==
  /\ phase \notin {"idle", "rejected"} => Buffer[1] = Tag["Structure"]
  /\ phase \in {"binding", "accepted"} =>
       /\ IsReply(packet)
       /\ varBinds.values \in Seq(Nat) /\ Len(varBinds.values) <= Len(Bindings(packet))
       /\ \A i \in 1..Len(varBinds.values) :
            /\ varBinds.values[i] = i
            /\ ValidBinding(Bindings(packet)[i], Version(packet) = 1)
  /\ phase = "accepted" => Len(varBinds.values) = Len(Bindings(packet))

\* The children of an object that was read are a sequence, and were read.
LEMMA KidsRead ==
  ASSUME NEW buf, NEW T, Read(buf, T), NEW r \in T, r.value.type \in Constructed
  PROVE  /\ Len(r.value.kids) \in Nat
         /\ \A i \in 1..Len(r.value.kids) : \E q \in T : q.value = r.value.kids[i]
<1>1. PICK from \in Nat : Row(T, r.value.kids, from, r.end)
  BY DEF Read, Whole
<1>2. PICK cut : \A i \in 1..Len(r.value.kids) :
                   Reading(r.value.kids[i], cut[i - 1], cut[i]) \in T
  BY <1>1 DEF Row
<1>3. Len(r.value.kids) \in Nat
  BY <1>1 DEF Row
<1>4. ASSUME NEW i \in 1..Len(r.value.kids) PROVE \E q \in T : q.value = r.value.kids[i]
  <2> DEFINE q == Reading(r.value.kids[i], cut[i - 1], cut[i])
  <2>1. q \in T /\ q.value = r.value.kids[i]
    BY <1>2 DEF Reading
  <2> QED
    BY <2>1
<1> QED
  BY <1>3, <1>4

\* The bindings of a reply that was read are a sequence.
LEMMA BindingsCounted ==
  ASSUME NEW buf, NEW T, Read(buf, T), NEW r \in T, r.value.type = "Structure",
         IsReply(r.value)
  PROVE  Len(Bindings(r.value)) \in Nat
<1> DEFINE m == r.value
<1>1. "Structure" \in Constructed /\ PDUs \subseteq Constructed
  BY DEF Constructed
<1>2. Len(m.kids) = 3 /\ PDU(m) = m.kids[3] /\ PDU(m).type \in PDUs
  BY DEF IsReply, IsMessage, PDU
<1>3. PICK p \in T : p.value = PDU(m)
  BY <1>1, <1>2, KidsRead
<1> DEFINE kids == PDU(m).kids
<1>4. /\ Len(kids) \in Nat
      /\ \A i \in 1..Len(kids) : \E q \in T : q.value = kids[i]
  <2>1. p.value.type \in Constructed
    BY <1>1, <1>2, <1>3
  <2> QED
    BY <1>3, <2>1, KidsRead
<1>5. Len(kids) = 4 /\ kids[4].type = "Structure"
  <2> DEFINE shape == [i \in 1..Len(kids) |-> kids[i].type]
  <2>1. shape = <<"Integer", "Integer", "Integer", "Structure">>
    BY DEF IsReply, Shape
  <2>2. DOMAIN shape = 1..Len(kids) /\ shape[4] = "Structure"
    BY <2>1
  <2>3. DOMAIN shape = 1..4
    BY <2>1
  <2>4. Len(kids) = 4
    <3>1. 4 \in 1..Len(kids)
      BY <2>2, <2>3
    <3>2. Len(kids) \in 1..Len(kids)
      BY <1>4, <3>1
    <3>3. Len(kids) \in 1..4
      BY <2>2, <2>3, <3>2
    <3> QED
      BY <1>4, <3>1, <3>3
  <2> QED
    BY <2>2, <2>4
<1>6. PICK q \in T : q.value = kids[4]
  BY <1>4, <1>5
<1>7. Len(q.value.kids) \in Nat
  <2>1. q.value.type \in Constructed
    BY <1>1, <1>5, <1>6
  <2> QED
    BY <2>1, KidsRead
<1>8. Bindings(m) = kids[4].kids
  BY <1>5 DEF Bindings
<1> QED
  BY <1>6, <1>7, <1>8

\* The tree that is checked is a message.
LEMMA PacketRead ==
  ASSUME ParserInv, TreeInv, Listed, phase \in {"decoded", "binding", "accepted"}
  PROVE  \E T : Read(Buffer, T) /\ \E r \in T : r.at = 0 /\ r.value = packet
                                              /\ packet.type = "Structure"
<1>1. PICK T : Tree(T)
  BY DEF TreeInv
<1>2. PICK n \in Nat : Read(Buffer, T) /\ Reading(packet, 0, n) \in T
  BY <1>1 DEF Tree
<1> DEFINE p == Reading(packet, 0, n)
<1>3. p \in T /\ p.value = packet /\ p.at = 0
  BY <1>2 DEF Reading
<1> HIDE DEF p
<1>4. PICK from \in Nat : Framing(Buffer, p.value.type, p.at, from, p.end)
  BY <1>2, <1>3 DEF Read
<1>5. packet.type = TypeOf(Buffer[1])
  BY <1>3, <1>4 DEF Framing
<1>6. TypeOf(Buffer[1]) = "Structure"
  BY CodecAssumption DEF TypeOf, CodecAssumption, Listed
<1> QED
  BY <1>2, <1>3, <1>5, <1>6

LEMMA ListedHolds == Spec => []Listed
<1>1. Init => Listed
  BY DEF Init, Listed
<1>2. ParserInv /\ TreeInv /\ Listed /\ [Next]_vars => Listed'
  <2> SUFFICES ASSUME ParserInv, TreeInv, Listed, [Next]_vars PROVE Listed'
    OBVIOUS
  <2>1. ASSUME NEW d, NEW memory \in BOOLEAN, Parse(d, memory) PROVE Listed'
    <3>1. phase' = "rejected" \/ (phase' = "decoding" /\ d.octets[1] = Tag["Structure"])
      BY <2>1 DEF Parse
    <3>2. Buffer' = d.octets
      BY <2>1 DEF Parse, Buffer
    <3> QED
      BY <3>1, <3>2 DEF Listed
  <2>2. CASE Release \/ Malformed \/ Unwind \/ ReturnPacket
    BY <2>2 DEF Release, Malformed, Unwind, ReturnPacket, AfterFailure, Listed, Buffer,
                AtChild, AtEnd
  <2>3. CASE \E object, node \in BOOLEAN : DecodePrimitive(object, node)
    BY <2>3 DEF DecodePrimitive, AddValue, Listed, Buffer, AtChild
  <2>4. CASE \E memory \in BOOLEAN : DecodeStructure(memory) \/ ReturnChild(memory)
    BY <2>4 DEF DecodeStructure, ReturnChild, AddValue, Listed, Buffer, AtChild, AtEnd
  <2>5. ASSUME NEW T, Read(Buffer, T), NEW r \in T, r.value = packet,
               packet.type = "Structure", IsReply(packet)
        PROVE  Len(Bindings(packet)) \in Nat
    BY <2>5, BindingsCounted
  <2>6. ASSUME NEW memory \in BOOLEAN, CheckShape(memory) PROVE Listed'
    <3>1. UNCHANGED <<datagram, packet>> /\ phase = "decoded"
      BY <2>6 DEF CheckShape
    <3>2. CASE IsReply(packet) /\ memory
      <4>1. phase' = "binding" /\ varBinds'.values = << >>
        BY <2>6, <3>2 DEF CheckShape
      <4>2. Len(Bindings(packet)) \in Nat
        BY <2>5, <3>1, <3>2, PacketRead
      <4> QED
        BY <3>1, <3>2, <4>1, <4>2 DEF Listed, Buffer
    <3>3. CASE ~(IsReply(packet) /\ memory)
      BY <2>6, <3>3 DEF CheckShape, Listed
    <3> QED
      BY <3>2, <3>3
  <2>7. ASSUME NEW memory \in 0..2, Bind(memory) PROVE Listed'
    <3>1. UNCHANGED <<datagram, packet>> /\ AtBinding /\ phase = "binding"
      BY <2>7 DEF Bind, AtBinding
    <3>2. CASE memory = 2
      <4> DEFINE i == Len(varBinds.values) + 1
      <4>1. /\ phase' = "binding" /\ varBinds'.values = Append(varBinds.values, i)
            /\ ValidBinding(Bindings(packet)[i], Version(packet) = 1)
        BY <2>7, <3>2 DEF Bind
      <4>2. Len(Bindings(packet)) \in Nat
        BY <2>5, <3>1, PacketRead DEF Listed
      <4>3. i \in Nat /\ i <= Len(Bindings(packet)) /\ varBinds.values \in Seq(Nat)
        BY <3>1, <4>2 DEF AtBinding, Listed
      <4> QED
        BY <3>1, <4>1, <4>2, <4>3 DEF Listed, Buffer
    <3>3. CASE memory # 2
      BY <2>7, <3>3 DEF Bind, Listed
    <3> QED
      BY <3>2, <3>3
  <2>8. CASE RejectBinding
    BY <2>8 DEF RejectBinding, Listed
  <2>9. CASE Accept
    <3>1. /\ UNCHANGED <<datagram, packet, varBinds>> /\ phase = "binding"
          /\ phase' = "accepted" /\ ~AtBinding
      BY <2>9 DEF Accept
    <3>2. Len(Bindings(packet)) \in Nat
      BY <2>5, <3>1, PacketRead DEF Listed
    <3>3. Len(varBinds.values) = Len(Bindings(packet))
      BY <3>1, <3>2 DEF AtBinding, Listed
    <3> QED
      BY <3>1, <3>3 DEF Listed, Buffer
  <2>10. CASE UNCHANGED vars
    BY <2>10 DEF vars, Listed, Buffer
  <2> QED
    BY <2>1, <2>2, <2>3, <2>4, <2>6, <2>7, <2>8, <2>9, <2>10 DEF Next, Step
<1> QED
  BY <1>1, <1>2, TreeInvHolds, PTL DEF Spec

-----------------------------------------------------------------------------
(***************************************************************************)
(* A reply that can be read is not rejected.                               *)
(*                                                                         *)
(* Let T be readings of the datagram whose objects nest at most MaxDepth   *)
(* deep.  While nothing was refused for want of memory, every active call  *)
(* is on its way through the children of one of them.                      *)
(***************************************************************************)
\* H is at least the height of every value that was read: a value without
\* objects inside has height 0.
Shallow(T, H) ==
  /\ \A r \in T : H[r.value] \in Nat
  /\ \A r \in T : r.value.type \in Constructed =>
       \A i \in 1..Len(r.value.kids) :
         r.value.kids[i].type \in Constructed => H[r.value.kids[i]] < H[r.value]

\* The octets are a valid reply.
ReplyRead(buf, T, H) ==
  /\ Read(buf, T) /\ Shallow(T, H)
  /\ \E r \in T : r.at = 0 /\ ValidReply(r.value) /\ H[r.value] < MaxDepth

\* The ith call has decoded the first children of an object of T that begins
\* at "at".
Along(T, H, call, at, i) ==
  \E r \in T :
    /\ r.at = at /\ r.value.type = call.type /\ r.end = call.end /\ H[r.value] + i <= MaxDepth
    /\ \E n \in Nat : n = Len(r.value.kids) /\ \E cut \in [0..n -> Nat] :
         /\ at < cut[0] /\ cut[n] = call.end /\ CutAt(T, r.value.kids, cut, n)
         /\ \E j \in 0..n : call.at = cut[j]

AllAlong(T, H, stack) ==
  \A i \in 1..Len(stack) :
    Along(T, H, stack[i], IF i = 1 THEN 0 ELSE stack[i - 1].at, i)

\* A call on an object that was read starts at its first child.
LEMMA AlongStarts ==
  ASSUME NEW buf \in Seq(Octet), NEW T, Read(buf, T), NEW H, NEW r \in T, NEW i,
         H[r.value] + i <= MaxDepth, NEW from, Framing(buf, r.value.type, r.at, from, r.end),
         r.value.type \in Constructed
  PROVE  Along(T, H, Call(r.value.type, from, r.end), r.at, i)
<1> DEFINE c == Call(r.value.type, from, r.end)
<1>1. c.type = r.value.type /\ c.at = from /\ c.end = r.end
  BY DEF Call
<1> HIDE DEF c
<1>2. PICK f \in Nat : /\ Framing(buf, r.value.type, r.at, f, r.end)
                       /\ Row(T, r.value.kids, f, r.end)
  BY DEF Read, Whole
<1>3. f = from
  BY <1>2, FramingUnique
<1>4. PICK n \in Nat : n = Len(r.value.kids) /\ \E cut \in [0..n -> Nat] :
        cut[0] = from /\ cut[n] = r.end /\ CutAt(T, r.value.kids, cut, n)
  BY <1>2, <1>3, RowCuts
<1>5. PICK cut \in [0..n -> Nat] :
        cut[0] = from /\ cut[n] = r.end /\ CutAt(T, r.value.kids, cut, n)
  BY <1>4
<1>6. r.at < cut[0] /\ 0 \in 0..n /\ c.at = cut[0] /\ cut[n] = c.end
  BY <1>1, <1>5 DEF Framing
<1>7. Along(T, H, c, r.at, i)
  BY <1>1, <1>4, <1>5, <1>6 DEF Along
<1> QED
  BY <1>7 DEF c

\* A call that is not at the end of its object is at a child that was read.
LEMMA NextChild ==
  ASSUME NEW buf \in Seq(Octet), NEW T, Read(buf, T), NEW H, NEW call, NEW at, NEW i,
         Along(T, H, call, at, i), call.at < call.end
  PROVE  \E r, s \in T :
           /\ r.at = at /\ r.value.type = call.type /\ r.end = call.end /\ H[r.value] + i <= MaxDepth
           /\ s.at = call.at /\ r.at < s.at /\ s.end <= call.end
           /\ \E m \in 1..Len(r.value.kids) : s.value = r.value.kids[m]
           /\ s.end \in Nat
           /\ Along(T, H, Call(call.type, s.end, call.end), at, i)
<1>1. PICK r \in T :
        /\ r.at = at /\ r.value.type = call.type /\ r.end = call.end /\ H[r.value] + i <= MaxDepth
        /\ \E n \in Nat : n = Len(r.value.kids) /\ \E cut \in [0..n -> Nat] :
             /\ at < cut[0] /\ cut[n] = call.end /\ CutAt(T, r.value.kids, cut, n)
             /\ \E j \in 0..n : call.at = cut[j]
  BY DEF Along
<1>2. PICK n \in Nat : n = Len(r.value.kids) /\ \E cut \in [0..n -> Nat] :
             /\ at < cut[0] /\ cut[n] = call.end /\ CutAt(T, r.value.kids, cut, n)
             /\ \E j \in 0..n : call.at = cut[j]
  BY <1>1
<1>3. PICK cut \in [0..n -> Nat] :
             /\ at < cut[0] /\ cut[n] = call.end /\ CutAt(T, r.value.kids, cut, n)
             /\ \E j \in 0..n : call.at = cut[j]
  BY <1>2
<1>4. PICK j \in 0..n : call.at = cut[j]
  BY <1>3
<1>5. cut[0] \in Nat /\ cut[j] \in Nat /\ cut[n] \in Nat
  BY <1>4
<1>6. j < n
  <2>1. j # n
    BY <1>3, <1>4, <1>5
  <2> QED
    BY <2>1
<1>7. j + 1 \in 1..n /\ j + 1 \in 0..n /\ (j + 1) - 1 = j /\ n \in 0..n /\ 0 \in 0..n
  BY <1>6
<1> DEFINE s == Reading(r.value.kids[j + 1], cut[j], cut[j + 1])
<1>8. /\ s \in T /\ s.at = cut[j] /\ s.end = cut[j + 1]
      /\ s.value = r.value.kids[j + 1] /\ j + 1 \in 1..Len(r.value.kids)
  BY <1>2, <1>3, <1>7 DEF CutAt, Reading
<1> HIDE DEF s
<1>9. cut[j + 1] \in Nat /\ (j = 0 \/ cut[0] < cut[j]) /\ (j + 1 = n \/ cut[j + 1] < cut[n])
  BY <1>3, <1>7 DEF CutAt
<1>10. at \in Nat
  <2>1. PICK from \in Nat : Framing(buf, r.value.type, r.at, from, r.end)
    BY DEF Read
  <2> QED
    BY <1>1, <2>1 DEF Framing
<1>11. at < s.at
  <2>1. CASE j = 0
    BY <1>3, <1>8, <2>1
  <2>2. CASE cut[0] < cut[j]
    BY <1>3, <1>5, <1>8, <1>10, <2>2
  <2> QED
    BY <1>9, <2>1, <2>2
<1>12. s.end <= call.end
  <2>1. CASE j + 1 = n
    <3>1. s.end = call.end /\ s.end \in Nat
      BY <1>3, <1>5, <1>8, <2>1
    <3> QED
      BY <3>1
  <2>2. CASE cut[j + 1] < cut[n]
    BY <1>3, <1>5, <1>8, <1>9, <2>2
  <2> QED
    BY <1>9, <2>1, <2>2
<1> DEFINE c == Call(call.type, s.end, call.end)
<1>13. c.type = call.type /\ c.at = cut[j + 1] /\ c.end = call.end
  BY <1>8 DEF Call
<1> HIDE DEF c
<1>14. Along(T, H, c, at, i)
  BY <1>1, <1>2, <1>3, <1>7, <1>13 DEF Along
<1> QED
  BY <1>1, <1>4, <1>8, <1>9, <1>11, <1>12, <1>14 DEF c

\* The child at which the last call is has a header that decode() accepts, and
\* a value that its class does.
LEMMA ReadIsDecodable ==
  ASSUME ParserInv, AtChild, NEW T, Read(Buffer, T), NEW s \in T,
         s.at = Top.at, s.end <= Top.end
  PROVE  /\ Decodable /\ ChildType = s.value.type /\ ChildEnd = s.end
         /\ ChildType \notin Constructed => Child # Invalid
         /\ Framing(Buffer, ChildType, Top.at, Top.at + ChildHeader.header, ChildEnd)
<1>1. calls # << >> /\ Top.at < Top.end
  BY DEF AtChild, ParserInv
<1>2. /\ Buffer \in Seq(Octet) /\ Top.at \in Nat /\ Top.end \in Nat
      /\ Top.end <= Len(Buffer) /\ Len(Buffer) \in Nat
  BY <1>1, Known DEF Calls
<1>3. PICK from \in Nat : /\ Framing(Buffer, s.value.type, s.at, from, s.end)
                          /\ Whole(Buffer, T, s.value, from, s.end)
  BY DEF Read
<1> DEFINE h == ReadHeader(Buffer, s.at, s.end)
<1>4. /\ h = [ok |-> TRUE, header |-> from - s.at, length |-> s.end - from]
      /\ s.at \in Nat /\ s.end \in Nat /\ s.at < from /\ from <= s.end
      /\ s.end <= Len(Buffer) /\ TypeOf(Buffer[s.at + 1]) = s.value.type
  BY <1>3 DEF Framing
<1>5. ChildHeader = h
  <2>1. ReadHeader(Buffer, s.at, s.end).ok /\ s.at <= s.end
        /\ s.at + ReadHeader(Buffer, s.at, s.end).header
                + ReadHeader(Buffer, s.at, s.end).length <= Top.end
    BY <1>2, <1>4
  <2>2. s.at \in Nat /\ s.end \in Nat /\ s.end <= Len(Buffer)
    BY <1>4
  <2>3. ReadHeader(Buffer, s.at, Top.end) = ReadHeader(Buffer, s.at, s.end)
    BY <1>2, <2>1, <2>2, HeaderExact
  <2> QED
    BY <2>3 DEF ChildHeader
<1>6. /\ ChildHeader.ok /\ ChildHeader.header = from - s.at
      /\ ChildHeader.length = s.end - from
  BY <1>4, <1>5
<1> HIDE DEF h
<1>7. ChildType = s.value.type /\ ChildEnd = s.end /\ Top.at + ChildHeader.header = from
  BY <1>2, <1>4, <1>6 DEF ChildType, ChildEnd
<1>8. ChildType \in Types \/ ChildType = "Unknown"
  BY DEF ChildType, TypeOf
<1>9. CASE ChildType \in Constructed
  <2>1. ChildType \in Types /\ FixedLength(ChildType, ChildHeader.length)
    BY <1>8, <1>9 DEF Constructed, PDUs, FixedLength, Exceptions
  <2> QED
    BY <1>3, <1>6, <1>7, <1>9, <2>1 DEF Decodable
<1>10. CASE ChildType \notin Constructed
  <2> DEFINE c == SubSeq(Buffer, from + 1, s.end)
  <2>1. Child = FromBuffer(ChildType, c) /\ Child = s.value /\ Child # Invalid
    BY <1>3, <1>7, <1>10 DEF Whole, Child
  <2>2. Len(c) = ChildHeader.length
    BY <1>2, <1>4, <1>6
  <2> HIDE DEF c
  <2>3. ChildType # "Unknown"
    BY <2>1 DEF FromBuffer, Unsigned, Exceptions
  <2>4. FixedLength(ChildType, Len(c))
    BY <2>1 DEF FromBuffer, FixedLength, Unsigned, Exceptions
  <2> QED
    BY <1>3, <1>6, <1>7, <1>8, <1>10, <2>1, <2>2, <2>3, <2>4 DEF Decodable
<1> QED
  BY <1>9, <1>10

\* The stack of calls as it moves on, grows and shrinks.
LEMMA AlongAdvance ==
  ASSUME NEW T, NEW H, NEW stack \in Seq(Calls), stack # << >>, AllAlong(T, H, stack),
         NEW e \in Nat,
         Along(T, H, Call(stack[Len(stack)].type, e, stack[Len(stack)].end),
               IF Len(stack) = 1 THEN 0 ELSE stack[Len(stack) - 1].at, Len(stack))
  PROVE  AllAlong(T, H, [stack EXCEPT ![Len(stack)].at = e])
<1> DEFINE n == Len(stack)
           last == stack[n]
           moved == [stack EXCEPT ![n].at = e]
<1>1. n \in Nat \ {0} /\ last \in Calls
  OBVIOUS
<1>2. /\ Len(moved) = n /\ moved[n] = [last EXCEPT !.at = e]
      /\ \A i \in 1..(n - 1) : moved[i] = stack[i]
  BY <1>1
<1>3. moved[n] = Call(last.type, e, last.end)
  BY <1>1, <1>2 DEF Calls, Call
<1> HIDE DEF moved
<1>4. ASSUME NEW i \in 1..n
      PROVE  Along(T, H, moved[i], IF i = 1 THEN 0 ELSE moved[i - 1].at, i)
  <2>1. (IF i = 1 THEN 0 ELSE moved[i - 1].at) = IF i = 1 THEN 0 ELSE stack[i - 1].at
    <3>1. CASE i = 1
      BY <3>1
    <3>2. CASE i # 1
      <4>1. i - 1 \in 1..(n - 1)
        BY <1>1, <3>2
      <4> QED
        BY <1>2, <3>2, <4>1
    <3> QED
      BY <3>1, <3>2
  <2>2. CASE i = n
    BY <1>3, <2>1, <2>2
  <2>3. CASE i # n
    <3>1. i \in 1..(n - 1)
      BY <1>1, <2>3
    <3> QED
      BY <1>2, <2>1, <3>1 DEF AllAlong
  <2> QED
    BY <2>2, <2>3
<1>5. AllAlong(T, H, moved)
  BY <1>2, <1>4 DEF AllAlong
<1> QED
  BY <1>5 DEF moved

LEMMA AlongPush ==
  ASSUME NEW T, NEW H, NEW stack \in Seq(Calls), stack # << >>, AllAlong(T, H, stack),
         NEW c \in Calls, Along(T, H, c, stack[Len(stack)].at, Len(stack) + 1)
  PROVE  AllAlong(T, H, Append(stack, c))
<1> DEFINE n == Len(stack)
           grown == Append(stack, c)
<1>1. n \in Nat \ {0}
  OBVIOUS
<1>2. /\ Len(grown) = n + 1 /\ grown[n + 1] = c
      /\ \A i \in 1..n : grown[i] = stack[i]
  BY <1>1
<1> HIDE DEF grown
<1>3. ASSUME NEW i \in 1..(n + 1)
      PROVE  Along(T, H, grown[i], IF i = 1 THEN 0 ELSE grown[i - 1].at, i)
  <2>1. (IF i = 1 THEN 0 ELSE grown[i - 1].at) = IF i = 1 THEN 0 ELSE stack[i - 1].at
    <3>1. CASE i = 1
      BY <3>1
    <3>2. CASE i # 1
      <4>1. i - 1 \in 1..n
        BY <1>1, <3>2
      <4> QED
        BY <1>2, <3>2, <4>1
    <3> QED
      BY <3>1, <3>2
  <2>2. CASE i = n + 1
    <3>1. i # 1 /\ i - 1 = n
      BY <1>1, <2>2
    <3> QED
      BY <1>2, <2>1, <2>2, <3>1
  <2>3. CASE i # n + 1
    <3>1. i \in 1..n
      BY <1>1, <2>3
    <3> QED
      BY <1>2, <2>1, <3>1 DEF AllAlong
  <2> QED
    BY <2>2, <2>3
<1>4. AllAlong(T, H, grown)
  BY <1>2, <1>3 DEF AllAlong
<1> QED
  BY <1>4 DEF grown

LEMMA AlongPop ==
  ASSUME NEW T, NEW H, NEW stack \in Seq(Calls), stack # << >>, AllAlong(T, H, stack)
  PROVE  AllAlong(T, H, Popped(stack))
<1> DEFINE n == Len(stack)
<1>1. n \in Nat \ {0}
  OBVIOUS
<1>2. /\ Len(Popped(stack)) = n - 1
      /\ \A i \in 1..(n - 1) : Popped(stack)[i] = stack[i]
  BY PopSeq
<1>3. ASSUME NEW i \in 1..(n - 1)
      PROVE  Along(T, H, Popped(stack)[i], IF i = 1 THEN 0 ELSE Popped(stack)[i - 1].at, i)
  <2>1. i \in 1..n /\ (i # 1 => i - 1 \in 1..(n - 1))
    BY <1>1
  <2>2. Along(T, H, stack[i], IF i = 1 THEN 0 ELSE stack[i - 1].at, i)
    BY <2>1 DEF AllAlong
  <2>3. CASE i = 1
    BY <1>2, <2>2, <2>3
  <2>4. CASE i # 1
    <3>1. Popped(stack)[i - 1] = stack[i - 1]
      BY <1>2, <2>1, <2>4
    <3> QED
      BY <1>2, <2>2, <2>4, <3>1
  <2> QED
    BY <2>3, <2>4
<1> QED
  BY <1>2, <1>3 DEF AllAlong

\* While nothing was refused for want of memory, the decoder does not fail on
\* a valid reply, and the reply is not rejected.
Complete ==
  ~starved =>
    \A T, H : ReplyRead(Buffer, T, H) =>
      /\ phase \notin {"failing", "rejected"}
      /\ phase = "decoding" => AllAlong(T, H, calls)

\* The child that the last call is at, and where its parent began.
LEMMA AtReadChild ==
  ASSUME ParserInv, LeakInv, Complete, ~starved, AtChild,
         NEW T, NEW H, ReplyRead(Buffer, T, H)
  PROVE  /\ Decodable
         /\ ChildType \notin Constructed => Child # Invalid
         /\ AllAlong(T, H, [calls EXCEPT ![Len(calls)].at = ChildEnd])
         /\ ChildType \in Constructed =>
              /\ Depth < MaxDepth
              /\ AllAlong(T, H, Append(calls,
                   Call(ChildType, Top.at + ChildHeader.header, ChildEnd)))
<1>1. /\ phase = "decoding" /\ calls # << >> /\ Top.at < Top.end
      /\ Read(Buffer, T) /\ Shallow(T, H) /\ AllAlong(T, H, calls)
  BY DEF AtChild, ParserInv, Complete, ReplyRead
<1>2. /\ calls \in Seq(Calls) /\ Depth \in Nat \ {0} /\ Depth = Len(calls)
      /\ Top = calls[Len(calls)] /\ Top.type \in Constructed
      /\ Top.at \in Nat /\ Top.end \in Nat /\ Buffer \in Seq(Octet)
  BY <1>1, Stacks, Known
<1> DEFINE at == IF Depth = 1 THEN 0 ELSE calls[Depth - 1].at
<1>3. Along(T, H, Top, at, Depth)
  <2>1. Depth \in 1..Len(calls)
    BY <1>2
  <2> QED
    BY <1>1, <1>2, <2>1 DEF AllAlong
<1> HIDE DEF at
<1>4. PICK r, s \in T :
        /\ r.at = at /\ r.value.type = Top.type /\ r.end = Top.end /\ H[r.value] + Depth <= MaxDepth
        /\ s.at = Top.at /\ r.at < s.at /\ s.end <= Top.end /\ s.end \in Nat
        /\ \E m \in 1..Len(r.value.kids) : s.value = r.value.kids[m]
        /\ Along(T, H, Call(Top.type, s.end, Top.end), at, Depth)
  BY <1>1, <1>2, <1>3, NextChild
<1>5. /\ Decodable /\ ChildType = s.value.type /\ ChildEnd = s.end
      /\ ChildType \notin Constructed => Child # Invalid
      /\ Framing(Buffer, ChildType, Top.at, Top.at + ChildHeader.header, ChildEnd)
  BY <1>1, <1>4, ReadIsDecodable
<1>6. AllAlong(T, H, [calls EXCEPT ![Len(calls)].at = ChildEnd])
  BY <1>1, <1>2, <1>4, <1>5, AlongAdvance DEF at
<1>7. ASSUME ChildType \in Constructed
      PROVE  /\ Depth < MaxDepth
             /\ AllAlong(T, H, Append(calls,
                  Call(ChildType, Top.at + ChildHeader.header, ChildEnd)))
  <2> DEFINE from == Top.at + ChildHeader.header
             c == Call(ChildType, from, ChildEnd)
  <2>1. H[s.value] < H[r.value] /\ H[r.value] \in Nat /\ H[s.value] \in Nat
    <3>1. r.value.type \in Constructed /\ s.value.type \in Constructed
      BY <1>2, <1>4, <1>5, <1>7
    <3> QED
      BY <1>1, <1>4, <3>1 DEF Shallow
  <2>2. Depth < MaxDepth /\ H[s.value] + (Depth + 1) <= MaxDepth
    <3>1. PICK hr \in Nat, hs \in Nat, k \in Nat, m \in Nat :
            hr = H[r.value] /\ hs = H[s.value] /\ k = Depth /\ m = MaxDepth
      BY <1>2, <2>1, DepthNat
    <3>2. hr + k <= m /\ hs < hr
      BY <1>4, <2>1, <3>1
    <3>3. k < m /\ hs + (k + 1) <= m
      BY ONLY <3>2
    <3> QED
      BY <3>1, <3>3
  <2>3. Along(T, H, c, s.at, Depth + 1)
    <3>1. Framing(Buffer, s.value.type, s.at, from, s.end)
      BY <1>4, <1>5
    <3>2. c = Call(s.value.type, from, s.end)
      BY <1>5
    <3> HIDE DEF from, c
    <3> QED
      BY <1>1, <1>2, <1>5, <1>7, <2>2, <3>1, <3>2, AlongStarts
  <2>4. c \in Calls
    <3>1. from \in Nat /\ ChildEnd \in Nat
      BY <1>5 DEF Framing
    <3> QED
      BY <1>7, <3>1 DEF Calls, Call
  <2> HIDE DEF c
  <2>5. AllAlong(T, H, Append(calls, c))
    BY <1>1, <1>2, <1>4, <2>3, <2>4, AlongPush
  <2> QED
    BY <2>2, <2>5 DEF c
<1> QED
  BY <1>5, <1>6, <1>7

\* The call that the last one returns to moves on by the octets it has read.
LEMMA BackAtParent ==
  ASSUME ParserInv, LeakInv, Complete, ~starved, AtEnd, Depth > 1,
         NEW T, NEW H, ReplyRead(Buffer, T, H)
  PROVE  AllAlong(T, H, [Popped(calls) EXCEPT ![Len(Popped(calls))].at = Top.end])
<1>1. /\ phase = "decoding" /\ calls # << >>
      /\ Read(Buffer, T) /\ AllAlong(T, H, calls)
  BY DEF AtEnd, ParserInv, Complete, ReplyRead
<1>2. /\ calls \in Seq(Calls) /\ Depth \in Nat \ {0} /\ Depth = Len(calls)
      /\ Top = calls[Len(calls)] /\ Top.end \in Nat /\ Buffer \in Seq(Octet)
  BY <1>1, Stacks, Known
<1> DEFINE n == Depth - 1
           parent == calls[n]
           below == Popped(calls)
           at == IF n = 1 THEN 0 ELSE calls[n - 1].at
<1>3. n \in 1..(Len(calls) - 1) /\ Depth # 1 /\ n + 1 = Depth /\ n \in Nat \ {0}
  BY <1>2
<1>4. Along(T, H, Top, parent.at, Depth) /\ Along(T, H, parent, at, n)
  <2>1. n \in 1..Len(calls) /\ Depth \in 1..Len(calls)
    BY <1>2, <1>3
  <2> QED
    BY <1>1, <1>2, <1>3, <2>1 DEF AllAlong
<1>5. parent.at < parent.end
  <2>1. /\ calls[n].at < calls[n + 1].at /\ calls[n + 1].end <= calls[n].end
        /\ calls[n + 1].at <= calls[n + 1].end
    BY <1>2, <1>3 DEF ParserInv, Nested
  <2>2. calls[n] \in Calls /\ calls[n + 1] \in Calls
    BY <1>2, <1>3
  <2> QED
    BY <2>1, <2>2 DEF Calls
<1>6. /\ below \in Seq(Calls) /\ Len(below) = n /\ below # << >>
      /\ \A i \in 1..n : below[i] = calls[i]
  <2>1. /\ below \in Seq(Calls) /\ Len(below) = Len(calls) - 1
        /\ \A i \in 1..(Len(calls) - 1) : below[i] = calls[i]
    BY <1>1, <1>2, PopSeq
  <2> QED
    BY <1>2, <1>3, <2>1
<1>7. AllAlong(T, H, below)
  BY <1>1, <1>2, AlongPop
<1>8. /\ below[n].type = parent.type /\ below[n].end = parent.end
      /\ at = IF n = 1 THEN 0 ELSE below[n - 1].at
  <2>1. n \in 1..n /\ (n # 1 => n - 1 \in 1..n)
    BY <1>3
  <2> QED
    BY <1>6, <2>1
<1> HIDE DEF below, parent, at
<1>9. PICK r \in T : r.at = parent.at /\ r.end = Top.end
  BY <1>4 DEF Along
<1>10. PICK s \in T :
         s.at = parent.at /\ Along(T, H, Call(parent.type, s.end, parent.end), at, n)
  BY <1>1, <1>2, <1>4, <1>5, NextChild
<1>11. s.end = Top.end
  BY <1>1, <1>2, <1>9, <1>10, ReadingsAgree
<1>12. Along(T, H, Call(below[n].type, Top.end, below[n].end),
             IF n = 1 THEN 0 ELSE below[n - 1].at, n)
  BY <1>8, <1>10, <1>11
<1> HIDE DEF n
<1>13. AllAlong(T, H, [below EXCEPT ![Len(below)].at = Top.end])
  BY <1>2, <1>6, <1>7, <1>12, AlongAdvance
<1> QED
  BY <1>13 DEF below

LEMMA StepCompletes ==
  ASSUME ParserInv, LeakInv, TreeInv, Listed, Complete, Step
  PROVE  Complete'
<1> SUFFICES ASSUME ~starved', NEW T, NEW H, ReplyRead(Buffer', T, H)
             PROVE  /\ phase' \notin {"failing", "rejected"}
                    /\ phase' = "decoding" => AllAlong(T, H, calls')
  BY DEF Complete
<1>1. UNCHANGED datagram /\ (starved => starved')
  <2>1. CASE Malformed \/ ReturnPacket \/ Unwind \/ RejectBinding \/ Accept
    BY <2>1 DEF Malformed, ReturnPacket, Unwind, RejectBinding, Accept
  <2>2. CASE \E object, node \in BOOLEAN : DecodePrimitive(object, node)
    BY <2>2 DEF DecodePrimitive
  <2>3. CASE \E memory \in BOOLEAN :
               DecodeStructure(memory) \/ ReturnChild(memory) \/ CheckShape(memory)
    BY <2>3 DEF DecodeStructure, ReturnChild, CheckShape
  <2>4. CASE \E memory \in 0..2 : Bind(memory)
    BY <2>4 DEF Bind
  <2> QED
    BY <2>1, <2>2, <2>3, <2>4 DEF Step
<1>2. Buffer' = Buffer /\ ~starved /\ ReplyRead(Buffer, T, H)
  BY <1>1 DEF Buffer
<1>3. phase \notin {"failing", "rejected"} /\ (phase = "decoding" => AllAlong(T, H, calls))
  BY <1>2 DEF Complete
<1>4. ASSUME phase \in {"decoded", "binding", "accepted"}
      PROVE  ValidReply(packet) /\ Len(Bindings(packet)) \in Nat
  <2>1. PICK U : Read(Buffer, U) /\ \E p \in U : p.at = 0 /\ p.value = packet
                                               /\ packet.type = "Structure"
    BY <1>4, PacketRead
  <2>2. PICK p \in U : p.at = 0 /\ p.value = packet /\ packet.type = "Structure"
    BY <2>1
  <2>3. Read(Buffer, T) /\ \E r \in T : r.at = 0 /\ ValidReply(r.value)
    BY <1>2 DEF ReplyRead
  <2>4. PICK r \in T : r.at = 0 /\ ValidReply(r.value)
    BY <2>3
  <2>5. Buffer \in Seq(Octet)
    BY Known
  <2>6. r.value = packet
    BY <2>1, <2>2, <2>3, <2>4, <2>5, ReadingsAgree
  <2>7. ValidReply(packet)
    BY <2>4, <2>6
  <2>8. Len(Bindings(packet)) \in Nat
    BY <2>1, <2>2, <2>7, BindingsCounted DEF ValidReply
  <2> QED
    BY <2>7, <2>8
<1>5. CASE Malformed
  BY <1>2, <1>5, AtReadChild DEF Malformed
<1>6. CASE Unwind
  BY <1>3, <1>6 DEF Unwind
<1>7. ASSUME NEW object \in BOOLEAN, NEW node \in BOOLEAN, DecodePrimitive(object, node)
      PROVE  /\ phase' \notin {"failing", "rejected"}
             /\ phase' = "decoding" => AllAlong(T, H, calls')
  <2>1. /\ Child # Invalid /\ AllAlong(T, H, [calls EXCEPT ![Len(calls)].at = ChildEnd])
    BY <1>2, <1>7, AtReadChild DEF DecodePrimitive
  <2>2. object /\ node
    BY <1>7, <2>1 DEF DecodePrimitive
  <2>3. AddValue(Child, calls, lists, ChildEnd, node) /\ phase = "decoding"
    BY <1>7, <2>1, <2>2 DEF DecodePrimitive, AtChild
  <2> QED
    BY <2>1, <2>2, <2>3 DEF AddValue
<1>8. ASSUME NEW memory \in BOOLEAN, DecodeStructure(memory)
      PROVE  /\ phase' \notin {"failing", "rejected"}
             /\ phase' = "decoding" => AllAlong(T, H, calls')
  <2>1. /\ Depth < MaxDepth /\ phase = "decoding"
        /\ AllAlong(T, H, Append(calls,
             Call(ChildType, Top.at + ChildHeader.header, ChildEnd)))
    BY <1>2, <1>8, AtReadChild DEF DecodeStructure, AtChild
  <2>2. memory
    BY <1>8 DEF DecodeStructure
  <2> QED
    BY <1>8, <2>1, <2>2 DEF DecodeStructure
<1>9. ASSUME NEW memory \in BOOLEAN, ReturnChild(memory)
      PROVE  /\ phase' \notin {"failing", "rejected"}
             /\ phase' = "decoding" => AllAlong(T, H, calls')
  <2>1. /\ AtEnd /\ Depth > 1 /\ memory /\ phase = "decoding"
        /\ AddValue(Filled, Popped(calls), Popped(lists), Top.end, memory)
    BY <1>9 DEF ReturnChild, AtEnd
  <2>2. calls' = [Popped(calls) EXCEPT ![Len(Popped(calls))].at = Top.end] /\ phase' = phase
    BY <2>1 DEF AddValue
  <2>3. AllAlong(T, H, [Popped(calls) EXCEPT ![Len(Popped(calls))].at = Top.end])
    BY <1>2, <2>1, BackAtParent
  <2> QED
    BY <2>1, <2>2, <2>3
<1>10. CASE ReturnPacket \/ Accept
  BY <1>10 DEF ReturnPacket, Accept
<1>11. ASSUME NEW memory \in BOOLEAN, CheckShape(memory)
       PROVE  phase' = "binding"
  <2>1. IsReply(packet)
    BY <1>4, <1>11 DEF CheckShape, ValidReply
  <2> QED
    BY <1>11, <2>1 DEF CheckShape
<1>12. ASSUME NEW memory \in 0..2, Bind(memory)
       PROVE  phase' = "binding"
  <2>1. starved' = (starved \/ memory < 2)
    BY <1>12 DEF Bind
  <2>2. ~(memory < 2)
    BY <2>1
  <2>3. memory = 2
    BY <2>2
  <2> QED
    BY <1>12, <2>3 DEF Bind
<1>13. CASE RejectBinding
  <2> DEFINE i == Len(varBinds.values) + 1
  <2>1. phase = "binding" /\ AtBinding /\ ~ValidBinding(Bindings(packet)[i], Version(packet) = 1)
    BY <1>13 DEF RejectBinding, AtBinding
  <2>2. ValidReply(packet) /\ Len(Bindings(packet)) \in Nat
    BY <1>4, <2>1
  <2>3. i \in 1..Len(Bindings(packet))
    BY <2>1, <2>2 DEF AtBinding, Listed
  <2> QED
    BY <2>1, <2>2, <2>3 DEF ValidReply
<1> QED
  BY <1>5, <1>6, <1>7, <1>8, <1>9, <1>10, <1>11, <1>12, <1>13 DEF Step

LEMMA ParseCompletes ==
  ASSUME ParserInv, NEW d \in Datagrams, NEW memory, Parse(d, memory)
  PROVE  Complete'
<1> SUFFICES ASSUME ~starved', NEW T, NEW H, ReplyRead(Buffer', T, H)
             PROVE  /\ phase' \notin {"failing", "rejected"}
                    /\ phase' = "decoding" => AllAlong(T, H, calls')
  BY DEF Complete
<1>1. Buffer' = d.octets /\ d.octets \in Seq(Octet)
  BY ParserAssumption DEF Parse, Buffer, ParserAssumption
<1>2. PICK buf \in Seq(Octet) : buf = d.octets
  BY <1>1
<1>3. /\ Read(buf, T) /\ Shallow(T, H)
      /\ \E r \in T : r.at = 0 /\ ValidReply(r.value) /\ H[r.value] < MaxDepth
  BY <1>1, <1>2 DEF ReplyRead
<1>4. PICK r \in T : r.at = 0 /\ r.value.type = "Structure" /\ H[r.value] < MaxDepth
  BY <1>3 DEF ValidReply
<1>5. PICK from \in Nat : Framing(buf, r.value.type, r.at, from, r.end)
  BY <1>3 DEF Read
<1> DEFINE h == ReadHeader(buf, 0, Len(buf))
<1>6. /\ ReadHeader(buf, 0, r.end) = [ok |-> TRUE, header |-> from, length |-> r.end - from]
      /\ r.end \in Nat /\ 0 < from /\ from <= r.end /\ r.end <= Len(buf)
      /\ TypeOf(buf[1]) = "Structure"
  BY <1>4, <1>5 DEF Framing
<1>7. h = [ok |-> TRUE, header |-> from, length |-> r.end - from]
  <2>1. /\ ReadHeader(buf, 0, r.end).ok
        /\ 0 + ReadHeader(buf, 0, r.end).header + ReadHeader(buf, 0, r.end).length <= Len(buf)
    BY <1>6
  <2>2. 0 \in Nat /\ Len(buf) \in Nat /\ 0 <= r.end
    BY <1>6
  <2>3. ReadHeader(buf, 0, Len(buf)) = ReadHeader(buf, 0, r.end)
    BY <1>6, <2>1, <2>2, HeaderExact
  <2> QED
    BY <1>6, <2>3
<1>8. buf[1] = Tag["Structure"]
  BY <1>6, CodecAssumption DEF TypeOf, CodecAssumption
<1>9. Len(buf) >= 2
  <2>1. h.ok
    BY <1>7
  <2>2. h.header >= 2 /\ h.length \in Nat /\ 0 + h.header + h.length <= Len(buf)
        /\ h.header \in Nat
    BY <2>1, HeaderFits
  <2> QED
    BY <2>2
<1>10. /\ h.ok /\ h.header = from /\ h.header + h.length = r.end
  BY <1>6, <1>7
<1>11. /\ phase' = "decoding"
       /\ calls' = <<Call("Structure", from, r.end)>>
  <2> HIDE DEF h
  <2>1. ~(Len(d.octets) < 2) /\ d.octets[1] = Tag["Structure"]
    BY <1>2, <1>8, <1>9
  <2>2. memory
    <3>1. ASSUME ~memory PROVE starved'
      BY <3>1 DEF Parse
    <3> QED
      BY <3>1
  <2> QED
    BY <1>2, <1>10, <2>1, <2>2 DEF Parse, h
<1>12. Along(T, H, Call("Structure", from, r.end), 0, 1)
  <2>1. H[r.value] + 1 <= MaxDepth
    BY <1>3, <1>4, DepthNat DEF Shallow
  <2>2. "Structure" \in Constructed
    BY DEF Constructed
  <2>3. Along(T, H, Call(r.value.type, from, r.end), r.at, 1)
    BY <1>3, <1>4, <1>5, <2>1, <2>2, AlongStarts
  <2> QED
    BY <1>4, <2>3
<1>13. AllAlong(T, H, calls')
  BY <1>11, <1>12 DEF AllAlong
<1> QED
  BY <1>11, <1>13

LEMMA CompleteHolds == Spec => []Complete
<1>1. Init => Complete
  BY DEF Init, Complete
<1>2. ParserInv /\ LeakInv /\ TreeInv /\ Listed /\ Complete /\ [Next]_vars => Complete'
  <2> SUFFICES ASSUME ParserInv, LeakInv, TreeInv, Listed, Complete, [Next]_vars
               PROVE  Complete'
    OBVIOUS
  <2>1. Again \subseteq Datagrams
    BY ParserAssumption DEF ParserAssumption
  <2>2. CASE Release
    BY <2>2 DEF Release, Complete
  <2>3. CASE UNCHANGED vars
    BY <2>3 DEF vars, Complete, Buffer
  <2> QED
    BY <2>1, <2>2, <2>3, StepCompletes, ParseCompletes DEF Next
<1> QED
  BY <1>1, <1>2, TreeInvHolds, ListedHolds, PTL DEF Spec

\* The datagrams that parseFrom() accepts and those that it rejects.
AcceptsExactlyReplies ==
  /\ phase = "accepted" =>
       /\ \E T : Read(Buffer, T) /\ \E r \in T : r.at = 0 /\ r.value = packet
       /\ ValidReply(packet)
       /\ varBinds.values = [i \in 1..Len(Bindings(packet)) |-> i]
  /\ phase = "rejected" /\ ~starved => ~\E T, H : ReplyRead(Buffer, T, H)

\* parseFrom() accepts a datagram only if its octets are a valid reply, and
\* lists every binding of it in order; it rejects one only if they are not, or
\* are one nested deeper than decode() goes, or memory ran out.
THEOREM RepliesAreAccepted == Spec => []AcceptsExactlyReplies
<1>1. ParserInv /\ TreeInv /\ Listed /\ Complete => AcceptsExactlyReplies
  <2> SUFFICES ASSUME ParserInv, TreeInv, Listed, Complete
               PROVE  AcceptsExactlyReplies
    OBVIOUS
  <2>1. ASSUME phase = "accepted"
        PROVE  /\ \E T : Read(Buffer, T) /\ \E r \in T : r.at = 0 /\ r.value = packet
               /\ ValidReply(packet)
               /\ varBinds.values = [i \in 1..Len(Bindings(packet)) |-> i]
    <3>1. /\ \E T : Read(Buffer, T) /\ \E r \in T : r.at = 0 /\ r.value = packet
          /\ packet.type = "Structure"
      BY <2>1, PacketRead
    <3>2. ValidReply(packet)
      BY <2>1, <3>1 DEF Listed, ValidReply
    <3>3. varBinds.values = [i \in 1..Len(Bindings(packet)) |-> i]
      BY <2>1 DEF Listed
    <3> QED
      BY <3>1, <3>2, <3>3
  <2>2. phase = "rejected" /\ ~starved => ~\E T, H : ReplyRead(Buffer, T, H)
    BY DEF Complete
  <2> QED
    BY <2>1, <2>2 DEF AcceptsExactlyReplies
<1> QED
  BY <1>1, TreeInvHolds, ListedHolds, CompleteHolds, PTL

-----------------------------------------------------------------------------
(***************************************************************************)
(* What a peer wrote is what is read.                                      *)
(*                                                                         *)
(* A writing is a tree ("from"), the octets that serialise() makes of it   *)
(* and the tree that a reader is to build ("value").  A set W of writings  *)
(* accounts for itself if the octets of each are those of its primitive    *)
(* value, or those of its children one after the other, with a header.     *)
(***************************************************************************)
Serialises(W, w, capacity) ==
  \/ /\ w.from \in PrimitiveValue
     /\ w.value = ReadAs(w.from)
     /\ w.octets = Serialised(w.from, capacity)
  \/ \E parts \in Seq(W) :
       /\ w.from.type \in Constructed
       /\ w.from.kids = [i \in 1..Len(parts) |-> parts[i].from]
       /\ w.value = Object(w.from.type, [i \in 1..Len(parts) |-> parts[i].value])
       /\ w.octets = SerialisedStructure(w.from.type,
                       [i \in 1..Len(parts) |-> parts[i].octets], capacity)

Written(W) ==
  \A w \in W :
    /\ w.from.type \in Types /\ w.octets \in Seq(Octet) /\ w.octets # Failed
    /\ \E capacity \in Nat : Serialises(W, w, capacity)

\* What a reader is to find wherever the octets of a writing occur.
ReadingsOf(W, buf) ==
  UNION {{Reading(w.value, at, at + Len(w.octets)) : at \in {x \in Nat : Occurs(w.octets, buf, x)}}
           : w \in W}

LEMMA FrameAt ==
  ASSUME Half >= 4, NEW type \in Types, NEW contents \in Seq(Octet), NEW capacity \in Nat,
         NEW frame \in Seq(Octet), frame = Framed(type, contents, capacity), frame # Failed,
         NEW buf \in Seq(Octet), NEW at, Occurs(frame, buf, at)
  PROVE  \E from \in Nat :
           /\ Framing(buf, type, at, from, at + Len(frame))
           /\ from + Len(contents) = at + Len(frame)
           /\ Occurs(contents, buf, from)
           /\ SubSeq(buf, from + 1, at + Len(frame)) = contents
<1>1. PICK l \in Nat : l = Len(frame)
  OBVIOUS
<1>2. PICK n \in Nat : n = Len(contents)
  OBVIOUS
<1> DEFINE h == ReadHeader(frame, 0, l)
<1>3. /\ TypeOf(frame[1]) = type /\ h.ok /\ h.length = n
      /\ SubSeq(frame, h.header + 1, l) = contents
  BY <1>1, <1>2, FramesReadBack
<1>4. h.header \in Nat /\ h.header >= 2 /\ 0 + h.header + h.length <= l
  <2>1. 0 <= l /\ l <= Len(frame) /\ 0 \in Nat
    BY <1>1
  <2> QED
    BY <1>3, <2>1, HeaderFits
<1>5. h = [ok |-> TRUE, header |-> h.header, length |-> h.length]
  BY <1>3 DEF ReadHeader
<1> HIDE DEF h
<1>6. PICK k \in Nat : k = h.header /\ k >= 2 /\ k + n <= l
  BY <1>3, <1>4
<1>7. k + n = l /\ \A i \in 1..n : contents[i] = frame[k + i]
  <2>1. \A i \in (k + 1)..l : frame[i] \in Octet
    BY <1>1
  <2>2. /\ Len(SubSeq(frame, k + 1, l)) = IF k + 1 <= l THEN l - (k + 1) + 1 ELSE 0
        /\ \A i \in 1..(l - (k + 1) + 1) : SubSeq(frame, k + 1, l)[i] = frame[(k + 1) + i - 1]
    BY <2>1, SubSeqProperties
  <2>3. n = l - k
    <3>1. SubSeq(frame, k + 1, l) = contents
      BY <1>3, <1>6
    <3>2. n = IF k + 1 <= l THEN l - (k + 1) + 1 ELSE 0
      BY <1>2, <2>2, <3>1
    <3>3. k + n <= l
      BY <1>6
    <3> QED
      BY ONLY <1>1, <1>2, <1>6, <3>2, <3>3
  <2>4. ASSUME NEW i \in 1..n PROVE contents[i] = frame[k + i]
    <3>1. i \in 1..(l - (k + 1) + 1) /\ (k + 1) + i - 1 = k + i
      BY <2>3
    <3> QED
      BY <1>3, <1>6, <2>2, <3>1
  <2> QED
    BY <2>3, <2>4
<1>8. at \in Nat /\ at + l <= Len(buf) /\ \A i \in 1..l : buf[at + i] = frame[i]
  BY <1>1 DEF Occurs
<1>9. PICK from \in Nat : from = at + k /\ from + n = at + l /\ at < from /\ at + 1 \in Nat
  <2>1. at + k \in Nat /\ (at + k) + n = at + l /\ at < at + k
    <3>1. k + n = l
      BY <1>7
    <3>2. at \in Nat
      BY <1>8
    <3>3. k \in Nat /\ n \in Nat /\ l \in Nat /\ k >= 2
      BY <1>1, <1>2, <1>6
    <3> QED
      BY ONLY <3>1, <3>2, <3>3
  <2> QED
    BY <1>8, <2>1
<1>10. \A i \in 1..n : buf[from + i] = contents[i]
  <2> SUFFICES ASSUME NEW i \in 1..n PROVE buf[from + i] = contents[i]
    OBVIOUS
  <2>1. k + i \in 1..l /\ from + i = at + (k + i)
    <3>1. PICK a \in Nat : a = at /\ from = a + k /\ k + n = l
      BY <1>7, <1>8, <1>9
    <3>2. k + i \in 1..l /\ from + i = a + (k + i)
      BY ONLY <3>1, i \in 1..n, n \in Nat, l \in Nat, k \in Nat, a \in Nat
    <3> QED
      BY <3>1, <3>2
  <2> QED
    BY <1>7, <1>8, <2>1
<1>11. Occurs(contents, buf, from)
  BY <1>2, <1>8, <1>9, <1>10 DEF Occurs
<1>12. SubSeq(buf, from + 1, at + l) = contents
  <2> DEFINE sub == SubSeq(buf, from + 1, at + l)
  <2>1. \A i \in (from + 1)..(at + l) : buf[i] \in Octet
    BY <1>8, <1>9
  <2>2. /\ sub \in Seq(Octet)
        /\ Len(sub) = IF from + 1 <= at + l THEN at + l - (from + 1) + 1 ELSE 0
        /\ \A i \in 1..(at + l - (from + 1) + 1) : sub[i] = buf[(from + 1) + i - 1]
    BY <1>8, <2>1, SubSeqProperties
  <2> HIDE DEF sub
  <2>3. Len(sub) = n
    BY <1>8, <1>9, <2>2
  <2>4. \A i \in 1..n : sub[i] = contents[i]
    <3> SUFFICES ASSUME NEW i \in 1..n PROVE sub[i] = contents[i]
      OBVIOUS
    <3>1. i \in 1..(at + l - (from + 1) + 1) /\ (from + 1) + i - 1 = from + i
      BY <1>8, <1>9
    <3> QED
      BY <1>10, <2>2, <3>1
  <2>5. sub = contents
    BY <1>2, <2>2, <2>3, <2>4
  <2> QED
    BY <2>5 DEF sub
<1>13. Framing(buf, type, at, from, at + l)
  <2>1. ReadHeader(buf, at, at + l) = [ok |-> TRUE, header |-> from - at, length |-> (at + l) - from]
    <3>1. ReadHeader(buf, at, at + l) = h
      BY <1>1, <1>3, HeaderShifts DEF h
    <3>2. h.header = from - at /\ h.length = (at + l) - from
      <4>1. PICK a \in Nat : a = at /\ from = a + k /\ from + n = a + l
        BY <1>8, <1>9
      <4>2. k = from - a /\ n = (a + l) - from
        BY ONLY <4>1, n \in Nat, l \in Nat, k \in Nat, a \in Nat, from \in Nat
      <4> QED
        BY <1>3, <1>6, <4>1, <4>2
    <3> QED
      BY <1>5, <3>1, <3>2
  <2>2. TypeOf(buf[at + 1]) = type
    <3>1. 1 \in 1..l
      BY <1>6
    <3> QED
      BY <1>3, <1>8, <3>1
  <2> QED
    BY <1>8, <1>9, <2>1, <2>2 DEF Framing
<1> QED
  BY <1>1, <1>2, <1>9, <1>11, <1>12, <1>13

LEMMA WritingRead ==
  ASSUME NEW W, NEW w \in W, NEW buf, NEW at \in Nat, Occurs(w.octets, buf, at)
  PROVE  Reading(w.value, at, at + Len(w.octets)) \in ReadingsOf(W, buf)
BY DEF ReadingsOf

\* The octets of the children lie between the cuts.
LEMMA PartsRow ==
  ASSUME NEW W, Written(W), NEW parts \in Seq(W), NEW buf \in Seq(Octet), NEW from \in Nat,
         Occurs(Concat([i \in 1..Len(parts) |-> parts[i].octets]), buf, from)
  PROVE  LET contents == Concat([i \in 1..Len(parts) |-> parts[i].octets])
             kids == [i \in 1..Len(parts) |-> parts[i].value]
         IN  /\ contents \in Seq(Octet)
             /\ Row(ReadingsOf(W, buf), kids, from, from + Len(contents))
<1> DEFINE octs == [i \in 1..Len(parts) |-> parts[i].octets]
           kids == [i \in 1..Len(parts) |-> parts[i].value]
           contents == Concat(octs)
           T == ReadingsOf(W, buf)
<1>1. PICK n \in Nat : n = Len(parts)
  OBVIOUS
<1>2. \A i \in 1..n : parts[i] \in W
  BY <1>1
<1>3. Len(octs) = n /\ \A i \in 1..n : octs[i] = parts[i].octets /\ octs[i] \in Seq(Octet)
  BY <1>1, <1>2 DEF Written
<1>4. Len(kids) = n /\ \A i \in 1..n : kids[i] = parts[i].value
  BY <1>1
<1>5. \E S : kids \in Seq(S)
  <2> DEFINE S == {w.value : w \in W}
  <2>1. \A i \in 1..Len(parts) : parts[i].value \in S
    BY <1>1, <1>2
  <2> HIDE DEF S
  <2>2. kids \in Seq(S)
    BY <2>1
  <2> QED
    BY <2>2
<1> HIDE DEF octs, kids
<1>6. contents \in Seq(Octet)
  BY <1>3, ConcatOctets
<1>7. PICK off : Layout(contents, off, octs, n)
  BY <1>3, OctetsAreNumbers, LayoutExists
<1> HIDE DEF contents
<1>8. PICK l \in Nat : l = Len(contents) /\ from + l <= Len(buf)
                       /\ \A i \in 1..l : buf[from + i] = contents[i]
  <2>1. Occurs(contents, buf, from)
    BY DEF contents, octs
  <2>2. Len(contents) \in Nat
    BY <1>6
  <2> QED
    BY <2>1, <2>2 DEF Occurs
<1>9. /\ off \in [0..n -> Nat] /\ off[0] = 0 /\ off[n] = l
      /\ \A i \in 0..n : off[i] <= l
  <2>1. \A i \in 0..n : n \in i..n
    OBVIOUS
  <2> QED
    BY <1>8, <1>7, <2>1 DEF Layout
<1> DEFINE cut == [i \in 0..n |-> from + off[i]]
<1>10. cut \in [0..n -> Nat] /\ cut[0] = from /\ cut[n] = from + l
       /\ \A i \in 0..n : cut[i] = from + off[i]
  BY <1>9
<1> HIDE DEF cut
<1>11. ASSUME NEW i \in 1..n PROVE Reading(kids[i], cut[i - 1], cut[i]) \in T
  <2>1. PICK w \in W : w = parts[i] /\ octs[i] = w.octets /\ kids[i] = w.value
                       /\ w.octets \in Seq(Octet)
    BY <1>2, <1>3, <1>4
  <2>2. PICK d \in Nat : d = Len(w.octets)
    BY <2>1
  <2>3. PICK x \in Nat : x = off[i - 1] /\ cut[i - 1] = from + x
    <3>1. i - 1 \in 0..n
      OBVIOUS
    <3> QED
      BY <1>9, <1>10, <3>1
  <2>4. /\ off[i] = x + d /\ x + d <= l /\ cut[i] = from + (x + d)
        /\ \A t \in 1..d : contents[x + t] = w.octets[t]
    <3>1. i \in 0..n
      OBVIOUS
    <3>2. /\ off[i] = off[i - 1] + Len(octs[i])
          /\ \A t \in 1..Len(octs[i]) : contents[off[i - 1] + t] = octs[i][t]
      BY <1>7 DEF Layout
    <3> QED
      BY <1>9, <1>10, <2>1, <2>2, <2>3, <3>1, <3>2
  <2>5. PICK at \in Nat : at = from + x /\ at + d = from + (x + d) /\ at + d <= Len(buf)
    <3>1. Len(buf) \in Nat /\ x + d <= l /\ from + l <= Len(buf)
      BY <1>8, <2>4
    <3>2. from + x \in Nat /\ (from + x) + d = from + (x + d) /\ (from + x) + d <= Len(buf)
      BY ONLY <3>1, from \in Nat, x \in Nat, d \in Nat, l \in Nat
    <3> QED
      BY <3>2
  <2>6. \A t \in 1..d : buf[at + t] = w.octets[t]
    <3> SUFFICES ASSUME NEW t \in 1..d PROVE buf[at + t] = w.octets[t]
      OBVIOUS
    <3>1. x + d <= l /\ at = from + x
      BY <2>4, <2>5
    <3>2. x + t \in 1..l /\ at + t = from + (x + t)
      BY ONLY <3>1, t \in 1..d, from \in Nat, x \in Nat, d \in Nat, l \in Nat
    <3> QED
      BY <1>8, <2>4, <3>2
  <2>7. Occurs(w.octets, buf, at)
    BY <2>2, <2>5, <2>6 DEF Occurs
  <2>8. Reading(w.value, at, at + Len(w.octets)) \in T
    BY <2>7, WritingRead
  <2> HIDE DEF T
  <2> QED
    BY <2>1, <2>2, <2>3, <2>4, <2>5, <2>8
<1> HIDE DEF T
<1>12. Row(T, kids, from, from + l)
  BY <1>4, <1>5, <1>10, <1>11 DEF Row
<1> QED
  BY <1>6, <1>8, <1>12 DEF T, kids, contents, octs

\* Wherever the octets of a writing occur, they are read as its value.
LEMMA WritingsRead ==
  ASSUME Half >= 4, NEW W, Written(W), NEW buf \in Seq(Octet)
  PROVE  Read(buf, ReadingsOf(W, buf))
<1> DEFINE T == ReadingsOf(W, buf)
<1> SUFFICES ASSUME NEW r \in T
             PROVE  \E from \in Nat : /\ Framing(buf, r.value.type, r.at, from, r.end)
                                      /\ Whole(buf, T, r.value, from, r.end)
  BY DEF Read
<1>1. PICK w \in W, at \in Nat :
        Occurs(w.octets, buf, at) /\ r = Reading(w.value, at, at + Len(w.octets))
  BY DEF ReadingsOf
<1>2. r.value = w.value /\ r.at = at /\ r.end = at + Len(w.octets)
  BY <1>1 DEF Reading
<1> HIDE DEF T
<1>3. PICK capacity \in Nat : Serialises(W, w, capacity)
  BY DEF Written
<1>4. w.from.type \in Types /\ w.octets \in Seq(Octet) /\ w.octets # Failed
  BY DEF Written
<1>5. CASE /\ w.from \in PrimitiveValue /\ w.value = ReadAs(w.from)
           /\ w.octets = Serialised(w.from, capacity)
  <2>1. ~Unserialisable(w.from)
        /\ w.octets = Framed(w.from.type, Contents(w.from), capacity)
    BY <1>4, <1>5 DEF Serialised
  <2>2. /\ Contents(w.from) \in Seq(Octet)
        /\ FromBuffer(w.from.type, Contents(w.from)) = w.value
        /\ w.value # Invalid /\ w.value.type = w.from.type
    BY <1>5, <2>1, ValuesReadBack
  <2>3. w.from.type \notin Constructed
    BY <1>5 DEF PrimitiveValue, Constructed, PDUs, Unsigned, Exceptions
  <2>4. PICK from \in Nat :
          /\ Framing(buf, w.from.type, at, from, at + Len(w.octets))
          /\ SubSeq(buf, from + 1, at + Len(w.octets)) = Contents(w.from)
    <3>1. PICK c \in Seq(Octet) : c = Contents(w.from)
      BY <2>2
    <3>2. w.octets = Framed(w.from.type, c, capacity)
      BY <2>1, <3>1
    <3>3. PICK from \in Nat :
            /\ Framing(buf, w.from.type, at, from, at + Len(w.octets))
            /\ from + Len(c) = at + Len(w.octets)
            /\ Occurs(c, buf, from)
            /\ SubSeq(buf, from + 1, at + Len(w.octets)) = c
      BY <1>1, <1>4, <3>2, FrameAt
    <3> QED
      BY <3>1, <3>3
  <2> QED
    BY <1>2, <2>2, <2>3, <2>4 DEF Whole
<1>6. ASSUME NEW parts \in Seq(W), w.from.type \in Constructed,
             w.value = Object(w.from.type, [i \in 1..Len(parts) |-> parts[i].value]),
             w.octets = SerialisedStructure(w.from.type,
                          [i \in 1..Len(parts) |-> parts[i].octets], capacity)
      PROVE  \E from \in Nat : /\ Framing(buf, r.value.type, r.at, from, r.end)
                               /\ Whole(buf, T, r.value, from, r.end)
  <2> DEFINE contents == Concat([i \in 1..Len(parts) |-> parts[i].octets])
             kids == [i \in 1..Len(parts) |-> parts[i].value]
  <2>1. w.octets = Framed(w.from.type, contents, capacity)
    BY <1>4, <1>6 DEF SerialisedStructure
  <2>2. contents \in Seq(Octet)
    <3>1. \A i \in 1..Len(parts) : parts[i].octets \in Seq(Octet)
      BY DEF Written
    <3> QED
      BY <3>1, ConcatOctets
  <2> HIDE DEF contents
  <2>3. PICK from \in Nat :
          /\ Framing(buf, w.from.type, at, from, at + Len(w.octets))
          /\ from + Len(contents) = at + Len(w.octets)
          /\ Occurs(contents, buf, from)
    BY <1>1, <1>4, <2>1, <2>2, FrameAt
  <2>4. Row(T, kids, from, from + Len(contents))
    BY <2>3, PartsRow DEF contents, T
  <2> HIDE DEF kids
  <2>5. w.value.type = w.from.type /\ w.value.kids = kids
    BY <1>6 DEF Object, kids
  <2>6. w.value = Object(w.value.type, w.value.kids)
    BY <1>6, <2>5 DEF kids
  <2>7. Whole(buf, T, w.value, from, at + Len(w.octets))
    BY <1>6, <2>3, <2>4, <2>5, <2>6 DEF Whole
  <2> QED
    BY <1>2, <2>3, <2>5, <2>7
<1> QED
  BY <1>3, <1>5, <1>6 DEF Serialises

\* A datagram that a peer wrote.
ReadsMessages ==
  \A W : Written(W) => \A w \in W : Buffer = w.octets =>
    /\ phase \in {"decoded", "binding", "accepted"} => packet = w.value
    /\ phase = "accepted" =>
         /\ ValidReply(w.value)
         /\ varBinds.values = [i \in 1..Len(Bindings(w.value)) |-> i]
    /\ phase = "rejected" /\ ~starved =>
         ~(ValidReply(w.value) /\ \E H : Shallow(W, H) /\ H[w.value] < MaxDepth)

\* A message that serialise() wrote is decoded as the tree it was made of, its
\* numbers kept to a word and given back their sign: it is accepted, with all
\* its bindings in order, exactly if that tree is a valid reply, unless it is
\* nested deeper than decode() goes or memory runs out.
THEOREM MessagesAreReadBack ==
  ASSUME Half >= 4
  PROVE  Spec => []ReadsMessages
<1>1. Understood /\ AcceptsExactlyReplies => ReadsMessages
  <2> SUFFICES ASSUME Understood, AcceptsExactlyReplies,
                      NEW W, Written(W), NEW w \in W, Buffer = w.octets
               PROVE  /\ phase \in {"decoded", "binding", "accepted"} => packet = w.value
                      /\ phase = "accepted" =>
                           /\ ValidReply(w.value)
                           /\ varBinds.values = [i \in 1..Len(Bindings(w.value)) |-> i]
                      /\ phase = "rejected" /\ ~starved =>
                           ~(ValidReply(w.value)
                              /\ \E H : Shallow(W, H) /\ H[w.value] < MaxDepth)
    BY DEF ReadsMessages
  <2>1. w.octets \in Seq(Octet)
    BY DEF Written
  <2> DEFINE T == ReadingsOf(W, Buffer)
             r == Reading(w.value, 0, 0 + Len(w.octets))
  <2>2. Read(Buffer, T)
    BY <2>1, WritingsRead
  <2>3. r \in T /\ r.at = 0 /\ r.value = w.value
    <3>1. Occurs(w.octets, Buffer, 0)
      BY <2>1 DEF Occurs
    <3>2. r \in T
      BY <3>1, WritingRead
    <3> QED
      BY <3>2 DEF Reading
  <2>4. \A s \in T : \E u \in W : s.value = u.value
    BY DEF ReadingsOf, Reading
  <2> HIDE DEF T, r
  <2>5. phase \in {"decoded", "binding", "accepted"} => packet = w.value
    BY <2>2, <2>3 DEF Understood
  <2>6. ASSUME NEW H, Shallow(W, H), H[w.value] < MaxDepth, ValidReply(w.value)
        PROVE  ReplyRead(Buffer, T, H)
    <3>1. Shallow(T, H)
      BY <2>4, <2>6 DEF Shallow
    <3> QED
      BY <2>2, <2>3, <2>6, <3>1 DEF ReplyRead
  <2> QED
    BY <2>5, <2>6 DEF AcceptsExactlyReplies
<1> QED
  BY <1>1, PacketIsTheReading, RepliesAreAccepted, PTL

-----------------------------------------------------------------------------
(***************************************************************************)
(* parseFrom() comes to an end.                                            *)
(***************************************************************************)
Stage ==
  CASE phase = "decoding" -> 4 [] phase = "failing" -> 3 [] phase = "decoded" -> 2
    [] phase = "binding" -> 1 [] OTHER -> 0

\* What is left to do in a stage: octets to read and calls to return from,
\* calls to unwind, or bindings to list.
Left ==
  CASE phase = "decoding" -> 2 * (Len(Buffer) - Top.at) + Depth
    [] phase = "failing" -> Depth
    [] phase = "binding" -> Len(Bindings(packet)) - Len(varBinds.values)
    [] OTHER -> 0

\* A step leaves less to do, and unless parseFrom() has returned there is one
\* to take: the decoder is at a child or at the end of an object.
Advances ==
  /\ Left' \in Nat
  /\ Stage' < Stage \/ (Stage' = Stage /\ Left' < Left)

\* The octets that are left, on a stack of at most MaxDepth calls.
LEMMA LeftDecoding ==
  ASSUME NEW octets \in Nat, NEW stack \in Seq(Calls), stack # << >>,
         Nested(stack, octets)
  PROVE  2 * (octets - stack[Len(stack)].at) + Len(stack) \in Nat
<1>1. /\ Len(stack) \in Nat /\ stack[Len(stack)] \in Calls
      /\ stack[Len(stack)].at <= octets
  <2>1. Len(stack) \in 1..Len(stack) /\ stack[Len(stack)] \in Calls
    OBVIOUS
  <2>2. stack[Len(stack)].at <= stack[Len(stack)].end /\ stack[Len(stack)].end <= octets
    BY <2>1 DEF Nested
  <2> QED
    BY <2>1, <2>2 DEF Calls
<1>2. stack[Len(stack)].at \in Nat
  BY <1>1 DEF Calls
<1> QED
  BY <1>1, <1>2

LEMMA MovedOn ==
  ASSUME NEW stack \in Seq(Calls), stack # << >>, NEW e \in Nat
  PROVE  /\ Len([stack EXCEPT ![Len(stack)].at = e]) = Len(stack)
         /\ [stack EXCEPT ![Len(stack)].at = e][Len(stack)].at = e
<1> DEFINE n == Len(stack)
           moved == [stack EXCEPT ![n].at = e]
<1>1. n \in Nat \ {0} /\ stack[n] \in Calls
  OBVIOUS
<1>2. Len(moved) = n /\ moved[n] = [stack[n] EXCEPT !.at = e]
  BY <1>1
<1>3. moved[n].at = e
  BY <1>1, <1>2 DEF Calls
<1> QED
  BY <1>2, <1>3

\* addValueToList() moves the parent on, or fails.
LEMMA AddValueAdvances ==
  ASSUME ParserInv', phase = "decoding", UNCHANGED datagram, Buffer \in Seq(Octet),
         NEW below \in Seq(Calls), below # << >>,
         NEW kids, NEW child, NEW e \in Nat, NEW node, AddValue(child, below, kids, e, node),
         Top.at \in Nat, Depth \in Nat,
         2 * (Len(Buffer) - e) + Len(below) < 2 * (Len(Buffer) - Top.at) + Depth
  PROVE  Advances
<1>1. CASE node
  <2>1. calls' = [below EXCEPT ![Len(below)].at = e] /\ phase' = "decoding"
    BY <1>1 DEF AddValue
  <2>2. Len(calls') = Len(below) /\ calls'[Len(below)].at = e
    <3>1. /\ Len([below EXCEPT ![Len(below)].at = e]) = Len(below)
          /\ [below EXCEPT ![Len(below)].at = e][Len(below)].at = e
      BY MovedOn
    <3> QED
      BY <2>1, <3>1
  <2>3. Left' = 2 * (Len(Buffer) - e) + Len(below)
    BY <2>1, <2>2 DEF Left, Top, Depth, Buffer
  <2>4. Left = 2 * (Len(Buffer) - Top.at) + Depth /\ Stage = 4 /\ Stage' = 4
    BY <2>1 DEF Left, Stage
  <2>5. Left' \in Nat
    <3>1. Nested(calls', Len(Buffer)) /\ Len(Buffer) \in Nat
      BY DEF ParserInv, Buffer
    <3>2. calls' \in Seq(Calls) /\ calls' # << >>
      BY <2>1, <3>1 DEF ParserInv, Nested, Calls
    <3> QED
      BY <2>2, <2>3, <3>1, <3>2, LeftDecoding
  <2> QED
    BY <2>3, <2>4, <2>5 DEF Advances
<1>2. CASE ~node
  <2>1. calls' = below /\ phase' = "failing"
    BY <1>2 DEF AddValue
  <2>2. Left' = Len(below) /\ Stage = 4 /\ Stage' = 3
    BY <2>1 DEF Left, Stage, Depth
  <2> QED
    BY <2>2 DEF Advances
<1> QED
  BY <1>1, <1>2

LEMMA StepAdvances ==
  ASSUME ParserInv, LeakInv, TreeInv, Listed, Step, ParserInv'
  PROVE  Advances
<1>1. ASSUME phase = "decoding"
      PROVE  /\ calls # << >> /\ calls \in Seq(Calls) /\ Depth = Len(calls)
             /\ Depth \in Nat \ {0} /\ Top = calls[Len(calls)] /\ Top.at \in Nat
             /\ Top.end \in Nat /\ Buffer \in Seq(Octet) /\ Len(Buffer) \in Nat
  BY <1>1, Stacks, Known DEF ParserInv
<1>2. ASSUME phase = "decoding", phase' = "failing", UNCHANGED calls
      PROVE  Advances
  <2>1. Left' = Depth /\ Stage' = 3 /\ Stage = 4
    BY <1>2 DEF Left, Stage, Depth
  <2> QED
    BY <1>1, <1>2, <2>1 DEF Advances
<1>3. CASE Malformed
  BY <1>2, <1>3 DEF Malformed, AtChild
<1>4. CASE ReturnPacket
  <2>1. phase = "decoding" /\ phase' = "decoded"
    BY <1>4 DEF ReturnPacket, AtEnd
  <2>2. Stage = 4 /\ Stage' = 2 /\ Left' = 0
    BY <2>1 DEF Stage, Left
  <2> QED
    BY <2>2 DEF Advances
<1>5. CASE Unwind
  <2>1. /\ phase = "failing" /\ calls # << >> /\ calls' = Popped(calls)
        /\ phase' = AfterFailure(Depth - 1)
    BY <1>5 DEF Unwind, ParserInv
  <2>2. /\ Len(calls) \in Nat \ {0} /\ Depth = Len(calls) /\ Len(calls') = Len(calls) - 1
    <3>1. calls \in Seq(Calls)
      BY <2>1, Stacks
    <3> QED
      BY <2>1, <3>1, PopSeq DEF Depth
  <2>3. CASE Depth = 1
    <3>1. phase' = "rejected"
      BY <2>1, <2>2, <2>3 DEF AfterFailure
    <3>2. Stage = 3 /\ Stage' = 0 /\ Left' = 0
      BY <2>1, <3>1 DEF Stage, Left
    <3> QED
      BY <3>2 DEF Advances
  <2>4. CASE Depth # 1
    <3>1. phase' = "failing"
      BY <2>1, <2>2, <2>4 DEF AfterFailure
    <3>2. Stage = 3 /\ Stage' = 3 /\ Left = Len(calls) /\ Left' = Len(calls) - 1
      BY <2>1, <2>2, <3>1 DEF Stage, Left, Depth
    <3> QED
      BY <2>2, <3>2 DEF Advances
  <2> QED
    BY <2>3, <2>4
<1>6. ASSUME AtChild, Decodable
      PROVE  /\ ChildEnd \in Nat /\ Top.at + ChildHeader.header \in Nat
             /\ Top.at + 2 <= Top.at + ChildHeader.header
             /\ Top.at + ChildHeader.header <= ChildEnd
  <2>1. ChildHeader.header \in Nat /\ ChildHeader.header >= 2
    <3>1. /\ phase = "decoding" /\ calls # << >> /\ ReadHeader(Buffer, Top.at, Top.end).ok
      BY <1>6 DEF AtChild, Decodable, ChildHeader, ParserInv
    <3>2. Top.at <= Top.end /\ Top.end <= Len(Buffer)
      BY <3>1, Known
    <3> QED
      BY <1>1, <3>1, <3>2, HeaderFits DEF ChildHeader
  <2>2. Top.at \in Nat
    BY <1>1, <1>6 DEF AtChild
  <2> QED
    BY <1>6, <2>1, <2>2, ChildFits
<1>7. ASSUME NEW object \in BOOLEAN, NEW node \in BOOLEAN, DecodePrimitive(object, node)
      PROVE  Advances
  <2>1. phase = "decoding" /\ AtChild /\ Decodable /\ UNCHANGED datagram
    BY <1>7 DEF DecodePrimitive, AtChild
  <2>2. CASE object /\ Child # Invalid
    <3>1. AddValue(Child, calls, lists, ChildEnd, node)
      BY <1>7, <2>2 DEF DecodePrimitive
    <3>2. 2 * (Len(Buffer) - ChildEnd) + Len(calls) < 2 * (Len(Buffer) - Top.at) + Depth
      BY <1>1, <1>6, <2>1
    <3> QED
      BY <1>1, <1>6, <2>1, <3>1, <3>2, AddValueAdvances
  <2>3. CASE ~(object /\ Child # Invalid)
    BY <1>2, <1>7, <2>1, <2>3 DEF DecodePrimitive
  <2> QED
    BY <2>2, <2>3
<1>8. ASSUME NEW memory \in BOOLEAN, DecodeStructure(memory)
      PROVE  Advances
  <2>1. phase = "decoding" /\ AtChild /\ Decodable /\ UNCHANGED datagram
    BY <1>8 DEF DecodeStructure, AtChild
  <2>2. CASE memory /\ Depth < MaxDepth
    <3> DEFINE from == Top.at + ChildHeader.header
               c == Call(ChildType, from, ChildEnd)
    <3>1. calls' = Append(calls, c) /\ phase' = "decoding" /\ c.at = from
      BY <1>8, <2>1, <2>2 DEF DecodeStructure, Call
    <3>2. from \in Nat /\ Top.at + 2 <= from
      BY <1>6, <2>1
    <3> HIDE DEF from, c
    <3>3. Len(calls') = Depth + 1 /\ calls'[Depth + 1].at = from
      BY <1>1, <2>1, <3>1
    <3>4. Left' = 2 * (Len(Buffer) - from) + (Depth + 1)
      BY <2>1, <3>1, <3>3 DEF Left, Top, Depth, Buffer
    <3>5. Left = 2 * (Len(Buffer) - Top.at) + Depth /\ Stage = 4 /\ Stage' = 4
      BY <2>1, <3>1 DEF Left, Stage
    <3>6. Left' \in Nat
      <4>1. /\ calls' \in Seq(Calls) /\ calls' # << >> /\ Nested(calls', Len(Buffer))
        BY <1>1, <2>1, <3>1 DEF ParserInv, Nested, Calls, Buffer
      <4> QED
        BY <1>1, <2>1, <3>3, <3>4, <4>1, LeftDecoding
    <3>7. Left' < Left
      BY <1>1, <2>1, <3>2, <3>4, <3>5
    <3> QED
      BY <3>5, <3>6, <3>7 DEF Advances
  <2>3. CASE ~(memory /\ Depth < MaxDepth)
    BY <1>2, <1>8, <2>1, <2>3 DEF DecodeStructure
  <2> QED
    BY <2>2, <2>3
<1>9. ASSUME NEW memory \in BOOLEAN, ReturnChild(memory)
      PROVE  Advances
  <2>1. /\ phase = "decoding" /\ Top.at = Top.end /\ Depth > 1 /\ UNCHANGED datagram
        /\ AddValue(Filled, Popped(calls), Popped(lists), Top.end, memory)
    BY <1>9 DEF ReturnChild, AtEnd
  <2>2. /\ Popped(calls) \in Seq(Calls) /\ Len(Popped(calls)) = Depth - 1
    BY <1>1, <2>1, PopSeq
  <2>3. Popped(calls) # << >>
    BY <1>1, <2>1, <2>2
  <2>4. 2 * (Len(Buffer) - Top.end) + Len(Popped(calls)) < 2 * (Len(Buffer) - Top.at) + Depth
    BY <1>1, <2>1, <2>2
  <2> QED
    BY <1>1, <2>1, <2>2, <2>3, <2>4, AddValueAdvances
<1>10. ASSUME IsReply(packet), phase \in {"decoded", "binding"}
       PROVE  Len(Bindings(packet)) \in Nat
  BY <1>10, PacketRead, BindingsCounted
<1>11. ASSUME phase' \in {"accepted", "rejected"}, phase \in {"decoded", "binding"}
       PROVE  Advances
  <2>1. Stage' = 0 /\ Stage > 0 /\ Left' = 0
    BY <1>11 DEF Stage, Left
  <2> QED
    BY <2>1 DEF Advances
<1>12. ASSUME NEW memory \in BOOLEAN, CheckShape(memory)
       PROVE  Advances
  <2>1. CASE IsReply(packet) /\ memory
    <3>1. /\ phase = "decoded" /\ phase' = "binding" /\ UNCHANGED packet
          /\ varBinds'.values = << >>
      BY <1>12, <2>1 DEF CheckShape
    <3>2. Stage = 2 /\ Stage' = 1 /\ Left' = Len(Bindings(packet))
      BY <3>1 DEF Stage, Left
    <3> QED
      BY <1>10, <2>1, <3>1, <3>2 DEF Advances
  <2>2. CASE ~(IsReply(packet) /\ memory)
    BY <1>11, <1>12, <2>2 DEF CheckShape
  <2> QED
    BY <2>1, <2>2
<1>13. ASSUME NEW memory \in 0..2, Bind(memory)
       PROVE  Advances
  <2>1. AtBinding /\ phase = "binding" /\ UNCHANGED packet
    BY <1>13 DEF Bind, AtBinding
  <2>2. CASE memory = 2
    <3> DEFINE i == Len(varBinds.values) + 1
    <3>1. phase' = "binding" /\ varBinds'.values = Append(varBinds.values, i)
      BY <1>13, <2>2 DEF Bind
    <3>2. /\ Len(Bindings(packet)) \in Nat /\ varBinds.values \in Seq(Nat)
          /\ Len(varBinds.values) < Len(Bindings(packet))
      BY <1>10, <2>1 DEF AtBinding, Listed
    <3>3. Len(varBinds'.values) = Len(varBinds.values) + 1
      BY <3>1, <3>2
    <3>4. /\ Left = Len(Bindings(packet)) - Len(varBinds.values)
          /\ Left' = Len(Bindings(packet)) - (Len(varBinds.values) + 1)
          /\ Stage = 1 /\ Stage' = 1
      BY <2>1, <3>1, <3>3 DEF Stage, Left
    <3> HIDE DEF i
    <3> QED
      BY <3>2, <3>4 DEF Advances
  <2>3. CASE memory # 2
    BY <1>11, <1>13, <2>1, <2>3 DEF Bind
  <2> QED
    BY <2>2, <2>3
<1>14. CASE RejectBinding \/ Accept
  BY <1>11, <1>14 DEF RejectBinding, Accept, AtBinding
<1> QED
  BY <1>3, <1>4, <1>5, <1>7, <1>8, <1>9, <1>12, <1>13, <1>14 DEF Step

\* Every step of parseFrom() leaves less to do than there was, whatever the
\* octets are and whichever allocations fail, so that a call takes no more of
\* them than twice the octets of the datagram, its depth and its bindings.
THEOREM EveryStepAdvances == Spec => [][Step => Advances]_vars
<1>1. /\ ParserInv /\ LeakInv /\ TreeInv /\ Listed /\ ParserInv' /\ [Next]_vars
      => [Step => Advances]_vars
  BY StepAdvances
<1> QED
  BY <1>1, TreeInvHolds, ListedHolds, PTL DEF Spec

-----------------------------------------------------------------------------
(***************************************************************************)
(* What was read can be written.                                           *)
(***************************************************************************)
\* serialise() of the value v makes w, in at most n octets, which are read as v.
Writes(W, w, v, n) ==
  /\ w \in W /\ w.from = v /\ w.value = v /\ Len(w.octets) <= n
  /\ \A capacity \in Nat : n <= capacity => Serialises(W, w, capacity)

Rewritable(v, n) == \E W : Written(W) /\ \E w \in W : Writes(W, w, v, n)

LEMMA SerialisesMore ==
  ASSUME NEW W, NEW U, W \subseteq U, NEW w, NEW capacity, Serialises(W, w, capacity)
  PROVE  Serialises(U, w, capacity)
<1>1. \A parts \in Seq(W) : parts \in Seq(U)
  <2> SUFFICES ASSUME NEW parts \in Seq(W) PROVE parts \in Seq(U)
    OBVIOUS
  <2>1. PICK n \in Nat : parts \in [1..n -> W]
    BY SeqDef
  <2>2. parts \in [1..n -> U]
    BY <2>1
  <2> QED
    BY <2>2, SeqDef
<1>2. CASE /\ w.from \in PrimitiveValue
           /\ w.value = ReadAs(w.from)
           /\ w.octets = Serialised(w.from, capacity)
  BY <1>2 DEF Serialises
<1>3. ASSUME NEW parts \in Seq(W),
             /\ w.from.type \in Constructed
             /\ w.from.kids = [i \in 1..Len(parts) |-> parts[i].from]
             /\ w.value = Object(w.from.type, [i \in 1..Len(parts) |-> parts[i].value])
             /\ w.octets = SerialisedStructure(w.from.type,
                             [i \in 1..Len(parts) |-> parts[i].octets], capacity)
      PROVE  Serialises(U, w, capacity)
  <2>1. parts \in Seq(U)
    BY <1>1
  <2> QED
    BY <1>3, <2>1 DEF Serialises
<1> QED
  BY <1>2, <1>3 DEF Serialises

\* A writing with the octets of others that are accounted for.
LEMMA WrittenMore ==
  ASSUME NEW V, Written(V), NEW w, w.from.type \in Types, w.octets \in Seq(Octet),
         w.octets # Failed, NEW capacity \in Nat, Serialises(V \cup {w}, w, capacity)
  PROVE  Written(V \cup {w})
<1> SUFFICES ASSUME NEW u \in V \cup {w}
             PROVE  /\ u.from.type \in Types /\ u.octets \in Seq(Octet) /\ u.octets # Failed
                    /\ \E c \in Nat : Serialises(V \cup {w}, u, c)
  BY DEF Written
<1>1. CASE u \in V
  <2>1. PICK c \in Nat : Serialises(V, u, c)
    BY <1>1 DEF Written
  <2>2. Serialises(V \cup {w}, u, c)
    <3>1. V \subseteq V \cup {w}
      OBVIOUS
    <3> QED
      BY <2>1, <3>1, SerialisesMore
  <2> QED
    BY <1>1, <2>2 DEF Written
<1>2. CASE u = w
  BY <1>2
<1> QED
  BY <1>1, <1>2

LEMMA WrittenUnion ==
  ASSUME NEW P, \A W \in P : Written(W)
  PROVE  Written(UNION P)
<1> SUFFICES ASSUME NEW u \in UNION P
             PROVE  /\ u.from.type \in Types /\ u.octets \in Seq(Octet) /\ u.octets # Failed
                    /\ \E c \in Nat : Serialises(UNION P, u, c)
  BY DEF Written
<1>1. PICK W \in P : u \in W
  OBVIOUS
<1>2. PICK c \in Nat : Serialises(W, u, c)
  BY <1>1 DEF Written
<1>3. Serialises(UNION P, u, c)
  <2>1. W \subseteq UNION P
    OBVIOUS
  <2> QED
    BY <1>2, <2>1, SerialisesMore
<1> QED
  BY <1>1, <1>3 DEF Written

\* The type of what was read has a tag.
LEMMA TagRead ==
  ASSUME NEW buf, NEW T, NEW v, NEW at, NEW from, NEW end,
         Framing(buf, v.type, at, from, end), Whole(buf, T, v, from, end)
  PROVE  v.type \in Types
<1>1. TypeOf(buf[at + 1]) = v.type
  BY DEF Framing
<1>2. TypeOf(buf[at + 1]) \in Types \/ TypeOf(buf[at + 1]) = "Unknown"
  BY DEF TypeOf
<1>3. v.type # "Unknown"
  <2> SUFFICES ASSUME v.type = "Unknown" PROVE FALSE
    OBVIOUS
  <2>1. v.type \notin Constructed
    BY DEF Constructed, PDUs
  <2>2. v = FromBuffer("Unknown", SubSeq(buf, from + 1, end)) /\ v # Invalid
    BY <2>1 DEF Whole
  <2>3. \A c : FromBuffer("Unknown", c) = Invalid
    BY DEF FromBuffer, Unsigned, Exceptions
  <2> QED
    BY <2>2, <2>3
<1> QED
  BY <1>1, <1>2, <1>3

LEMMA PrimitiveRewritten ==
  ASSUME Half >= 4, NEW buf \in Seq(Octet), NEW T, NEW v, NEW at, NEW from, NEW end,
         Framing(buf, v.type, at, from, end), Whole(buf, T, v, from, end),
         v.type \notin Constructed
  PROVE  Rewritable(v, end - at)
<1>1. PICK c : c = SubSeq(buf, from + 1, end)
  OBVIOUS
<1>2. at \in Nat /\ from \in Nat /\ end \in Nat /\ at < from /\ from <= end /\ end <= Len(buf)
  BY DEF Framing
<1>3. PICK h : h = ReadHeader(buf, at, end)
  OBVIOUS
<1>4. h.ok /\ h.header = from - at /\ h.length = end - from
  BY <1>3 DEF Framing
<1>5. c \in Seq(Octet) /\ Len(c) = end - from
  <2>1. \A i \in (from + 1)..end : buf[i] \in Octet
    BY <1>2
  <2>2. /\ c \in Seq(Octet)
        /\ Len(c) = IF from + 1 <= end THEN end - (from + 1) + 1 ELSE 0
    BY <1>1, <1>2, <2>1, SubSeqProperties
  <2> QED
    BY <1>2, <2>2
<1>6. v = FromBuffer(v.type, c) /\ v # Invalid
  BY <1>1 DEF Whole
<1>7. /\ v \in PrimitiveValue /\ ~Unserialisable(v)
      /\ Contents(v) \in Seq(Octet) /\ Len(Contents(v)) <= Len(c) /\ ReadAs(v) = v
  BY <1>5, <1>6, ValuesRewritten
<1>8. v.type \in Types
  BY TagRead
<1>9. PICK d \in Seq(Octet) : d = Contents(v) /\ Len(d) <= h.length
  BY <1>4, <1>5, <1>7
<1>10. PICK n \in Nat : n = end - at /\ n = h.header + h.length
  <2>1. end - at \in Nat /\ end - at = (from - at) + (end - from)
    BY <1>2
  <2> QED
    BY <1>4, <2>1
<1>11. PICK frame : frame = Header(Tag[v.type], Len(d)) \o d
  OBVIOUS
<1>18. FramedIn(n, v.type, d)
  <2>1. at <= end
    BY <1>2
  <2> QED
    BY <1>2, <1>3, <1>4, <1>8, <1>9, <1>10, <2>1, FramedFits
<1>12. ASSUME NEW capacity \in Nat, n <= capacity
       PROVE  /\ Framed(v.type, d, capacity) = frame
              /\ frame \in Seq(Octet) /\ frame # Failed /\ Len(frame) <= n
  BY <1>11, <1>12, <1>18 DEF FramedIn
<1> DEFINE w == [from |-> v, value |-> v, octets |-> frame]
<1>13. ASSUME NEW W, NEW capacity \in Nat, n <= capacity PROVE Serialises(W, w, capacity)
  <2>1. Serialised(v, capacity) = frame
    BY <1>7, <1>9, <1>12, <1>13 DEF Serialised
  <2> QED
    BY <1>7, <2>1 DEF Serialises
<1>14. w.from = v /\ w.value = v /\ w.octets = frame
  OBVIOUS
<1> HIDE DEF w
<1>15. frame \in Seq(Octet) /\ frame # Failed /\ Len(frame) <= n
  <2>1. n <= n
    OBVIOUS
  <2> QED
    BY <1>12, <2>1
<1>16. Written({w})
  <2>1. Serialises({w}, w, n)
    BY <1>13
  <2> QED
    BY <1>8, <1>14, <1>15, <2>1 DEF Written
<1>17. Writes({w}, w, v, n)
  BY <1>13, <1>14, <1>15 DEF Writes
<1> QED
  BY <1>10, <1>16, <1>17 DEF Rewritable

LEMMA FunctionIsSequence ==
  ASSUME NEW S, NEW n \in Nat, NEW f \in [1..n -> S]
  PROVE  f \in Seq(S) /\ Len(f) = n
<1>1. f \in Seq(S)
  BY SeqDef
<1>2. DOMAIN f = 1..n /\ DOMAIN f = 1..Len(f) /\ Len(f) \in Nat
  BY <1>1
<1> QED
  BY <1>1, <1>2

\* A writing of each child, in no more octets than the cuts leave it.
PartsBetween(parts, kids, cut, n) ==
  \A i \in 1..n : /\ parts[i].from = kids[i] /\ parts[i].value = kids[i]
                  /\ Len(parts[i].octets) <= cut[i] - cut[i - 1]

\* The frame around what the children of an object are written in.
LEMMA FilledRewritten ==
  ASSUME Half >= 4, NEW buf \in Seq(Octet), NEW T, NEW v, NEW at, NEW from, NEW end,
         Framing(buf, v.type, at, from, end), v.type \in Constructed,
         v = Object(v.type, v.kids), v.type \in Types,
         NEW n \in Nat, n = Len(v.kids), \E S : v.kids \in Seq(S),
         NEW cut \in [0..n -> Nat], cut[0] = from, cut[n] = end,
         NEW V, Written(V), NEW parts \in [1..n -> V],
         PartsBetween(parts, v.kids, cut, n)
  PROVE  Rewritable(v, end - at)
<1>1. PICK type : type = v.type
  OBVIOUS
<1>2. at \in Nat /\ from \in Nat /\ end \in Nat /\ at < from /\ from <= end /\ end <= Len(buf)
  BY DEF Framing
<1>3. PICK h : h = ReadHeader(buf, at, end)
  OBVIOUS
<1>4. h.ok /\ h.header = from - at /\ h.length = end - from
  BY <1>3 DEF Framing
<1>5. PICK m \in Nat : m = end - at /\ m = h.header + h.length
  <2>1. end - at \in Nat /\ end - at = (from - at) + (end - from)
    BY <1>2
  <2> QED
    BY <1>4, <2>1
<1>6. parts \in Seq(V) /\ Len(parts) = n
  BY FunctionIsSequence
<1>7. PICK octs : octs = [i \in 1..n |-> parts[i].octets]
  OBVIOUS
<1>8. Len(octs) = n /\ \A i \in 1..n : octs[i] = parts[i].octets
  BY <1>7
<1>9. \A i \in 1..n : octs[i] \in Seq(Octet) /\ octs[i] # Failed
  <2> SUFFICES ASSUME NEW i \in 1..n PROVE octs[i] \in Seq(Octet) /\ octs[i] # Failed
    OBVIOUS
  <2>1. parts[i] \in V
    OBVIOUS
  <2> QED
    BY <1>8, <2>1 DEF Written
<1>10. PICK contents \in Seq(Octet) : contents = Concat(octs) /\ Len(contents) <= h.length
  <2>1. Concat(octs) \in Seq(Octet)
    BY <1>8, <1>9, ConcatOctets
  <2>2. \A i \in 1..n : octs[i] \in Seq(Nat)
    BY <1>9, OctetsAreNumbers
  <2>3. \A i \in 1..n : Len(octs[i]) <= cut[i] - cut[i - 1]
    BY <1>8 DEF PartsBetween
  <2>4. Len(Concat(octs)) <= cut[n] - cut[0]
    BY <1>8, <2>2, <2>3, ConcatFits
  <2> QED
    BY <1>4, <2>1, <2>4
<1>11. FramedIn(m, type, contents)
  <2>1. at <= end
    BY <1>2
  <2> QED
    <3>1. type \in Types
      BY <1>1
    <3>2. FramedIn(h.header + h.length, type, contents)
      BY <1>2, <1>3, <1>4, <1>10, <2>1, <3>1, FramedFits
    <3> QED
      BY <1>5, <3>2
<1>12. PICK frame : frame = Header(Tag[type], Len(contents)) \o contents
  OBVIOUS
<1>13. ASSUME NEW capacity \in Nat, m <= capacity
       PROVE  /\ SerialisedStructure(type, octs, capacity) = frame
              /\ frame \in Seq(Octet) /\ frame # Failed /\ Len(frame) <= m
  <2>1. /\ Framed(type, contents, capacity) = frame
        /\ frame \in Seq(Octet) /\ frame # Failed /\ Len(frame) <= m
    BY <1>11, <1>12, <1>13 DEF FramedIn
  <2>2. SerialisedStructure(type, octs, capacity) = Framed(type, contents, capacity)
    BY <1>8, <1>9, <1>10 DEF SerialisedStructure
  <2> QED
    BY <2>1, <2>2
<1>14. PICK w : w.from = v /\ w.value = v /\ w.octets = frame
  <2> DEFINE w == [from |-> v, value |-> v, octets |-> frame]
  <2>1. w.from = v /\ w.value = v /\ w.octets = frame
    OBVIOUS
  <2> QED
    BY <2>1
<1> DEFINE U == V \cup {w}
<1>15. ASSUME NEW capacity \in Nat, m <= capacity PROVE Serialises(U, w, capacity)
  <2>1. parts \in Seq(U)
    <3>1. parts \in [1..n -> U]
      OBVIOUS
    <3> HIDE DEF U
    <3> QED
      BY <3>1, FunctionIsSequence
  <2>2. v.kids = [i \in 1..n |-> parts[i].from] /\ v.kids = [i \in 1..n |-> parts[i].value]
    <3>1. \A i \in 1..n : parts[i].from = v.kids[i] /\ parts[i].value = v.kids[i]
      BY DEF PartsBetween
    <3>2. v.kids = [i \in 1..n |-> v.kids[i]]
      OBVIOUS
    <3> QED
      BY <3>1, <3>2
  <2>3. w.octets = SerialisedStructure(type, octs, capacity)
    BY <1>13, <1>14, <1>15
  <2>4. w.value = Object(type, [i \in 1..n |-> parts[i].value])
    BY <1>1, <1>14, <2>2
  <2>5. /\ w.from.type \in Constructed
        /\ w.from.kids = [i \in 1..Len(parts) |-> parts[i].from]
        /\ w.value = Object(w.from.type, [i \in 1..Len(parts) |-> parts[i].value])
        /\ w.octets = SerialisedStructure(w.from.type,
                        [i \in 1..Len(parts) |-> parts[i].octets], capacity)
    BY <1>1, <1>6, <1>7, <1>14, <2>2, <2>3, <2>4
  <2> HIDE DEF U
  <2> QED
    BY <2>1, <2>5 DEF Serialises
<1>16. frame \in Seq(Octet) /\ frame # Failed /\ Len(frame) <= m
  <2>1. m <= m
    OBVIOUS
  <2> QED
    BY <1>13, <2>1
<1>17. Serialises(U, w, m)
  <2>1. m <= m
    OBVIOUS
  <2> QED
    BY <1>15, <2>1
<1>18. Written(U)
  BY <1>14, <1>16, <1>17, WrittenMore
<1>19. Writes(U, w, v, m)
  <2>1. w \in U
    OBVIOUS
  <2> HIDE DEF U
  <2> QED
    BY <1>14, <1>15, <1>16, <2>1 DEF Writes
<1> QED
  BY <1>5, <1>18, <1>19 DEF Rewritable

\* A writing of each child, all of them in one set.
LEMMA PartsRewritten ==
  ASSUME NEW n \in Nat, NEW kids, NEW cut,
         \A i \in 1..n : Rewritable(kids[i], cut[i] - cut[i - 1])
  PROVE  \E V : Written(V) /\ \E parts \in [1..n -> V] : PartsBetween(parts, kids, cut, n)
<1> DEFINE Of(i, W) == Written(W) /\ \E w \in W : Writes(W, w, kids[i], cut[i] - cut[i - 1])
           set == [i \in 1..n |-> CHOOSE W : Of(i, W)]
           Part(i) == CHOOSE w \in set[i] : Writes(set[i], w, kids[i], cut[i] - cut[i - 1])
           part == [i \in 1..n |-> Part(i)]
           P == {set[i] : i \in 1..n}
<1>1. ASSUME NEW i \in 1..n PROVE Of(i, set[i])
  <2>1. \E W : Of(i, W)
    BY DEF Rewritable
  <2> HIDE DEF Of
  <2> QED
    BY <2>1
<1>2. ASSUME NEW i \in 1..n
      PROVE  part[i] \in set[i] /\ Writes(set[i], part[i], kids[i], cut[i] - cut[i - 1])
  <2>1. \E w \in set[i] : Writes(set[i], w, kids[i], cut[i] - cut[i - 1])
    BY <1>1
  <2> HIDE DEF set
  <2> QED
    BY <2>1
<1>3. Written(UNION P)
  <2>1. \A W \in P : Written(W)
    BY <1>1
  <2> HIDE DEF P
  <2> QED
    BY <2>1, WrittenUnion
<1>4. part \in [1..n -> UNION P]
  <2>1. \A i \in 1..n : Part(i) \in UNION P
    BY <1>2
  <2> HIDE DEF Part, P
  <2> QED
    BY <2>1
<1>5. PartsBetween(part, kids, cut, n)
  BY <1>2 DEF Writes, PartsBetween
<1> HIDE DEF Part, part, P
<1> QED
  BY <1>3, <1>4, <1>5

\* Whatever was read can be written, in no more octets than it was read from.
LEMMA ReadingsRewritten ==
  ASSUME Half >= 4, NEW buf \in Seq(Octet), NEW T, Read(buf, T)
  PROVE  \A r \in T : Rewritable(r.value, r.end - r.at)
<1> DEFINE Bad == {m \in Nat : \E r \in T : m = r.end - r.at /\ ~Rewritable(r.value, m)}
<1>1. Bad = {}
  <2> SUFFICES ASSUME Bad # {} PROVE FALSE
    OBVIOUS
  <2>1. Bad \in SUBSET Nat
    OBVIOUS
  <2> HIDE DEF Bad
  <2>2. PICK m \in Bad : \A k \in Bad : m <= k
    BY <2>1, SmallestExists
  <2>3. PICK r \in T : m \in Nat /\ m = r.end - r.at /\ ~Rewritable(r.value, m)
    BY <2>2 DEF Bad
  <2>4. PICK v, at, end : v = r.value /\ at = r.at /\ end = r.end
    OBVIOUS
  <2>5. PICK from \in Nat : Framing(buf, v.type, at, from, end) /\ Whole(buf, T, v, from, end)
    BY <2>3, <2>4 DEF Read
  <2>6. CASE v.type \notin Constructed
    BY <2>3, <2>4, <2>5, <2>6, PrimitiveRewritten
  <2>7. CASE v.type \in Constructed
    <3>1. v = Object(v.type, v.kids) /\ Row(T, v.kids, from, end)
      BY <2>5, <2>7 DEF Whole
    <3>2. PICK n \in Nat : n = Len(v.kids) /\ \E cut \in [0..n -> Nat] :
            cut[0] = from /\ cut[n] = end /\ CutAt(T, v.kids, cut, n)
      BY <3>1, RowCuts
    <3>3. PICK cut \in [0..n -> Nat] :
            cut[0] = from /\ cut[n] = end /\ CutAt(T, v.kids, cut, n)
      BY <3>2
    <3>4. ASSUME NEW i \in 1..n PROVE Rewritable(v.kids[i], cut[i] - cut[i - 1])
      <4>1. PICK q : q = Reading(v.kids[i], cut[i - 1], cut[i])
        OBVIOUS
      <4>2. q \in T /\ q.value = v.kids[i] /\ q.at = cut[i - 1] /\ q.end = cut[i]
        BY <3>3, <4>1 DEF CutAt, Reading
      <4>3. PICK x \in Nat, y \in Nat : x = cut[i - 1] /\ y = cut[i]
        OBVIOUS
      <4>4. from <= x /\ x < y /\ y <= end
        <5>1. i - 1 \in 0..n /\ i \in 0..n /\ 0 \in 0..n /\ n \in 0..n
          OBVIOUS
        <5>2. \A k, j \in 0..n : k < j => cut[k] < cut[j]
          BY <3>3 DEF CutAt
        <5>3. x < y
          BY <4>3, <5>1, <5>2
        <5>4. from <= x
          <6>1. i - 1 = 0 \/ 0 < i - 1
            OBVIOUS
          <6> QED
            BY <3>3, <4>3, <5>1, <5>2, <6>1
        <5>5. y <= end
          <6>1. i = n \/ i < n
            OBVIOUS
          <6>2. CASE i = n
            BY <3>3, <4>3, <6>2
          <6>3. CASE i < n
            <7>1. cut[i] < cut[n]
              BY <5>1, <5>2, <6>3
            <7>2. end \in Nat
              BY <2>5 DEF Framing
            <7> QED
              BY <3>3, <4>3, <7>1, <7>2
          <6> QED
            BY <6>1, <6>2, <6>3
        <5> QED
          BY <5>3, <5>4, <5>5
      <4>5. y - x \in Nat /\ ~(m <= y - x)
        <5>1. at \in Nat /\ end \in Nat /\ at < from /\ m = end - at
          BY <2>3, <2>4, <2>5 DEF Framing
        <5> QED
          BY <4>3, <4>4, <5>1
      <4>6. y - x \notin Bad
        BY <2>2, <4>5
      <4>7. Rewritable(q.value, y - x)
        BY <4>2, <4>3, <4>5, <4>6 DEF Bad
      <4> QED
        BY <4>2, <4>3, <4>7
    <3>5. PICK V : /\ Written(V)
                   /\ \E parts \in [1..n -> V] : PartsBetween(parts, v.kids, cut, n)
      <4>1. PICK kids : kids = v.kids
        OBVIOUS
      <4>2. \A i \in 1..n : Rewritable(kids[i], cut[i] - cut[i - 1])
        BY <3>4, <4>1
      <4>3. \E V : Written(V) /\ \E parts \in [1..n -> V] : PartsBetween(parts, kids, cut, n)
        BY <4>2, PartsRewritten
      <4> QED
        BY <4>1, <4>3
    <3>6. PICK parts \in [1..n -> V] : PartsBetween(parts, v.kids, cut, n)
      BY <3>5
    <3>7. v.type \in Types
      BY <2>5, TagRead
    <3>8. \E S : v.kids \in Seq(S)
      BY <3>1 DEF Row
    <3>9. Rewritable(v, end - at)
      BY <2>5, <2>7, <3>1, <3>2, <3>3, <3>5, <3>6, <3>7, <3>8, FilledRewritten
    <3> QED
      BY <2>3, <2>4, <3>9
  <2> QED
    BY <2>6, <2>7
<1>2. ASSUME NEW r \in T PROVE r.end - r.at \in Nat
  <2>1. PICK from \in Nat : Framing(buf, r.value.type, r.at, from, r.end)
    BY DEF Read
  <2>2. r.at \in Nat /\ r.end \in Nat /\ r.at < from /\ from <= r.end
    BY <2>1 DEF Framing
  <2> QED
    BY <2>2
<1> QED
  BY <1>1, <1>2

\* A part is no longer than all of them.
LEMMA PartFits ==
  ASSUME NEW n \in Nat, NEW parts, Len(parts) = n, \A i \in 1..n : parts[i] \in Seq(Nat),
         NEW i \in 1..n
  PROVE  Len(parts[i]) <= Len(Concat(parts))
<1>1. PICK c : c = Concat(parts)
  OBVIOUS
<1>2. PICK off : Layout(c, off, parts, n)
  BY <1>1, LayoutExists
<1>3. i - 1 \in 0..n /\ i \in 0..n /\ n \in i..n
  OBVIOUS
<1>4. off \in [0..n -> Nat] /\ off[n] = Len(c) /\ off[i] = off[i - 1] + Len(parts[i])
      /\ off[i] <= off[n]
  BY <1>3, <1>2 DEF Layout
<1>5. off[i - 1] \in Nat /\ off[i] \in Nat /\ Len(parts[i]) \in Nat
  BY <1>3, <1>4
<1> QED
  BY <1>1, <1>4, <1>5

\* A frame does not depend on the capacity it was made for.
LEMMA FramedOnce ==
  ASSUME NEW type \in Types, NEW contents \in Seq(Octet), NEW capacity,
         NEW frame, frame = Framed(type, contents, capacity), frame # Failed
  PROVE  frame = Header(Tag[type], Len(contents)) \o contents
BY DEF Framed

\* The frame around contents is longer than they are.
LEMMA FrameLonger ==
  ASSUME Half >= 4, NEW type \in Types, NEW contents \in Seq(Octet), NEW capacity,
         NEW frame, frame = Framed(type, contents, capacity), frame # Failed
  PROVE  Len(contents) < Len(frame)
<1>1. frame = Header(Tag[type], Len(contents)) \o contents /\ ~(Len(contents) > MaxLength)
  BY DEF Framed
<1>2. PICK n \in Nat, m \in Nat : n = Len(contents) /\ m = MaxLength
  <2>1. MaxLength \in Nat
    <3>1. PICK b \in Nat : b = Base /\ b >= 1
      BY HalfBase
    <3>2. b * b >= 1 /\ b * b \in Nat
      BY <3>1
    <3> QED
      BY <3>1, <3>2 DEF MaxLength
  <2> QED
    BY <2>1
<1>3. PICK top \in Seq(Octet) : top = Header(Tag[type], n) /\ Len(top) >= 2
  <2>1. Tag[type] \in Octet
    BY CodecAssumption DEF CodecAssumption
  <2>2. n <= MaxLength
    BY <1>1, <1>2
  <2> QED
    BY <2>1, <2>2, HeaderOctets
<1>4. Len(top \o contents) = Len(top) + n /\ Len(top) \in Nat
  BY <1>2, <1>3, ConcatProperties
<1> QED
  BY <1>1, <1>2, <1>3, <1>4

\* The n parts are the children of w, and its octets are theirs in a frame.
MadeOf(w, parts, n) ==
  LET contents == Concat([i \in 1..n |-> parts[i].octets])
  IN  /\ w.from.kids = [i \in 1..n |-> parts[i].from]
      /\ w.value = Object(w.from.type, [i \in 1..n |-> parts[i].value])
      /\ w.octets = Header(Tag[w.from.type], Len(contents)) \o contents
      /\ \A i \in 1..n : Len(parts[i].octets) < Len(w.octets)

LEMMA StructureWritten ==
  ASSUME Half >= 4, NEW W, Written(W), NEW w \in W, w.from.type \in Constructed
  PROVE  \E n \in Nat : \E parts \in [1..n -> W] : MadeOf(w, parts, n)
<1>1. PICK capacity \in Nat : Serialises(W, w, capacity)
  BY DEF Written
<1>2. w.from \notin PrimitiveValue
  BY DEF PrimitiveValue, Constructed, PDUs, Unsigned, Exceptions
<1>3. PICK parts \in Seq(W) :
        /\ w.from.kids = [i \in 1..Len(parts) |-> parts[i].from]
        /\ w.value = Object(w.from.type, [i \in 1..Len(parts) |-> parts[i].value])
        /\ w.octets = SerialisedStructure(w.from.type,
                        [i \in 1..Len(parts) |-> parts[i].octets], capacity)
  BY <1>1, <1>2 DEF Serialises
<1>4. PICK n \in Nat : n = Len(parts) /\ parts \in [1..n -> W]
  OBVIOUS
<1>5. PICK octs : octs = [i \in 1..n |-> parts[i].octets]
  OBVIOUS
<1>6. Len(octs) = n /\ \A i \in 1..n : octs[i] = parts[i].octets /\ octs[i] \in Seq(Octet)
  BY <1>4, <1>5 DEF Written
<1>7. PICK contents \in Seq(Octet) : contents = Concat(octs)
  BY <1>6, ConcatOctets
<1>8. PICK type \in Types : type = w.from.type
  BY DEF Written
<1>9. PICK frame \in Seq(Octet) : frame = w.octets /\ frame # Failed
  BY DEF Written
<1>10. frame = Framed(type, contents, capacity)
  BY <1>3, <1>4, <1>5, <1>7, <1>8, <1>9 DEF SerialisedStructure
<1>11. frame = Header(Tag[type], Len(contents)) \o contents
  BY <1>9, <1>10, FramedOnce
<1>12. Len(contents) < Len(frame)
  BY <1>9, <1>10, FrameLonger
<1>13. ASSUME NEW i \in 1..n PROVE Len(parts[i].octets) < Len(w.octets)
  <2>1. \A k \in 1..n : octs[k] \in Seq(Nat)
    BY <1>6, OctetsAreNumbers
  <2>2. Len(octs[i]) <= Len(contents)
    BY <1>6, <1>7, <2>1, PartFits
  <2>3. Len(octs[i]) \in Nat /\ Len(contents) \in Nat /\ Len(frame) \in Nat
    BY <1>6, <1>7, <1>9
  <2>4. Len(octs[i]) < Len(frame)
    BY <1>12, <2>2, <2>3
  <2> QED
    BY <1>6, <1>9, <2>4
<1>14. MadeOf(w, parts, n)
  BY <1>3, <1>4, <1>5, <1>7, <1>8, <1>9, <1>11, <1>13 DEF MadeOf
<1> QED
  BY <1>4, <1>14

LEMMA PrimitiveWritten ==
  ASSUME NEW W, Written(W), NEW w \in W, w.from.type \notin Constructed
  PROVE  /\ w.value = ReadAs(w.from)
         /\ w.octets = Header(Tag[w.from.type], Len(Contents(w.from))) \o Contents(w.from)
<1>1. PICK capacity \in Nat : Serialises(W, w, capacity)
  BY DEF Written
<1>2. /\ w.from \in PrimitiveValue /\ w.value = ReadAs(w.from)
      /\ w.octets = Serialised(w.from, capacity)
  BY <1>1 DEF Serialises
<1>3. w.octets # Failed
  BY DEF Written
<1>4. w.octets = Framed(w.from.type, Contents(w.from), capacity)
  BY <1>2, <1>3 DEF Serialised
<1> QED
  BY <1>2, <1>3, <1>4 DEF Framed

\* serialise() makes one thing of a value: there are no two writings of it.
LEMMA WritingsAgree ==
  ASSUME Half >= 4, NEW W, Written(W), NEW U, Written(U)
  PROVE  \A w \in W : \A u \in U : w.from = u.from => w.octets = u.octets /\ w.value = u.value
<1> DEFINE Same(w, u) == w.octets = u.octets /\ w.value = u.value
           Bad == {m \in Nat : \E w \in W : \E u \in U :
                     w.from = u.from /\ m = Len(w.octets) /\ ~Same(w, u)}
<1>1. Bad = {}
  <2> SUFFICES ASSUME Bad # {} PROVE FALSE
    OBVIOUS
  <2>1. Bad \in SUBSET Nat
    OBVIOUS
  <2> HIDE DEF Bad
  <2>2. PICK m \in Bad : \A k \in Bad : m <= k
    BY <2>1, SmallestExists
  <2>3. PICK w \in W, u \in U : /\ m \in Nat /\ m = Len(w.octets)
                                /\ w.from = u.from /\ ~Same(w, u)
    BY <2>2 DEF Bad
  <2>4. CASE w.from.type \notin Constructed
    BY <2>3, <2>4, PrimitiveWritten
  <2>5. CASE w.from.type \in Constructed
    <3>1. PICK n \in Nat : \E parts \in [1..n -> W] : MadeOf(w, parts, n)
      BY <2>5, StructureWritten
    <3>2. PICK parts \in [1..n -> W] : MadeOf(w, parts, n)
      BY <3>1
    <3>3. PICK k \in Nat : \E others \in [1..k -> U] : MadeOf(u, others, k)
      BY <2>3, <2>5, StructureWritten
    <3>4. PICK others \in [1..k -> U] : MadeOf(u, others, k)
      BY <3>3
    <3>5. n = k /\ \A i \in 1..n : parts[i].from = others[i].from
      <4>1. [i \in 1..n |-> parts[i].from] = [i \in 1..k |-> others[i].from]
        BY <2>3, <3>2, <3>4 DEF MadeOf
      <4>2. 1..n = 1..k
        BY <4>1
      <4>3. n = k
        BY <3>1, <3>3, <4>2
      <4> QED
        BY <4>1, <4>3
    <3>6. ASSUME NEW i \in 1..n PROVE Same(parts[i], others[i])
      <4>1. PICK x \in W, y \in U : x = parts[i] /\ y = others[i]
        BY <3>2, <3>4, <3>5
      <4>2. x.octets \in Seq(Octet) /\ Len(x.octets) < m
        BY <2>3, <3>2, <4>1 DEF MadeOf, Written
      <4>3. Len(x.octets) \in Nat
        BY <4>2
      <4>4. ~(m <= Len(x.octets))
        BY <2>3, <4>2, <4>3
      <4>5. Len(x.octets) \notin Bad
        BY <2>2, <4>4
      <4>6. Same(x, y)
        BY <3>5, <4>1, <4>3, <4>5 DEF Bad
      <4> QED
        BY <4>1, <4>6
    <3>7. /\ [i \in 1..n |-> parts[i].octets] = [i \in 1..k |-> others[i].octets]
          /\ [i \in 1..n |-> parts[i].value] = [i \in 1..k |-> others[i].value]
      BY <3>5, <3>6
    <3>8. Same(w, u)
      BY <2>3, <3>2, <3>4, <3>7 DEF MadeOf
    <3> QED
      BY <2>3, <3>8
  <2> QED
    BY <2>4, <2>5
<1>2. ASSUME NEW w \in W PROVE Len(w.octets) \in Nat
  <2>1. w.octets \in Seq(Octet)
    BY DEF Written
  <2> QED
    BY <2>1
<1> QED
  BY <1>1, <1>2

\* A decoded packet has an encoding, which needs no more octets than the
\* datagram had and is read as the packet again; and it has no other.
RewritesThePacket ==
  phase \in {"decoded", "binding", "accepted"} =>
    /\ \E W : Written(W) /\ \E w \in W : Writes(W, w, packet, Len(Buffer))
    /\ \A W : Written(W) => \A w \in W :
         w.from = packet => w.value = packet /\ Len(w.octets) <= Len(Buffer)

\* Whatever tree ComplexType::decode() built, ComplexType::serialise() writes
\* it again, into a buffer of the length it came in, and its octets are read as
\* the same tree.  notify() relies on it: it answers an INFORM, with another
\* tag on the PDU, in the buffer that received it, when the application has
\* already accepted the event.
THEOREM PacketsAreRewritten ==
  ASSUME Half >= 4
  PROVE  Spec => []RewritesThePacket
<1>1. ParserInv /\ TreeInv => RewritesThePacket
  <2> SUFFICES ASSUME ParserInv, TreeInv, phase \in {"decoded", "binding", "accepted"}
               PROVE  /\ \E W : Written(W) /\ \E w \in W : Writes(W, w, packet, Len(Buffer))
                      /\ \A W : Written(W) => \A w \in W :
                           w.from = packet => w.value = packet /\ Len(w.octets) <= Len(Buffer)
    BY DEF RewritesThePacket
  <2>1. Buffer \in Seq(Octet)
    BY DEF ParserInv, Buffer
  <2>2. PICK T : Tree(T)
    BY DEF TreeInv
  <2>3. PICK n \in Nat : Read(Buffer, T) /\ Reading(packet, 0, n) \in T
    BY <2>2 DEF Tree
  <2>4. PICK p \in T : p.value = packet /\ p.at = 0 /\ p.end = n
    BY <2>3 DEF Reading
  <2>5. n <= Len(Buffer)
    <3>1. PICK from \in Nat : Framing(Buffer, p.value.type, p.at, from, p.end)
      BY <2>3 DEF Read
    <3> QED
      BY <2>4, <3>1 DEF Framing
  <2>6. Rewritable(packet, n)
    <3>1. Rewritable(p.value, p.end - p.at)
      BY <2>1, <2>3, ReadingsRewritten
    <3>2. n - 0 = n
      BY <2>3
    <3> QED
      BY <2>4, <3>1, <3>2
  <2>7. PICK W : Written(W) /\ \E w \in W : Writes(W, w, packet, n)
    BY <2>6 DEF Rewritable
  <2>8. PICK w \in W : Writes(W, w, packet, n)
    BY <2>7
  <2>9. PICK m \in Nat : m = Len(Buffer) /\ n <= m
    BY <2>1, <2>5
  <2>10. Writes(W, w, packet, m)
    <3>1. PICK l \in Nat : l = Len(w.octets) /\ l <= n
      BY <2>7, <2>8 DEF Writes, Written
    <3>2. l <= m /\ \A capacity \in Nat : m <= capacity => n <= capacity
      BY <2>3, <2>9, <3>1
    <3> QED
      BY <2>8, <3>1, <3>2 DEF Writes
  <2>11. ASSUME NEW U, Written(U), NEW u \in U, u.from = packet
         PROVE  u.value = packet /\ Len(u.octets) <= Len(Buffer)
    <3>1. w.from = packet /\ w.value = packet /\ Len(w.octets) <= m
      BY <2>10 DEF Writes
    <3>2. w.octets = u.octets /\ w.value = u.value
      BY <2>7, <2>8, <2>11, <3>1, WritingsAgree
    <3> QED
      BY <2>9, <3>1, <3>2
  <2> QED
    BY <2>7, <2>9, <2>10, <2>11
<1> QED
  BY <1>1, TreeInvHolds, PTL
=============================================================================
