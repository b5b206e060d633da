-------------------------------- MODULE BER --------------------------------
(***************************************************************************)
(* The codec of src/src/BER.cpp: the framing of a value by its tag and     *)
(* length, and what every class puts in its contents and accepts from      *)
(* them.                                                                   *)
(*                                                                         *)
(* Octets are 0..Base - 1 and the source has Base = 256: half of it is the *)
(* bit that marks a long length, a sign and a sub-identifier that goes on. *)
(* A value is a record of its type and a field that depends on the type.   *)
(* Only what the code tells apart is kept of a text: an OID is the         *)
(* sequence of its arcs.                                                   *)
(***************************************************************************)
EXTENDS Integers, Sequences

CONSTANTS
  Base,           \* 256
  WordOctets,     \* 4: octets of an Integer32 or Counter32
  LongOctets,     \* octets of an unsigned long
  Counter64Octets,\* 8
  AddressOctets,  \* 4
  MaxOctets,      \* SNMP_OCTETSTRING_MAX_LENGTH
  MaxOID,         \* MAX_OID_LENGTH
  ArcOctets,      \* 5: the octets of the longest sub-identifier
  RootSpan,       \* 40: arcs below the roots 0 and 1
  MaxArc,         \* UINT32_MAX
  MaxArcs,        \* 128
  Types,          \* the types with a tag
  Tag             \* the octet of each

Octet == 0..(Base - 1)
Half == Base \div 2
MaxLength == Base * Base - 1

Unsigned == {"Counter32", "Gauge32", "Timestamp"}
Exceptions == {"NoSuchObject", "NoSuchInstance", "EndOfMibView"}
PDUs == {"GetRequest", "GetNextRequest", "GetResponse", "SetRequest",
         "GetBulkRequest", "Trap", "InformRequest", "Trapv2"}
Constructed == {"Structure"} \cup PDUs

ASSUME CodecAssumption ==
  /\ Base \in Nat /\ Base >= 4 /\ Base % 2 = 0
  /\ {WordOctets, LongOctets, Counter64Octets, AddressOctets, ArcOctets,
      MaxOctets, MaxOID, RootSpan, MaxArc, MaxArcs} \subseteq Nat \ {0}
  /\ WordOctets <= LongOctets
  /\ "Structure" \in Types /\ Tag \in [Types -> Octet]
  /\ \A x, y \in Types : Tag[x] = Tag[y] => x = y

TypeOf(octet) ==
  IF \E y \in Types : Tag[y] = octet THEN CHOOSE y \in Types : Tag[y] = octet
                                     ELSE "Unknown"

\* No encoding is empty and no value has this type: what a failure returns.
Failed == << >>
Invalid == [type |-> "Invalid"]

LeastOf(S) == CHOOSE n \in S : \A m \in S : n <= m

\* b to the k.
Power(b, k) ==
  LET upto[i \in 0..k] == IF i = 0 THEN 1 ELSE upto[i - 1] * b
  IN  upto[k]

\* The longest sub-identifier, of the largest arcs, has ArcOctets octets, and
\* the roots and what they leave of a sub-identifier are arcs.
ASSUME ArcAssumption ==
  /\ MaxArc + 2 * RootSpan < Power(Half, ArcOctets)
  /\ 2 <= MaxArc /\ RootSpan <= MaxArc + 1

\* The number written in base b by ds, the first digit first.
Number(ds, b) ==
  LET upto[i \in 0..Len(ds)] == IF i = 0 THEN 0 ELSE upto[i - 1] * b + ds[i]
  IN  upto[Len(ds)]

\* The last k digits of n in base b.
Digits(n, k, b) == [i \in 1..k |-> (n \div Power(b, k - i)) % b]

\* Digits of n in base b without leading zeros, one at least.
ShortDigits(n, b) ==
  LET digits[m \in 0..n] == (IF m < b THEN << >> ELSE digits[m \div b]) \o <<m % b>>
  IN  digits[n]

Concat(parts) ==
  LET upto[i \in 0..Len(parts)] == IF i = 0 THEN << >> ELSE upto[i - 1] \o parts[i]
  IN  upto[Len(parts)]

-----------------------------------------------------------------------------
(***************************************************************************)
(* Framing.                                                                *)
(***************************************************************************)
ReadHeader_NoParent(buf, at, end) ==
  LET first == buf[at + 2]
      octets == IF first < Half THEN 0 ELSE first - Half
      o == [i \in 1..octets |-> buf[at + 2 + i]]
      length == CASE octets = 0 -> first
                  [] octets = 1 -> o[1]
                  [] OTHER -> o[octets - 1] * Base + o[octets]
  IN  IF \/ Len(buf) - at < 2
         \/ first = Half \/ octets = Half - 1 \/ octets > Len(buf) - at - 2
         \/ \E i \in 1..(octets - 2) : o[i] # 0
         \/ length > Len(buf) - at - 2 - octets
        THEN [ok |-> FALSE, header |-> 0, length |-> 0]
        ELSE [ok |-> TRUE, header |-> 2 + octets, length |-> length]

\* readBERHeader() on the octets at + 1..end of buf.  Its loop gives up once
\* another octet would carry the length past two octets, so that all but the
\* last two are zero.
ReadHeader(buf, at, end) ==
  LET available == end - at
      first == buf[at + 2]
      octets == IF first < Half THEN 0 ELSE first - Half
      o == [i \in 1..octets |-> buf[at + 2 + i]]
      length == CASE octets = 0 -> first
                  [] octets = 1 -> o[1]
                  [] OTHER -> o[octets - 1] * Base + o[octets]
  IN  IF \/ available < 2
         \/ first = Half \/ octets = Half - 1 \/ octets > available - 2
         \/ \E i \in 1..(octets - 2) : o[i] # 0
         \/ length > available - 2 - octets
        THEN [ok |-> FALSE, header |-> 0, length |-> 0]
        ELSE [ok |-> TRUE, header |-> 2 + octets, length |-> length]

\* The shortest header for a length.
Header(tag, length) ==
  IF length < Half THEN <<tag, length>>
  ELSE IF length < Base THEN <<tag, Half + 1, length>>
  ELSE <<tag, Half + 2, length \div Base, length % Base>>

\* A header and contents, if they fit the capacity: the end of every
\* serialise(), and wrap(), which moves contents that are already there.
Framed(type, contents, capacity) ==
  LET header == Header(Tag[type], Len(contents))
  IN  IF Len(contents) > MaxLength \/ Len(header) + Len(contents) > capacity
        THEN Failed ELSE header \o contents

-----------------------------------------------------------------------------
(***************************************************************************)
(* Numbers.                                                                *)
(***************************************************************************)
\* The first octet of an Integer32 may go if the next one has its sign.
Redundant(contents, i, signed) ==
  \/ contents[i] = 0 /\ contents[i + 1] < Half
  \/ signed /\ contents[i] = Base - 1 /\ contents[i + 1] >= Half

IntegerContents_NoSign(n, signed) ==
  LET all == Digits(n % Power(Base, WordOctets), WordOctets, Base)
      start == LeastOf({i \in 1..WordOctets : i = WordOctets \/ all[i] # 0})
  IN  SubSeq(all, start, WordOctets)

IntegerContents_Padded(n, signed) == Digits(n % Power(Base, WordOctets), WordOctets, Base)

\* IntegerType: the shortest two's complement of the low word of n, with a
\* leading zero where an unsigned type would look negative.
IntegerContents(n, signed) ==
  LET all == <<0>> \o Digits(n % Power(Base, WordOctets), WordOctets, Base)
      first == IF signed THEN 2 ELSE 1
      start == LeastOf({i \in first..(WordOctets + 1) :
                          i = WordOctets + 1 \/ ~Redundant(all, i, signed)})
  IN  SubSeq(all, start, WordOctets + 1)

\* IntegerType::fromBuffer: longer encodings than the shortest are accepted.
IntegerValue(type, c) ==
  LET signed == type = "Integer"
      negative == signed /\ c[1] >= Half
  IN  IF \/ Len(c) = 0 \/ Len(c) > (IF signed THEN WordOctets ELSE WordOctets + 1)
         \/ ~signed /\ (c[1] >= Half \/ (Len(c) = WordOctets + 1 /\ c[1] # 0))
        THEN Invalid
        ELSE [type |-> type,
              number |-> IF negative
                           THEN Number(c, Base) + Power(Base, LongOctets) - Power(Base, Len(c))
                           ELSE Number(c, Base)]

Counter64Contents(n) ==
  LET c == ShortDigits(n, Base) IN IF c[1] >= Half THEN <<0>> \o c ELSE c

Counter64Value(c) ==
  IF \/ Len(c) = 0 \/ Len(c) > Counter64Octets + 1 \/ c[1] >= Half
     \/ Len(c) = Counter64Octets + 1 /\ c[1] # 0
    THEN Invalid ELSE [type |-> "Counter64", number |-> Number(c, Base)]

-----------------------------------------------------------------------------
(***************************************************************************)
(* Object identifiers.                                                     *)
(***************************************************************************)
\* Every octet of a sub-identifier but the last has its high bit set.
SubIdentifier(n) ==
  LET ds == ShortDigits(n, Half)
  IN  [i \in 1..Len(ds) |-> IF i < Len(ds) THEN ds[i] + Half ELSE ds[i]]

\* The length of the dotted decimal text.
TextLength(arcs) ==
  Len(Concat([i \in 1..Len(arcs) |-> <<0>> \o ShortDigits(arcs[i], 10)]))

OIDContents(arcs) ==
  IF \/ TextLength(arcs) >= MaxOID
     \/ Len(arcs) \notin 2..MaxArcs
     \/ \E i \in 1..Len(arcs) : arcs[i] > MaxArc
     \/ arcs[1] > 2
     \/ arcs[1] < 2 /\ arcs[2] >= RootSpan
    THEN Failed
    ELSE Concat([i \in 1..(Len(arcs) - 1) |->
           SubIdentifier(IF i = 1 THEN arcs[1] * RootSpan + arcs[2] ELSE arcs[i + 1])])

\* The sub-identifiers in contents whose last octet ends one.
SubIdentifiers(c) ==
  LET from[i \in 1..(Len(c) + 1)] ==
        IF i > Len(c) THEN << >>
        ELSE LET e == LeastOf({j \in i..Len(c) : c[j] < Half})
             IN  <<SubSeq(c, i, e)>> \o from[e + 1]
  IN  from[1]

Arc(sub) == Number([i \in 1..Len(sub) |-> sub[i] % Half], Half)

OIDValue(c) ==
  IF c = << >> THEN Invalid
  ELSE IF c[Len(c)] >= Half THEN Invalid
  ELSE LET subs == SubIdentifiers(c)
           first == Arc(subs[1])
           root == IF first < RootSpan THEN 0 ELSE IF first < 2 * RootSpan THEN 1 ELSE 2
           arcs == <<root, first - root * RootSpan>>
                     \o [i \in 1..(Len(subs) - 1) |-> Arc(subs[i + 1])]
       IN  IF \/ \E i \in 1..Len(subs) : Len(subs[i]) > ArcOctets \/ subs[i][1] = Half
              \/ first > MaxArc + 2 * RootSpan
              \/ \E i \in 3..Len(arcs) : arcs[i] > MaxArc
              \/ Len(arcs) > MaxArcs \/ TextLength(arcs) >= MaxOID
             THEN Invalid ELSE [type |-> "OID", arcs |-> arcs]

-----------------------------------------------------------------------------
(***************************************************************************)
(* Whole values.                                                           *)
(***************************************************************************)
\* OctetType and RawType keep octets as they are; exceptions have none.
OctetsValue(type, c) ==
  IF Len(c) > (IF type = "Octets" THEN MaxOctets - 1 ELSE MaxOctets)
    THEN Invalid ELSE [type |-> type, octets |-> c]

FixedLength(type, length) ==
  /\ type \in {"Null"} \cup Exceptions => length = 0
  /\ type = "Address" => length = AddressOctets

\* fromBuffer() of the class that decode() chooses for a type.
FromBuffer(type, c) ==
  CASE type = "Integer" \/ type \in Unsigned -> IntegerValue(type, c)
    [] type = "Counter64" -> Counter64Value(c)
    [] type = "OID" -> OIDValue(c)
    [] type \in {"Octets", "Opaque"} -> OctetsValue(type, c)
    [] type = "Address" -> IF FixedLength(type, Len(c))
                             THEN [type |-> type, octets |-> c] ELSE Invalid
    [] type \in {"Null"} \cup Exceptions ->
         IF FixedLength(type, Len(c)) THEN [type |-> type] ELSE Invalid
    [] OTHER -> Invalid

\* The contents of a primitive value.
Contents(v) ==
  CASE v.type = "Integer" -> IntegerContents(v.number, TRUE)
    [] v.type \in Unsigned -> IntegerContents(v.number, FALSE)
    [] v.type = "Counter64" -> Counter64Contents(v.number)
    [] v.type = "OID" -> OIDContents(v.arcs)
    [] v.type \in {"Octets", "Opaque", "Address"} -> v.octets
    [] OTHER -> << >>

\* Whether the class refuses to serialise a value at all.
Unserialisable(v) ==
  \/ v.type = "OID" /\ OIDContents(v.arcs) = Failed
  \/ v.type = "Octets" /\ Len(v.octets) >= MaxOctets

\* serialise() of a primitive value.
Serialised(v, capacity) ==
  IF Unserialisable(v) THEN Failed ELSE Framed(v.type, Contents(v), capacity)

\* ComplexType::serialise(): children are measured before any is written.
SerialisedStructure(type, children, capacity) ==
  IF \E i \in 1..Len(children) : children[i] = Failed THEN Failed
  ELSE Framed(type, Concat(children), capacity)

\* appendValue(): a SET value, refused where its type cannot hold it.  wrap()
\* frames octets without the limit of OctetType, so that a string of MaxOctets
\* can be sent and is not read back.
AppendedValue(v, capacity) ==
  IF \/ v.type \in {"Integer"} \cup Unsigned /\ v.number >= Power(Base, WordOctets)
     \/ v.type \in {"Octets", "Opaque"} /\ Len(v.octets) > MaxOctets
     \/ v.type = "Address" /\ Len(v.octets) # AddressOctets
     \/ v.type \notin {"Integer", "Counter64", "Octets", "Opaque", "OID", "Address"}
                        \cup Unsigned
    THEN Failed
  ELSE IF v.type = "Octets" THEN Framed(v.type, v.octets, capacity)
  ELSE Serialised(v, capacity)
=============================================================================
