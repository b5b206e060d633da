------------------------------ MODULE BERProofs ------------------------------
(***************************************************************************)
(* Theorems about the codec alone, for every base and every width: what a  *)
(* value is written as is read back as that value.                         *)
(*                                                                         *)
(* The library's induction theorems cannot be instantiated here.  What is  *)
(* said of every index of a recursive function is proved by the least      *)
(* index at which it would be wrong (SmallestExists).                      *)
(***************************************************************************)
EXTENDS Messages, SequenceTheorems, WellFoundedInduction, TLAPS

LEMMA HalfBase == Base \in Nat /\ Half \in Nat /\ Half >= 2 /\ Base = 2 * Half
<1>1. Base \in Nat /\ Base >= 4 /\ Base % 2 = 0
  BY CodecAssumption DEF CodecAssumption
<1> QED
  BY <1>1 DEF Half

LEMMA SmallestExists ==
  ASSUME NEW I \in SUBSET Nat, I # {}
  PROVE  \E i \in I : \A j \in I : i <= j
<1> DEFINE R == OpToRel(<, Nat)
<1>1. IsWellFoundedOn(R, Nat)
  BY NatLessThanWellFounded
<1>2. \A x, y \in Nat : y < x => <<y, x>> \in R
  BY DEF OpToRel
<1> HIDE DEF R
<1>3. PICK i \in I : \A j \in I : ~(<<j, i>> \in R)
  BY <1>1, WFMin
<1>4. ASSUME NEW j \in I PROVE i <= j
  <2>1. i \in Nat /\ j \in Nat
    OBVIOUS
  <2>2. ~(j < i)
    <3>1. j < i => <<j, i>> \in R
      BY <1>2, <2>1
    <3> QED
      BY <1>3, <3>1
  <2> QED
    BY <2>1, <2>2
<1> QED
  BY <1>4

-----------------------------------------------------------------------------
(***************************************************************************)
(* Headers.                                                                *)
(***************************************************************************)
LEMMA LongLength == \A x, y \in Nat : x * Base + y \in Nat
<1> SUFFICES ASSUME NEW x \in Nat, NEW y \in Nat PROVE x * Base + y \in Nat
  OBVIOUS
<1>1. x * Base \in Nat
  BY HalfBase
<1> QED
  BY <1>1

\* readBERHeader(): a header it accepts has two octets at least, and ends with
\* its contents inside the octets that are available.
LEMMA HeaderFits ==
  ASSUME NEW buf \in Seq(Octet), NEW at \in Nat, NEW end \in Nat,
         at <= end, end <= Len(buf), ReadHeader(buf, at, end).ok
  PROVE  LET h == ReadHeader(buf, at, end)
         IN  /\ h.header \in Nat /\ h.header >= 2
             /\ h.length \in Nat
             /\ at + h.header + h.length <= end
<1> DEFINE available == end - at
           first == buf[at + 2]
           octets == IF first < Half THEN 0 ELSE first - Half
           o == [i \in 1..octets |-> buf[at + 2 + i]]
           length == CASE octets = 0 -> first
                       [] octets = 1 -> o[1]
                       [] OTHER -> o[octets - 1] * Base + o[octets]
           bad == \/ available < 2
                  \/ first = Half \/ octets = Half - 1 \/ octets > available - 2
                  \/ \E i \in 1..(octets - 2) : o[i] # 0
                  \/ length > available - 2 - octets
<1>1. ReadHeader(buf, at, end) =
        IF bad THEN [ok |-> FALSE, header |-> 0, length |-> 0]
               ELSE [ok |-> TRUE, header |-> 2 + octets, length |-> length]
  BY DEF ReadHeader
<1> HIDE DEF bad
<1>2. ~bad
  BY <1>1
<1>3. ReadHeader(buf, at, end).header = 2 + octets /\ ReadHeader(buf, at, end).length = length
  BY <1>1, <1>2
<1>4. available >= 2 /\ first \in Nat /\ first < Base
  <2>1. ~(available < 2)
    BY <1>2 DEF bad
  <2>2. available >= 2 /\ at + 2 \in 1..Len(buf)
    BY <2>1
  <2>3. first \in Octet
    BY <2>2
  <2> HIDE DEF first
  <2>4. first \in Nat /\ first < Base
    BY <2>3, HalfBase DEF Octet
  <2> QED
    BY <2>2, <2>4
<1>5. octets \in Nat
  BY <1>4, HalfBase
<1>6. octets <= available - 2
  <2>1. ~(octets > available - 2)
    BY <1>2 DEF bad
  <2> HIDE DEF octets
  <2> QED
    BY <2>1, <1>4, <1>5
<1>7. \A i \in 1..octets : o[i] \in Nat
  <2> HIDE DEF octets
  <2>1. \A i \in 1..octets : at + 2 + i \in 1..Len(buf)
    BY <1>5, <1>6
  <2>2. \A i \in 1..octets : buf[at + 2 + i] \in Octet
    BY <2>1
  <2> QED
    BY <2>2, HalfBase DEF Octet
<1>8. length \in Nat
  <2> HIDE DEF octets, o, first
  <2>1. CASE octets = 0
    BY <2>1, <1>4
  <2>2. CASE octets = 1
    BY <2>2, <1>7
  <2>3. CASE octets # 0 /\ octets # 1
    <3>1. octets - 1 \in 1..octets /\ octets \in 1..octets
      BY <2>3, <1>5
    <3>2. o[octets - 1] \in Nat /\ o[octets] \in Nat
      BY <3>1, <1>7
    <3>3. length = o[octets - 1] * Base + o[octets]
      BY <2>3
    <3> HIDE DEF length
    <3> QED
      BY <3>2, <3>3, LongLength
  <2> QED
    BY <2>1, <2>2, <2>3
<1>9. length <= available - 2 - octets
  <2>1. ~(length > available - 2 - octets)
    BY <1>2 DEF bad
  <2> HIDE DEF length, octets
  <2> QED
    BY <2>1, <1>4, <1>5, <1>8
<1> HIDE DEF length, octets
<1> QED
  BY <1>3, <1>5, <1>8, <1>9

\* A header that is accepted is read the same with any octets available that
\* hold the value it begins.
LEMMA HeaderExact ==
  ASSUME NEW buf \in Seq(Octet), NEW at \in Nat, NEW end \in Nat,
         at <= end, end <= Len(buf), ReadHeader(buf, at, end).ok,
         NEW e \in Nat,
         at + ReadHeader(buf, at, end).header + ReadHeader(buf, at, end).length <= e
  PROVE  ReadHeader(buf, at, e) = ReadHeader(buf, at, end)
<1> DEFINE first == buf[at + 2]
           octets == IF first < Half THEN 0 ELSE first - Half
           o == [i \in 1..octets |-> buf[at + 2 + i]]
           length == CASE octets = 0 -> first
                       [] octets = 1 -> o[1]
                       [] OTHER -> o[octets - 1] * Base + o[octets]
           wrong == \/ first = Half \/ octets = Half - 1
                    \/ \E i \in 1..(octets - 2) : o[i] # 0
           h == ReadHeader(buf, at, end)
           short(n) == n < 2 \/ octets > n - 2 \/ length > n - 2 - octets
           no == [ok |-> FALSE, header |-> 0, length |-> 0]
           yes == [ok |-> TRUE, header |-> 2 + octets, length |-> length]
<1>1. /\ h = IF wrong \/ short(end - at) THEN no ELSE yes
      /\ ReadHeader(buf, at, e) = IF wrong \/ short(e - at) THEN no ELSE yes
  BY DEF ReadHeader
<1>2. h.header \in Nat /\ h.header >= 2 /\ h.length \in Nat
  BY HeaderFits
<1> HIDE DEF wrong, h, octets, length
<1>3. h = yes /\ ~wrong
  BY <1>1 DEF h
<1>4. h.header = 2 + octets /\ h.length = length
  BY <1>3
<1>5. octets \in Int
  <2>1. first \in Int
    <3>1. at + h.header + h.length <= Len(buf)
      <4>1. at + h.header + h.length <= end
        BY HeaderFits DEF h
      <4> QED
        BY <1>2, <4>1
    <3>2. at + 2 \in 1..Len(buf)
      BY <1>2, <3>1
    <3> QED
      BY <3>2, HalfBase DEF Octet
  <2> QED
    BY <2>1, HalfBase DEF octets
<1>6. ~short(e - at)
  <2>1. at + h.header + h.length <= e
    BY DEF h
  <2> QED
    BY <1>2, <1>4, <1>5, <2>1
<1> QED
  BY <1>1, <1>3, <1>6 DEF h

\* Two readings of a header agree, whatever was available to each.
LEMMA HeaderUnique ==
  ASSUME NEW buf \in Seq(Octet), NEW at \in Nat, NEW e \in Nat, NEW f \in Nat,
         at <= e, e <= Len(buf), ReadHeader(buf, at, e).ok,
         at <= f, f <= Len(buf), ReadHeader(buf, at, f).ok
  PROVE  ReadHeader(buf, at, e) = ReadHeader(buf, at, f)
<1>1. /\ ReadHeader(buf, at, e).header \in Nat /\ ReadHeader(buf, at, e).length \in Nat
      /\ at + ReadHeader(buf, at, e).header + ReadHeader(buf, at, e).length <= e
  BY HeaderFits
<1>2. /\ ReadHeader(buf, at, f).header \in Nat /\ ReadHeader(buf, at, f).length \in Nat
      /\ at + ReadHeader(buf, at, f).header + ReadHeader(buf, at, f).length <= f
  BY HeaderFits
<1>3. CASE e <= f
  <2>1. at + ReadHeader(buf, at, e).header + ReadHeader(buf, at, e).length <= f
    BY <1>1, <1>3
  <2> QED
    BY <2>1, HeaderExact
<1>4. CASE f <= e
  <2>1. at + ReadHeader(buf, at, f).header + ReadHeader(buf, at, f).length <= e
    BY <1>2, <1>4
  <2> QED
    BY <2>1, HeaderExact
<1> QED
  BY <1>3, <1>4

-----------------------------------------------------------------------------
(***************************************************************************)
(* What is framed is read back.                                            *)
(***************************************************************************)
\* The two digits of a length of two octets.
LEMMA TwoDigits ==
  ASSUME NEW n \in Nat, Base <= n, n <= MaxLength
  PROVE  /\ n \div Base \in 1..(Base - 1) /\ n % Base \in Octet
         /\ (n \div Base) * Base + (n % Base) = n
<1> DEFINE b == Base
           q == n \div b
           r == n % b
<1>1. b \in Nat /\ b > 0
  BY HalfBase
<1>2. n < b * b
  BY <1>1 DEF MaxLength
<1> HIDE DEF b
<1>3. q \in Int /\ r \in 0..(b - 1) /\ n = b * q + r
  BY <1>1
<1> HIDE DEF q, r
<1>4. b * q = q * b
  BY <1>1, <1>3
<1>5. q < b
  <2> SUFFICES ASSUME q >= b PROVE FALSE
    BY <1>1, <1>3
  <2>1. b * q >= b * b
    BY <1>1, <1>3
  <2>2. b * q \in Int /\ b * b \in Int
    BY <1>1, <1>3
  <2>3. QED
    BY <1>1, <1>2, <1>3, <2>1, <2>2
<1>6. q >= 1
  <2> SUFFICES ASSUME q <= 0 PROVE FALSE
    BY <1>3
  <2>1. b * q <= 0
    BY <1>1, <1>3
  <2>2. b * q \in Int /\ b <= n
    BY <1>1, <1>3 DEF b
  <2>3. QED
    BY <1>1, <1>3, <2>1, <2>2
<1>7. QED
  BY <1>1, <1>3, <1>4, <1>5, <1>6 DEF b, q, r, Octet

\* The header of some contents, read from the octets it begins.
LEMMA HeaderReadsBack ==
  ASSUME Half >= 4, NEW tag \in Octet, NEW c \in Seq(Octet), Len(c) <= MaxLength
  PROVE  LET h == Header(tag, Len(c))
             buf == h \o c
         IN  /\ h \in Seq(Octet) /\ h # << >> /\ h[1] = tag
             /\ ReadHeader(buf, 0, Len(buf)) =
                  [ok |-> TRUE, header |-> Len(h), length |-> Len(c)]
<1> DEFINE n == Len(c)
           h == Header(tag, n)
           buf == h \o c
           available == Len(buf) - 0
           first == buf[0 + 2]
           octets == IF first < Half THEN 0 ELSE first - Half
           o == [i \in 1..octets |-> buf[0 + 2 + i]]
           length == CASE octets = 0 -> first
                       [] octets = 1 -> o[1]
                       [] OTHER -> o[octets - 1] * Base + o[octets]
           bad == \/ available < 2
                  \/ first = Half \/ octets = Half - 1 \/ octets > available - 2
                  \/ \E i \in 1..(octets - 2) : o[i] # 0
                  \/ length > available - 2 - octets
           Reads(s, k) ==
             /\ s \in Seq(Octet) /\ h = s /\ s[1] = tag
             /\ k \in 0..2 /\ Len(s) = 2 + k
             /\ IF s[2] < Half THEN k = 0 ELSE s[2] = Half + k /\ k # 0
             /\ n = CASE k = 0 -> s[2]
                      [] k = 1 -> s[3]
                      [] OTHER -> s[3] * Base + s[4]
           Goal ==
             /\ h \in Seq(Octet) /\ h # << >> /\ h[1] = tag
             /\ ReadHeader(buf, 0, Len(buf)) =
                  [ok |-> TRUE, header |-> Len(h), length |-> n]
<1> SUFFICES Goal
  OBVIOUS
<1>1. ReadHeader(buf, 0, Len(buf)) =
        IF bad THEN [ok |-> FALSE, header |-> 0, length |-> 0]
               ELSE [ok |-> TRUE, header |-> 2 + octets, length |-> length]
  BY DEF ReadHeader
<1>2. n \in Nat /\ n <= MaxLength
  OBVIOUS
<1>3. Base \in Nat /\ Half \in Nat /\ Half >= 4 /\ Base = 2 * Half
  BY HalfBase
<1>4. ASSUME NEW s, NEW k, Reads(s, k)
      PROVE  Goal
  <2>1. s \in Seq(Octet) /\ h = s /\ s[1] = tag /\ k \in 0..2 /\ Len(s) = 2 + k
    BY <1>4
  <2>2. IF s[2] < Half THEN k = 0 ELSE s[2] = Half + k /\ k # 0
    BY <1>4
  <2>3. /\ k = 0 => n = s[2]
        /\ k = 1 => n = s[3]
        /\ k = 2 => n = s[3] * Base + s[4]
    BY <1>4
  <2> HIDE DEF Reads
  <2>4. /\ buf \in Seq(Octet) /\ Len(buf) = 2 + k + n
        /\ \A i \in 1..(2 + k) : buf[i] = s[i]
    BY <2>1, ConcatProperties
  <2> HIDE DEF buf, h, n
  <2>5. first = s[2] /\ available = 2 + k + n
    BY <1>2, <2>1, <2>4
  <2>6. s[2] \in Nat
    <3>1. 2 \in 1..Len(s)
      BY <2>1
    <3>2. s[2] \in Octet
      BY <3>1, <2>1
    <3>3. QED
      BY <1>3, <3>2 DEF Octet
  <2> HIDE DEF first, available
  <2>7. octets = k
    <3>1. CASE s[2] < Half
      BY <3>1, <2>2, <2>5
    <3>2. CASE ~(s[2] < Half)
      <4>1. s[2] = Half + k
        BY <3>2, <2>2
      <4>2. k \in Nat
        BY <2>1
      <4>3. QED
        BY <1>3, <3>2, <2>5, <4>1, <4>2
    <3>3. QED
      BY <3>1, <3>2
  <2> HIDE DEF octets
  <2>8. \A i \in 1..k : o[i] = s[2 + i]
    <3> TAKE i \in 1..k
    <3>1. k \in Nat
      BY <2>1
    <3>2. 0 + 2 + i = 2 + i /\ 2 + i \in 1..(2 + k)
      BY <3>1
    <3>3. o[i] = buf[0 + 2 + i]
      BY <2>7
    <3>4. QED
      BY <2>4, <3>2, <3>3
  <2>9. length = n
    <3>1. CASE k = 0
      BY <3>1, <2>3, <2>5, <2>7
    <3>2. CASE k = 1
      BY <3>2, <2>3, <2>7, <2>8
    <3>3. CASE k = 2
      <4>1. o[1] = s[3] /\ o[2] = s[4]
        BY <3>3, <2>8
      <4> HIDE DEF o
      <4>2. length = o[1] * Base + o[2]
        BY <3>3, <2>7
      <4>3. n = s[3] * Base + s[4]
        BY <3>3, <2>3
      <4>4. QED
        BY <4>1, <4>2, <4>3
    <3>4. QED
      BY <3>1, <3>2, <3>3, <2>1
  <2> HIDE DEF length, o
  <2>10. ~bad
    <3>1. ~(available < 2) /\ first # Half /\ octets # Half - 1
          /\ ~(octets > available - 2)
      BY <1>2, <1>3, <2>1, <2>2, <2>5, <2>6, <2>7
    <3>2. ~ \E i \in 1..(octets - 2) : o[i] # 0
      BY <2>1, <2>7
    <3>3. ~(length > available - 2 - octets)
      BY <1>2, <2>1, <2>5, <2>7, <2>9
    <3>4. QED
      BY <3>1, <3>2, <3>3
  <2> HIDE DEF bad
  <2>11. ReadHeader(buf, 0, Len(buf)) = [ok |-> TRUE, header |-> 2 + k, length |-> n]
    BY <1>1, <2>7, <2>9, <2>10
  <2>12. QED
    BY <2>1, <2>11
<1>5. CASE n < Half
  <2> DEFINE s == <<tag, n>>
  <2>1. s \in Seq(Octet) /\ Len(s) = 2 /\ s[1] = tag /\ s[2] = n
    BY <1>2, <1>3, <1>5 DEF Octet
  <2>2. h = s
    BY <1>5 DEF Header
  <2> HIDE DEF s, h, n
  <2>3. Reads(s, 0)
    BY <1>5, <2>1, <2>2
  <2> HIDE DEF Reads, Goal
  <2>4. QED
    BY <1>4, <2>3
<1>6. CASE ~(n < Half) /\ n < Base
  <2> DEFINE s == <<tag, Half + 1, n>>
  <2>1. s \in Seq(Octet) /\ Len(s) = 3 /\ s[1] = tag /\ s[2] = Half + 1 /\ s[3] = n
    BY <1>2, <1>3, <1>6 DEF Octet
  <2>2. h = s
    BY <1>6 DEF Header
  <2>3. ~(s[2] < Half)
    BY <1>3, <2>1
  <2> HIDE DEF s, h, n
  <2>4. Reads(s, 1)
    BY <2>1, <2>2, <2>3
  <2> HIDE DEF Reads, Goal
  <2>5. QED
    BY <1>4, <2>4
<1>7. CASE ~(n < Half) /\ ~(n < Base)
  <2> DEFINE s == <<tag, Half + 2, n \div Base, n % Base>>
  <2>1. /\ n \div Base \in 1..(Base - 1) /\ n % Base \in Octet
        /\ (n \div Base) * Base + (n % Base) = n
    BY <1>2, <1>3, <1>7, TwoDigits
  <2>2. /\ s \in Seq(Octet) /\ Len(s) = 4 /\ s[1] = tag /\ s[2] = Half + 2
        /\ s[3] = n \div Base /\ s[4] = n % Base
    BY <1>3, <2>1 DEF Octet
  <2>3. h = s
    BY <1>7 DEF Header
  <2>4. ~(s[2] < Half) /\ n = s[3] * Base + s[4]
    BY <1>3, <2>1, <2>2
  <2> HIDE DEF s, h, n
  <2>5. Reads(s, 2)
    BY <2>2, <2>3, <2>4
  <2> HIDE DEF Reads, Goal
  <2>6. QED
    BY <1>4, <2>5
<1>8. QED
  BY <1>5, <1>6, <1>7

\* THEOREM: what Framed() lays down readBERHeader() takes up again.  Whatever
\* a serialise() of the library fits in its capacity begins with the octet of
\* its own type, and a header read from it ends where the contents begin and
\* gives their length, in all three forms a length has.  Half is 128 in the
\* source; below 4 the mark of a long length would not be told from its count.
THEOREM FramesReadBack ==
  ASSUME Half >= 4, NEW type \in Types, NEW contents \in Seq(Octet),
         NEW capacity \in Nat, Framed(type, contents, capacity) # Failed
  PROVE  LET buf == Framed(type, contents, capacity)
             h == ReadHeader(buf, 0, Len(buf))
         IN  /\ TypeOf(buf[1]) = type /\ Len(buf) <= capacity
             /\ h.ok /\ h.length = Len(contents)
             /\ SubSeq(buf, h.header + 1, Len(buf)) = contents
<1> DEFINE top == Header(Tag[type], Len(contents))
           buf == Framed(type, contents, capacity)
           r == ReadHeader(buf, 0, Len(buf))
<1>1. Tag[type] \in Octet
  BY CodecAssumption DEF CodecAssumption
<1>2. /\ buf = top \o contents /\ Len(contents) <= MaxLength
      /\ ~(Len(top) + Len(contents) > capacity)
  <2>1. buf = IF Len(contents) > MaxLength \/ Len(top) + Len(contents) > capacity
                THEN Failed ELSE top \o contents
    BY DEF Framed
  <2>2. ~(Len(contents) > MaxLength) /\ ~(Len(top) + Len(contents) > capacity)
    BY <2>1
  <2>3. MaxLength \in Int
    BY HalfBase DEF MaxLength
  <2>4. QED
    BY <2>1, <2>2, <2>3
<1> HIDE DEF buf
<1>3. /\ top \in Seq(Octet) /\ top # << >> /\ top[1] = Tag[type]
      /\ r = [ok |-> TRUE, header |-> Len(top), length |-> Len(contents)]
  BY <1>1, <1>2, HeaderReadsBack
<1> HIDE DEF top, r
<1>4. /\ Len(buf) = Len(top) + Len(contents) /\ Len(top) \in Nat \ {0}
      /\ Len(contents) \in Nat
      /\ \A i \in 1..Len(top) : buf[i] = top[i]
      /\ \A i \in 1..Len(contents) : buf[Len(top) + i] = contents[i]
  BY <1>2, <1>3, ConcatProperties
<1>5. TypeOf(buf[1]) = type
  <2>1. buf[1] = Tag[type]
    BY <1>3, <1>4
  <2>2. \A y \in Types : Tag[y] = Tag[type] => y = type
    BY CodecAssumption DEF CodecAssumption
  <2>3. QED
    BY <2>1, <2>2 DEF TypeOf
<1>6. Len(buf) <= capacity
  BY <1>2, <1>4
<1>7. r.ok /\ r.length = Len(contents) /\ r.header = Len(top)
  BY <1>3
<1>8. SubSeq(buf, r.header + 1, Len(buf)) = contents
  <2> DEFINE rest == SubSeq(buf, Len(top) + 1, Len(buf))
  <2>1. buf \in Seq(Octet)
    BY <1>2, <1>3
  <2>2. /\ rest \in Seq(Octet) /\ Len(rest) = Len(contents)
        /\ \A i \in 1..Len(contents) : rest[i] = buf[Len(top) + i]
    BY <1>4, <2>1
  <2> HIDE DEF rest
  <2>3. rest = contents
    BY <1>4, <2>2
  <2>4. QED
    BY <1>7, <2>3 DEF rest
<1>9. QED
  BY <1>5, <1>6, <1>7, <1>8 DEF buf, r

-----------------------------------------------------------------------------
(***************************************************************************)
(* Division with a quotient and a remainder.                               *)
(***************************************************************************)
LEMMA Division ==
  ASSUME NEW n \in Int, NEW b \in Nat \ {0}
  PROVE  /\ n \div b \in Int /\ n % b \in 0..(b - 1)
         /\ n = b * (n \div b) + (n % b)
<1> DEFINE q == n \div b
           r == n % b
<1>1. q \in Int /\ r \in 0..(b - 1) /\ n = b * q + r
  OBVIOUS
<1> HIDE DEF q, r
<1> QED
  BY <1>1 DEF q, r

LEMMA Unique ==
  ASSUME NEW b \in Nat \ {0}, NEW q \in Int, NEW r \in 0..(b - 1)
  PROVE  (b * q + r) \div b = q /\ (b * q + r) % b = r
<1> DEFINE n == b * q + r
           p == n \div b
           s == n % b
<1>1. n \in Int
  OBVIOUS
<1>2. p \in Int /\ s \in 0..(b - 1) /\ n = b * p + s
  BY <1>1
<1>3. b * q + r = b * p + s
  BY <1>2
<1> HIDE DEF n, p, s
<1>4. b * (p - q) = r - s
  <2>1. b * (p - q) = b * p - b * q
    BY <1>2
  <2>2. b * p \in Int /\ b * q \in Int
    BY <1>2
  <2> QED
    BY <1>2, <1>3, <2>1, <2>2
<1>5. p - q = 0
  <2> DEFINE d == p - q
  <2>1. d \in Int
    BY <1>2
  <2>2. b * d = r - s
    BY <1>4
  <2> HIDE DEF d
  <2>3. CASE d >= 1
    <3>1. b * d >= b
      BY <2>1, <2>3
    <3> QED
      BY <1>2, <2>2, <3>1
  <2>4. CASE d <= -1
    <3>1. b * d <= -b
      BY <2>1, <2>4
    <3> QED
      BY <1>2, <2>2, <3>1
  <2> QED
    BY <2>1, <2>3, <2>4 DEF d
<1>6. p = q
  BY <1>2, <1>5
<1>7. s = r
  <2>1. b * p = b * q
    BY <1>6
  <2>2. b * p \in Int
    BY <1>2
  <2> QED
    BY <1>2, <1>3, <2>1, <2>2
<1> QED
  BY <1>6, <1>7 DEF n, p, s

LEMMA Bound ==
  ASSUME NEW x \in Nat \ {0}, NEW b \in Nat \ {0}, NEW s \in 0..(b - 1), NEW r \in 0..(x - 1)
  PROVE  x * b \in Nat \ {0} /\ x * s + r \in 0..(x * b - 1)
<1>1. x * s \in Int /\ x * b \in Int /\ x * s >= 0 /\ x * b >= 1
  OBVIOUS
<1>2. x * (b - 1 - s) >= 0
  OBVIOUS
<1>3. x * (b - 1 - s) = x * b - x - x * s
  OBVIOUS
<1> QED
  BY <1>1, <1>2, <1>3

LEMMA TwoSteps ==
  ASSUME NEW n \in Int, NEW x \in Nat \ {0}, NEW b \in Nat \ {0}
  PROVE  /\ x * b \in Nat \ {0}
         /\ n \div (x * b) = (n \div x) \div b
         /\ n % (x * b) = x * ((n \div x) % b) + (n % x)
<1> DEFINE q == n \div x
           r == n % x
           p == q \div b
           s == q % b
<1>1. q \in Int /\ r \in 0..(x - 1) /\ n = x * q + r
  BY Division
<1>2. p \in Int /\ s \in 0..(b - 1) /\ q = b * p + s
  BY <1>1, Division
<1> HIDE DEF q, r, p, s
<1>3. n = (x * b) * p + (x * s + r)
  <2>1. x * q = x * (b * p) + x * s
    BY <1>2
  <2>2. x * (b * p) = (x * b) * p
    BY <1>2
  <2>3. x * (b * p) \in Int /\ x * s \in Int
    BY <1>2
  <2> QED
    BY <1>1, <2>1, <2>2, <2>3
<1> DEFINE m == x * b
           t == x * s + r
<1>4. m \in Nat \ {0} /\ t \in 0..(m - 1)
  BY <1>1, <1>2, Bound
<1>5. n = m * p + t
  BY <1>3
<1> HIDE DEF m, t
<1>6. n \div m = p /\ n % m = t
  BY <1>2, <1>4, <1>5, Unique
<1> QED
  BY <1>4, <1>6 DEF m, t, p, s, q, r

-----------------------------------------------------------------------------
(***************************************************************************)
(* Whole values.                                                           *)
(***************************************************************************)
\* What fromBuffer() accepts has the type it was asked for.
LEMMA FromBufferType ==
  ASSUME NEW type, NEW c
  PROVE  FromBuffer(type, c) = Invalid \/ FromBuffer(type, c).type = type
<1>1. IntegerValue(type, c) = Invalid \/ IntegerValue(type, c).type = type
  BY DEF IntegerValue
<1>2. Counter64Value(c) = Invalid \/ Counter64Value(c).type = "Counter64"
  BY DEF Counter64Value
<1>3. OIDValue(c) = Invalid \/ OIDValue(c).type = "OID"
  BY DEF OIDValue
<1>4. OctetsValue(type, c) = Invalid \/ OctetsValue(type, c).type = type
  BY DEF OctetsValue
<1> QED
  BY <1>1, <1>2, <1>3, <1>4 DEF FromBuffer

-----------------------------------------------------------------------------
(***************************************************************************)
(* Recursive functions.  step[i] takes the value at i - 1 to the one at i. *)
(***************************************************************************)
Chain(f, n, a, step, S) ==
  /\ f \in [0..n -> S]
  /\ f[0] = a /\ \A i \in 1..n : f[i] = step[i][f[i - 1]]

LEMMA ChainExists ==
  ASSUME NEW n \in Nat, NEW S, NEW a \in S, NEW step \in [1..n -> [S -> S]]
  PROVE  \E f : Chain(f, n, a, step, S)
<1> DEFINE Bad == {k \in 0..n : ~ \E f : Chain(f, k, a, step, S)}
<1> SUFFICES ASSUME Bad # {} PROVE FALSE
  <2>1. n \in 0..n
    OBVIOUS
  <2> QED
    BY <2>1
<1>1. Bad \in SUBSET Nat
  OBVIOUS
<1> HIDE DEF Bad
<1>2. PICK k \in Bad : \A j \in Bad : k <= j
  BY <1>1, SmallestExists
<1>3. k \in 0..n /\ ~ \E f : Chain(f, k, a, step, S)
  BY <1>2 DEF Bad
<1>4. CASE k = 0
  <2> DEFINE g == [i \in 0..0 |-> a]
  <2>1. Chain(g, 0, a, step, S)
    BY DEF Chain
  <2> QED
    BY <1>3, <1>4, <2>1
<1>5. CASE k # 0
  <2>1. k - 1 \in 0..n /\ k \in 1..n
    BY <1>3, <1>5
  <2>2. k - 1 \notin Bad
    BY <1>2, <2>1
  <2>3. PICK f : Chain(f, k - 1, a, step, S)
    BY <2>1, <2>2 DEF Bad
  <2> DEFINE new == step[k][f[k - 1]]
             g == [i \in 0..k |-> IF i = k THEN new ELSE f[i]]
  <2>4. k - 1 \in 0..(k - 1) /\ 0 \in 0..(k - 1)
    BY <2>1
  <2>5. f \in [0..(k - 1) -> S] /\ f[k - 1] \in S /\ f[0] = a /\ \A i \in 1..(k - 1) : f[i] = step[i][f[i - 1]]
    BY <2>3, <2>4 DEF Chain
  <2>6. new \in S
    BY <2>1, <2>5
  <2> HIDE DEF new
  <2>7. g \in [0..k -> S] /\ g[0] = a /\ g[k] = new
    BY <2>1, <2>5, <2>6
  <2>8. ASSUME NEW i \in 1..k PROVE g[i] = step[i][g[i - 1]]
    <3>1. CASE i = k
      <4>1. g[k - 1] = f[k - 1]
        BY <2>1
      <4> QED
        BY <2>7, <3>1, <4>1 DEF new
    <3>2. CASE i # k
      <4>1. i \in 1..(k - 1) /\ i - 1 \in 0..(k - 1) /\ i - 1 # k
        BY <2>1, <3>2
      <4>2. g[i] = f[i] /\ g[i - 1] = f[i - 1]
        BY <2>1, <4>1
      <4> QED
        BY <2>5, <4>1, <4>2
    <3> QED
      BY <3>1, <3>2
  <2> HIDE DEF g
  <2>9. Chain(g, k, a, step, S)
    BY <2>7, <2>8 DEF Chain
  <2> QED
    BY <1>3, <2>7, <2>9
<1> QED
  BY <1>4, <1>5

\* The same of a g whose values are not known to be in S.
Links(g, m, a, step, S) ==
  g[0] = a /\ \A i \in 1..m : g[i - 1] \in S => g[i] = step[i][g[i - 1]]

LEMMA ChainAgrees ==
  ASSUME NEW S, NEW n \in Nat, NEW a, NEW step,
         NEW f, Chain(f, n, a, step, S),
         NEW g, NEW m \in 0..n, Links(g, m, a, step, S)
  PROVE  \A i \in 0..m : g[i] = f[i]
<1> DEFINE Bad == {i \in 0..m : g[i] # f[i]}
<1> SUFFICES ASSUME Bad # {} PROVE FALSE
  OBVIOUS
<1>1. Bad \in SUBSET Nat
  OBVIOUS
<1> HIDE DEF Bad
<1>2. PICK i \in Bad : \A j \in Bad : i <= j
  BY <1>1, SmallestExists
<1>3. i \in 0..m /\ g[i] # f[i]
  BY <1>2 DEF Bad
<1>4. i # 0
  BY <1>3 DEF Chain, Links
<1>5. i \in 1..m /\ i - 1 \in 0..m /\ i \in 1..n /\ i - 1 \in 0..n
  BY <1>3, <1>4
<1>6. g[i - 1] = f[i - 1]
  <2>1. i - 1 \notin Bad
    BY <1>2, <1>5
  <2> QED
    BY <1>5, <2>1 DEF Bad
<1>7. g[i - 1] \in S
  BY <1>5, <1>6 DEF Chain
<1>8. g[i] = step[i][g[i - 1]] /\ f[i] = step[i][f[i - 1]]
  BY <1>5, <1>7 DEF Chain, Links
<1> QED
  BY <1>3, <1>6, <1>8

-----------------------------------------------------------------------------
(***************************************************************************)
(* Powers.                                                                 *)
(***************************************************************************)
\* f[i] is b to the i.
Powers(f, b, k) ==
  f \in [0..k -> Nat] /\ f[0] = 1 /\ \A i \in 1..k : f[i] = f[i - 1] * b

PowerSteps(b, k) == [i \in 1..k |-> [x \in Nat |-> x * b]]

LEMMA PowerChain ==
  ASSUME NEW b \in Nat, NEW k \in Nat
  PROVE  /\ PowerSteps(b, k) \in [1..k -> [Nat -> Nat]]
         /\ \A i \in 1..k, x \in Nat : PowerSteps(b, k)[i][x] = x * b
         /\ \A f : Chain(f, k, 1, PowerSteps(b, k), Nat) <=> Powers(f, b, k)
<1>1. /\ PowerSteps(b, k) \in [1..k -> [Nat -> Nat]]
      /\ \A i \in 1..k, x \in Nat : PowerSteps(b, k)[i][x] = x * b
  BY DEF PowerSteps
<1>2. ASSUME NEW f
      PROVE  Chain(f, k, 1, PowerSteps(b, k), Nat) <=> Powers(f, b, k)
  <2>1. f \in [0..k -> Nat] => \A i \in 1..k : f[i - 1] \in Nat
    OBVIOUS
  <2>2. f \in [0..k -> Nat] =>
          \A i \in 1..k : PowerSteps(b, k)[i][f[i - 1]] = f[i - 1] * b
    BY <1>1, <2>1
  <2> QED
    BY <2>2 DEF Chain, Powers
<1> QED
  BY <1>1, <1>2

LEMMA PowerIs ==
  ASSUME NEW b \in Nat, NEW k \in Nat
  PROVE  \E f : Powers(f, b, k) /\ Power(b, k) = f[k]
<1> DEFINE Body(f) == [i \in 0..k |-> IF i = 0 THEN 1 ELSE f[i - 1] * b]
           up == CHOOSE f : f = Body(f)
<1>1. PICK f : Chain(f, k, 1, PowerSteps(b, k), Nat)
  BY PowerChain, ChainExists
<1>2. Powers(f, b, k)
  BY <1>1, PowerChain
<1>3. f = Body(f)
  BY <1>2 DEF Powers
<1>4. up = Body(up)
  BY <1>3
<1>5. Power(b, k) = up[k]
  BY DEF Power
<1> HIDE DEF up
<1>6. up[0] = 1 /\ \A i \in 1..k : up[i] = up[i - 1] * b
  BY <1>4
<1> HIDE DEF Body
<1>7. Links(up, k, 1, PowerSteps(b, k), Nat)
  BY <1>6, PowerChain DEF Links
<1>8. k \in 0..k
  OBVIOUS
<1>9. \A i \in 0..k : up[i] = f[i]
  BY <1>1, <1>7, <1>8, ChainAgrees
<1> QED
  BY <1>2, <1>5, <1>8, <1>9

LEMMA PowerZero == \A b \in Nat : Power(b, 0) = 1
<1> SUFFICES ASSUME NEW b \in Nat PROVE Power(b, 0) = 1
  OBVIOUS
<1>1. PICK f : Powers(f, b, 0) /\ Power(b, 0) = f[0]
  BY PowerIs
<1> QED
  BY <1>1 DEF Powers

LEMMA PowerNext ==
  ASSUME NEW b \in Nat, NEW k \in Nat
  PROVE  Power(b, k) \in Nat /\ Power(b, k + 1) = Power(b, k) * b
<1>1. PICK f : Powers(f, b, k) /\ Power(b, k) = f[k]
  BY PowerIs
<1>2. PICK n \in Nat : n = k + 1
  OBVIOUS
<1>3. PICK g : Powers(g, b, n) /\ Power(b, n) = g[n]
  BY PowerIs
<1>4. /\ k \in 0..k /\ n \in 1..n /\ n - 1 = k
      /\ \A i \in 1..k : i \in 1..n
  BY <1>2
<1>5. f[k] \in Nat /\ Chain(f, k, 1, PowerSteps(b, k), Nat)
  BY <1>1, <1>4, PowerChain DEF Powers
<1>6. g[0] = 1 /\ \A i \in 1..k : g[i] = g[i - 1] * b
  BY <1>3, <1>4 DEF Powers
<1>7. Links(g, k, 1, PowerSteps(b, k), Nat)
  BY <1>6, PowerChain DEF Links
<1>8. \A i \in 0..k : g[i] = f[i]
  BY <1>4, <1>5, <1>7, ChainAgrees
<1>9. g[n] = g[k] * b
  BY <1>3, <1>4 DEF Powers
<1> QED
  BY <1>1, <1>2, <1>3, <1>4, <1>5, <1>8, <1>9

LEMMA PowerPositive ==
  ASSUME NEW b \in Nat \ {0}
  PROVE  \A k \in Nat : Power(b, k) \in Nat \ {0}
<1> DEFINE Bad == {k \in Nat : Power(b, k) \notin Nat \ {0}}
<1> SUFFICES ASSUME Bad # {} PROVE FALSE
  OBVIOUS
<1>1. Bad \in SUBSET Nat
  OBVIOUS
<1> HIDE DEF Bad
<1>2. PICK k \in Bad : \A j \in Bad : k <= j
  BY <1>1, SmallestExists
<1>3. k \in Nat /\ Power(b, k) \notin Nat \ {0}
  BY <1>2 DEF Bad
<1>4. k # 0
  BY <1>3, PowerZero
<1>5. k - 1 \in Nat /\ (k - 1) + 1 = k
  BY <1>3, <1>4
<1> DEFINE p == Power(b, k - 1)
<1>6. p \in Nat \ {0}
  <2>1. k - 1 \notin Bad
    BY <1>2, <1>5
  <2> QED
    BY <1>5, <2>1 DEF Bad
<1>7. Power(b, k) = p * b
  BY <1>5, PowerNext
<1> HIDE DEF p
<1>8. p * b \in Nat \ {0}
  BY <1>6
<1> QED
  BY <1>3, <1>7, <1>8

-----------------------------------------------------------------------------
(***************************************************************************)
(* Digits.                                                                 *)
(***************************************************************************)
\* f[i] is the number written by the first i digits.
Numbers(f, ds, b, n) ==
  f \in [0..n -> Nat] /\ f[0] = 0 /\ \A i \in 1..n : f[i] = f[i - 1] * b + ds[i]

NumberSteps(ds, b, n) == [i \in 1..n |-> [x \in Nat |-> x * b + ds[i]]]

LEMMA NumberChain ==
  ASSUME NEW b \in Nat, NEW ds \in Seq(Nat), NEW n \in 0..Len(ds)
  PROVE  /\ NumberSteps(ds, b, n) \in [1..n -> [Nat -> Nat]]
         /\ \A i \in 1..n, x \in Nat : NumberSteps(ds, b, n)[i][x] = x * b + ds[i]
         /\ \A f : Chain(f, n, 0, NumberSteps(ds, b, n), Nat) <=> Numbers(f, ds, b, n)
<1>1. ASSUME NEW i \in 1..n, NEW x \in Nat PROVE x * b + ds[i] \in Nat
  <2>1. x * b \in Nat /\ ds[i] \in Nat
    OBVIOUS
  <2> QED
    BY <2>1
<1>2. /\ NumberSteps(ds, b, n) \in [1..n -> [Nat -> Nat]]
      /\ \A i \in 1..n, x \in Nat : NumberSteps(ds, b, n)[i][x] = x * b + ds[i]
  BY <1>1 DEF NumberSteps
<1>3. ASSUME NEW f
      PROVE  Chain(f, n, 0, NumberSteps(ds, b, n), Nat) <=> Numbers(f, ds, b, n)
  <2>1. f \in [0..n -> Nat] => \A i \in 1..n : f[i - 1] \in Nat
    OBVIOUS
  <2>2. f \in [0..n -> Nat] =>
          \A i \in 1..n : NumberSteps(ds, b, n)[i][f[i - 1]] = f[i - 1] * b + ds[i]
    BY <1>2, <2>1
  <2> QED
    BY <2>2 DEF Chain, Numbers
<1> QED
  BY <1>2, <1>3

LEMMA NumberIs ==
  ASSUME NEW b \in Nat, NEW ds \in Seq(Nat)
  PROVE  \E f : Numbers(f, ds, b, Len(ds)) /\ Number(ds, b) = f[Len(ds)]
<1> DEFINE n == Len(ds)
           Body(f) == [i \in 0..n |-> IF i = 0 THEN 0 ELSE f[i - 1] * b + ds[i]]
           up == CHOOSE f : f = Body(f)
<1>1. n \in Nat /\ n \in 0..Len(ds) /\ n \in 0..n
  OBVIOUS
<1>2. Number(ds, b) = up[n]
  BY DEF Number
<1> HIDE DEF n
<1>3. PICK f : Chain(f, n, 0, NumberSteps(ds, b, n), Nat)
  BY <1>1, NumberChain, ChainExists
<1>4. Numbers(f, ds, b, n)
  BY <1>1, <1>3, NumberChain
<1>5. f = Body(f)
  BY <1>4 DEF Numbers
<1>6. up = Body(up)
  BY <1>5
<1> HIDE DEF up
<1>7. up[0] = 0 /\ \A i \in 1..n : up[i] = up[i - 1] * b + ds[i]
  BY <1>1, <1>6
<1> HIDE DEF Body
<1>8. Links(up, n, 0, NumberSteps(ds, b, n), Nat)
  BY <1>1, <1>7, NumberChain DEF Links
<1>9. \A i \in 0..n : up[i] = f[i]
  BY <1>1, <1>3, <1>8, ChainAgrees
<1> QED
  BY <1>1, <1>2, <1>4, <1>9 DEF n

LEMMA NumberEmpty == \A b \in Nat : Number(<< >>, b) = 0
<1> SUFFICES ASSUME NEW b \in Nat PROVE Number(<< >>, b) = 0
  OBVIOUS
<1>1. << >> \in Seq(Nat) /\ Len(<< >>) = 0
  OBVIOUS
<1>2. PICK f : Numbers(f, << >>, b, 0) /\ Number(<< >>, b) = f[0]
  BY <1>1, NumberIs
<1> QED
  BY <1>2 DEF Numbers

LEMMA NumberAppend ==
  ASSUME NEW b \in Nat, NEW ds \in Seq(Nat), NEW d \in Nat
  PROVE  Number(ds, b) \in Nat /\ Number(Append(ds, d), b) = Number(ds, b) * b + d
<1>1. PICK k \in Nat : k = Len(ds)
  OBVIOUS
<1>2. PICK more \in Seq(Nat) : more = Append(ds, d)
  BY AppendProperties
<1>3. PICK n \in Nat : n = k + 1
  OBVIOUS
<1>4. /\ Len(more) = n /\ more[n] = d
      /\ k \in 0..k /\ k \in 0..Len(ds) /\ k \in 0..n /\ n \in 1..n /\ n - 1 = k
      /\ \A i \in 1..k : i \in 1..n /\ more[i] = ds[i]
  BY <1>1, <1>2, <1>3, AppendProperties
<1>5. PICK f : Numbers(f, ds, b, k) /\ Number(ds, b) = f[k]
  BY <1>1, NumberIs
<1>6. PICK g : Numbers(g, more, b, n) /\ Number(more, b) = g[n]
  BY <1>4, NumberIs
<1>7. f[k] \in Nat /\ Chain(f, k, 0, NumberSteps(ds, b, k), Nat)
  BY <1>1, <1>4, <1>5, NumberChain DEF Numbers
<1>8. g[0] = 0 /\ \A i \in 1..k : g[i] = g[i - 1] * b + ds[i]
  BY <1>4, <1>6 DEF Numbers
<1>9. Links(g, k, 0, NumberSteps(ds, b, k), Nat)
  <2>1. \A i \in 1..k, x \in Nat : NumberSteps(ds, b, k)[i][x] = x * b + ds[i]
    BY DEF NumberSteps
  <2> QED
    BY ONLY <1>8, <2>1 DEF Links
<1>10. \A i \in 0..k : g[i] = f[i]
  BY <1>4, <1>7, <1>9, ChainAgrees
<1>11. g[n] = g[k] * b + d
  BY <1>4, <1>6 DEF Numbers
<1> QED
  BY <1>2, <1>4, <1>5, <1>6, <1>7, <1>10, <1>11

\* Another digit in front leaves the last digits alone, and another at the end
\* is the remainder.
LEMMA DigitsShape ==
  ASSUME NEW b \in Nat \ {0}, NEW n \in Nat, NEW k \in Nat
  PROVE  /\ Digits(n, k, b) \in Seq(0..(b - 1)) /\ Digits(n, k, b) \in Seq(Nat)
         /\ Len(Digits(n, k, b)) = k
<1>1. ASSUME NEW i \in 1..k PROVE (n \div Power(b, k - i)) % b \in 0..(b - 1)
  <2>1. k - i \in Nat
    OBVIOUS
  <2>2. PICK p \in Nat \ {0} : p = Power(b, k - i)
    BY <2>1, PowerPositive
  <2>3. n \in Int
    OBVIOUS
  <2>4. n \div p \in Int
    BY <2>3, Division
  <2>5. (n \div p) % b \in 0..(b - 1)
    BY <2>4, Division
  <2> QED
    BY <2>2, <2>5
<1>2. Digits(n, k, b) \in [1..k -> 0..(b - 1)]
  BY <1>1 DEF Digits
<1>3. 0..(b - 1) \subseteq Nat
  OBVIOUS
<1> QED
  BY <1>2, <1>3

LEMMA DivisionNat ==
  ASSUME NEW n \in Nat, NEW b \in Nat \ {0}
  PROVE  n \div b \in Nat /\ n % b \in Nat
<1> DEFINE q == n \div b
           r == n % b
<1>1. q \in Int /\ r \in 0..(b - 1) /\ n = b * q + r
  BY Division
<1> HIDE DEF q, r
<1>2. q >= 0
  <2> SUFFICES ASSUME q <= -1 PROVE FALSE
    BY <1>1
  <2>1. b * q <= -b
    BY <1>1
  <2> QED
    BY <1>1, <2>1
<1> QED
  BY <1>1, <1>2 DEF q, r

LEMMA DigitsAppend ==
  ASSUME NEW b \in Nat \ {0}, NEW n \in Nat, NEW k \in Nat
  PROVE  Digits(n, k + 1, b) = Append(Digits(n \div b, k, b), n % b)
<1> DEFINE d == Digits(n, k + 1, b)
           e == Digits(n \div b, k, b)
<1>1. n \div b \in Nat
  BY DivisionNat
<1>2. d \in Seq(Nat) /\ Len(d) = k + 1 /\ e \in Seq(Nat) /\ Len(e) = k
  <2>1. k + 1 \in Nat
    OBVIOUS
  <2> QED
    BY <1>1, <2>1, DigitsShape
<1>3. d[k + 1] = n % b
  <2>1. d[k + 1] = (n \div Power(b, (k + 1) - (k + 1))) % b
    BY DEF Digits
  <2>2. (k + 1) - (k + 1) = 0 /\ Power(b, 0) = 1
    BY PowerZero
  <2>3. n \div 1 = n
    OBVIOUS
  <2> QED
    BY <2>1, <2>2, <2>3
<1>4. ASSUME NEW i \in 1..k PROVE d[i] = e[i]
  <2>1. d[i] = (n \div Power(b, (k + 1) - i)) % b /\ e[i] = ((n \div b) \div Power(b, k - i)) % b
    BY DEF Digits
  <2> DEFINE p == Power(b, k - i)
  <2>2. k - i \in Nat /\ (k + 1) - i = (k - i) + 1
    OBVIOUS
  <2>3. p \in Nat \ {0} /\ Power(b, (k + 1) - i) = p * b
    BY <2>2, PowerPositive, PowerNext
  <2>4. p * b = b * p
    BY <2>3
  <2>5. n \div (b * p) = (n \div b) \div p
    <3>1. n \in Int
      OBVIOUS
    <3> HIDE DEF p
    <3> QED
      BY <2>3, <3>1, TwoSteps
  <2> QED
    BY <2>1, <2>3, <2>4, <2>5
<1> HIDE DEF d, e
<1>5. d = Append(e, n % b)
  <2>1. n % b \in Nat
    BY DivisionNat
  <2> DEFINE g == Append(e, n % b)
  <2>2. g \in Seq(Nat) /\ Len(g) = k + 1 /\ g[k + 1] = n % b
        /\ \A i \in 1..k : g[i] = e[i]
    BY <1>2, <2>1
  <2> HIDE DEF g
  <2>3. \A i \in 1..(k + 1) : d[i] = g[i]
    BY <1>3, <1>4, <2>2
  <2> QED
    BY <1>2, <2>2, <2>3 DEF g
<1> QED
  BY <1>5 DEF d, e

\* The number that the last k digits write.
LEMMA NumberOfDigits ==
  ASSUME NEW b \in Nat \ {0}
  PROVE  \A k \in Nat : \A n \in Nat : Number(Digits(n, k, b), b) = n % Power(b, k)
<1> DEFINE Good(k) == \A n \in Nat : Number(Digits(n, k, b), b) = n % Power(b, k)
           Bad == {k \in Nat : ~Good(k)}
<1> SUFFICES ASSUME Bad # {} PROVE FALSE
  OBVIOUS
<1>1. Bad \in SUBSET Nat
  OBVIOUS
<1> HIDE DEF Bad
<1>2. PICK k \in Bad : \A j \in Bad : k <= j
  BY <1>1, SmallestExists
<1>3. k \in Nat /\ ~Good(k)
  BY <1>2 DEF Bad
<1>4. k # 0
  <2>1. ASSUME NEW n \in Nat PROVE Number(Digits(n, 0, b), b) = n % Power(b, 0)
    <3>1. Digits(n, 0, b) = << >>
      BY DEF Digits
    <3>2. n % 1 = 0
      OBVIOUS
    <3> QED
      BY <3>1, <3>2, PowerZero, NumberEmpty
  <2> QED
    BY <1>3, <2>1
<1>5. k - 1 \in Nat /\ (k - 1) + 1 = k
  BY <1>3, <1>4
<1>6. PICK j \in Nat : j = k - 1
  BY <1>5
<1>7. Good(j)
  <2>1. j \notin Bad
    BY <1>2, <1>5, <1>6
  <2> QED
    BY <2>1 DEF Bad
<1>8. ASSUME NEW n \in Nat PROVE Number(Digits(n, k, b), b) = n % Power(b, k)
  <2> DEFINE q == n \div b
             r == n % b
             p == Power(b, j)
  <2>1. q \in Nat /\ r \in Nat /\ p \in Nat \ {0}
    BY DivisionNat, PowerPositive
  <2>2. Power(b, k) = b * p
    <3>1. Power(b, k) = p * b
      BY <1>5, <1>6, PowerNext
    <3> QED
      BY <2>1, <3>1
  <2>3. Digits(n, k, b) = Append(Digits(q, j, b), r)
    BY <1>5, <1>6, DigitsAppend
  <2>4. Digits(q, j, b) \in Seq(Nat)
    BY <2>1, DigitsShape
  <2>5. Number(Digits(q, j, b), b) = q % p
    BY <1>7, <2>1
  <2>6. n % (b * p) = b * (q % p) + r
    <3>1. n \in Int
      OBVIOUS
    <3> HIDE DEF p
    <3> QED
      BY <2>1, <3>1, TwoSteps
  <2>7. q % p \in Nat
    BY <2>1, DivisionNat
  <2> HIDE DEF q, r, p
  <2>8. Number(Digits(n, k, b), b) = (q % p) * b + r
    BY <2>1, <2>3, <2>4, <2>5, NumberAppend
  <2>9. (q % p) * b = b * (q % p)
    BY <2>7
  <2> QED
    BY <2>2, <2>6, <2>8, <2>9
<1> QED
  BY <1>3, <1>8

LEMMA PowerDivides ==
  ASSUME NEW b \in Nat \ {0}, NEW k \in Nat
  PROVE  \A j \in Nat : \E x \in Nat : Power(b, k + j) = Power(b, k) * x
<1> DEFINE Good(j) == \E x \in Nat : Power(b, k + j) = Power(b, k) * x
           Bad == {j \in Nat : ~Good(j)}
<1> SUFFICES ASSUME Bad # {} PROVE FALSE
  OBVIOUS
<1>1. Bad \in SUBSET Nat
  OBVIOUS
<1> HIDE DEF Bad
<1>2. PICK j \in Bad : \A i \in Bad : j <= i
  BY <1>1, SmallestExists
<1>3. j \in Nat /\ ~Good(j)
  BY <1>2 DEF Bad
<1>4. PICK p \in Nat : p = Power(b, k)
  BY PowerPositive
<1>5. j # 0
  <2>1. k + 0 = k /\ p = p * 1
    BY <1>4
  <2> QED
    BY <1>3, <1>4, <2>1
<1>6. PICK i \in Nat : i + 1 = j
  <2>1. j - 1 \in Nat /\ (j - 1) + 1 = j
    BY <1>3, <1>5
  <2> QED
    BY <2>1
<1>7. Good(i)
  <2>1. ~(j <= i)
    BY <1>6
  <2>2. i \notin Bad
    BY <1>2, <2>1
  <2> QED
    BY <2>2 DEF Bad
<1>8. PICK x \in Nat : Power(b, k + i) = p * x
  BY <1>4, <1>7
<1>9. k + i \in Nat /\ (k + i) + 1 = k + j
  BY <1>6
<1>10. Power(b, k + j) = (p * x) * b
  BY <1>8, <1>9, PowerNext
<1>11. (p * x) * b = p * (x * b) /\ x * b \in Nat
  BY <1>4, <1>8
<1> QED
  BY <1>3, <1>4, <1>10, <1>11

\* A digit in front that is zero changes nothing.
LEMMA LeadingZero ==
  ASSUME NEW b \in Nat \ {0}, NEW k \in Nat, NEW n \in Nat, n < Power(b, k)
  PROVE  <<0>> \o Digits(n, k, b) = Digits(n, k + 1, b)
<1>1. PICK ds \in Seq(Nat) : ds = Digits(n, k, b) /\ Len(ds) = k
  BY DigitsShape
<1>2. PICK p \in Nat \ {0} : p = Power(b, k)
  BY PowerPositive
<1>3. PICK m \in Nat : m = k + 1
  OBVIOUS
<1>4. PICK es \in Seq(Nat) : es = Digits(n, m, b) /\ Len(es) = m
  BY DigitsShape
<1>5. PICK zs \in Seq(Nat) : zs = <<0>>
  <2>1. <<0>> \in Seq(Nat)
    BY SMT
  <2> QED
    BY ONLY <2>1
<1>6. PICK fs \in Seq(Nat) : fs = zs \o ds
  BY ConcatProperties
<1>7. Len(zs) = 1 /\ zs[1] = 0
  BY <1>5
<1>8. Len(fs) = m /\ \A i \in 1..m : fs[i] = IF i = 1 THEN 0 ELSE ds[i - 1]
  <2>1. /\ Len(fs) = Len(zs) + Len(ds)
        /\ \A i \in 1..(Len(zs) + Len(ds)) :
             fs[i] = IF i <= Len(zs) THEN zs[i] ELSE ds[i - Len(zs)]
    BY <1>6, ConcatProperties
  <2>2. Len(zs) + Len(ds) = m
    BY <1>1, <1>3, <1>7
  <2> QED
    BY <1>3, <1>7, <2>1, <2>2
<1>9. ASSUME NEW i \in 1..m PROVE es[i] = fs[i]
  <2>1. es[i] = (n \div Power(b, m - i)) % b
    BY <1>4 DEF Digits
  <2>2. CASE i = 1
    <3>1. m - i = k
      BY <1>3, <2>2
    <3>2. n \div p = 0
      <4>1. n \in 0..(p - 1) /\ p * 0 + n = n /\ 0 \in Int
        BY <1>2
      <4>2. (p * 0 + n) \div p = 0
        BY <4>1, Unique
      <4> QED
        BY <4>1, <4>2
    <3>3. 0 % b = 0
      OBVIOUS
    <3> QED
      BY <1>2, <1>8, <2>1, <2>2, <3>1, <3>2, <3>3
  <2>3. CASE i # 1
    <3>1. i - 1 \in 1..k /\ k - (i - 1) = m - i
      BY <1>3, <2>3
    <3>2. ds[i - 1] = (n \div Power(b, k - (i - 1))) % b
      BY <1>1, <3>1 DEF Digits
    <3> QED
      BY <1>8, <2>1, <2>3, <3>1, <3>2
  <2> QED
    BY <2>2, <2>3
<1>10. es = fs
  BY <1>4, <1>8, <1>9
<1> QED
  BY <1>1, <1>3, <1>4, <1>5, <1>6, <1>10

\* The last digits of the digits.
LEMMA LastDigits ==
  ASSUME NEW b \in Nat \ {0}, NEW n \in Nat, NEW k \in Nat, NEW s \in 1..(k + 1)
  PROVE  SubSeq(Digits(n, k, b), s, k) = Digits(n, k + 1 - s, b)
<1>1. PICK ds \in Seq(Nat) : ds = Digits(n, k, b) /\ Len(ds) = k
  BY DigitsShape
<1>2. PICK m \in Nat : m = k + 1 - s
  OBVIOUS
<1>3. PICK es \in Seq(Nat) : es = Digits(n, m, b) /\ Len(es) = m
  BY DigitsShape
<1>4. /\ s \in Int /\ k \in Int
      /\ \A i \in s..k : ds[i] \in Nat
      /\ m = IF s <= k THEN k - s + 1 ELSE 0
  BY <1>1, <1>2
<1>5. PICK fs \in Seq(Nat) :
        /\ fs = SubSeq(ds, s, k) /\ Len(fs) = m
        /\ \A i \in 1..m : fs[i] = ds[s + i - 1]
  <2>1. /\ SubSeq(ds, s, k) \in Seq(Nat)
        /\ Len(SubSeq(ds, s, k)) = IF s <= k THEN k - s + 1 ELSE 0
        /\ \A i \in 1..(k - s + 1) : SubSeq(ds, s, k)[i] = ds[s + i - 1]
    BY <1>4, SubSeqProperties
  <2>2. k - s + 1 = m
    BY <1>2
  <2> QED
    BY <1>4, <2>1, <2>2
<1>6. ASSUME NEW i \in 1..m PROVE es[i] = fs[i]
  <2>1. s + i - 1 \in 1..k /\ k - (s + i - 1) = m - i
    BY <1>2
  <2>2. es[i] = (n \div Power(b, m - i)) % b
    BY <1>3 DEF Digits
  <2>3. ds[s + i - 1] = (n \div Power(b, k - (s + i - 1))) % b
    BY <1>1, <2>1 DEF Digits
  <2> QED
    BY <1>5, <2>1, <2>2, <2>3
<1>7. es = fs
  BY <1>3, <1>5, <1>6
<1> QED
  BY <1>1, <1>2, <1>3, <1>5, <1>7

LEMMA LeastOfIs ==
  ASSUME NEW S \in SUBSET Nat, S # {}
  PROVE  LeastOf(S) \in S /\ \A n \in S : LeastOf(S) <= n
BY SmallestExists DEF LeastOf

-----------------------------------------------------------------------------
(***************************************************************************)
(* Two's complement.  A window is the last k digits of a number that they  *)
(* still tell from every other one.                                        *)
(***************************************************************************)
Digit(v, j) == (v \div Power(Base, j)) % Base

Window(v, k) ==
  v \div Power(Base, k - 1) >= -Half /\ v \div Power(Base, k - 1) < Half

LEMMA BasePower ==
  \A k \in Nat : Power(Base, k) \in Nat \ {0} /\ Power(Base, k + 1) = Power(Base, k) * Base
<1>1. Base \in Nat \ {0}
  BY HalfBase
<1>2. \A k \in Nat : Power(Base, k) \in Nat \ {0}
  BY <1>1, PowerPositive
<1>3. \A k \in Nat : Power(Base, k + 1) = Power(Base, k) * Base
  BY <1>1, PowerNext
<1> QED
  BY <1>2, <1>3

\* The first digit of a window is the quotient, or Base more when it is
\* negative.
LEMMA WindowDigit ==
  ASSUME NEW v \in Int, NEW k \in Nat \ {0}, Window(v, k)
  PROVE  LET q == v \div Power(Base, k - 1)
         IN  /\ q \in Int
             /\ q >= 0 <=> v >= 0
             /\ Digit(v, k - 1) = IF v < 0 THEN q + Base ELSE q
             /\ Digit(v, k - 1) >= Half <=> v < 0
<1>1. PICK j \in Nat : j = k - 1
  OBVIOUS
<1>2. PICK p \in Nat \ {0} : p = Power(Base, j)
  BY BasePower
<1>3. PICK q \in Int : q = v \div p
  BY <1>2, Division
<1>4. v % p \in 0..(p - 1) /\ v = p * q + (v % p)
  BY <1>2, <1>3, Division
<1>5. q >= -Half /\ q < Half
  BY <1>1, <1>2, <1>3 DEF Window
<1>6. q >= 0 => p * q >= 0
  BY <1>2, <1>3
<1>7. q < 0 => p * q <= -p
  BY <1>2, <1>3
<1>8. p * q \in Int
  BY <1>2, <1>3
<1>9. q >= 0 <=> v >= 0
  <2>1. PICK x \in Int : x = p * q
    BY <1>8
  <2>2. PICK y \in 0..(p - 1) : y = v % p
    BY <1>4
  <2>3. v = x + y /\ (q >= 0 => x >= 0) /\ (q < 0 => x <= -p)
    BY <1>4, <1>6, <1>7, <2>1, <2>2
  <2>4. (x >= 0 => v >= 0) /\ (x <= -p => v < 0)
    BY ONLY <2>3, x \in Int, p \in Nat \ {0}, y \in 0..(p - 1)
  <2>5. q < 0 \/ q >= 0
    BY <1>3
  <2>6. v < 0 <=> ~(v >= 0)
    OBVIOUS
  <2> QED
    BY ONLY <2>3, <2>4, <2>5, <2>6
<1>10. CASE v >= 0
  <2>1. q \in 0..(Base - 1) /\ Base * 0 + q = q /\ Base \in Nat \ {0}
    BY <1>3, <1>5, <1>9, <1>10, HalfBase
  <2>2. (Base * 0 + q) % Base = q
    BY <2>1, Unique
  <2>3. Digit(v, j) = q
    BY <1>2, <1>3, <2>1, <2>2 DEF Digit
  <2> QED
    BY <1>1, <1>2, <1>3, <1>5, <1>9, <1>10, <2>3, HalfBase
<1>11. CASE v < 0
  <2>1. q + Base \in 0..(Base - 1) /\ Base * (-1) + (q + Base) = q /\ Base \in Nat \ {0} /\ -1 \in Int
    BY <1>3, <1>5, <1>9, <1>11, HalfBase
  <2>2. (Base * (-1) + (q + Base)) % Base = q + Base
    BY <2>1, Unique
  <2>3. Digit(v, j) = q + Base
    BY <1>2, <1>3, <2>1, <2>2 DEF Digit
  <2> QED
    BY <1>1, <1>2, <1>3, <1>5, <1>9, <1>11, <2>3, HalfBase
<1> QED
  BY <1>10, <1>11

LEMMA DivideTwice ==
  \A n \in Int, x \in Nat \ {0}, b \in Nat \ {0} : n \div (x * b) = (n \div x) \div b
BY TwoSteps

LEMMA RemainderTwice ==
  \A n \in Int, x \in Nat \ {0}, b \in Nat \ {0} :
    n % (x * b) = x * ((n \div x) % b) + (n % x)
BY TwoSteps

\* An octet that only repeats the sign of the next one can go.
LEMMA WindowShrinks ==
  ASSUME NEW v \in Int, NEW j \in Nat \ {0}, Window(v, j + 1),
         \/ Digit(v, j) = 0 /\ Digit(v, j - 1) < Half
         \/ Digit(v, j) = Base - 1 /\ Digit(v, j - 1) >= Half
  PROVE  Window(v, j)
<1>1. PICK i \in Nat : i = j - 1 /\ i + 1 = j
  OBVIOUS
<1>2. PICK p \in Nat \ {0} : p = Power(Base, i)
  BY BasePower
<1>3. PICK q \in Int : q = v \div p
  BY <1>2, Division
<1>4. PICK k \in Nat \ {0} : k = j + 1 /\ k - 1 = j
  OBVIOUS
<1>5. Base \in Nat \ {0}
  BY HalfBase
<1>6. PICK t \in Int : t = v \div Power(Base, j)
  BY BasePower, Division
<1>7. t = q \div Base
  <2>1. Power(Base, j) = p * Base
    BY <1>1, <1>2, BasePower
  <2>2. v \div (p * Base) = (v \div p) \div Base
    BY ONLY <1>5, v \in Int, p \in Nat \ {0}, DivideTwice
  <2> QED
    BY <1>3, <1>6, <2>1, <2>2
<1>8. /\ Digit(v, j - 1) = q % Base /\ q % Base \in 0..(Base - 1)
      /\ q = Base * t + (q % Base)
  <2>1. Digit(v, j - 1) = q % Base
    BY <1>1, <1>2, <1>3 DEF Digit
  <2> QED
    BY <1>3, <1>5, <1>7, <2>1, Division
<1>9. /\ Digit(v, j) = IF v < 0 THEN t + Base ELSE t
      /\ Digit(v, j) >= Half <=> v < 0
  BY <1>4, <1>6, WindowDigit
<1>10. q >= -Half /\ q < Half
  <2>1. CASE Digit(v, j) = 0 /\ Digit(v, j - 1) < Half
    <3>1. t = 0
      BY <1>6, <1>9, <2>1, HalfBase
    <3> QED
      BY <1>8, <2>1, <3>1, HalfBase
  <2>2. CASE Digit(v, j) = Base - 1 /\ Digit(v, j - 1) >= Half
    <3>1. t = -1
      BY <1>6, <1>9, <2>2, HalfBase
    <3>2. q = (q % Base) - Base
      BY <1>3, <1>5, <1>8, <3>1
    <3> QED
      BY <1>8, <2>2, <3>2, HalfBase
  <2> QED
    BY <2>1, <2>2
<1> QED
  BY <1>1, <1>2, <1>3, <1>10 DEF Window

\* The number that a window writes.
LEMMA WindowNumber ==
  ASSUME NEW v \in Int, NEW k \in Nat \ {0}, Window(v, k)
  PROVE  v % Power(Base, k) = IF v < 0 THEN v + Power(Base, k) ELSE v
<1>1. PICK j \in Nat : j = k - 1 /\ j + 1 = k
  OBVIOUS
<1>2. PICK p \in Nat \ {0} : p = Power(Base, j)
  BY BasePower
<1>3. PICK w \in Nat \ {0} : w = Power(Base, k)
  BY BasePower
<1>4. w = p * Base
  BY <1>1, <1>2, <1>3, BasePower
<1>5. PICK q \in Int : q = v \div p
  BY <1>2, Division
<1>6. v % p \in 0..(p - 1) /\ v = p * q + (v % p)
  BY <1>2, <1>5, Division
<1>7. q >= -Half /\ q < Half /\ (q >= 0 <=> v >= 0)
  BY <1>1, <1>2, <1>5, WindowDigit DEF Window
<1>8. q + Base >= 0 /\ q <= Base - 1
  BY <1>5, <1>7, HalfBase
<1>9. p * (q + Base) >= 0 /\ p * (Base - 1 - q) >= 0
  BY <1>2, <1>5, <1>8, HalfBase
<1>10. p * (q + Base) = p * q + w /\ p * (Base - 1 - q) = w - p - p * q /\ p * q \in Int
  BY <1>2, <1>4, <1>5, HalfBase
<1>11. v >= -w /\ v < w
  BY <1>2, <1>3, <1>6, <1>9, <1>10
<1>12. CASE v >= 0
  <2>1. v \in 0..(w - 1) /\ w * 0 + v = v
    BY <1>3, <1>11, <1>12
  <2>2. (w * 0 + v) % w = v
    BY <2>1, Unique
  <2> QED
    BY <1>3, <1>12, <2>1, <2>2
<1>13. CASE v < 0
  <2>1. v + w \in 0..(w - 1) /\ w * (-1) + (v + w) = v /\ -1 \in Int
    BY <1>3, <1>11, <1>13
  <2>2. (w * (-1) + (v + w)) % w = v + w
    BY <2>1, Unique
  <2> QED
    BY <1>3, <1>13, <2>1, <2>2
<1> QED
  BY <1>12, <1>13

\* A multiple of a power changes none of the digits below it.
LEMMA SameDigits ==
  ASSUME NEW w \in Nat, NEW m \in Int, NEW e \in Int, NEW v \in Int,
         v = m - Power(Base, w) * e, NEW k \in 0..w
  PROVE  /\ v % Power(Base, k) = m % Power(Base, k)
         /\ k > 0 => Digit(v, k - 1) = Digit(m, k - 1)
<1>1. ASSUME NEW i \in 0..w
      PROVE  v % Power(Base, i) = m % Power(Base, i)
  <2>1. PICK j \in Nat : i \in Nat /\ i + j = w
    <3>1. w - i \in Nat /\ i \in Nat /\ i + (w - i) = w
      OBVIOUS
    <3> QED
      BY <3>1
  <2>2. Base \in Nat \ {0}
    BY HalfBase
  <2>3. PICK x \in Nat : Power(Base, w) = Power(Base, i) * x
    <3>1. \E x \in Nat : Power(Base, i + j) = Power(Base, i) * x
      BY <2>1, <2>2, PowerDivides
    <3> QED
      BY <2>1, <3>1
  <2>4. PICK p \in Nat \ {0} : p = Power(Base, i)
    BY BasePower
  <2>5. PICK q \in Int : q = m \div p
    BY <2>4, Division
  <2>6. PICK r \in 0..(p - 1) : r = m % p
    BY <2>4, Division
  <2>7. m = p * q + r
    BY <2>4, <2>5, <2>6, Division
  <2>8. PICK y \in Int : y = x * e
    BY <2>3
  <2>9. p * (q - y) + r = v
    <3>1. (p * x) * e = p * y
      BY <2>3, <2>4, <2>8
    <3>2. p * (q - y) = p * q - p * y /\ p * q \in Int /\ p * y \in Int
      BY <2>4, <2>5, <2>8
    <3>3. v = m - p * y
      BY <2>3, <2>4, <3>1
    <3>4. PICK a \in Int : a = p * q
      BY <3>2
    <3>5. PICK c \in Int : c = p * y
      BY <3>2
    <3>6. p * (q - y) = a - c /\ v = (a + r) - c
      BY <2>7, <3>2, <3>3, <3>4, <3>5
    <3> QED
      BY <2>6, <3>4, <3>5, <3>6
  <2>10. q - y \in Int
    BY <2>5, <2>8
  <2>11. v % p = r
    BY <2>4, <2>9, <2>10, Unique
  <2> QED
    BY <2>4, <2>6, <2>11
<1>2. ASSUME k > 0 PROVE Digit(v, k - 1) = Digit(m, k - 1)
  <2>1. PICK i \in 0..w : i = k - 1 /\ i + 1 = k
    BY <1>2
  <2>2. PICK p \in Nat \ {0} : p = Power(Base, i)
    BY <2>1, BasePower
  <2>3. Power(Base, k) = p * Base /\ Base \in Nat \ {0}
    BY <2>1, <2>2, BasePower, HalfBase
  <2>4. ASSUME NEW n \in Int
        PROVE  /\ n % (p * Base) = p * Digit(n, i) + (n % p)
               /\ Digit(n, i) \in Int /\ n % p \in 0..(p - 1)
    <3>1. n % (p * Base) = p * ((n \div p) % Base) + (n % p)
      BY ONLY <2>3, n \in Int, p \in Nat \ {0}, RemainderTwice
    <3>2. n \div p \in Int /\ n % p \in 0..(p - 1)
      BY <2>2, Division
    <3>3. (n \div p) % Base \in Int
      BY <2>3, <3>2, Division
    <3> QED
      BY <2>2, <3>1, <3>2, <3>3 DEF Digit
  <2>5. v % (p * Base) = m % (p * Base) /\ v % p = m % p
    BY <1>1, <2>1, <2>2, <2>3
  <2>6. PICK d \in Int : d = Digit(v, i)
    BY <2>4
  <2>7. PICK c \in Int : c = Digit(m, i)
    BY <2>4
  <2>8. PICK r \in 0..(p - 1) : r = m % p
    BY <2>4
  <2>9. p * d + r = p * c + r
    BY <2>4, <2>5, <2>6, <2>7, <2>8
  <2>10. (p * d + r) \div p = d /\ (p * c + r) \div p = c
    BY <2>2, <2>6, <2>7, <2>8, Unique
  <2> QED
    BY <2>1, <2>6, <2>7, <2>9, <2>10
<1> QED
  BY <1>1, <1>2

LEMMA QuotientBounds ==
  ASSUME NEW v \in Int, NEW p \in Nat \ {0}, NEW h \in Nat
  PROVE  /\ v >= -(h * p) => v \div p >= -h
         /\ v < h * p => v \div p < h
<1>1. PICK q \in Int : q = v \div p
  BY Division
<1>2. PICK r \in 0..(p - 1) : r = v % p
  BY Division
<1>3. v = p * q + r
  BY <1>1, <1>2, Division
<1>4. p * q \in Int /\ h * p \in Int
  BY <1>1
<1>5. ASSUME v >= -(h * p), q < -h PROVE FALSE
  <2>1. p * (-h - 1 - q) >= 0
    BY <1>1, <1>5
  <2>2. p * (-h - 1 - q) = -(h * p) - p - p * q
    BY <1>1
  <2> QED
    BY <1>2, <1>3, <1>4, <1>5, <2>1, <2>2
<1>6. ASSUME v < h * p, q >= h PROVE FALSE
  <2>1. p * (q - h) >= 0
    BY <1>1, <1>6
  <2>2. p * (q - h) = p * q - h * p
    BY <1>1
  <2> QED
    BY <1>2, <1>3, <1>4, <1>6, <2>1, <2>2
<1> QED
  BY <1>1, <1>5, <1>6

-----------------------------------------------------------------------------
(***************************************************************************)
(* Integers.                                                               *)
(***************************************************************************)
\* What is left of n once its contents have been written, read with its sign.
Kept(n, signed) ==
  LET low == n % Power(Base, WordOctets)
  IN  IF signed /\ Negative(n) THEN low - Power(Base, WordOctets) ELSE low

\* The octets of IntegerContents() before the redundant ones go, and the first
\* that may stay.
Padded(n) == <<0>> \o Digits(n % Power(Base, WordOctets), WordOctets, Base)
Leading(signed) == IF signed THEN 2 ELSE 1

LEMMA Widths ==
  /\ WordOctets \in Nat \ {0} /\ LongOctets \in Nat \ {0} /\ WordOctets <= LongOctets
  /\ Counter64Octets \in Nat \ {0}
BY CodecAssumption DEF CodecAssumption

LEMMA PaddedIs ==
  ASSUME NEW n \in Nat
  PROVE  LET m == n % Power(Base, WordOctets)
         IN  /\ m \in Nat /\ m < Power(Base, WordOctets)
             /\ Padded(n) = Digits(m, WordOctets + 1, Base)
             /\ \A i \in 1..(WordOctets + 1) : Padded(n)[i] = Digit(m, WordOctets + 1 - i)
<1>1. PICK w \in Nat \ {0} : w = WordOctets
  BY Widths
<1>2. PICK p \in Nat \ {0} : p = Power(Base, w)
  BY BasePower
<1>3. PICK m \in 0..(p - 1) : m = n % p
  <2>1. n \in Int
    OBVIOUS
  <2> QED
    BY <2>1, Division
<1>4. m \in Nat /\ m < p /\ w \in Nat /\ Base \in Nat \ {0}
  BY <1>1, <1>2, <1>3, HalfBase
<1>5. <<0>> \o Digits(m, w, Base) = Digits(m, w + 1, Base)
  BY <1>2, <1>4, LeadingZero
<1>6. Padded(n) = Digits(m, w + 1, Base)
  BY <1>1, <1>2, <1>3, <1>5 DEF Padded
<1>7. \A i \in 1..(w + 1) : Digits(m, w + 1, Base)[i] = Digit(m, w + 1 - i)
  BY DEF Digits, Digit
<1> QED
  BY <1>1, <1>2, <1>3, <1>4, <1>6, <1>7

\* Before any octet goes, the octets that may stay are a window.
LEMMA FirstWindow ==
  ASSUME NEW n \in Nat, NEW signed \in BOOLEAN
  PROVE  /\ Kept(n, signed) \in Int
         /\ Window(Kept(n, signed), WordOctets + 2 - Leading(signed))
<1>1. PICK w \in Nat \ {0} : w = WordOctets
  BY Widths
<1>2. PICK j \in Nat : j + 1 = w
  <2>1. w - 1 \in Nat /\ (w - 1) + 1 = w
    OBVIOUS
  <2> QED
    BY <2>1
<1>3. PICK p \in Nat \ {0} : p = Power(Base, w)
  BY BasePower
<1>4. PICK x \in Nat \ {0} : x = Power(Base, j)
  BY BasePower
<1>5. PICK m \in 0..(p - 1) : m = n % p
  <2>1. n \in Int
    OBVIOUS
  <2> QED
    BY <2>1, Division
<1>6. PICK y \in Int : y = Half * x
  BY <1>4, HalfBase
<1>7. p = y + y
  <2>1. p = x * Base
    BY <1>2, <1>3, <1>4, BasePower
  <2> QED
    BY <1>4, <1>6, <2>1, HalfBase
<1>8. Negative(n) <=> m * 2 >= p
  BY <1>1, <1>3, <1>5 DEF Negative
<1>9. PICK v \in Int : v = IF signed /\ Negative(n) THEN m - p ELSE m
  BY <1>3, <1>5
<1>10. Kept(n, signed) = v
  BY <1>1, <1>3, <1>5, <1>9 DEF Kept
<1>11. CASE signed
  <2>1. v >= -y /\ v < y
    <3>1. v = IF m * 2 >= p THEN m - p ELSE m
      BY <1>8, <1>9, <1>11
    <3>2. m \in Int /\ m >= 0 /\ m < p /\ p \in Int
      BY <1>3, <1>5
    <3> QED
      BY ONLY <1>7, <3>1, <3>2, y \in Int
  <2>2. v \div x >= -Half /\ v \div x < Half
    BY <1>4, <1>6, <2>1, HalfBase, QuotientBounds
  <2>3. WordOctets + 2 - Leading(signed) = w /\ w - 1 = j
    BY <1>1, <1>2, <1>11 DEF Leading
  <2>4. Window(v, w)
    BY <1>4, <2>2, <2>3 DEF Window
  <2> QED
    BY <1>10, <2>3, <2>4
<1>12. CASE ~signed
  <2>1. v \in 0..(p - 1) /\ p * 0 + v = v
    BY <1>3, <1>5, <1>9, <1>12
  <2>2. (p * 0 + v) \div p = 0
    BY <2>1, Unique
  <2>3. WordOctets + 2 - Leading(signed) = w + 1 /\ (w + 1) - 1 = w
    BY <1>1, <1>12 DEF Leading
  <2>4. Window(v, w + 1)
    <3>1. v \div Power(Base, (w + 1) - 1) = 0
      BY <1>3, <2>1, <2>2, <2>3
    <3> QED
      BY <3>1, HalfBase DEF Window
  <2> QED
    BY <1>10, <2>3, <2>4
<1> QED
  BY <1>11, <1>12

\* Every octet that goes leaves a window.
LEMMA NextWindow ==
  ASSUME NEW n \in Nat, NEW signed \in BOOLEAN,
         NEW i \in Leading(signed)..WordOctets,
         Redundant(Padded(n), i, signed),
         Window(Kept(n, signed), WordOctets + 2 - i)
  PROVE  Window(Kept(n, signed), WordOctets + 1 - i)
<1>1. PICK w \in Nat \ {0} : w = WordOctets
  BY Widths
<1>2. i \in 1..w /\ (signed => i >= 2)
  BY <1>1 DEF Leading
<1>3. PICK j \in Nat \ {0} : j = w + 1 - i
  BY <1>2
<1>4. /\ w + 2 - i = j + 1 /\ w + 1 - (i + 1) = j - 1
      /\ i \in 1..(w + 1) /\ i + 1 \in 1..(w + 1)
  BY <1>1, <1>2, <1>3
<1>5. PICK m \in Nat : m = n % Power(Base, WordOctets)
  BY PaddedIs
<1>6. Padded(n)[i] = Digit(m, j) /\ Padded(n)[i + 1] = Digit(m, j - 1)
  BY <1>1, <1>3, <1>4, <1>5, PaddedIs
<1>7. PICK v \in Int : v = Kept(n, signed)
  BY FirstWindow
<1>8. Digit(v, j) = Digit(m, j) /\ Digit(v, j - 1) = Digit(m, j - 1)
  <2>1. CASE signed
    <3>1. PICK e \in Int : v = m - Power(Base, w) * e
      <4>1. PICK p \in Nat : p = Power(Base, w)
        BY <1>1, BasePower
      <4>2. v = IF Negative(n) THEN m - p ELSE m
        BY <1>1, <1>5, <1>7, <2>1, <4>1 DEF Kept
      <4>3. m - p * 1 = m - p /\ m - p * 0 = m
        BY <4>1
      <4> QED
        BY <4>1, <4>2, <4>3
    <3>2. j \in 0..w /\ j + 1 \in 0..w /\ j > 0 /\ j + 1 > 0 /\ (j + 1) - 1 = j
      BY <1>1, <1>2, <1>3, <2>1
    <3>3. m \in Int /\ w \in Nat
      OBVIOUS
    <3>4. ASSUME NEW h \in 0..w, h > 0 PROVE Digit(v, h - 1) = Digit(m, h - 1)
      BY <3>1, <3>3, <3>4, SameDigits
    <3> QED
      BY <3>2, <3>4
  <2>2. CASE ~signed
    <3>1. v = m
      BY <1>5, <1>7, <2>2 DEF Kept
    <3> QED
      BY <3>1
  <2> QED
    BY <2>1, <2>2
<1>9. \/ Digit(v, j) = 0 /\ Digit(v, j - 1) < Half
      \/ Digit(v, j) = Base - 1 /\ Digit(v, j - 1) >= Half
  BY <1>6, <1>8 DEF Redundant
<1>10. Window(v, j + 1)
  BY <1>1, <1>4, <1>7
<1>11. Window(v, j)
  BY <1>9, <1>10, WindowShrinks
<1> QED
  BY <1>1, <1>3, <1>7, <1>11

\* IntegerType::serialise() keeps a window of the number.
LEMMA ContentsAreAWindow ==
  ASSUME NEW n \in Nat, NEW signed \in BOOLEAN
  PROVE  \E k \in 1..(WordOctets + 2 - Leading(signed)) :
           /\ Window(Kept(n, signed), k)
           /\ IntegerContents(n, signed) = Digits(n % Power(Base, WordOctets), k, Base)
<1>1. PICK w \in Nat \ {0} : w = WordOctets
  BY Widths
<1>2. PICK first \in 1..2 : first = Leading(signed)
  BY DEF Leading
<1> DEFINE Stays == {i \in first..(w + 1) : i = w + 1 \/ ~Redundant(Padded(n), i, signed)}
<1>3. Stays \in SUBSET Nat /\ Stays # {}
  <2>1. w + 1 \in Stays
    BY <1>1, <1>2
  <2>2. first..(w + 1) \subseteq Nat
    BY <1>2
  <2> QED
    BY <2>1, <2>2
<1>4. IntegerContents(n, signed) = SubSeq(Padded(n), LeastOf(Stays), w + 1)
  BY <1>1, <1>2 DEF IntegerContents, Padded, Leading
<1>5. PICK s \in Stays : s = LeastOf(Stays) /\ \A i \in Stays : s <= i
  BY <1>3, LeastOfIs
<1>6. s \in first..(w + 1) /\ \A i \in first..(w + 1) : i < s => i # w + 1 /\ Redundant(Padded(n), i, signed)
  <2>1. s \in first..(w + 1)
    OBVIOUS
  <2>2. ASSUME NEW i \in first..(w + 1), i < s
        PROVE  i # w + 1 /\ Redundant(Padded(n), i, signed)
    <3>1. ~(s <= i)
      BY <1>2, <2>1, <2>2
    <3>2. i \notin Stays
      BY <1>5, <3>1
    <3> QED
      BY <3>2
  <2> QED
    BY <2>1, <2>2
<1> HIDE DEF Stays
<1> DEFINE Bad == {i \in first..s : ~Window(Kept(n, signed), w + 2 - i)}
<1>7. Bad = {}
  <2> SUFFICES ASSUME Bad # {} PROVE FALSE
    OBVIOUS
  <2>1. Bad \in SUBSET Nat
    BY <1>2
  <2> HIDE DEF Bad
  <2>2. PICK i \in Bad : \A h \in Bad : i <= h
    BY <2>1, SmallestExists
  <2>3. i \in first..s /\ ~Window(Kept(n, signed), w + 2 - i)
    BY <2>2 DEF Bad
  <2>4. i # first
    BY <1>1, <1>2, <2>3, FirstWindow
  <2>5. PICK h \in first..w : h = i - 1 /\ h < s
    <3>1. i - 1 \in first..w /\ i - 1 < s
      BY <1>1, <1>2, <1>6, <2>3, <2>4
    <3> QED
      BY <3>1
  <2>6. h \in first..s /\ h \in first..(w + 1) /\ ~(i <= h)
    BY <1>1, <1>2, <1>6, <2>3, <2>5
  <2>7. h \notin Bad
    BY <2>2, <2>6
  <2>8. Window(Kept(n, signed), w + 2 - h)
    BY <2>6, <2>7 DEF Bad
  <2>9. Redundant(Padded(n), h, signed)
    BY <1>6, <2>5, <2>6
  <2>10. Window(Kept(n, signed), w + 1 - h)
    BY <1>1, <1>2, <2>5, <2>8, <2>9, NextWindow
  <2>11. w + 1 - h = w + 2 - i
    BY <1>1, <1>2, <2>3, <2>5
  <2> QED
    BY <2>3, <2>10, <2>11
<1>8. PICK k \in 1..(w + 2 - first) : k = w + 2 - s
  <2>1. w + 2 - s \in 1..(w + 2 - first)
    BY <1>1, <1>2, <1>6
  <2> QED
    BY <2>1
<1>9. Window(Kept(n, signed), k)
  <2>1. s \in first..s
    BY <1>2, <1>6
  <2> QED
    BY <1>7, <1>8, <2>1
<1>10. PICK m \in Nat : m = n % Power(Base, WordOctets) /\ Padded(n) = Digits(m, w + 1, Base)
  BY <1>1, PaddedIs
<1>11. IntegerContents(n, signed) = Digits(m, k, Base)
  <2>1. PICK l \in Nat : l = w + 1
    BY <1>1
  <2>2. s \in 1..(l + 1) /\ l + 1 - s = k
    BY <1>1, <1>2, <1>6, <1>8, <2>1
  <2>3. SubSeq(Digits(m, l, Base), s, l) = Digits(m, l + 1 - s, Base)
    <3>1. Base \in Nat \ {0}
      BY HalfBase
    <3> QED
      BY <2>2, <3>1, LastDigits
  <2> QED
    BY <1>4, <1>5, <1>10, <2>1, <2>2, <2>3
<1> QED
  BY <1>1, <1>2, <1>8, <1>9, <1>10, <1>11

\* What decode() must return for n once it was serialised as type.
IntegerOf(type, n) ==
  [type |-> type, number |-> IF type = "Integer" THEN StoredNumber(n)
                                                ELSE n % Power(Base, WordOctets)]

\* What IntegerType::serialise() writes, fromBuffer() reads as the low word of
\* the number, and as the same negative number when the type has a sign: the
\* octets that were dropped are those that it restores.
THEOREM IntegersReadBack ==
  ASSUME NEW type \in {"Integer"} \cup Unsigned, NEW n \in Nat
  PROVE  IntegerValue(type, IntegerContents(n, type = "Integer")) = IntegerOf(type, n)
<1>1. PICK w \in Nat \ {0} : w = WordOctets
  BY Widths
<1>2. PICK signed \in BOOLEAN : signed = (type = "Integer")
  OBVIOUS
<1>3. PICK k \in 1..(w + 2 - Leading(signed)) :
        /\ Window(Kept(n, signed), k)
        /\ IntegerContents(n, signed) = Digits(n % Power(Base, w), k, Base)
  BY <1>1, ContentsAreAWindow
<1>4. PICK m \in Nat : m = n % Power(Base, w) /\ m < Power(Base, w)
  BY <1>1, PaddedIs
<1>5. PICK c \in Seq(Nat) : c = Digits(m, k, Base) /\ Len(c) = k
  <2>1. Base \in Nat \ {0} /\ k \in Nat
    BY <1>1, HalfBase DEF Leading
  <2> QED
    BY <2>1, DigitsShape
<1>6. PICK v \in Int : v = Kept(n, signed)
  BY FirstWindow
<1>7. PICK p \in Nat \ {0} : p = Power(Base, w)
  BY <1>1, BasePower
<1>8. PICK x \in Nat \ {0} : x = Power(Base, k)
  BY BasePower
<1>9. /\ v = IF signed /\ Negative(n) THEN m - p ELSE m
      /\ v < 0 <=> signed /\ Negative(n)
  BY <1>1, <1>4, <1>6, <1>7 DEF Kept
<1>10. k \in Nat \ {0} /\ (signed => k <= w) /\ k <= w + 1
  BY <1>1, <1>2 DEF Leading
\* The first octet has the sign.
<1>11. c[1] = Digit(v, k - 1) /\ v % x = m % x
  <2>1. c[1] = Digit(m, k - 1)
    BY <1>5, <1>10 DEF Digits, Digit
  <2>2. CASE signed
    <3>1. PICK e \in Int : v = m - Power(Base, w) * e
      <4>1. m - p * 1 = m - p /\ m - p * 0 = m
        OBVIOUS
      <4> QED
        BY <1>7, <1>9, <4>1
    <3>2. k \in 0..w /\ k > 0 /\ m \in Int /\ w \in Nat
      BY <1>10, <2>2
    <3>3. v % Power(Base, k) = m % Power(Base, k) /\ Digit(v, k - 1) = Digit(m, k - 1)
      BY <3>1, <3>2, SameDigits
    <3> QED
      BY <1>8, <2>1, <3>3
  <2>3. CASE ~signed
    <3>1. v = m
      BY <1>9, <2>3
    <3> QED
      BY <2>1, <3>1
  <2> QED
    BY <2>2, <2>3
<1>12. Window(v, k)
  BY <1>3, <1>6
<1>13. c[1] >= Half <=> v < 0
  BY <1>10, <1>11, <1>12, WindowDigit
<1>14. m % x = IF v < 0 THEN v + x ELSE v
  BY <1>8, <1>10, <1>11, <1>12, WindowNumber
<1>15. Number(c, Base) = m % x
  <2>1. Base \in Nat \ {0} /\ k \in Nat
    BY <1>10, HalfBase
  <2> QED
    BY <1>5, <1>8, <2>1, NumberOfDigits
\* An unsigned encoding of one octet more than a word starts with a zero.
<1>16. ~signed /\ k = w + 1 => c[1] = 0
  <2> SUFFICES ASSUME ~signed, k = w + 1 PROVE c[1] = 0
    OBVIOUS
  <2>1. c[1] = (m \div p) % Base
    <3>1. k - 1 = w
      OBVIOUS
    <3> QED
      BY <1>5, <1>7, <1>10, <3>1 DEF Digits
  <2>2. m \div p = 0
    <3>1. m \in 0..(p - 1) /\ p * 0 + m = m /\ 0 \in Int
      BY <1>4, <1>7
    <3>2. (p * 0 + m) \div p = 0
      BY <3>1, Unique
    <3> QED
      BY <3>1, <3>2
  <2> QED
    BY <2>1, <2>2, HalfBase
<1>17. PICK y \in Nat \ {0} : y = Power(Base, LongOctets)
  BY Widths, BasePower
<1>18. IntegerContents(n, type = "Integer") = c
  BY <1>2, <1>3, <1>4, <1>5
<1>19. IntegerValue(type, c) =
         [type |-> type, number |-> IF signed /\ v < 0 THEN (m % x) + y - x ELSE m % x]
  <2>1. ~(Len(c) = 0 \/ Len(c) > IF signed THEN w ELSE w + 1)
    BY <1>5, <1>10
  <2>2. ~(~signed /\ (c[1] >= Half \/ (Len(c) = w + 1 /\ c[1] # 0)))
    BY <1>5, <1>9, <1>13, <1>16
  <2> QED
    BY <1>1, <1>2, <1>5, <1>8, <1>13, <1>15, <1>17, <2>1, <2>2 DEF IntegerValue
<1>20. (IF signed /\ v < 0 THEN (m % x) + y - x ELSE m % x)
         = IF signed /\ Negative(n) THEN m + y - p ELSE m
  BY <1>6, <1>7, <1>8, <1>9, <1>14, <1>17
<1>21. IntegerOf(type, n).number = IF signed /\ Negative(n) THEN m + y - p ELSE m
  BY <1>1, <1>2, <1>4, <1>7, <1>17 DEF IntegerOf, StoredNumber
<1> QED
  BY <1>18, <1>19, <1>20, <1>21 DEF IntegerOf

-----------------------------------------------------------------------------
(***************************************************************************)
(* Digits without leading zeros.                                           *)
(***************************************************************************)
Size(n, b) == LeastOf({k \in Nat \ {0} : n < Power(b, k)})

LEMMA PowerExceeds ==
  ASSUME NEW b \in Nat, b >= 2
  PROVE  \A k \in Nat : Power(b, k) \in Nat /\ k < Power(b, k)
<1> DEFINE Bad == {k \in Nat : ~(Power(b, k) \in Nat /\ k < Power(b, k))}
<1> SUFFICES ASSUME Bad # {} PROVE FALSE
  OBVIOUS
<1>1. Bad \in SUBSET Nat
  OBVIOUS
<1> HIDE DEF Bad
<1>2. PICK k \in Bad : \A j \in Bad : k <= j
  BY <1>1, SmallestExists
<1>3. k \in Nat /\ ~(Power(b, k) \in Nat /\ k < Power(b, k))
  BY <1>2 DEF Bad
<1>4. k # 0
  BY <1>3, PowerZero
<1>5. PICK j \in Nat : j + 1 = k
  <2>1. k - 1 \in Nat /\ (k - 1) + 1 = k
    BY <1>3, <1>4
  <2> QED
    BY <2>1
<1>6. j \notin Bad
  <2>1. ~(k <= j)
    BY <1>5
  <2> QED
    BY <1>2, <2>1
<1>7. PICK p \in Nat : p = Power(b, j) /\ j < p
  BY <1>6 DEF Bad
<1>8. Power(b, k) = p * b
  BY <1>5, <1>7, PowerNext
<1>9. p * b \in Nat /\ p * b >= p + p
  <2>1. p * (b - 2) >= 0
    OBVIOUS
  <2>2. p * (b - 2) = p * b - (p + p) /\ p * b \in Nat
    OBVIOUS
  <2> QED
    BY <2>1, <2>2
<1> QED
  BY <1>3, <1>5, <1>7, <1>8, <1>9

LEMMA SizeIs ==
  ASSUME NEW b \in Nat, b >= 2, NEW n \in Nat
  PROVE  /\ Size(n, b) \in Nat \ {0} /\ n < Power(b, Size(n, b))
         /\ \A k \in Nat \ {0} : n < Power(b, k) => Size(n, b) <= k
<1> DEFINE S == {k \in Nat \ {0} : n < Power(b, k)}
<1>1. S \in SUBSET Nat
  OBVIOUS
<1>2. S # {}
  <2>1. PICK k \in Nat \ {0} : k = n + 1
    OBVIOUS
  <2>2. k < Power(b, k) /\ Power(b, k) \in Nat
    BY PowerExceeds
  <2>3. k \in S
    BY <2>1, <2>2
  <2> QED
    BY <2>3
<1>3. Size(n, b) = LeastOf(S)
  BY DEF Size
<1>4. LeastOf(S) \in S /\ \A k \in S : LeastOf(S) <= k
  BY <1>1, <1>2, LeastOfIs
<1> QED
  BY <1>3, <1>4

\* A digit more is a power more.
LEMMA DigitMore ==
  ASSUME NEW b \in Nat, b >= 2, NEW n \in Nat, NEW k \in Nat
  PROVE  n < Power(b, k + 1) <=> n \div b < Power(b, k)
<1>1. b \in Nat \ {0} /\ n \in Int
  OBVIOUS
<1>2. PICK q \in Nat : q = n \div b
  BY <1>1, DivisionNat
<1>3. PICK r \in 0..(b - 1) : r = n % b
  BY <1>1, Division
<1>4. n = b * q + r
  BY <1>1, <1>2, <1>3, Division
<1>5. PICK p \in Nat \ {0} : p = Power(b, k)
  BY <1>1, PowerPositive
<1>6. Power(b, k + 1) = p * b
  BY <1>5, PowerNext
<1>7. b * q \in Nat /\ p * b \in Nat
  OBVIOUS
<1>8. ASSUME q < p PROVE n < p * b
  <2>1. b * (p - 1 - q) >= 0
    BY <1>8
  <2>2. b * (p - 1 - q) = p * b - b - b * q
    OBVIOUS
  <2> QED
    BY <1>3, <1>4, <1>7, <2>1, <2>2
<1>9. ASSUME q >= p PROVE n >= p * b
  <2>1. b * (q - p) >= 0
    BY <1>9
  <2>2. b * (q - p) = b * q - p * b
    OBVIOUS
  <2> QED
    BY <1>3, <1>4, <1>7, <2>1, <2>2
<1> QED
  BY <1>2, <1>5, <1>6, <1>7, <1>8, <1>9

LEMMA SizeNext ==
  ASSUME NEW b \in Nat, b >= 2, NEW n \in Nat
  PROVE  /\ n \div b \in Nat
         /\ n < b => Size(n, b) = 1
         /\ n >= b => n \div b < n /\ Size(n, b) = Size(n \div b, b) + 1
<1>1. b \in Nat \ {0} /\ n \in Int
  OBVIOUS
<1>2. PICK q \in Nat : q = n \div b
  BY <1>1, DivisionNat
<1>3. Power(b, 1) = b
  <2>1. Power(b, 0 + 1) = Power(b, 0) * b /\ Power(b, 0) = 1
    BY PowerNext, PowerZero
  <2> QED
    BY <2>1
<1>4. PICK s \in Nat \ {0} : s = Size(n, b) /\ n < Power(b, s) /\ \A k \in Nat \ {0} : n < Power(b, k) => s <= k
  BY SizeIs
<1>5. PICK t \in Nat \ {0} : t = Size(q, b) /\ q < Power(b, t) /\ \A k \in Nat \ {0} : q < Power(b, k) => t <= k
  BY SizeIs
<1>6. ASSUME n < b PROVE s = 1
  BY <1>3, <1>4, <1>6
<1>7. ASSUME n >= b PROVE q < n /\ s = t + 1
  <2>1. q < n
    <3>1. PICK r \in 0..(b - 1) : r = n % b
      BY <1>1, Division
    <3>2. n = b * q + r
      BY <1>1, <1>2, <3>1, Division
    <3>3. q * (b - 2) >= 0 /\ q * (b - 2) = b * q - q - q /\ b * q \in Nat
      OBVIOUS
    <3> QED
      BY <1>7, <3>1, <3>2, <3>3
  <2>2. s # 1
    BY <1>3, <1>4, <1>7
  <2>3. PICK k \in Nat \ {0} : k + 1 = s
    <3>1. s - 1 \in Nat \ {0} /\ (s - 1) + 1 = s
      BY <2>2
    <3> QED
      BY <3>1
  <2>4. q < Power(b, k)
    BY <1>2, <1>4, <2>3, DigitMore
  <2>5. n < Power(b, t + 1)
    BY <1>2, <1>5, DigitMore
  <2>6. t <= k
    BY <1>5, <2>4
  <2>7. s <= t + 1
    <3>1. t + 1 \in Nat \ {0}
      OBVIOUS
    <3> QED
      BY <1>4, <2>5, <3>1
  <2> QED
    BY <2>1, <2>3, <2>6, <2>7
<1> QED
  BY <1>2, <1>4, <1>5, <1>6, <1>7

LEMMA ShortDigitsIs ==
  ASSUME NEW b \in Nat, b >= 2, NEW n \in Nat
  PROVE  ShortDigits(n, b) = Digits(n, Size(n, b), b)
<1> DEFINE Body(g) == [m \in 0..n |-> (IF m < b THEN << >> ELSE g[m \div b]) \o <<m % b>>]
           up == CHOOSE g : g = Body(g)
           Short(m) == Digits(m, Size(m, b), b)
           f == [m \in 0..n |-> Short(m)]
<1>1. ASSUME NEW m \in 0..n
      PROVE  /\ m >= b => m \div b \in 0..n /\ m \div b < m
             /\ Short(m) = (IF m < b THEN << >> ELSE Short(m \div b)) \o <<m % b>>
  <2>1. PICK q \in Nat : q = m \div b
    <3>1. m \in Nat
      OBVIOUS
    <3> QED
      BY <3>1, SizeNext
  <2>2. PICK r \in Nat : r = m % b
    <3>1. m \in Nat /\ b \in Nat \ {0}
      OBVIOUS
    <3> QED
      BY <3>1, DivisionNat
  <2>3. /\ m < b => Size(m, b) = 1
        /\ m >= b => q < m /\ Size(m, b) = Size(q, b) + 1
    <3>1. m \in Nat
      OBVIOUS
    <3> QED
      BY <2>1, <3>1, SizeNext
  <2>4. ASSUME NEW k \in Nat PROVE Digits(m, k + 1, b) = Digits(q, k, b) \o <<r>>
    <3>1. m \in Nat /\ b \in Nat \ {0}
      OBVIOUS
    <3>2. Digits(m, k + 1, b) = Append(Digits(q, k, b), r)
      BY <2>1, <2>2, <3>1, DigitsAppend
    <3>3. Digits(q, k, b) \in Seq(Nat)
      BY <3>1, DigitsShape
    <3> QED
      BY <3>2, <3>3, AppendIsConcat
  <2>5. CASE m < b
    <3>1. Digits(m, 0 + 1, b) = Digits(q, 0, b) \o <<r>>
      BY <2>4
    <3>2. Digits(q, 0, b) = << >>
      BY DEF Digits
    <3> QED
      BY <2>2, <2>3, <2>5, <3>1, <3>2
  <2>6. CASE m >= b
    <3>1. Size(q, b) \in Nat
      BY SizeIs
    <3>2. Digits(m, Size(q, b) + 1, b) = Short(q) \o <<r>>
      BY <2>4, <3>1
    <3> QED
      BY <2>1, <2>2, <2>3, <2>6, <3>2
  <2> QED
    BY <2>5, <2>6
<1> HIDE DEF Short
<1>2. f = Body(f)
  <2>1. ASSUME NEW m \in 0..n PROVE f[m] = Body(f)[m]
    <3>1. f[m] = (IF m < b THEN << >> ELSE Short(m \div b)) \o <<m % b>>
      BY <1>1
    <3>2. m >= b => f[m \div b] = Short(m \div b)
      BY <1>1
    <3>3. Body(f)[m] = (IF m < b THEN << >> ELSE f[m \div b]) \o <<m % b>>
      OBVIOUS
    <3>4. m < b \/ m >= b
      OBVIOUS
    <3> HIDE DEF f, Body
    <3> QED
      BY <3>1, <3>2, <3>3, <3>4
  <2> QED
    BY <2>1
<1> HIDE DEF f
<1>3. up = Body(up)
  BY <1>2
<1>4. ShortDigits(n, b) = up[n]
  BY DEF ShortDigits
<1> HIDE DEF up
<1> DEFINE Bad == {m \in 0..n : up[m] # Short(m)}
<1>5. Bad = {}
  <2> SUFFICES ASSUME Bad # {} PROVE FALSE
    OBVIOUS
  <2>1. Bad \in SUBSET Nat
    OBVIOUS
  <2> HIDE DEF Bad
  <2>2. PICK m \in Bad : \A j \in Bad : m <= j
    BY <2>1, SmallestExists
  <2>3. m \in 0..n /\ up[m] # Short(m)
    BY <2>2 DEF Bad
  <2>4. up[m] = (IF m < b THEN << >> ELSE up[m \div b]) \o <<m % b>>
    BY <1>3, <2>3
  <2>5. m >= b => up[m \div b] = Short(m \div b)
    <3> SUFFICES ASSUME m >= b PROVE m \div b \in 0..n /\ m \div b \notin Bad
      BY DEF Bad
    <3>1. PICK q \in 0..n : q = m \div b /\ q < m
      BY <1>1, <2>3
    <3>2. ~(m <= q)
      BY <2>3, <3>1
    <3> QED
      BY <2>2, <3>1, <3>2
  <2>6. Short(m) = (IF m < b THEN << >> ELSE Short(m \div b)) \o <<m % b>>
    BY <1>1, <2>3
  <2>7. m < b \/ m >= b
    BY <2>3
  <2> QED
    BY <2>3, <2>4, <2>5, <2>6, <2>7
<1> QED
  <2>1. n \in 0..n
    OBVIOUS
  <2> QED
    BY <1>4, <1>5, <2>1 DEF Short

LEMMA ShortDigitsRead ==
  ASSUME NEW b \in Nat, b >= 2, NEW n \in Nat
  PROVE  /\ ShortDigits(n, b) \in Seq(0..(b - 1)) /\ ShortDigits(n, b) \in Seq(Nat)
         /\ Len(ShortDigits(n, b)) = Size(n, b)
         /\ Number(ShortDigits(n, b), b) = n
<1>1. b \in Nat \ {0}
  OBVIOUS
<1>2. PICK s \in Nat \ {0} : s = Size(n, b) /\ n < Power(b, s)
  BY SizeIs
<1>3. s \in Nat
  OBVIOUS
<1>4. ShortDigits(n, b) = Digits(n, s, b)
  BY <1>2, ShortDigitsIs
<1>5. /\ Digits(n, s, b) \in Seq(0..(b - 1)) /\ Digits(n, s, b) \in Seq(Nat)
      /\ Len(Digits(n, s, b)) = s
  BY <1>1, <1>3, DigitsShape
<1>6. Number(Digits(n, s, b), b) = n % Power(b, s)
  BY <1>1, <1>3, NumberOfDigits
<1>7. PICK p \in Nat \ {0} : p = Power(b, s)
  BY <1>1, <1>3, PowerPositive
<1>8. n % p = n
  <2>1. n \in 0..(p - 1) /\ p * 0 + n = n /\ 0 \in Int
    BY <1>2, <1>7
  <2>2. (p * 0 + n) % p = n
    BY <2>1, Unique
  <2> QED
    BY <2>1, <2>2
<1> QED
  BY <1>2, <1>4, <1>5, <1>6, <1>7, <1>8

\* Only a number of one digit starts with a zero.
LEMMA FirstDigit ==
  ASSUME NEW b \in Nat, b >= 2, NEW n \in Nat, Size(n, b) # 1
  PROVE  ShortDigits(n, b)[1] # 0
<1>1. b \in Nat \ {0}
  OBVIOUS
<1>2. PICK s \in Nat \ {0} : s = Size(n, b) /\ n < Power(b, s) /\ \A k \in Nat \ {0} : n < Power(b, k) => s <= k
  BY SizeIs
<1>3. PICK j \in Nat \ {0} : j + 1 = s /\ s - 1 = j
  <2>1. s - 1 \in Nat \ {0} /\ (s - 1) + 1 = s
    BY <1>2
  <2> QED
    BY <2>1
<1>4. PICK p \in Nat \ {0} : p = Power(b, j)
  BY <1>1, PowerPositive
<1>5. ~(n < p)
  <2>1. ~(s <= j)
    BY <1>3
  <2> QED
    BY <1>2, <1>4, <2>1
<1>6. n < b * p
  <2>1. Power(b, s) = p * b
    BY <1>3, <1>4, PowerNext
  <2>2. p * b = b * p
    OBVIOUS
  <2> QED
    BY <1>2, <2>1, <2>2
<1>7. PICK q \in Nat : q = n \div p
  BY DivisionNat
<1>8. q >= 1
  <2> SUFFICES ASSUME q = 0 PROVE FALSE
    OBVIOUS
  <2>1. n \in Int
    OBVIOUS
  <2>2. PICK r \in 0..(p - 1) : r = n % p
    BY <2>1, Division
  <2>3. n = p * q + r
    BY <1>7, <2>1, <2>2, Division
  <2>4. n = r
    BY <2>3
  <2> QED
    BY <1>5, <2>4
<1>9. q < b
  <2>1. n \in Int
    OBVIOUS
  <2> QED
    BY <1>6, <1>7, <2>1, QuotientBounds
<1>10. q % b = q
  <2>1. q \in 0..(b - 1) /\ b * 0 + q = q /\ 0 \in Int
    BY <1>9
  <2>2. (b * 0 + q) % b = q
    BY <1>1, <2>1, Unique
  <2> QED
    BY <2>1, <2>2
<1>11. ShortDigits(n, b) = Digits(n, s, b)
  BY <1>2, ShortDigitsIs
<1>12. Digits(n, s, b)[1] = q % b
  BY <1>3, <1>4, <1>7 DEF Digits
<1> QED
  BY <1>8, <1>10, <1>11, <1>12

\* Counter64::serialise() writes the octets that matter, after a zero when the
\* first of them would look like a sign, and fromBuffer() reads the same 64-bit
\* number from them.
THEOREM Counter64ReadsBack ==
  ASSUME NEW n \in Nat, n < Power(Base, Counter64Octets)
  PROVE  Counter64Value(Counter64Contents(n)) = [type |-> "Counter64", number |-> n]
<1>1. Base \in Nat \ {0} /\ Base \in Nat /\ Base >= 2 /\ Half <= Base /\ 0 < Half
  BY HalfBase
<1>2. PICK w \in Nat \ {0} : w = Counter64Octets
  BY Widths
<1>3. PICK s \in Nat \ {0} : s = Size(n, Base) /\ n < Power(Base, s) /\ s <= w
  <2>1. /\ Size(n, Base) \in Nat \ {0} /\ n < Power(Base, Size(n, Base))
        /\ \A k \in Nat \ {0} : n < Power(Base, k) => Size(n, Base) <= k
    BY <1>1, SizeIs
  <2> QED
    BY <1>2, <2>1
<1>4. PICK c \in Seq(Nat) :
        /\ c = ShortDigits(n, Base) /\ c = Digits(n, s, Base)
        /\ Len(c) = s /\ Number(c, Base) = n
  <2>1. ShortDigits(n, Base) \in Seq(Nat) /\ Len(ShortDigits(n, Base)) = Size(n, Base)
        /\ Number(ShortDigits(n, Base), Base) = n
    BY <1>1, ShortDigitsRead
  <2>2. ShortDigits(n, Base) = Digits(n, Size(n, Base), Base)
    BY <1>1, ShortDigitsIs
  <2> QED
    BY <1>3, <2>1, <2>2
<1>5. PICK h \in Nat : h = Half
  BY HalfBase
<1>6. CASE c[1] < h
  <2>1. Counter64Contents(n) = c
    <3>1. ~(c[1] >= Half)
      BY <1>4, <1>5, <1>6
    <3> QED
      BY <1>4, <3>1 DEF Counter64Contents
  <2>2. ~(Len(c) = 0) /\ ~(Len(c) > w + 1) /\ ~(c[1] >= Half) /\ ~(Len(c) = w + 1)
    BY <1>3, <1>4, <1>5, <1>6
  <2> QED
    BY <1>2, <1>4, <2>1, <2>2 DEF Counter64Value
<1>7. CASE ~(c[1] < h)
  <2>1. PICK d \in Seq(Nat) : d = <<0>> \o c /\ d = Digits(n, s + 1, Base) /\ Len(d) = s + 1
    <3>1. <<0>> \o c = Digits(n, s + 1, Base)
      BY <1>1, <1>3, <1>4, LeadingZero
    <3>2. s + 1 \in Nat
      OBVIOUS
    <3> QED
      BY <1>1, <3>1, <3>2, DigitsShape
  <2>2. Counter64Contents(n) = d
    <3>1. c[1] >= Half
      BY <1>3, <1>4, <1>5, <1>7
    <3> QED
      BY <1>4, <2>1, <3>1 DEF Counter64Contents
  <2>3. d[1] = 0
    <3>1. <<0>> \in Seq(Nat)
      BY SMT
    <3>2. PICK zs \in Seq(Nat) : zs = <<0>>
      BY ONLY <3>1
    <3>3. Len(zs) = 1 /\ zs[1] = 0
      BY <3>2
    <3>4. 1 \in 1..(Len(zs) + Len(c)) /\ 1 <= Len(zs)
      BY <1>4, <3>3
    <3>5. (zs \o c)[1] = zs[1]
      BY <3>4, ConcatProperties
    <3> QED
      BY <2>1, <3>2, <3>3, <3>5
  <2>4. Number(d, Base) = n
    <3>1. s + 1 \in Nat
      OBVIOUS
    <3>2. Number(d, Base) = n % Power(Base, s + 1)
      BY <1>1, <2>1, <3>1, NumberOfDigits
    <3>3. PICK p \in Nat \ {0} : p = Power(Base, s)
      BY BasePower
    <3>4. PICK x \in Nat \ {0} : x = Power(Base, s + 1)
      BY <3>1, BasePower
    <3>5. x = p * Base
      BY <3>3, <3>4, BasePower
    <3>6. p * (Base - 1) >= 0 /\ p * (Base - 1) = x - p
      BY <1>1, <3>5
    <3>7. n \in 0..(x - 1) /\ x * 0 + n = n /\ 0 \in Int
      BY <1>3, <3>3, <3>6
    <3>8. (x * 0 + n) % x = n
      BY <3>7, Unique
    <3> QED
      BY <3>2, <3>4, <3>7, <3>8
  <2>5. ~(Len(d) = 0) /\ ~(Len(d) > w + 1) /\ ~(d[1] >= Half)
    BY <1>1, <1>3, <2>1, <2>3, HalfBase
  <2> QED
    BY <1>2, <2>2, <2>3, <2>4, <2>5 DEF Counter64Value
<1> QED
  BY <1>6, <1>7

-----------------------------------------------------------------------------
(***************************************************************************)
(* Sub-identifiers.                                                        *)
(***************************************************************************)
\* The octets of one sub-identifier: only the last has no high bit.
IsSubIdentifier(s) ==
  /\ s \in Seq(Nat) /\ Len(s) > 0
  /\ s[Len(s)] < Half /\ \A i \in 1..(Len(s) - 1) : s[i] >= Half

LEMMA SubIdentifierIs ==
  ASSUME NEW n \in Nat
  PROVE  /\ IsSubIdentifier(SubIdentifier(n))
         /\ Len(SubIdentifier(n)) = Size(n, Half)
         /\ Arc(SubIdentifier(n)) = n
         /\ SubIdentifier(n)[1] # Half
<1>1. PICK h \in Nat : h = Half /\ h >= 2 /\ h # 0
  BY HalfBase
<1>2. PICK l \in Nat \ {0} : l = Size(n, h)
  BY <1>1, SizeIs
<1>3. PICK ds \in Seq(0..(h - 1)) : ds = ShortDigits(n, h) /\ Len(ds) = l /\ Number(ds, h) = n
  BY <1>1, <1>2, ShortDigitsRead
<1>4. \A i \in 1..l : ds[i] \in 0..(h - 1)
  BY <1>3
<1>5. PICK s \in [1..l -> Nat] :
        s = SubIdentifier(n) /\ \A i \in 1..l : s[i] = IF i < l THEN ds[i] + h ELSE ds[i]
  <2>1. SubIdentifier(n) = [i \in 1..l |-> IF i < l THEN ds[i] + h ELSE ds[i]]
    BY <1>1, <1>3 DEF SubIdentifier
  <2>2. \A i \in 1..l : (IF i < l THEN ds[i] + h ELSE ds[i]) \in Nat
    BY <1>1, <1>4
  <2> QED
    BY <2>1, <2>2
<1>6. s \in Seq(Nat) /\ Len(s) = l
  BY <1>5
<1>7. IsSubIdentifier(s)
  <2>1. s[l] < h
    <3>1. l \in 1..l /\ ~(l < l)
      OBVIOUS
    <3>2. s[l] = ds[l] /\ ds[l] \in 0..(h - 1)
      BY <1>4, <1>5, <3>1
    <3> QED
      BY <1>1, <3>2
  <2>2. ASSUME NEW i \in 1..(l - 1) PROVE s[i] >= h
    <3>1. i \in 1..l /\ i < l
      OBVIOUS
    <3>2. s[i] = ds[i] + h /\ ds[i] \in 0..(h - 1)
      BY <1>4, <1>5, <3>1
    <3> QED
      BY <1>1, <3>2
  <2> QED
    BY <1>1, <1>6, <2>1, <2>2 DEF IsSubIdentifier
<1>8. Arc(s) = n
  <2>1. ASSUME NEW i \in 1..l PROVE s[i] % h = ds[i]
    <3>1. PICK d \in 0..(h - 1) : d = ds[i]
      BY <1>4
    <3>2. h \in Nat \ {0} /\ 0 \in Int /\ 1 \in Int /\ h * 0 + d = d /\ h * 1 + d = d + h
      BY <1>1
    <3>3. (h * 0 + d) % h = d /\ (h * 1 + d) % h = d
      BY <3>2, Unique
    <3> QED
      BY <1>5, <3>1, <3>2, <3>3
  <2> DEFINE ms == [i \in 1..l |-> s[i] % h]
  <2>2. ms = [i \in 1..l |-> ds[i]]
    BY <2>1
  <2>3. ds = [i \in 1..l |-> ds[i]]
    BY <1>3
  <2>4. Arc(s) = Number(ms, h)
    BY <1>1, <1>6 DEF Arc
  <2> QED
    BY <1>3, <2>2, <2>3, <2>4
<1>9. s[1] # h
  <2>1. CASE l = 1
    BY <1>4, <1>5, <2>1
  <2>2. CASE l # 1
    <3>1. ds[1] # 0
      BY <1>1, <1>2, <1>3, <2>2, FirstDigit
    <3> QED
      BY <1>1, <1>4, <1>5, <2>2, <3>1
  <2> QED
    BY <2>1, <2>2
<1> QED
  BY <1>1, <1>2, <1>5, <1>6, <1>7, <1>8, <1>9

\* f[i] is the first i parts, one after the other.
Joined(f, parts, n) ==
  f \in [0..n -> Seq(Nat)] /\ f[0] = << >> /\ \A i \in 1..n : f[i] = f[i - 1] \o parts[i]

LEMMA ConcatIs ==
  ASSUME NEW n \in Nat, NEW parts, Len(parts) = n, \A i \in 1..n : parts[i] \in Seq(Nat)
  PROVE  \E f : Joined(f, parts, n) /\ Concat(parts) = f[n]
<1> DEFINE S == Seq(Nat)
           step == [i \in 1..n |-> [x \in S |-> x \o parts[i]]]
           Body(f) == [i \in 0..n |-> IF i = 0 THEN << >> ELSE f[i - 1] \o parts[i]]
           up == CHOOSE f : f = Body(f)
<1>1. ASSUME NEW i \in 1..n, NEW x \in S PROVE x \o parts[i] \in S
  BY ConcatProperties
<1>2. step \in [1..n -> [S -> S]] /\ \A i \in 1..n, x \in S : step[i][x] = x \o parts[i]
  BY <1>1
<1>3. << >> \in S
  OBVIOUS
<1>4. Concat(parts) = up[n]
  BY DEF Concat
<1> HIDE DEF S, step
<1>5. PICK f : Chain(f, n, << >>, step, S)
  BY <1>2, <1>3, ChainExists
<1>6. f \in [0..n -> S] /\ f[0] = << >> /\ \A i \in 1..n : f[i] = f[i - 1] \o parts[i]
  <2>1. f \in [0..n -> S] /\ f[0] = << >> /\ \A i \in 1..n : f[i] = step[i][f[i - 1]]
    BY <1>5 DEF Chain
  <2>2. \A i \in 1..n : f[i - 1] \in S
    BY <2>1
  <2> QED
    BY <1>2, <2>1, <2>2
<1>7. f = Body(f)
  <2>1. ASSUME NEW i \in 0..n PROVE f[i] = IF i = 0 THEN << >> ELSE f[i - 1] \o parts[i]
    <3>1. i # 0 => i \in 1..n
      OBVIOUS
    <3> QED
      BY <1>6, <3>1, Zenon
  <2>2. f = [i \in 0..n |-> f[i]]
    BY <1>6
  <2> QED
    BY <2>1, <2>2, Zenon
<1>8. up = Body(up)
  BY <1>7, Zenon
<1> HIDE DEF up
<1>9. up[0] = << >> /\ \A i \in 1..n : up[i] = up[i - 1] \o parts[i]
  <2>1. 0 \in 0..n /\ \A i \in 1..n : i \in 0..n /\ i # 0
    OBVIOUS
  <2>2. ASSUME NEW i \in 0..n PROVE up[i] = IF i = 0 THEN << >> ELSE up[i - 1] \o parts[i]
    BY <1>8, Zenon
  <2> QED
    BY <2>1, <2>2, Zenon
<1> HIDE DEF Body
<1>10. Links(up, n, << >>, step, S)
  BY <1>2, <1>9 DEF Links
<1>11. n \in 0..n
  OBVIOUS
<1>12. \A i \in 0..n : up[i] = f[i]
  BY <1>5, <1>10, <1>11, ChainAgrees
<1> QED
  BY <1>4, <1>6, <1>11, <1>12 DEF Joined, S

LEMMA Concatenated ==
  ASSUME NEW x \in Seq(Nat), NEW y \in Seq(Nat), NEW z, z = x \o y
  PROVE  /\ z \in Seq(Nat) /\ Len(z) = Len(x) + Len(y)
         /\ \A t \in 1..(Len(x) + Len(y)) : z[t] = IF t <= Len(x) THEN x[t] ELSE y[t - Len(x)]
BY ConcatProperties

Extends(x, y) == Len(x) <= Len(y) /\ \A t \in 1..Len(x) : y[t] = x[t]

LEMMA JoinedGrows ==
  ASSUME NEW n \in Nat, NEW parts, \A i \in 1..n : parts[i] \in Seq(Nat),
         NEW f, Joined(f, parts, n), NEW i \in 0..n
  PROVE  \A j \in i..n : Extends(f[i], f[j])
<1> DEFINE Good(j) == Len(f[i]) <= Len(f[j]) /\ \A t \in 1..Len(f[i]) : f[j][t] = f[i][t]
           Bad == {j \in i..n : ~Good(j)}
<1> SUFFICES ASSUME Bad # {} PROVE FALSE
  BY DEF Extends
<1>1. Bad \in SUBSET Nat
  OBVIOUS
<1> HIDE DEF Bad
<1>2. PICK j \in Bad : \A k \in Bad : j <= k
  BY <1>1, SmallestExists
<1>3. j \in i..n /\ ~Good(j)
  BY <1>2 DEF Bad
<1>4. f[i] \in Seq(Nat)
  BY DEF Joined
<1>5. j # i
  BY <1>3, <1>4
<1>6. PICK k \in i..n : k = j - 1 /\ k \in 0..n /\ j \in 1..n
  <2>1. j - 1 \in i..n /\ j - 1 \in 0..n /\ j \in 1..n
    BY <1>3, <1>5
  <2> QED
    BY <2>1
<1>7. Good(k)
  <2>1. ~(j <= k)
    BY <1>3, <1>6
  <2> QED
    BY <1>2, <1>6, <2>1 DEF Bad
<1>8. f[k] \in Seq(Nat) /\ parts[j] \in Seq(Nat) /\ f[j] = f[k] \o parts[j]
  BY <1>6 DEF Joined
<1>9. /\ Len(f[j]) = Len(f[k]) + Len(parts[j])
      /\ \A t \in 1..(Len(f[k]) + Len(parts[j])) :
           f[j][t] = IF t <= Len(f[k]) THEN f[k][t] ELSE parts[j][t - Len(f[k])]
  <2>1. PICK x \in Seq(Nat) : x = f[k]
    BY <1>8
  <2>2. PICK y \in Seq(Nat) : y = parts[j]
    BY <1>8
  <2>3. PICK z : z = x \o y
    OBVIOUS
  <2>4. /\ Len(z) = Len(x) + Len(y)
        /\ \A t \in 1..(Len(x) + Len(y)) : z[t] = IF t <= Len(x) THEN x[t] ELSE y[t - Len(x)]
    BY <2>3, Concatenated
  <2>5. f[j] = z
    BY <1>8, <2>1, <2>2, <2>3
  <2> QED
    BY ONLY <2>1, <2>2, <2>4, <2>5, Zenon
<1>10. PICK a \in Nat : a = Len(f[i])
  BY <1>4
<1>11. PICK b \in Nat : b = Len(f[k])
  BY <1>8
<1>12. PICK d \in Nat : d = Len(parts[j])
  BY <1>8
<1>13. a <= b /\ a <= b + d
  BY <1>7, <1>10, <1>11
<1>14. ASSUME NEW t \in 1..a PROVE f[j][t] = f[i][t]
  <2>1. t \in 1..(b + d) /\ t <= b
    BY <1>13
  <2>2. f[j][t] = f[k][t]
    BY <1>9, <1>11, <1>12, <2>1
  <2> QED
    BY <1>7, <1>10, <2>2
<1>15. Good(j)
  BY <1>9, <1>10, <1>11, <1>12, <1>13, <1>14
<1> QED
  BY <1>3, <1>15

\* The parts of c end at off[1], ..., off[n].
Layout(c, off, parts, n) ==
  /\ c \in Seq(Nat) /\ off \in [0..n -> Nat] /\ off[0] = 0 /\ off[n] = Len(c)
  /\ \A k \in 1..n :
       /\ off[k] = off[k - 1] + Len(parts[k])
       /\ \A t \in 1..Len(parts[k]) : c[off[k - 1] + t] = parts[k][t]
  /\ \A i \in 0..n : \A j \in i..n : off[i] <= off[j]

LEMMA LayoutExists ==
  ASSUME NEW n \in Nat, NEW parts, Len(parts) = n, \A i \in 1..n : parts[i] \in Seq(Nat)
  PROVE  \E off : Layout(Concat(parts), off, parts, n)
<1>1. PICK f : Joined(f, parts, n) /\ Concat(parts) = f[n]
  BY ConcatIs
<1>2. \A k \in 0..n : f[k] \in Seq(Nat) /\ Len(f[k]) \in Nat
  BY <1>1 DEF Joined
<1>3. PICK off \in [0..n -> Nat] : \A k \in 0..n : off[k] = Len(f[k])
  <2>1. [k \in 0..n |-> Len(f[k])] \in [0..n -> Nat]
    BY <1>2
  <2> QED
    BY <2>1
<1>4. 0 \in 0..n /\ n \in 0..n
  OBVIOUS
<1>5. f[n] \in Seq(Nat) /\ off[0] = 0 /\ off[n] = Len(f[n])
  <2>1. Len(f[0]) = 0
    BY <1>1 DEF Joined
  <2> QED
    BY <1>2, <1>3, <1>4, <2>1
<1>6. ASSUME NEW k \in 1..n
      PROVE  /\ off[k] = off[k - 1] + Len(parts[k])
             /\ \A t \in 1..Len(parts[k]) : f[n][off[k - 1] + t] = parts[k][t]
  <2>1. PICK j \in 0..n : j = k - 1
    OBVIOUS
  <2>2. k \in 0..n /\ f[j] \in Seq(Nat) /\ parts[k] \in Seq(Nat) /\ f[k] = f[j] \o parts[k]
    <3>1. f[k] = f[k - 1] \o parts[k]
      BY <1>1, Zenon DEF Joined
    <3>2. k \in 0..n
      OBVIOUS
    <3> QED
      BY <1>2, <2>1, <3>1, <3>2
  <2>3. /\ Len(f[k]) = Len(f[j]) + Len(parts[k])
        /\ \A t \in 1..(Len(f[j]) + Len(parts[k])) :
             f[k][t] = IF t <= Len(f[j]) THEN f[j][t] ELSE parts[k][t - Len(f[j])]
    BY <2>2, Concatenated
  <2>4. PICK a \in Nat : a = Len(f[j])
    BY <2>2
  <2>5. PICK d \in Nat : d = Len(parts[k])
    BY <2>2
  <2>6. ASSUME NEW t \in 1..d PROVE f[n][a + t] = parts[k][t]
    <3>1. a + t \in 1..(a + d) /\ ~(a + t <= a) /\ (a + t) - a = t
      OBVIOUS
    <3>2. f[k][a + t] = parts[k][t]
      BY <2>3, <2>4, <2>5, <3>1
    <3>3. n \in k..n /\ k \in 0..n
      OBVIOUS
    <3>4. \A u \in 1..Len(f[k]) : f[n][u] = f[k][u]
      <4>1. Extends(f[k], f[n])
        BY <1>1, <3>3, JoinedGrows
      <4> QED
        BY <4>1 DEF Extends
    <3> QED
      BY <2>3, <2>4, <2>5, <3>1, <3>2, <3>4
  <2>7. off[j] = a /\ off[k] = a + d
    BY <1>3, <2>2, <2>3, <2>4, <2>5
  <2> QED
    BY <2>1, <2>5, <2>6, <2>7
<1>7. ASSUME NEW i \in 0..n, NEW j \in i..n PROVE off[i] <= off[j]
  <2>1. j \in 0..n
    OBVIOUS
  <2>2. Len(f[i]) <= Len(f[j])
    BY <1>1, JoinedGrows DEF Extends
  <2> QED
    BY <1>3, <2>1, <2>2
<1>8. Layout(f[n], off, parts, n)
  BY <1>5, <1>6, <1>7 DEF Layout
<1> QED
  BY <1>1, <1>8

PartAt(c, off, parts, k) ==
  /\ off[k - 1] \in Nat /\ off[k] \in 1..Len(c) /\ off[k - 1] < off[k]
  /\ c[off[k]] < Half
  /\ \A i \in (off[k - 1] + 1)..(off[k] - 1) : c[i] >= Half
  /\ SubSeq(c, off[k - 1] + 1, off[k]) = parts[k]

LEMMA PartsOf ==
  ASSUME NEW n \in Nat, NEW parts, \A k \in 1..n : IsSubIdentifier(parts[k]),
         NEW c, NEW off, Layout(c, off, parts, n), NEW k \in 1..n
  PROVE  PartAt(c, off, parts, k)
<1>1. PICK s \in Seq(Nat) : s = parts[k]
  BY DEF IsSubIdentifier
<1>2. PICK d \in Nat \ {0} : d = Len(s)
  BY <1>1 DEF IsSubIdentifier
<1>3. s[d] < Half /\ \A i \in 1..(d - 1) : s[i] >= Half
  BY <1>1, <1>2 DEF IsSubIdentifier
<1>4. PICK a \in Nat : a = off[k - 1]
  <2>1. k - 1 \in 0..n
    OBVIOUS
  <2> QED
    BY <2>1 DEF Layout
<1>5. /\ off[k] = a + d
      /\ \A t \in 1..d : c[a + t] = s[t]
  BY <1>1, <1>2, <1>4 DEF Layout
<1>6. PICK l \in Nat : l = Len(c) /\ a + d <= l
  <2>1. off[k] <= off[n] /\ off[n] = Len(c) /\ c \in Seq(Nat)
    <3>1. k \in 0..n /\ n \in k..n
      OBVIOUS
    <3> QED
      BY <3>1 DEF Layout
  <2> QED
    BY <1>5, <2>1
<1>7. c[a + d] < Half
  BY <1>3, <1>5
<1>8. ASSUME NEW i \in (a + 1)..(a + d - 1) PROVE c[i] >= Half
  <2>1. i - a \in 1..(d - 1) /\ i - a \in 1..d /\ a + (i - a) = i
    OBVIOUS
  <2> QED
    BY <1>3, <1>5, <2>1
<1>9. SubSeq(c, a + 1, a + d) = s
  <2>1. /\ a + 1 \in Int /\ a + d \in Int /\ a + 1 <= a + d
        /\ (a + d) - (a + 1) + 1 = d
        /\ \A i \in (a + 1)..(a + d) : c[i] \in Nat
    <3>1. ASSUME NEW i \in (a + 1)..(a + d) PROVE c[i] \in Nat
      <4>1. i \in 1..l
        BY <1>6
      <4>2. c \in Seq(Nat)
        BY DEF Layout
      <4> QED
        BY <1>6, <4>1, <4>2
    <3>2. a + 1 <= a + d
      BY <1>2
    <3> QED
      BY <3>1, <3>2
  <2>2. PICK z : z = SubSeq(c, a + 1, a + d)
    OBVIOUS
  <2>3. /\ z \in Seq(Nat) /\ Len(z) = d
        /\ \A i \in 1..d : z[i] = c[(a + 1) + i - 1]
    BY <2>1, <2>2, SubSeqProperties
  <2>4. \A i \in 1..d : z[i] = s[i]
    <3>1. \A i \in 1..d : (a + 1) + i - 1 = a + i
      OBVIOUS
    <3> QED
      BY <1>5, <2>3, <3>1
  <2>5. s \in Seq(Nat) /\ Len(s) = d
    BY <1>2
  <2>6. z = s
    BY ONLY <2>3, <2>4, <2>5
  <2> QED
    BY <2>2, <2>6
<1>10. off[k] \in 1..Len(c) /\ off[k - 1] < off[k]
  BY <1>4, <1>5, <1>6
<1>11. c[off[k]] < Half /\ off[k - 1] \in Nat
  BY <1>4, <1>5, <1>7
<1>12. \A i \in (off[k - 1] + 1)..(off[k] - 1) : c[i] >= Half
  <2>1. off[k - 1] + 1 = a + 1 /\ off[k] - 1 = a + d - 1
    BY <1>4, <1>5
  <2> QED
    BY <1>8, <2>1, Zenon
<1>13. SubSeq(c, off[k - 1] + 1, off[k]) = parts[k]
  BY <1>1, <1>4, <1>5, <1>9, Zenon
<1> QED
  BY <1>10, <1>11, <1>12, <1>13, Zenon DEF PartAt

\* One part holds the octet at i.
Holds(off, k, i) == off[k - 1] < i /\ i <= off[k]

LEMMA OneHolds ==
  ASSUME NEW n \in Nat, NEW c, NEW off, NEW parts, Layout(c, off, parts, n), NEW i \in 1..Len(c)
  PROVE  \E k \in 1..n : /\ Holds(off, k, i)
                         /\ \A q \in 1..n : Holds(off, q, i) => q = k
<1>1. off \in [0..n -> Nat] /\ off[0] = 0 /\ off[n] = Len(c)
  BY DEF Layout
<1> DEFINE S == {k \in 0..n : i <= off[k]}
<1>2. S \in SUBSET Nat /\ S # {}
  <2>1. n \in S
    BY <1>1
  <2> QED
    BY <2>1
<1> HIDE DEF S
<1>3. PICK k \in S : \A q \in S : k <= q
  BY <1>2, SmallestExists
<1>4. k \in 0..n /\ i <= off[k]
  BY <1>3 DEF S
<1>5. k # 0
  BY <1>1, <1>4
<1>6. PICK j \in 0..n : j = k - 1 /\ k \in 1..n
  BY <1>4, <1>5
<1>7. j \notin S
  <2>1. ~(k <= j)
    BY <1>4, <1>6
  <2> QED
    BY <1>3, <2>1
<1>8. off[j] < i
  BY <1>1, <1>7 DEF S
<1>9. ASSUME NEW q \in 1..n, Holds(off, q, i) PROVE q = k
  <2>1. PICK p \in 0..n : p = q - 1 /\ q \in 0..n
    OBVIOUS
  <2>2. off[p] < i /\ i <= off[q] /\ off[p] \in Nat /\ off[q] \in Nat /\ off[k] \in Nat /\ off[j] \in Nat
    BY <1>1, <1>4, <1>9, <2>1 DEF Holds
  <2>3. CASE q < k
    <3>1. j \in q..n
      BY <1>6, <2>3
    <3>2. off[q] <= off[j]
      BY <2>1, <3>1 DEF Layout
    <3> QED
      BY <1>8, <2>2, <3>2
  <2>4. CASE k < q
    <3>1. p \in k..n
      BY <1>4, <2>1, <2>4
    <3>2. off[k] <= off[p]
      BY <1>4, <3>1 DEF Layout
    <3> QED
      BY <1>4, <2>2, <3>2
  <2> QED
    BY <1>6, <2>3, <2>4
<1> QED
  BY <1>4, <1>6, <1>8, <1>9 DEF Holds

\* Sub-identifiers that were put one after the other are found again.
LEMMA SubIdentifiersIs ==
  ASSUME NEW n \in Nat \ {0}, NEW parts \in Seq(Seq(Nat)), Len(parts) = n,
         \A k \in 1..n : IsSubIdentifier(parts[k])
  PROVE  /\ Concat(parts) \in Seq(Nat) /\ Len(Concat(parts)) > 0
         /\ Concat(parts)[Len(Concat(parts))] < Half
         /\ SubIdentifiers(Concat(parts)) = parts
<1>1. PICK off : Layout(Concat(parts), off, parts, n)
  <2>1. \A i \in 1..n : parts[i] \in Seq(Nat)
    OBVIOUS
  <2>2. n \in Nat
    OBVIOUS
  <2> QED
    BY <2>1, <2>2, LayoutExists
<1>2. PICK c : c = Concat(parts)
  OBVIOUS
<1>3. Layout(c, off, parts, n)
  BY <1>1, <1>2
<1>4. c \in Seq(Nat) /\ off \in [0..n -> Nat] /\ off[0] = 0 /\ off[n] = Len(c)
  BY <1>3 DEF Layout
<1>5. PICK l \in Nat : l = Len(c)
  BY <1>4
<1>6. ASSUME NEW k \in 1..n
      PROVE  /\ off[k - 1] \in Nat /\ off[k] \in 1..l /\ off[k - 1] < off[k]
             /\ c[off[k]] < Half
             /\ \A i \in (off[k - 1] + 1)..(off[k] - 1) : c[i] >= Half
             /\ SubSeq(c, off[k - 1] + 1, off[k]) = parts[k]
  <2>1. n \in Nat
    OBVIOUS
  <2>2. PartAt(c, off, parts, k)
    BY <1>3, <2>1, PartsOf
  <2> QED
    BY ONLY <1>5, <2>2 DEF PartAt
<1>7. l > 0 /\ c[l] < Half
  <2>1. n \in 1..n
    OBVIOUS
  <2> QED
    BY <1>4, <1>5, <1>6, <2>1
<1>8. ASSUME NEW i \in 1..l
      PROVE  \E k \in 1..n : /\ Holds(off, k, i)
                             /\ \A q \in 1..n : Holds(off, q, i) => q = k
  <2>1. n \in Nat /\ i \in 1..Len(c)
    BY <1>5
  <2> QED
    BY <1>3, <2>1, OneHolds
\* The octet that ends the sub-identifier around i.
<1>9. ASSUME NEW i \in 1..l, NEW k \in 1..n, Holds(off, k, i)
      PROVE  LeastOf({j \in i..l : c[j] < Half}) = off[k]
  <2> DEFINE S == {j \in i..l : c[j] < Half}
  <2>1. off[k] \in S
    BY <1>6, <1>9 DEF Holds
  <2>2. S \in SUBSET Nat /\ S # {}
    BY <2>1
  <2>3. PICK e \in S : e = LeastOf(S) /\ \A j \in S : e <= j
    BY <2>2, LeastOfIs
  <2>4. e \in i..l /\ c[e] < Half /\ e <= off[k]
    BY <2>1, <2>3
  <2>5. e = off[k]
    <3> SUFFICES ASSUME e # off[k] PROVE FALSE
      OBVIOUS
    <3>1. PICK a \in Nat : a = off[k - 1] /\ a < i
      BY <1>6, <1>9 DEF Holds
    <3>2. PICK b \in 1..l : b = off[k]
      BY <1>6
    <3>3. e \in (a + 1)..(b - 1)
      BY <2>4, <3>1, <3>2
    <3>4. c[e] >= Half
      BY <1>6, <3>1, <3>2, <3>3
    <3>5. c[e] \in Nat
      BY <1>4, <1>5, <2>4
    <3> QED
      BY <2>4, <3>4, <3>5, HalfBase
  <2> QED
    BY <2>3, <2>5
<1> DEFINE Part(i) == CHOOSE k \in 1..n : Holds(off, k, i)
           After(k) == SubSeq(parts, k + 1, n)
           Rest(i) == IF i > l THEN << >> ELSE <<SubSeq(c, i, off[Part(i)])>> \o After(Part(i))
<1>10. ASSUME NEW i \in 1..l, NEW k \in 1..n, Holds(off, k, i)
       PROVE  Part(i) = k
  <2>1. PICK p \in 1..n : Holds(off, p, i) /\ \A q \in 1..n : Holds(off, q, i) => q = p
    BY <1>8
  <2> QED
    BY <1>10, <2>1
<1>11. ASSUME NEW i \in 1..l
       PROVE  Part(i) \in 1..n /\ Holds(off, Part(i), i)
  <2>1. PICK p \in 1..n : Holds(off, p, i) /\ \A q \in 1..n : Holds(off, q, i) => q = p
    BY <1>8
  <2> QED
    BY <2>1
<1> HIDE DEF Part
<1>12. ASSUME NEW k \in 0..n PROVE Rest(off[k] + 1) = After(k)
  <2>1. CASE k = n
    <3>1. off[k] + 1 > l
      BY <1>4, <1>5, <2>1
    <3>2. n + 1 \in Int /\ n \in Int /\ n < n + 1
      OBVIOUS
    <3>3. After(k) = << >>
      BY <2>1, <3>2, SubSeqEmpty
    <3> QED
      BY <3>1, <3>3
  <2>2. CASE k # n
    <3>1. PICK q \in 1..n : q = k + 1 /\ q - 1 = k
      BY <2>2
    <3>2. PICK i \in 1..l : i = off[k] + 1
      <4>1. off[k] \in Nat /\ off[q] \in 1..l /\ off[k] < off[q]
        BY <1>6, <3>1
      <4>2. off[k] + 1 \in 1..l
        BY <4>1
      <4> QED
        BY <4>2
    <3>3. Holds(off, q, i)
      BY <1>6, <3>1, <3>2 DEF Holds
    <3>4. Part(i) = q
      BY <1>10, <3>3
    <3>5. Rest(i) = <<parts[q]>> \o After(q)
      <4>1. SubSeq(c, i, off[q]) = parts[q] /\ ~(i > l)
        BY <1>6, <3>1, <3>2
      <4> HIDE DEF After
      <4> QED
        BY <3>4, <4>1
    <3>6. SubSeq(parts, q, n) = <<parts[q]>> \o SubSeq(parts, q + 1, n)
      <4>1. q \in 1..Len(parts) /\ n \in q..Len(parts)
        OBVIOUS
      <4> QED
        BY <4>1, SubSeqRecursiveFirst
    <3> QED
      BY <3>1, <3>2, <3>5, <3>6
  <2> QED
    BY <2>1, <2>2
<1>13. After(0) = parts
  <2>1. 0 + 1 = 1
    OBVIOUS
  <2>2. SubSeq(parts, 1, n) = parts
    BY SubSeqFull
  <2> QED
    BY <2>1, <2>2
<1> HIDE DEF After
<1> DEFINE End(i) == LeastOf({j \in i..l : c[j] < Half})
           Body(f) == [i \in 1..(l + 1) |->
                         IF i > l THEN << >> ELSE <<SubSeq(c, i, End(i))>> \o f[End(i) + 1]]
           up == CHOOSE f : f = Body(f)
           g == [i \in 1..(l + 1) |-> Rest(i)]
<1>14. SubIdentifiers(c) = up[1]
  BY <1>5 DEF SubIdentifiers
<1>15. ASSUME NEW i \in 1..l
       PROVE  End(i) \in i..l /\ Rest(i) = <<SubSeq(c, i, End(i))>> \o Rest(End(i) + 1)
  <2>1. PICK k \in 1..n : k = Part(i) /\ Holds(off, k, i)
    BY <1>11
  <2>2. End(i) = off[k]
    BY <1>9, <2>1
  <2>3. off[k] \in i..l
    BY <1>6, <2>1 DEF Holds
  <2>4. Rest(off[k] + 1) = After(k)
    BY <1>12
  <2>5. Rest(i) = <<SubSeq(c, i, off[k])>> \o After(k)
    BY <2>1
  <2> HIDE DEF Rest, End
  <2> QED
    BY <2>2, <2>3, <2>4, <2>5
<1>16. ASSUME NEW i, i > l PROVE Rest(i) = << >>
  BY <1>16
<1> HIDE DEF Rest, End
<1>17. g = Body(g)
  <2>1. ASSUME NEW i \in 1..(l + 1) PROVE g[i] = Body(g)[i]
    <3>1. CASE i > l
      BY <1>16, <3>1
    <3>2. CASE ~(i > l)
      <4>1. i \in 1..l
        BY <3>2
      <4>2. End(i) + 1 \in 1..(l + 1)
        <5>1. PICK e \in i..l : e = End(i)
          BY <1>15, <4>1
        <5> QED
          BY <5>1
      <4>3. g[i] = Rest(i) /\ g[End(i) + 1] = Rest(End(i) + 1)
        BY <4>2
      <4>4. Body(g)[i] = <<SubSeq(c, i, End(i))>> \o g[End(i) + 1]
        BY <3>2
      <4> HIDE DEF g, Body
      <4> QED
        BY <1>15, <4>1, <4>3, <4>4
    <3> QED
      BY <3>1, <3>2
  <2> QED
    BY <2>1
<1>18. up = Body(up)
  <2> HIDE DEF g, Body
  <2> QED
    BY <1>17
<1> HIDE DEF up
<1> DEFINE Bad == {m \in 0..l : up[l + 1 - m] # Rest(l + 1 - m)}
<1>19. Bad = {}
  <2> SUFFICES ASSUME Bad # {} PROVE FALSE
    OBVIOUS
  <2>1. Bad \in SUBSET Nat
    OBVIOUS
  <2> HIDE DEF Bad
  <2>2. PICK m \in Bad : \A j \in Bad : m <= j
    BY <2>1, SmallestExists
  <2>3. m \in 0..l /\ up[l + 1 - m] # Rest(l + 1 - m)
    BY <2>2 DEF Bad
  <2>4. PICK i \in 1..(l + 1) : i = l + 1 - m
    BY <2>3
  <2>5. up[i] = IF i > l THEN << >> ELSE <<SubSeq(c, i, End(i))>> \o up[End(i) + 1]
    BY <1>18
  <2>6. CASE i > l
    BY <1>16, <2>3, <2>4, <2>5, <2>6
  <2>7. CASE ~(i > l)
    <3>1. i \in 1..l
      BY <2>7
    <3>2. PICK e \in i..l : e = End(i) /\ Rest(i) = <<SubSeq(c, i, e)>> \o Rest(e + 1)
      BY <1>15, <3>1
    <3>3. PICK j \in 0..l : j = l - e /\ l + 1 - j = e + 1
      <4>1. l - e \in 0..l /\ l + 1 - (l - e) = e + 1
        BY <3>1, <3>2
      <4> QED
        BY <4>1
    <3>4. ~(m <= j)
      BY <2>3, <2>4, <3>1, <3>2, <3>3
    <3>5. up[e + 1] = Rest(e + 1)
      <4>1. j \notin Bad
        BY <2>2, <3>4
      <4> QED
        BY <3>3, <4>1 DEF Bad
    <3> QED
      BY <2>3, <2>4, <2>5, <2>7, <3>2, <3>5
  <2> QED
    BY <2>6, <2>7
<1>20. up[1] = Rest(1)
  <2>1. l \in 0..l /\ l + 1 - l = 1
    OBVIOUS
  <2> QED
    BY <1>19, <2>1
<1>21. Rest(1) = parts
  <2>1. 0 \in 0..n /\ off[0] + 1 = 1
    BY <1>4
  <2> QED
    BY <1>12, <1>13, <2>1
<1> QED
  BY <1>2, <1>4, <1>5, <1>7, <1>14, <1>20, <1>21

\* OIDType::serialise() packs the two first arcs into one sub-identifier and
\* every other arc into its own, and fromBuffer() takes the same arcs out of
\* them again: no name that is sent is read as another one, or refused.
THEOREM OIDsReadBack ==
  ASSUME NEW arcs \in Seq(Nat), OIDContents(arcs) # Failed
  PROVE  OIDValue(OIDContents(arcs)) = [type |-> "OID", arcs |-> arcs]
<1> DEFINE Sub(i) == IF i = 1 THEN arcs[1] * RootSpan + arcs[2] ELSE arcs[i + 1]
           subs == [i \in 1..(Len(arcs) - 1) |-> SubIdentifier(Sub(i))]
<1>1. /\ ~(TextLength(arcs) >= MaxOID) /\ Len(arcs) \in 2..MaxArcs
      /\ \A i \in 1..Len(arcs) : ~(arcs[i] > MaxArc)
      /\ ~(arcs[1] > 2) /\ ~(arcs[1] < 2 /\ arcs[2] >= RootSpan)
      /\ OIDContents(arcs) = Concat(subs)
  BY DEF OIDContents
<1>2. PICK span \in Nat \ {0} : span = RootSpan
  BY CodecAssumption DEF CodecAssumption
<1>3. PICK max \in Nat : max = MaxArc
  BY CodecAssumption DEF CodecAssumption
<1>4. PICK n \in Nat \ {0} : Len(arcs) = n + 1 /\ Len(arcs) - 1 = n
  <2>1. Len(arcs) - 1 \in Nat \ {0} /\ Len(arcs) = (Len(arcs) - 1) + 1
    BY <1>1
  <2> QED
    BY <2>1
<1>5. \A i \in 1..(n + 1) : arcs[i] \in 0..max
  BY <1>1, <1>3, <1>4
<1>6. PICK a \in 0..2 : a = arcs[1]
  <2>1. 1 \in 1..(n + 1)
    OBVIOUS
  <2>2. arcs[1] \in 0..max
    BY <1>5, <2>1
  <2> QED
    BY <1>1, <2>2
<1>7. PICK b \in 0..max : b = arcs[2] /\ (a < 2 => b < span)
  <2>1. 2 \in 1..(n + 1)
    OBVIOUS
  <2>2. arcs[2] \in 0..max
    BY <1>5, <2>1
  <2> QED
    BY <1>1, <1>2, <1>6, <2>2
<1>8. PICK first \in Nat : first = a * span + b /\ first <= max + 2 * span
  <2>1. a = 0 \/ a = 1 \/ a = 2
    OBVIOUS
  <2>2. a * span + b \in Nat /\ a * span + b <= max + 2 * span
    BY <2>1
  <2> QED
    BY <2>2
<1>9. Sub(1) = first /\ \A i \in 2..n : Sub(i) = arcs[i + 1]
  BY <1>2, <1>6, <1>7, <1>8
<1>10. \A i \in 1..n : Sub(i) \in Nat /\ Sub(i) <= max + 2 * span
  <2> SUFFICES ASSUME NEW i \in 1..n PROVE Sub(i) \in Nat /\ Sub(i) <= max + 2 * span
    OBVIOUS
  <2>1. CASE i = 1
    BY <1>8, <1>9, <2>1
  <2>2. CASE i # 1
    <3>1. i \in 2..n /\ i + 1 \in 1..(n + 1)
      BY <2>2
    <3>2. arcs[i + 1] \in 0..max
      BY <1>5, <3>1
    <3> QED
      BY <1>9, <3>1, <3>2
  <2> QED
    BY <2>1, <2>2
<1> HIDE DEF Sub
<1>11. \A i \in 1..n : /\ IsSubIdentifier(subs[i]) /\ Arc(subs[i]) = Sub(i)
                       /\ Len(subs[i]) = Size(Sub(i), Half) /\ subs[i][1] # Half
  <2> SUFFICES ASSUME NEW i \in 1..n
               PROVE  /\ IsSubIdentifier(subs[i]) /\ Arc(subs[i]) = Sub(i)
                      /\ Len(subs[i]) = Size(Sub(i), Half) /\ subs[i][1] # Half
    OBVIOUS
  <2>1. subs[i] = SubIdentifier(Sub(i))
    BY <1>4
  <2>2. Sub(i) \in Nat
    BY <1>10
  <2> HIDE DEF subs
  <2> QED
    BY <2>1, <2>2, SubIdentifierIs
<1>12. subs \in Seq(Seq(Nat)) /\ Len(subs) = n
  <2>1. \A i \in 1..n : SubIdentifier(Sub(i)) \in Seq(Nat)
    BY <1>10, SubIdentifierIs DEF IsSubIdentifier
  <2>2. subs \in [1..n -> Seq(Nat)]
    BY <1>4, <2>1
  <2> QED
    BY <2>2
<1> HIDE DEF subs
<1>13. /\ Concat(subs) \in Seq(Nat) /\ Len(Concat(subs)) > 0
       /\ Concat(subs)[Len(Concat(subs))] < Half
       /\ SubIdentifiers(Concat(subs)) = subs
  BY <1>11, <1>12, SubIdentifiersIs
<1>14. \A i \in 1..n : ~(Len(subs[i]) > ArcOctets)
  <2> SUFFICES ASSUME NEW i \in 1..n PROVE ~(Len(subs[i]) > ArcOctets)
    OBVIOUS
  <2>1. PICK h \in Nat : h = Half /\ h >= 2
    BY HalfBase
  <2>2. PICK w \in Nat \ {0} : w = ArcOctets
    BY CodecAssumption DEF CodecAssumption
  <2>3. PICK x \in Nat : x = Sub(i) /\ x <= max + 2 * span
    BY <1>10
  <2>4. PICK p \in Nat : p = Power(h, w)
    BY <2>1, PowerExceeds
  <2>5. max + 2 * span < p
    BY <1>2, <1>3, <2>1, <2>2, <2>4, ArcAssumption
  <2>6. x < p
    BY <2>3, <2>4, <2>5
  <2>7. Size(x, h) \in Nat /\ Size(x, h) <= w
    BY <2>1, <2>4, <2>6, SizeIs
  <2>8. Len(subs[i]) = Size(x, h)
    BY <1>11, <2>1, <2>3
  <2> QED
    BY <2>2, <2>7, <2>8
<1> DEFINE root == IF first < span THEN 0 ELSE IF first < 2 * span THEN 1 ELSE 2
           others == [i \in 1..(n - 1) |-> Arc(subs[i + 1])]
           read == <<root, first - root * span>> \o others
<1>15. root = a /\ first - root * span = b
  <2>1. a \in Nat /\ b \in Nat /\ span \in Nat /\ first \in Nat /\ first = a * span + b
    BY <1>2, <1>7, <1>8
  <2>2. CASE a = 0
    <3>1. first = b /\ first < span
      BY ONLY <1>7, <2>1, <2>2
    <3> QED
      BY ONLY <2>1, <2>2, <3>1
  <2>3. CASE a = 1
    <3>1. first = span + b /\ ~(first < span) /\ first < 2 * span
      BY ONLY <1>7, <2>1, <2>3
    <3> QED
      BY ONLY <2>1, <2>3, <3>1
  <2>4. CASE a = 2
    <3>1. first = 2 * span + b /\ ~(first < span) /\ ~(first < 2 * span)
      BY ONLY <2>1, <2>4
    <3> QED
      BY ONLY <2>1, <2>4, <3>1
  <2> QED
    BY <2>2, <2>3, <2>4
<1> HIDE DEF root
<1>16. others \in Seq(Nat) /\ Len(others) = n - 1 /\ \A i \in 1..(n - 1) : others[i] = arcs[i + 2]
  <2>1. ASSUME NEW i \in 1..(n - 1) PROVE Arc(subs[i + 1]) = arcs[i + 2] /\ arcs[i + 2] \in Nat
    <3>1. PICK j \in 2..n : j = i + 1 /\ j \in 1..n /\ j + 1 = i + 2 /\ j + 1 \in 1..(n + 1)
      <4>1. i + 1 \in 2..n /\ i + 1 \in 1..n /\ (i + 1) + 1 = i + 2 /\ (i + 1) + 1 \in 1..(n + 1)
        OBVIOUS
      <4> QED
        BY <4>1
    <3>2. Arc(subs[j]) = Sub(j) /\ Sub(j) = arcs[j + 1] /\ arcs[j + 1] \in 0..max
      BY <1>5, <1>9, <1>11, <3>1
    <3> QED
      BY <3>1, <3>2
  <2>2. others \in [1..(n - 1) -> Nat] /\ \A i \in 1..(n - 1) : others[i] = arcs[i + 2]
    BY <2>1
  <2>3. n - 1 \in Nat
    OBVIOUS
  <2> HIDE DEF others
  <2> QED
    BY <2>2, <2>3
<1> HIDE DEF others
<1>17. read = arcs
  <2>1. PICK x \in Seq(Nat) : x = <<a, b>> /\ Len(x) = 2 /\ x[1] = a /\ x[2] = b
    <3>1. <<a, b>> \in Seq(Nat) /\ Len(<<a, b>>) = 2 /\ <<a, b>>[1] = a /\ <<a, b>>[2] = b
      BY SMT
    <3> QED
      BY ONLY <3>1
  <2>2. read = x \o others
    BY <1>15, <2>1
  <2>3. /\ read \in Seq(Nat) /\ Len(read) = 2 + (n - 1)
        /\ \A i \in 1..(2 + (n - 1)) : read[i] = IF i <= 2 THEN x[i] ELSE others[i - 2]
    <3> HIDE DEF read
    <3> QED
      BY <1>16, <2>1, <2>2, Concatenated
  <2> HIDE DEF read
  <2>4. ASSUME NEW i \in 1..(n + 1) PROVE read[i] = arcs[i]
    <3>1. i \in 1..(2 + (n - 1))
      OBVIOUS
    <3>2. CASE i <= 2
      <4>1. i = 1 \/ i = 2
        BY <3>2
      <4> QED
        BY <1>6, <1>7, <2>1, <2>3, <3>1, <3>2, <4>1
    <3>3. CASE ~(i <= 2)
      <4>1. i - 2 \in 1..(n - 1) /\ (i - 2) + 2 = i
        BY <3>3
      <4> QED
        BY <1>16, <2>3, <3>1, <3>3, <4>1
    <3> QED
      BY <3>2, <3>3
  <2>5. Len(read) = n + 1
    BY <2>3
  <2> QED
    BY <1>4, <2>3, <2>4, <2>5
<1> HIDE DEF read
<1>18. PICK c : c = Concat(subs)
  OBVIOUS
<1>19. c # << >> /\ ~(c[Len(c)] >= Half) /\ SubIdentifiers(c) = subs
  <2>1. PICK l \in Nat \ {0} : l = Len(c)
    BY <1>13, <1>18
  <2>2. c[l] \in Nat /\ c[l] < Half
    BY <1>13, <1>18, <2>1
  <2> QED
    BY <1>13, <1>18, <2>1, <2>2, HalfBase
<1>20. Arc(subs[1]) = first
  <2>1. 1 \in 1..n
    OBVIOUS
  <2> QED
    BY <1>9, <1>11, <2>1
<1>21. ~ \/ \E i \in 1..Len(subs) : Len(subs[i]) > ArcOctets \/ subs[i][1] = Half
         \/ first > MaxArc + 2 * RootSpan
         \/ \E i \in 3..Len(arcs) : arcs[i] > MaxArc
         \/ Len(arcs) > MaxArcs \/ TextLength(arcs) >= MaxOID
  <2>1. ~ \E i \in 1..Len(subs) : Len(subs[i]) > ArcOctets \/ subs[i][1] = Half
    BY <1>11, <1>12, <1>14
  <2>2. ~(first > MaxArc + 2 * RootSpan)
    BY <1>2, <1>3, <1>8
  <2>3. ~ \E i \in 3..Len(arcs) : arcs[i] > MaxArc
    <3>1. \A i \in 3..Len(arcs) : i \in 1..Len(arcs)
      BY <1>4
    <3> QED
      BY <1>1, <3>1
  <2>4. ~(Len(arcs) > MaxArcs)
    <3>1. MaxArcs \in Nat
      BY CodecAssumption DEF CodecAssumption
    <3> QED
      BY <1>1, <3>1
  <2> QED
    BY <1>1, <2>1, <2>2, <2>3, <2>4
<1>22. OIDValue(c) = [type |-> "OID", arcs |-> read]
  <2>1. read = <<root, first - root * RootSpan>> \o [i \in 1..(Len(subs) - 1) |-> Arc(subs[i + 1])]
    BY <1>2, <1>12 DEF read, others
  <2>2. root = IF first < RootSpan THEN 0 ELSE IF first < 2 * RootSpan THEN 1 ELSE 2
    BY <1>2 DEF root
  <2> QED
    BY <1>17, <1>19, <1>20, <1>21, <2>1, <2>2 DEF OIDValue
<1> QED
  BY <1>1, <1>17, <1>18, <1>22

-----------------------------------------------------------------------------
(***************************************************************************)
(* Every primitive value is read back.                                     *)
(***************************************************************************)
LEMMA OctetsAreNumbers == Octet \subseteq Nat /\ \A s \in Seq(Octet) : s \in Seq(Nat)
<1>1. Octet \subseteq Nat
  BY HalfBase DEF Octet
<1>2. ASSUME NEW s \in Seq(Octet) PROVE s \in Seq(Nat)
  <2>1. PICK n \in Nat : s \in [1..n -> Octet]
    BY SeqDef
  <2>2. s \in [1..n -> Nat]
    BY <1>1, <2>1
  <2> QED
    BY <2>2, SeqDef
<1> QED
  BY <1>1, <1>2

LEMMA ConcatOctets ==
  ASSUME NEW n \in Nat, NEW parts, Len(parts) = n, \A i \in 1..n : parts[i] \in Seq(Octet)
  PROVE  Concat(parts) \in Seq(Octet)
<1>1. \A i \in 1..n : parts[i] \in Seq(Nat)
  BY OctetsAreNumbers
<1>2. PICK f : Joined(f, parts, n) /\ Concat(parts) = f[n]
  BY <1>1, ConcatIs
<1>3. f[0] = << >> /\ \A i \in 1..n : f[i] = f[i - 1] \o parts[i]
  BY <1>2 DEF Joined
<1> DEFINE Bad == {i \in 0..n : f[i] \notin Seq(Octet)}
<1>4. Bad = {}
  <2> SUFFICES ASSUME Bad # {} PROVE FALSE
    OBVIOUS
  <2>1. Bad \in SUBSET Nat
    OBVIOUS
  <2> HIDE DEF Bad
  <2>2. PICK i \in Bad : \A j \in Bad : i <= j
    BY <2>1, SmallestExists
  <2>3. i \in 0..n /\ f[i] \notin Seq(Octet)
    BY <2>2 DEF Bad
  <2>4. i # 0
    <3>1. << >> \in Seq(Octet)
      OBVIOUS
    <3> QED
      BY <1>3, <2>3, <3>1
  <2>5. i \in 1..n /\ i - 1 \in 0..n /\ ~(i <= i - 1)
    BY <2>3, <2>4
  <2>6. f[i - 1] \in Seq(Octet)
    BY <2>2, <2>5 DEF Bad
  <2>7. f[i] = f[i - 1] \o parts[i] /\ parts[i] \in Seq(Octet)
    BY <1>3, <2>5
  <2> QED
    BY <2>3, <2>6, <2>7, ConcatProperties
<1> QED
  BY <1>2, <1>4

LEMMA IntegerContentsOctets ==
  ASSUME NEW n \in Nat, NEW signed \in BOOLEAN
  PROVE  IntegerContents(n, signed) \in Seq(Octet)
<1>1. PICK k \in 1..(WordOctets + 2 - Leading(signed)) :
        IntegerContents(n, signed) = Digits(n % Power(Base, WordOctets), k, Base)
  BY ContentsAreAWindow
<1>2. k \in Nat
  BY Widths DEF Leading
<1>3. n % Power(Base, WordOctets) \in Nat
  BY PaddedIs
<1>4. Base \in Nat \ {0}
  BY HalfBase
<1> QED
  BY <1>1, <1>2, <1>3, <1>4, DigitsShape DEF Octet

LEMMA Counter64ContentsOctets ==
  ASSUME NEW n \in Nat
  PROVE  Counter64Contents(n) \in Seq(Octet)
<1>1. Base \in Nat /\ Base >= 2
  BY HalfBase
<1>2. PICK c \in Seq(Octet) : c = ShortDigits(n, Base)
  BY <1>1, ShortDigitsRead DEF Octet
<1>3. <<0>> \in Seq(Octet)
  <2>1. 0 \in Octet
    BY <1>1 DEF Octet
  <2> QED
    BY <2>1
<1>4. <<0>> \o c \in Seq(Octet)
  BY <1>3, ConcatProperties
<1> QED
  BY <1>2, <1>4 DEF Counter64Contents

LEMMA SubIdentifierOctets ==
  ASSUME NEW n \in Nat
  PROVE  SubIdentifier(n) \in Seq(Octet)
<1>1. PICK h \in Nat : h = Half /\ h >= 2 /\ Base = 2 * h
  BY HalfBase
<1>2. PICK ds \in Seq(0..(h - 1)) : ds = ShortDigits(n, h)
  BY <1>1, ShortDigitsRead
<1>3. \A i \in 1..Len(ds) : ds[i] \in Octet /\ ds[i] + h \in Octet
  <2> SUFFICES ASSUME NEW i \in 1..Len(ds) PROVE ds[i] \in Octet /\ ds[i] + h \in Octet
    OBVIOUS
  <2>1. ds[i] \in 0..(h - 1)
    OBVIOUS
  <2> QED
    BY <1>1, <2>1 DEF Octet
<1>4. [i \in 1..Len(ds) |-> IF i < Len(ds) THEN ds[i] + h ELSE ds[i]] \in Seq(Octet)
  BY <1>3
<1> QED
  BY <1>1, <1>2, <1>4 DEF SubIdentifier

LEMMA OIDContentsOctets ==
  ASSUME NEW arcs \in Seq(Nat), OIDContents(arcs) # Failed
  PROVE  OIDContents(arcs) \in Seq(Octet)
<1> DEFINE Sub(i) == IF i = 1 THEN arcs[1] * RootSpan + arcs[2] ELSE arcs[i + 1]
           subs == [i \in 1..(Len(arcs) - 1) |-> SubIdentifier(Sub(i))]
<1>1. Len(arcs) \in 2..MaxArcs /\ OIDContents(arcs) = Concat(subs)
  BY DEF OIDContents
<1>2. PICK span \in Nat : span = RootSpan
  BY CodecAssumption DEF CodecAssumption
<1>3. PICK n \in Nat : Len(arcs) = n + 1 /\ Len(arcs) - 1 = n
  <2>1. Len(arcs) - 1 \in Nat /\ Len(arcs) = (Len(arcs) - 1) + 1
    BY <1>1
  <2> QED
    BY <2>1
<1>4. ASSUME NEW i \in 1..n PROVE Sub(i) \in Nat
  <2>1. 1 \in 1..(n + 1) /\ 2 \in 1..(n + 1) /\ i + 1 \in 1..(n + 1)
    OBVIOUS
  <2>2. arcs[1] \in Nat /\ arcs[2] \in Nat /\ arcs[i + 1] \in Nat
    BY <1>3, <2>1
  <2>3. arcs[1] * span + arcs[2] \in Nat
    BY <2>2
  <2> QED
    BY <1>2, <2>2, <2>3
<1> HIDE DEF Sub
<1>5. Len(subs) = n /\ \A i \in 1..n : subs[i] \in Seq(Octet)
  <2>1. Len(subs) = n /\ \A i \in 1..n : subs[i] = SubIdentifier(Sub(i))
    BY <1>3
  <2> HIDE DEF subs
  <2> QED
    BY <1>4, <2>1, SubIdentifierOctets
<1> HIDE DEF subs
<1> QED
  BY <1>1, <1>5, ConcatOctets

\* The values a primitive object can hold: an Opaque no more than its array.
PrimitiveValue ==
  [type : {"Integer"} \cup Unsigned, number : Nat]
    \cup [type : {"Counter64"}, number : {n \in Nat : n < Power(Base, Counter64Octets)}]
    \cup [type : {"OID"}, arcs : Seq(Nat)]
    \cup [type : {"Octets"}, octets : Seq(Octet)]
    \cup [type : {"Opaque"}, octets : {s \in Seq(Octet) : Len(s) <= MaxOctets}]
    \cup [type : {"Address"}, octets : {s \in Seq(Octet) : Len(s) = AddressOctets}]
    \cup [type : {"Null"} \cup Exceptions]

\* What a peer reads of a value.
ReadAs(v) == IF v.type \in {"Integer"} \cup Unsigned THEN IntegerOf(v.type, v.number) ELSE v

\* What serialise() writes of a value of any primitive class, fromBuffer() of
\* that class reads as the same value, but for the octets that an integer does
\* not keep: the length limits of the two agree.
THEOREM ValuesReadBack ==
  ASSUME NEW v \in PrimitiveValue, ~Unserialisable(v)
  PROVE  /\ Contents(v) \in Seq(Octet)
         /\ FromBuffer(v.type, Contents(v)) = ReadAs(v)
         /\ ReadAs(v) # Invalid /\ ReadAs(v).type = v.type
<1>1. CASE v \in [type : {"Integer"} \cup Unsigned, number : Nat]
  <2>1. /\ v.type \in {"Integer"} \cup Unsigned /\ v.number \in Nat
        /\ Contents(v) = IntegerContents(v.number, v.type = "Integer")
    BY <1>1 DEF Contents, Unsigned
  <2>2. ReadAs(v) = IntegerOf(v.type, v.number)
    BY <2>1 DEF ReadAs
  <2>3. FromBuffer(v.type, Contents(v)) = IntegerValue(v.type, Contents(v))
    BY <2>1 DEF FromBuffer, Unsigned, Exceptions
  <2>4. ReadAs(v).type = v.type /\ ReadAs(v).type # "Invalid"
    BY <2>1, <2>2 DEF IntegerOf, Unsigned
  <2>5. IntegerValue(v.type, Contents(v)) = IntegerOf(v.type, v.number)
    BY <2>1, IntegersReadBack
  <2>6. Contents(v) \in Seq(Octet)
    BY <2>1, IntegerContentsOctets
  <2>7. ReadAs(v) # Invalid
    BY <2>4 DEF Invalid
  <2> QED
    BY <2>2, <2>3, <2>4, <2>5, <2>6, <2>7
<1>2. CASE v \in [type : {"Counter64"},
                  number : {n \in Nat : n < Power(Base, Counter64Octets)}]
  <2>1. /\ v.type = "Counter64" /\ v.number \in Nat
        /\ v.number < Power(Base, Counter64Octets)
        /\ v = [type |-> "Counter64", number |-> v.number]
    BY <1>2
  <2>2. Contents(v) = Counter64Contents(v.number) /\ ReadAs(v) = v
    BY <2>1 DEF Contents, ReadAs, Unsigned
  <2>3. FromBuffer(v.type, Contents(v)) = Counter64Value(Contents(v))
    BY <2>1 DEF FromBuffer, Unsigned, Exceptions
  <2> QED
    BY <2>1, <2>2, <2>3, Counter64ReadsBack, Counter64ContentsOctets DEF Invalid
<1>3. CASE v \in [type : {"OID"}, arcs : Seq(Nat)]
  <2>1. v.type = "OID" /\ v.arcs \in Seq(Nat) /\ v = [type |-> "OID", arcs |-> v.arcs]
    BY <1>3
  <2>2. /\ Contents(v) = OIDContents(v.arcs) /\ ReadAs(v) = v
        /\ OIDContents(v.arcs) # Failed
    BY <2>1 DEF Contents, ReadAs, Unsigned, Unserialisable
  <2>3. FromBuffer(v.type, Contents(v)) = OIDValue(Contents(v))
    BY <2>1 DEF FromBuffer, Unsigned, Exceptions
  <2> QED
    BY <2>1, <2>2, <2>3, OIDsReadBack, OIDContentsOctets DEF Invalid
<1>4. CASE \/ v \in [type : {"Octets"}, octets : Seq(Octet)]
           \/ v \in [type : {"Opaque"}, octets : {s \in Seq(Octet) : Len(s) <= MaxOctets}]
  <2>1. /\ v.type \in {"Octets", "Opaque"} /\ v.octets \in Seq(Octet)
        /\ v = [type |-> v.type, octets |-> v.octets]
        /\ v.type = "Opaque" => Len(v.octets) <= MaxOctets
    BY <1>4
  <2>2. Contents(v) = v.octets /\ ReadAs(v) = v
    BY <2>1 DEF Contents, ReadAs, Unsigned
  <2>3. FromBuffer(v.type, Contents(v)) = OctetsValue(v.type, v.octets)
    BY <2>1, <2>2 DEF FromBuffer, Unsigned, Exceptions
  <2>4. ~(Len(v.octets) > (IF v.type = "Octets" THEN MaxOctets - 1 ELSE MaxOctets))
    <3>1. MaxOctets \in Nat /\ Len(v.octets) \in Nat
      BY <2>1, CodecAssumption DEF CodecAssumption
    <3>2. v.type = "Octets" => ~(Len(v.octets) >= MaxOctets)
      BY DEF Unserialisable
    <3> QED
      BY <2>1, <3>1, <3>2
  <2>5. OctetsValue(v.type, v.octets) = v
    BY <2>1, <2>4 DEF OctetsValue
  <2>6. v # Invalid
    BY <2>1 DEF Invalid
  <2> QED
    BY <2>1, <2>2, <2>3, <2>5, <2>6
<1>5. CASE v \in [type : {"Address"},
                  octets : {s \in Seq(Octet) : Len(s) = AddressOctets}]
  <2>1. /\ v.type = "Address" /\ v.octets \in Seq(Octet)
        /\ v = [type |-> v.type, octets |-> v.octets] /\ Len(v.octets) = AddressOctets
    BY <1>5
  <2>2. Contents(v) = v.octets /\ ReadAs(v) = v
    BY <2>1 DEF Contents, ReadAs, Unsigned
  <2>3. FixedLength(v.type, Len(v.octets))
    BY <2>1 DEF FixedLength, Exceptions
  <2>4. FromBuffer(v.type, Contents(v)) = [type |-> v.type, octets |-> v.octets]
    BY <2>1, <2>2, <2>3 DEF FromBuffer, Unsigned, Exceptions
  <2>5. v # Invalid
    BY <2>1 DEF Invalid
  <2> QED
    BY <2>1, <2>2, <2>4, <2>5
<1>6. CASE v \in [type : {"Null"} \cup Exceptions]
  <2>1. v.type \in {"Null"} \cup Exceptions /\ v = [type |-> v.type]
    BY <1>6
  <2>2. Contents(v) = << >> /\ ReadAs(v) = v
    BY <2>1 DEF Contents, ReadAs, Unsigned, Exceptions
  <2>3. FixedLength(v.type, Len(Contents(v)))
    BY <2>1, <2>2 DEF FixedLength, Exceptions
  <2>4. FromBuffer(v.type, Contents(v)) = [type |-> v.type]
    BY <2>1, <2>3 DEF FromBuffer, Unsigned, Exceptions
  <2>5. v.type # "Invalid"
    BY <2>1 DEF Exceptions
  <2>6. Contents(v) \in Seq(Octet)
    BY <2>2
  <2> QED
    BY <2>1, <2>2, <2>4, <2>5, <2>6 DEF Invalid
<1> QED
  BY <1>1, <1>2, <1>3, <1>4, <1>5, <1>6 DEF PrimitiveValue

-----------------------------------------------------------------------------
(***************************************************************************)
(* Frames inside other octets.                                             *)
(***************************************************************************)
\* The octets at + 1, at + 2, ... of buf are those of b.
Occurs(b, buf, at) ==
  /\ at \in Nat /\ at + Len(b) <= Len(buf)
  /\ \A i \in 1..Len(b) : buf[at + i] = b[i]

\* A header is read the same wherever its frame is.
LEMMA HeaderShifts ==
  ASSUME NEW b \in Seq(Octet), NEW buf \in Seq(Octet), NEW at, Occurs(b, buf, at),
         ReadHeader(b, 0, Len(b)).ok
  PROVE  ReadHeader(buf, at, at + Len(b)) = ReadHeader(b, 0, Len(b))
<1> DEFINE First(s, x) == s[x + 2]
           Octets(s, x) == IF First(s, x) < Half THEN 0 ELSE First(s, x) - Half
           O(s, x) == [i \in 1..Octets(s, x) |-> s[x + 2 + i]]
           Length(s, x) == CASE Octets(s, x) = 0 -> First(s, x)
                             [] Octets(s, x) = 1 -> O(s, x)[1]
                             [] OTHER -> O(s, x)[Octets(s, x) - 1] * Base
                                           + O(s, x)[Octets(s, x)]
           Bad(s, x, n) == \/ n < 2
                           \/ First(s, x) = Half \/ Octets(s, x) = Half - 1
                           \/ Octets(s, x) > n - 2
                           \/ \E i \in 1..(Octets(s, x) - 2) : O(s, x)[i] # 0
                           \/ Length(s, x) > n - 2 - Octets(s, x)
           Parsed(s, x, n) ==
             IF Bad(s, x, n) THEN [ok |-> FALSE, header |-> 0, length |-> 0]
               ELSE [ok |-> TRUE, header |-> 2 + Octets(s, x), length |-> Length(s, x)]
<1>1. PICK l \in Nat : l = Len(b)
  OBVIOUS
<1>2. at \in Nat /\ \A i \in 1..l : buf[at + i] = b[i]
  BY <1>1 DEF Occurs
<1>3. (at + l) - at = l /\ l - 0 = l
  BY <1>2
<1>4. ReadHeader(buf, at, at + l) = Parsed(buf, at, l)
  <2>1. ReadHeader(buf, at, at + l) = Parsed(buf, at, (at + l) - at)
    BY DEF ReadHeader
  <2> QED
    BY <1>3, <2>1
<1>5. ReadHeader(b, 0, l) = Parsed(b, 0, l)
  <2>1. ReadHeader(b, 0, l) = Parsed(b, 0, l - 0)
    BY DEF ReadHeader
  <2> QED
    BY <1>3, <2>1
<1> HIDE DEF Bad
<1>6. ~Bad(b, 0, l)
  BY <1>1, <1>5
<1>7. l >= 2 /\ ~(Octets(b, 0) > l - 2)
  BY <1>1, <1>6 DEF Bad
<1>8. First(buf, at) = First(b, 0)
  <2>1. 2 \in 1..l /\ 0 + 2 = 2
    BY <1>7
  <2> QED
    BY <1>2, <2>1
<1> HIDE DEF First
<1>9. First(b, 0) \in Nat
  <2>1. 2 \in 1..Len(b) /\ 0 + 2 = 2
    BY <1>1, <1>7
  <2>2. b[2] \in Octet
    BY <2>1
  <2> QED
    BY <2>1, <2>2, HalfBase DEF First, Octet
<1>10. Octets(buf, at) = Octets(b, 0)
  BY <1>8
<1>11. Octets(b, 0) \in Nat
  BY <1>9, HalfBase
<1> HIDE DEF Octets
<1>12. O(buf, at) = O(b, 0)
  <2>1. ASSUME NEW i \in 1..Octets(b, 0) PROVE buf[at + 2 + i] = b[0 + 2 + i]
    <3>1. PICK k \in Nat : k = Octets(b, 0) /\ k <= l - 2
      BY <1>7, <1>11
    <3>2. 2 + i \in 1..l /\ at + 2 + i = at + (2 + i) /\ 0 + 2 + i = 2 + i
      BY <1>2, <3>1
    <3> QED
      BY <1>2, <3>2
  <2> QED
    BY <1>10, <2>1
<1> HIDE DEF O
<1>13. Length(buf, at) = Length(b, 0)
  BY <1>8, <1>10, <1>12
<1> HIDE DEF Length
<1>14. Bad(buf, at, l) = Bad(b, 0, l)
  BY <1>8, <1>10, <1>12, <1>13 DEF Bad
<1> QED
  BY <1>1, <1>4, <1>5, <1>10, <1>13, <1>14

-----------------------------------------------------------------------------
(***************************************************************************)
(* Every value that was read can be written.                               *)
(*                                                                         *)
(* serialise() of a class writes the shortest encoding, fromBuffer() of it *)
(* also takes longer ones: what one accepts the other is not to refuse,    *)
(* and is not to make any longer.                                          *)
(***************************************************************************)
\* The first digit says between which multiples of a power a number lies.
LEMMA NumberBounds ==
  ASSUME NEW b \in Nat, b >= 2, NEW ds \in Seq(Nat), NEW n \in Nat, Len(ds) = n + 1,
         \A i \in 1..(n + 1) : ds[i] < b
  PROVE  /\ Number(ds, b) \in Nat /\ ds[1] \in Nat /\ Power(b, n) \in Nat \ {0}
         /\ ds[1] * Power(b, n) <= Number(ds, b)
         /\ Number(ds, b) < (ds[1] + 1) * Power(b, n)
<1>1. PICK d \in Nat : d = ds[1]
  <2>1. 1 \in 1..Len(ds)
    OBVIOUS
  <2> QED
    BY <2>1
<1>2. PICK f : Numbers(f, ds, b, n + 1) /\ Number(ds, b) = f[n + 1]
  BY NumberIs
<1>3. /\ f \in [0..(n + 1) -> Nat] /\ f[0] = 0
      /\ \A i \in 1..(n + 1) : f[i] = f[i - 1] * b + ds[i]
  BY <1>2 DEF Numbers
<1>4. \A k \in Nat : Power(b, k) \in Nat \ {0} /\ Power(b, k + 1) = Power(b, k) * b
  <2>1. b \in Nat \ {0}
    OBVIOUS
  <2>2. \A k \in Nat : Power(b, k) \in Nat \ {0}
    BY <2>1, PowerPositive
  <2> QED
    BY <2>2, PowerNext
<1> DEFINE Good(k) == d * Power(b, k) <= f[k + 1] /\ f[k + 1] < (d + 1) * Power(b, k)
           Bad == {k \in 0..n : ~Good(k)}
<1>5. Bad = {}
  <2> SUFFICES ASSUME Bad # {} PROVE FALSE
    OBVIOUS
  <2>1. Bad \in SUBSET Nat
    OBVIOUS
  <2> HIDE DEF Bad
  <2>2. PICK k \in Bad : \A j \in Bad : k <= j
    BY <2>1, SmallestExists
  <2>3. k \in 0..n /\ ~Good(k)
    BY <2>2 DEF Bad
  <2>4. k # 0
    <3>1. f[1] = d
      <4>1. 1 \in 1..(n + 1)
        OBVIOUS
      <4>2. f[1] = f[0] * b + ds[1]
        BY <1>3, <4>1
      <4> QED
        BY <1>1, <1>3, <4>2
    <3>2. Power(b, 0) = 1
      BY PowerZero
    <3> QED
      BY <2>3, <3>1, <3>2
  <2>5. PICK j \in 0..n : j + 1 = k /\ j \in Nat
    <3>1. k - 1 \in 0..n /\ (k - 1) + 1 = k
      BY <2>3, <2>4
    <3> QED
      BY <3>1
  <2>6. Good(j)
    <3>1. ~(k <= j)
      BY <2>5
    <3> QED
      BY <2>2, <2>5, <3>1 DEF Bad
  <2>7. PICK p \in Nat : p = Power(b, j)
    BY <1>4, <2>5
  <2>8. Power(b, k) = p * b
    BY <1>4, <2>5, <2>7
  <2>9. PICK e \in 0..(b - 1) : e = ds[k + 1]
    <3>1. k + 1 \in 1..(n + 1)
      BY <2>3
    <3> QED
      BY <3>1
  <2>10. PICK x \in Nat : x = f[j + 1]
    BY <1>3, <2>5
  <2>11. f[k + 1] = x * b + e
    <3>1. k + 1 \in 1..(n + 1) /\ (k + 1) - 1 = j + 1
      BY <2>3, <2>5
    <3> QED
      BY <1>3, <2>9, <2>10, <3>1
  <2>12. d * p <= x /\ x < (d + 1) * p
    BY <2>6, <2>7, <2>10
  <2>13. d * (p * b) <= x * b + e /\ x * b + e < (d + 1) * (p * b)
    <3>1. PICK y \in Nat : y = d * p
      OBVIOUS
    <3>2. d * (p * b) = y * b /\ (d + 1) * p = y + p /\ (d + 1) * (p * b) = (y + p) * b
      BY <3>1
    <3>3. (x - y) * b >= 0 /\ (y + p - 1 - x) * b >= 0
      BY <2>12, <3>1, <3>2
    <3>4. (x - y) * b = x * b - y * b /\ (y + p - 1 - x) * b = (y + p) * b - b - x * b
      OBVIOUS
    <3>5. x * b \in Nat /\ y * b \in Nat /\ (y + p) * b \in Nat
      OBVIOUS
    <3> HIDE <3>1
    <3> QED
      BY <3>2, <3>3, <3>4, <3>5
  <2> QED
    BY <2>3, <2>8, <2>11, <2>13
<1>6. Good(n)
  BY <1>5
<1>7. f[n + 1] \in Nat
  BY <1>3
<1> QED
  BY <1>1, <1>2, <1>4, <1>6, <1>7

\* A window with a digit more is a window, and its first digit is redundant.
LEMMA WindowGrows ==
  ASSUME NEW v \in Int, NEW j \in Nat \ {0}, Window(v, j)
  PROVE  /\ Window(v, j + 1)
         /\ v >= 0 => Digit(v, j) = 0 /\ Digit(v, j - 1) < Half
         /\ v < 0 => Digit(v, j) = Base - 1 /\ Digit(v, j - 1) >= Half
<1>1. PICK i \in Nat : i = j - 1 /\ i + 1 = j /\ (j + 1) - 1 = j
  OBVIOUS
<1>2. PICK p \in Nat \ {0} : p = Power(Base, i)
  BY BasePower
<1>3. PICK b \in Nat \ {0} : b = Base /\ b = 2 * Half /\ Half >= 2 /\ Half \in Nat
  BY HalfBase
<1>4. Power(Base, j) = p * b
  BY <1>1, <1>2, <1>3, BasePower
<1>5. PICK q \in Int : q = v \div p
  BY <1>2, Division
<1>6. q >= -Half /\ q < Half
  BY <1>1, <1>2, <1>5 DEF Window
<1>7. v \div Power(Base, j) = q \div b
  <2>1. v \in Int /\ p \in Nat \ {0} /\ b \in Nat \ {0}
    OBVIOUS
  <2>2. v \div (p * b) = (v \div p) \div b
    BY ONLY <2>1, DivideTwice
  <2> QED
    BY ONLY <1>4, <1>5, <2>2
<1>8. q >= 0 <=> v >= 0
  BY <1>1, <1>2, <1>5, WindowDigit
<1>9. CASE q >= 0
  <2>1. q \in 0..(b - 1) /\ b * 0 + q = q /\ 0 \in Int
    BY <1>3, <1>5, <1>6, <1>9
  <2>2. (b * 0 + q) \div b = 0 /\ (b * 0 + q) % b = q
    BY <2>1, Unique
  <2>3. q \div b = 0 /\ q % b = q
    BY <2>1, <2>2
  <2>4. Digit(v, j) = 0 % b /\ Digit(v, j - 1) = q % b
    BY <1>1, <1>2, <1>3, <1>5, <1>7, <2>3 DEF Digit
  <2> QED
    BY <1>1, <1>3, <1>6, <1>7, <1>8, <1>9, <2>3, <2>4 DEF Window
<1>10. CASE q < 0
  <2>1. q + b \in 0..(b - 1) /\ b * (-1) + (q + b) = q /\ -1 \in Int
    BY <1>3, <1>5, <1>6, <1>10
  <2>2. (b * (-1) + (q + b)) \div b = -1 /\ (b * (-1) + (q + b)) % b = q + b
    BY <2>1, Unique
  <2>3. q \div b = -1 /\ q % b = q + b
    BY <2>1, <2>2
  <2>4. b - 1 \in 0..(b - 1) /\ b * (-1) + (b - 1) = -1
    BY <1>3
  <2>5. (b * (-1) + (b - 1)) % b = b - 1
    BY <2>1, <2>4, Unique
  <2>6. Digit(v, j) = b - 1 /\ Digit(v, j - 1) = q + b
    BY <1>1, <1>2, <1>3, <1>5, <1>7, <2>3, <2>4, <2>5 DEF Digit
  <2> QED
    BY <1>1, <1>3, <1>5, <1>6, <1>7, <1>8, <1>10, <2>3, <2>6 DEF Window
<1> QED
  BY <1>5, <1>9, <1>10

\* The octets before the redundant ones go are digits of what is kept.
LEMMA KeptDigits ==
  ASSUME NEW n \in Nat, NEW signed \in BOOLEAN,
         NEW i \in Leading(signed)..WordOctets,
         NEW j \in Nat \ {0}, j = WordOctets + 1 - i
  PROVE  /\ Padded(n)[i] = Digit(Kept(n, signed), j)
         /\ Padded(n)[i + 1] = Digit(Kept(n, signed), j - 1)
<1>1. PICK w \in Nat \ {0} : w = WordOctets
  BY Widths
<1>2. i \in 1..w /\ (signed => i >= 2)
  BY <1>1 DEF Leading
<1>3. j = w + 1 - i
  BY <1>1
<1>4. /\ w + 1 - (i + 1) = j - 1
      /\ i \in 1..(w + 1) /\ i + 1 \in 1..(w + 1)
  BY <1>1, <1>2, <1>3
<1>5. PICK m \in Nat : m = n % Power(Base, WordOctets)
  BY PaddedIs
<1>6. Padded(n)[i] = Digit(m, j) /\ Padded(n)[i + 1] = Digit(m, j - 1)
  BY <1>1, <1>3, <1>4, <1>5, PaddedIs
<1>7. PICK v \in Int : v = Kept(n, signed)
  BY FirstWindow
<1>8. CASE signed
  <2>1. PICK e \in Int : v = m - Power(Base, w) * e
    <3>1. PICK p \in Nat : p = Power(Base, w)
      BY <1>1, BasePower
    <3>2. v = IF Negative(n) THEN m - p ELSE m
      BY <1>1, <1>5, <1>7, <1>8, <3>1 DEF Kept
    <3>3. m - p * 1 = m - p /\ m - p * 0 = m
      BY <3>1
    <3> QED
      BY <3>1, <3>2, <3>3
  <2>2. j \in 0..w /\ j + 1 \in 0..w /\ j > 0 /\ j + 1 > 0 /\ (j + 1) - 1 = j
    BY <1>1, <1>2, <1>3, <1>8
  <2>3. m \in Int /\ w \in Nat
    OBVIOUS
  <2>4. ASSUME NEW h \in 0..w, h > 0 PROVE Digit(v, h - 1) = Digit(m, h - 1)
    BY <2>1, <2>3, <2>4, SameDigits
  <2>5. Digit(v, j) = Digit(m, j) /\ Digit(v, j - 1) = Digit(m, j - 1)
    BY <2>2, <2>4
  <2> QED
    BY <1>6, <1>7, <2>5
<1>9. CASE ~signed
  <2>1. v = m
    BY <1>5, <1>7, <1>9 DEF Kept
  <2> QED
    BY <1>6, <1>7, <2>1
<1> QED
  BY <1>8, <1>9

\* IntegerType::serialise() writes no window that is longer than need be.
LEMMA ContentsShortest ==
  ASSUME NEW n \in Nat, NEW signed \in BOOLEAN,
         NEW m \in 1..(WordOctets + 2 - Leading(signed)), Window(Kept(n, signed), m)
  PROVE  Len(IntegerContents(n, signed)) <= m
<1>1. PICK w \in Nat \ {0} : w = WordOctets
  BY Widths
<1>2. PICK first \in 1..2 : first = Leading(signed)
  BY DEF Leading
<1> DEFINE Stays == {i \in first..(w + 1) : i = w + 1 \/ ~Redundant(Padded(n), i, signed)}
<1>3. Stays \in SUBSET Nat /\ Stays # {}
  <2>1. w + 1 \in Stays
    BY <1>1, <1>2
  <2>2. first..(w + 1) \subseteq Nat
    BY <1>2
  <2> QED
    BY <2>1, <2>2
<1>4. IntegerContents(n, signed) = SubSeq(Padded(n), LeastOf(Stays), w + 1)
  BY <1>1, <1>2 DEF IntegerContents, Padded, Leading
<1>5. PICK s \in first..(w + 1) :
        s = LeastOf(Stays) /\ (s = w + 1 \/ ~Redundant(Padded(n), s, signed))
  <2>1. LeastOf(Stays) \in Stays
    BY <1>3, LeastOfIs
  <2> QED
    BY <2>1
<1> HIDE DEF Stays
<1>6. Len(IntegerContents(n, signed)) = w + 2 - s
  <2>1. PICK low \in Nat : Padded(n) = Digits(low, w + 1, Base)
    BY <1>1, PaddedIs
  <2>2. PICK l \in Nat : l = w + 1
    BY <1>1
  <2>3. Base \in Nat \ {0} /\ s \in 1..(l + 1) /\ l + 1 - s \in Nat /\ l + 1 - s = w + 2 - s
    BY <1>1, <1>2, <2>2, HalfBase
  <2>4. SubSeq(Digits(low, l, Base), s, l) = Digits(low, l + 1 - s, Base)
    BY <2>3, LastDigits
  <2>5. Len(Digits(low, l + 1 - s, Base)) = l + 1 - s
    BY <2>3, DigitsShape
  <2> QED
    BY <1>4, <1>5, <2>1, <2>2, <2>3, <2>4, <2>5
<1>7. m \in Nat \ {0} /\ m <= w + 2 - first
  BY <1>1, <1>2
<1> SUFFICES ASSUME w + 2 - s > m PROVE FALSE
  BY <1>6, <1>7
<1>8. PICK k \in Nat \ {0} : k = w + 1 - s /\ m <= k
  <2>1. w + 1 - s \in Nat \ {0} /\ m <= w + 1 - s
    BY <1>2, <1>7
  <2> QED
    BY <2>1
<1>9. s \in first..w /\ s # w + 1
  BY <1>2, <1>8
<1>10. PICK v \in Int : v = Kept(n, signed)
  BY FirstWindow
<1> DEFINE Bad == {i \in m..k : ~Window(v, i)}
<1>11. Bad = {}
  <2> SUFFICES ASSUME Bad # {} PROVE FALSE
    OBVIOUS
  <2>1. Bad \in SUBSET Nat
    BY <1>7
  <2> HIDE DEF Bad
  <2>2. PICK i \in Bad : \A h \in Bad : i <= h
    BY <2>1, SmallestExists
  <2>3. i \in m..k /\ ~Window(v, i)
    BY <2>2 DEF Bad
  <2>4. i # m
    BY <1>10, <2>3
  <2>5. PICK h \in Nat \ {0} : h \in m..k /\ h + 1 = i
    <3>1. i - 1 \in Nat \ {0} /\ i - 1 \in m..k /\ (i - 1) + 1 = i
      BY <1>7, <1>8, <2>3, <2>4
    <3> QED
      BY <3>1
  <2>6. ~(i <= h)
    BY <2>5
  <2>7. Window(v, h)
    BY <2>2, <2>5, <2>6 DEF Bad
  <2> QED
    BY <2>3, <2>5, <2>7, WindowGrows
<1>12. Window(v, k)
  BY <1>7, <1>8, <1>11
<1>13. /\ v >= 0 => Digit(v, k) = 0 /\ Digit(v, k - 1) < Half
       /\ v < 0 => Digit(v, k) = Base - 1 /\ Digit(v, k - 1) >= Half
  BY <1>12, WindowGrows
<1>14. Padded(n)[s] = Digit(v, k) /\ Padded(n)[s + 1] = Digit(v, k - 1)
  BY <1>1, <1>2, <1>8, <1>9, <1>10, KeptDigits
<1>15. v < 0 => signed
  BY <1>10, PaddedIs DEF Kept
<1>16. Redundant(Padded(n), s, signed)
  BY <1>13, <1>14, <1>15 DEF Redundant
<1> QED
  BY <1>5, <1>9, <1>16

\* IntegerType::serialise() writes what IntegerType::fromBuffer() read, in no
\* more octets, and it is read as the same number.
LEMMA IntegerRewritten ==
  ASSUME NEW type \in {"Integer"} \cup Unsigned, NEW c \in Seq(Octet),
         IntegerValue(type, c) # Invalid
  PROVE  \E n \in Nat :
           /\ IntegerValue(type, c) = [type |-> type, number |-> n]
           /\ IntegerOf(type, n) = [type |-> type, number |-> n]
           /\ Len(IntegerContents(n, type = "Integer")) <= Len(c)
<1>1. PICK w \in Nat \ {0} : w = WordOctets
  BY Widths
<1>2. PICK signed \in BOOLEAN : signed = (type = "Integer")
  OBVIOUS
<1>3. PICK b \in Nat \ {0}, half \in Nat : b = Base /\ half = Half /\ b = 2 * half /\ half >= 2
  BY HalfBase
<1>4. /\ Len(c) # 0 /\ ~(Len(c) > (IF signed THEN w ELSE w + 1))
      /\ ~signed => ~(c[1] >= half) /\ (Len(c) = w + 1 => c[1] = 0)
      /\ IntegerValue(type, c) =
           [type |-> type,
            number |-> IF signed /\ c[1] >= half
                         THEN Number(c, b) + Power(b, LongOctets) - Power(b, Len(c))
                         ELSE Number(c, b)]
  <2>1. ~(\/ Len(c) = 0 \/ Len(c) > (IF signed THEN w ELSE w + 1)
          \/ ~signed /\ (c[1] >= half \/ (Len(c) = w + 1 /\ c[1] # 0)))
    BY <1>1, <1>2, <1>3 DEF IntegerValue
  <2>2. IntegerValue(type, c) =
          [type |-> type,
           number |-> IF signed /\ c[1] >= half
                        THEN Number(c, b) + Power(b, LongOctets) - Power(b, Len(c))
                        ELSE Number(c, b)]
    BY <1>1, <1>2, <1>3, <2>1, Zenon DEF IntegerValue
  <2> QED
    BY <2>1, <2>2
<1>5. PICK l \in Nat \ {0}, j \in Nat : l = Len(c) /\ l = j + 1 /\ l - 1 = j
  <2>1. Len(c) \in Nat \ {0} /\ Len(c) - 1 \in Nat /\ Len(c) = (Len(c) - 1) + 1
    BY <1>4
  <2> QED
    BY <2>1
<1>6. l <= w + 1 /\ (signed => l <= w)
  BY <1>4, <1>5
<1>7. PICK d \in 0..(b - 1) : d = c[1]
  <2>1. 1 \in 1..Len(c)
    BY <1>5
  <2> QED
    BY <1>3, <2>1 DEF Octet
<1>8. PICK y \in Nat \ {0} : y = Power(b, j)
  BY <1>3, BasePower
<1>9. PICK z \in Nat \ {0} : z = Power(b, l) /\ z = y * b
  BY <1>3, <1>5, <1>8, BasePower
<1>10. PICK x \in Nat : x = Number(c, b) /\ d * y <= x /\ x < (d + 1) * y
  <2>1. c \in Seq(Nat)
    BY OctetsAreNumbers
  <2>2. \A i \in 1..(j + 1) : c[i] < b
    <3>1. \A i \in 1..Len(c) : c[i] \in Octet
      OBVIOUS
    <3> QED
      BY <1>3, <1>5, <3>1 DEF Octet
  <2>3. b \in Nat /\ b >= 2 /\ Len(c) = j + 1
    BY <1>3, <1>5
  <2> QED
    BY <1>7, <1>8, <2>1, <2>2, <2>3, NumberBounds
<1>11. PICK p \in Nat \ {0} : p = Power(b, w)
  BY <1>1, <1>3, BasePower
<1>12. PICK t \in Nat \ {0} : Power(b, LongOctets) = p * t /\ p * t \in Nat
  <2>1. PICK k \in Nat : w + k = LongOctets
    <3>1. LongOctets - w \in Nat /\ w + (LongOctets - w) = LongOctets
      BY <1>1, Widths
    <3> QED
      BY <3>1
  <2>2. PICK t \in Nat : Power(b, w + k) = Power(b, w) * t
    <3>1. w \in Nat
      OBVIOUS
    <3> QED
      BY <3>1, PowerDivides
  <2>3. Power(b, LongOctets) \in Nat \ {0}
    BY <1>3, Widths, BasePower
  <2>4. t # 0
    BY <1>11, <2>1, <2>2, <2>3
  <2> QED
    BY <1>11, <2>1, <2>2, <2>3, <2>4
<1>13. l <= w => z <= p
  <2> SUFFICES ASSUME l <= w PROVE z <= p
    OBVIOUS
  <2>1. PICK k \in Nat : l + k = w
    <3>1. w - l \in Nat /\ l + (w - l) = w
      OBVIOUS
    <3> QED
      BY <3>1
  <2>2. PICK u \in Nat : Power(b, l + k) = Power(b, l) * u
    <3>1. l \in Nat
      OBVIOUS
    <3> QED
      BY <3>1, PowerDivides
  <2>3. p = z * u
    BY <1>9, <1>11, <2>1, <2>2
  <2>4. u # 0
    BY <2>3
  <2>5. z * (u - 1) >= 0 /\ z * (u - 1) = z * u - z /\ z * u \in Nat
    BY <2>4
  <2> QED
    BY <2>3, <2>5
<1>14. PICK g \in Nat : g = half * y /\ z = 2 * g
  BY <1>3, <1>9
<1>15. d < half => x < g
  <2> SUFFICES ASSUME d < half PROVE x < g
    OBVIOUS
  <2>1. (half - (d + 1)) * y >= 0
    OBVIOUS
  <2>2. (half - (d + 1)) * y = half * y - (d + 1) * y /\ half * y \in Nat /\ (d + 1) * y \in Nat
    OBVIOUS
  <2> QED
    BY <1>10, <1>14, <2>1, <2>2
<1>16. d >= half => x >= g /\ x < z
  <2> SUFFICES ASSUME d >= half PROVE x >= g /\ x < z
    OBVIOUS
  <2>1. (d - half) * y >= 0 /\ (b - (d + 1)) * y >= 0
    OBVIOUS
  <2>2. /\ (d - half) * y = d * y - half * y
        /\ (b - (d + 1)) * y = b * y - (d + 1) * y
        /\ half * y \in Nat /\ d * y \in Nat /\ (d + 1) * y \in Nat /\ b * y \in Nat /\ b * y = y * b
    OBVIOUS
  <2> QED
    BY <1>9, <1>10, <1>14, <2>1, <2>2
<1> DEFINE v == IF signed /\ d >= half THEN x - z ELSE x
           n == IF signed /\ d >= half THEN x + p * t - z ELSE x
<1>17. v \in Int /\ v >= -g /\ v < g
  BY <1>4, <1>7, <1>14, <1>15, <1>16
<1>18. Window(v, l)
  <2>1. v \div y >= -half /\ v \div y < half
    <3>1. v \in Int /\ v >= -(half * y) /\ v < half * y
      BY <1>14, <1>17
    <3> HIDE DEF v
    <3> QED
      BY <3>1, QuotientBounds
  <2> QED
    BY <1>3, <1>5, <1>8, <2>1 DEF Window
<1>19. n \in Nat /\ n % p = (IF v < 0 THEN v + p ELSE v) /\ (v < 0 <=> signed /\ d >= half)
  <2>1. CASE signed /\ d >= half
    <3>1. v < 0 /\ v + p \in 0..(p - 1)
      BY <1>6, <1>13, <1>14, <1>16, <2>1
    <3>2. p * (t - 1) = p * t - p /\ p * (t - 1) >= 0 /\ t - 1 \in Int
      BY <1>12
    <3>3. p * (t - 1) + (v + p) = n /\ n \in Nat
      BY <1>12, <2>1, <3>1, <3>2
    <3>4. (p * (t - 1) + (v + p)) % p = v + p
      BY <3>1, <3>2, Unique
    <3> QED
      BY <2>1, <3>1, <3>3, <3>4
  <2>2. CASE ~(signed /\ d >= half)
    <3>1. x < p
      <4>1. CASE l <= w
        BY <1>4, <1>7, <1>13, <1>14, <1>15, <2>2, <4>1
      <4>2. CASE l = w + 1
        <5>1. d = 0 /\ j = w
          BY <1>4, <1>5, <1>6, <1>7, <4>2
        <5>2. (d + 1) * y = y /\ y = p
          BY <1>8, <1>11, <5>1
        <5> QED
          BY <1>10, <5>2
      <4> QED
        BY <1>6, <4>1, <4>2
    <3>2. x \in 0..(p - 1) /\ p * 0 + x = x /\ 0 \in Int
      BY <3>1
    <3>3. (p * 0 + x) % p = x
      BY <3>2, Unique
    <3> QED
      BY <2>2, <3>2, <3>3
  <2> QED
    BY <2>1, <2>2
<1>20. n \in Nat /\ n % Power(Base, WordOctets) \in Int
       /\ n % Power(Base, WordOctets) = IF v < 0 THEN v + p ELSE v
  BY <1>1, <1>3, <1>11, <1>17, <1>19
<1>21. signed => (Negative(n) <=> v < 0)
  <2> SUFFICES ASSUME signed PROVE Negative(n) <=> v < 0
    OBVIOUS
  <2>1. Negative(n) <=> (IF v < 0 THEN v + p ELSE v) * 2 >= p
    BY <1>1, <1>3, <1>11, <1>20 DEF Negative
  <2>2. 2 * g <= p
    BY <1>6, <1>13, <1>14
  <2> HIDE DEF v, n
  <2>3. CASE v < 0
    <3>1. (v + p) * 2 >= p
      BY <1>17, <2>2, <2>3
    <3> QED
      BY <2>1, <2>3, <3>1
  <2>4. CASE v >= 0
    <3>1. ~(v * 2 >= p)
      BY <1>17, <2>2, <2>4
    <3> QED
      BY <1>17, <2>1, <2>4, <3>1
  <2> QED
    BY <1>17, <2>3, <2>4
<1>22. Kept(n, signed) = v
  <2>1. Kept(n, signed) = LET low == n % Power(Base, WordOctets)
                          IN  IF signed /\ Negative(n) THEN low - p ELSE low
    BY <1>1, <1>3, <1>11 DEF Kept
  <2>2. v < 0 => signed
    BY <1>19
  <2> HIDE DEF v, n
  <2> QED
    BY <1>17, <1>20, <1>21, <2>1, <2>2
<1>23. IntegerOf(type, n) = [type |-> type, number |-> n]
  <2>1. CASE signed
    <3>1. IntegerOf(type, n) = [type |-> type, number |-> StoredNumber(n)]
      BY <1>2, <2>1 DEF IntegerOf
    <3>2. StoredNumber(n) = IF v < 0 THEN (v + p) + p * t - p ELSE v
      BY <1>1, <1>3, <1>11, <1>12, <1>20, <1>21, <2>1 DEF StoredNumber
    <3>3. n = IF v < 0 THEN v + p * t ELSE v
      BY <1>12, <1>16, <1>19
    <3> HIDE DEF v, n
    <3>4. StoredNumber(n) = n
      BY <1>12, <1>17, <3>2, <3>3
    <3> QED
      BY <3>1, <3>4
  <2>2. CASE ~signed
    <3>1. IntegerOf(type, n) = [type |-> type, number |-> n % p]
      BY <1>1, <1>2, <1>3, <1>11, <2>2 DEF IntegerOf
    <3>2. n = v /\ ~(v < 0)
      BY <1>19, <2>2
    <3> QED
      BY <1>1, <1>3, <1>11, <1>20, <3>1, <3>2
  <2> QED
    BY <2>1, <2>2
<1>24. Len(IntegerContents(n, signed)) <= l
  <2>1. l \in 1..(WordOctets + 2 - Leading(signed))
    BY <1>1, <1>6 DEF Leading
  <2> HIDE DEF v, n
  <2> QED
    BY <1>18, <1>20, <1>22, <2>1, ContentsShortest
<1>25. IntegerValue(type, c) = [type |-> type, number |-> n]
  BY <1>3, <1>4, <1>5, <1>7, <1>9, <1>10, <1>12
<1> HIDE DEF v, n
<1> QED
  BY <1>2, <1>5, <1>20, <1>23, <1>24, <1>25

LEMMA PowersGrow ==
  ASSUME NEW b \in Nat \ {0}, NEW k \in Nat, NEW m \in Nat, k <= m
  PROVE  Power(b, k) <= Power(b, m)
<1>1. PICK j \in Nat : k + j = m
  <2>1. m - k \in Nat /\ k + (m - k) = m
    OBVIOUS
  <2> QED
    BY <2>1
<1>2. PICK x \in Nat : Power(b, k + j) = Power(b, k) * x
  BY PowerDivides
<1>3. PICK p \in Nat \ {0}, q \in Nat \ {0} : p = Power(b, k) /\ q = Power(b, m)
  BY PowerPositive
<1>4. q = p * x
  BY <1>1, <1>2, <1>3
<1>5. x # 0
  BY <1>4
<1>6. p * (x - 1) >= 0 /\ p * (x - 1) = p * x - p /\ p * x \in Nat
  BY <1>5
<1> QED
  BY <1>3, <1>4, <1>6

\* Counter64::serialise() writes what Counter64::fromBuffer() read, in no more
\* octets.
LEMMA Counter64Rewritten ==
  ASSUME NEW c \in Seq(Octet), Counter64Value(c) # Invalid
  PROVE  \E n \in Nat :
           /\ Counter64Value(c) = [type |-> "Counter64", number |-> n]
           /\ n < Power(Base, Counter64Octets)
           /\ Len(Counter64Contents(n)) <= Len(c)
<1>1. PICK w \in Nat \ {0} : w = Counter64Octets
  BY Widths
<1>2. PICK b \in Nat \ {0}, half \in Nat : b = Base /\ half = Half /\ b = 2 * half /\ half >= 2
  BY HalfBase
<1>3. /\ Len(c) # 0 /\ ~(Len(c) > w + 1) /\ ~(c[1] >= half)
      /\ Len(c) = w + 1 => c[1] = 0
      /\ Counter64Value(c) = [type |-> "Counter64", number |-> Number(c, b)]
  BY <1>1, <1>2 DEF Counter64Value
<1>4. PICK l \in Nat \ {0}, j \in Nat : l = Len(c) /\ l = j + 1
  <2>1. Len(c) \in Nat \ {0} /\ Len(c) - 1 \in Nat /\ Len(c) = (Len(c) - 1) + 1
    BY <1>3
  <2> QED
    BY <2>1
<1>5. l <= w + 1
  BY <1>3, <1>4
<1>6. PICK d \in 0..(half - 1) : d = c[1]
  <2>1. 1 \in 1..Len(c)
    BY <1>4
  <2>2. c[1] \in 0..(b - 1)
    BY <1>2, <2>1 DEF Octet
  <2> QED
    BY <1>3, <2>2
<1>7. PICK y \in Nat \ {0} : y = Power(b, j)
  BY <1>2, BasePower
<1>8. PICK z \in Nat \ {0} : z = Power(b, l) /\ z = y * b
  BY <1>2, <1>4, <1>7, BasePower
<1>9. PICK x \in Nat : x = Number(c, b) /\ d * y <= x /\ x < (d + 1) * y
  <2>1. c \in Seq(Nat)
    BY OctetsAreNumbers
  <2>2. \A i \in 1..(j + 1) : c[i] < b
    <3>1. \A i \in 1..Len(c) : c[i] \in Octet
      OBVIOUS
    <3> QED
      BY <1>2, <1>4, <3>1 DEF Octet
  <2>3. b \in Nat /\ b >= 2 /\ Len(c) = j + 1
    BY <1>2, <1>4
  <2> QED
    BY <1>6, <1>7, <2>1, <2>2, <2>3, NumberBounds
<1>10. PICK g \in Nat : g = half * y /\ z = 2 * g
  BY <1>2, <1>8
<1>11. x < g
  <2>1. (half - (d + 1)) * y >= 0
    OBVIOUS
  <2>2. (half - (d + 1)) * y = half * y - (d + 1) * y /\ half * y \in Nat /\ (d + 1) * y \in Nat
    OBVIOUS
  <2> QED
    BY <1>9, <1>10, <2>1, <2>2
<1>12. x < Power(b, w)
  <2>1. PICK p \in Nat \ {0} : p = Power(b, w)
    BY <1>2, <1>1, BasePower
  <2>2. CASE l <= w
    <3>1. z <= p
      <4>1. l \in Nat /\ w \in Nat
        OBVIOUS
      <4> QED
        BY <1>8, <2>1, <2>2, <4>1, PowersGrow
    <3> QED
      BY <1>10, <1>11, <2>1, <3>1
  <2>3. CASE l = w + 1
    <3>1. d = 0 /\ j = w
      BY <1>3, <1>4, <1>6, <2>3
    <3>2. (d + 1) * y = y /\ y = p
      BY <1>7, <2>1, <3>1
    <3> QED
      BY <1>9, <2>1, <3>2
  <2> QED
    BY <1>5, <2>2, <2>3
<1>13. PICK s \in Nat \ {0} : s = Size(x, b) /\ s <= l
  <2>1. x < z
    BY <1>10, <1>11
  <2>2. b \in Nat /\ b >= 2
    BY <1>2
  <2> QED
    BY <1>8, <2>1, <2>2, SizeIs
<1>14. PICK ds \in Seq(0..(b - 1)) :
         ds = ShortDigits(x, b) /\ ds \in Seq(Nat) /\ Len(ds) = s /\ Number(ds, b) = x
  <2>1. b \in Nat /\ b >= 2
    BY <1>2
  <2> QED
    BY <1>13, <2>1, ShortDigitsRead
<1>15. s = l => ds[1] < half
  <2> SUFFICES ASSUME s = l PROVE ds[1] < half
    OBVIOUS
  <2>1. \A i \in 1..(j + 1) : ds[i] < b
    <3>1. \A i \in 1..s : ds[i] \in 0..(b - 1)
      BY <1>14
    <3> QED
      BY <1>4, <3>1
  <2>2. b \in Nat /\ b >= 2 /\ Len(ds) = j + 1
    BY <1>2, <1>4, <1>14
  <2>3. ds[1] \in Nat /\ ds[1] * y <= x
    <3>1. ds \in Seq(Nat) /\ j \in Nat /\ b \in Nat /\ b >= 2
      BY <1>14, <2>2
    <3>2. ds[1] \in Nat /\ ds[1] * Power(b, j) <= Number(ds, b)
      BY ONLY <2>1, <2>2, <3>1, NumberBounds
    <3> QED
      BY <1>7, <1>14, <3>2
  <2>4. PICK e \in Nat : e = ds[1] /\ e * y <= x
    BY <2>3
  <2>5. e >= half => (e - half) * y >= 0 /\ (e - half) * y = e * y - half * y
    OBVIOUS
  <2>6. e * y \in Nat /\ half * y \in Nat
    OBVIOUS
  <2> QED
    BY <1>10, <1>11, <2>4, <2>5, <2>6
<1>16. Len(Counter64Contents(x)) <= l
  <2>1. Len(<<0>> \o ds) = s + 1
    BY <1>14
  <2>2. Counter64Contents(x) = IF ds[1] >= half THEN <<0>> \o ds ELSE ds
    BY <1>2, <1>14 DEF Counter64Contents
  <2>3. CASE s = l
    <3>1. 1 \in 1..s
      OBVIOUS
    <3>2. ds[1] \in 0..(b - 1)
      BY <1>14, <3>1
    <3>3. ~(ds[1] >= half)
      BY <1>15, <2>3, <3>2
    <3> QED
      BY <1>13, <1>14, <2>2, <3>3
  <2>4. CASE s # l
    <3>1. s + 1 <= l
      BY <1>13, <2>4
    <3> QED
      BY <1>13, <1>14, <2>1, <2>2, <3>1
  <2> QED
    BY <2>3, <2>4
<1> QED
  BY <1>1, <1>2, <1>3, <1>4, <1>9, <1>12, <1>16

\* Parts that fit between cuts fit between the outermost together.
LEMMA ConcatFits ==
  ASSUME NEW n \in Nat, NEW parts, Len(parts) = n, \A i \in 1..n : parts[i] \in Seq(Nat),
         NEW cut \in [0..n -> Nat], \A i \in 1..n : Len(parts[i]) <= cut[i] - cut[i - 1]
  PROVE  Concat(parts) \in Seq(Nat) /\ Len(Concat(parts)) <= cut[n] - cut[0]
<1>1. PICK f : Joined(f, parts, n) /\ Concat(parts) = f[n]
  BY ConcatIs
<1>2. /\ f \in [0..n -> Seq(Nat)] /\ f[0] = << >>
      /\ \A i \in 1..n : f[i] = f[i - 1] \o parts[i]
  BY <1>1 DEF Joined
<1> DEFINE Bad == {i \in 0..n : ~(Len(f[i]) <= cut[i] - cut[0])}
<1>3. Bad = {}
  <2> SUFFICES ASSUME Bad # {} PROVE FALSE
    OBVIOUS
  <2>1. Bad \in SUBSET Nat
    OBVIOUS
  <2> HIDE DEF Bad
  <2>2. PICK i \in Bad : \A j \in Bad : i <= j
    BY <2>1, SmallestExists
  <2>3. i \in 0..n /\ ~(Len(f[i]) <= cut[i] - cut[0])
    BY <2>2 DEF Bad
  <2>4. i # 0
    <3>1. Len(f[0]) = 0 /\ cut[0] - cut[0] = 0
      BY <1>2
    <3> QED
      BY <2>3, <3>1
  <2>5. PICK h \in 0..n : h = i - 1 /\ i \in 1..n
    <3>1. i - 1 \in 0..n /\ i \in 1..n
      BY <2>3, <2>4
    <3> QED
      BY <3>1
  <2>6. Len(f[h]) <= cut[h] - cut[0]
    <3>1. ~(i <= h)
      BY <2>5
    <3> QED
      BY <2>2, <2>5, <3>1 DEF Bad
  <2>7. f[h] \in Seq(Nat) /\ parts[i] \in Seq(Nat) /\ f[i] = f[h] \o parts[i]
    BY <1>2, <2>5
  <2>8. Len(f[i]) = Len(f[h]) + Len(parts[i])
    BY <2>7, Concatenated
  <2>9. Len(parts[i]) <= cut[i] - cut[h]
    BY <2>5
  <2>10. cut[i] \in Nat /\ cut[h] \in Nat /\ cut[0] \in Nat /\ Len(f[h]) \in Nat /\ Len(parts[i]) \in Nat
    <3>1. 0 \in 0..n
      OBVIOUS
    <3> QED
      BY <2>3, <2>5, <2>7, <3>1
  <2>11. ASSUME NEW a \in Nat, NEW b \in Nat, NEW d \in Nat, NEW x \in Nat, NEW y \in Nat,
                x <= b - a, y <= d - b
         PROVE  x + y <= d - a
    BY <2>11
  <2> QED
    BY <2>3, <2>5, <2>6, <2>8, <2>9, <2>10, <2>11
<1>4. n \in 0..n
  OBVIOUS
<1> QED
  BY <1>1, <1>2, <1>3, <1>4

\* Where the sub-identifiers in c end.
Cuts(c, off, n, k) ==
  /\ off \in [0..n -> Nat] /\ off[0] = 0 /\ off[n] = k
  /\ \A i \in 1..n : /\ off[i - 1] < off[i] /\ off[i] <= k /\ c[off[i]] < Half
                     /\ \A j \in (off[i - 1] + 1)..(off[i] - 1) : c[j] >= Half

LEMMA CutsExist ==
  ASSUME NEW c \in Seq(Nat), NEW l \in Nat \ {0}, Len(c) = l, c[l] < Half
  PROVE  \E n \in Nat \ {0} : \E off : Cuts(c, off, n, l)
<1>1. Half \in Nat
  BY HalfBase
<1> DEFINE Ends == {0} \cup {j \in 1..l : c[j] < Half}
           Good(k) == \E n \in Nat : \E off : Cuts(c, off, n, k)
           Bad == {k \in Ends : ~Good(k)}
<1>2. Ends \subseteq 0..l /\ l \in Ends
  OBVIOUS
<1>3. Bad = {}
  <2> SUFFICES ASSUME Bad # {} PROVE FALSE
    OBVIOUS
  <2>1. Bad \in SUBSET Nat
    OBVIOUS
  <2> HIDE DEF Bad
  <2>2. PICK k \in Bad : \A j \in Bad : k <= j
    BY <2>1, SmallestExists
  <2>3. k \in Ends /\ ~Good(k)
    BY <2>2 DEF Bad
  <2>4. k # 0
    <3> DEFINE off == [i \in 0..0 |-> 0]
    <3>1. off \in [0..0 -> Nat] /\ off[0] = 0 /\ 1..0 = {}
      OBVIOUS
    <3> HIDE DEF off
    <3>2. Cuts(c, off, 0, 0)
      BY <3>1 DEF Cuts
    <3> QED
      BY <2>3, <3>2
  <2>5. k \in 1..l /\ c[k] < Half
    BY <2>3, <2>4
\* The end before k.
  <2> DEFINE Back == {x \in 1..k : k - x \in Ends}
  <2>6. Back \in SUBSET Nat /\ k \in Back
    BY <2>5
  <2> HIDE DEF Ends
  <2>7. PICK x \in Back : \A y \in Back : x <= y
    BY <2>6, SmallestExists
  <2>8. PICK h \in Ends : h = k - x /\ x \in 1..k
    BY <2>7
  <2>9. h \in Nat /\ h < k
    BY <2>5, <2>8
  <2>10. ASSUME NEW j \in (h + 1)..(k - 1) PROVE c[j] >= Half
    <3>1. PICK y \in 1..k : y = k - j /\ y < x
      <4>1. k - j \in 1..k /\ k - j < x
        BY <2>5, <2>8, <2>9
      <4> QED
        BY <4>1
    <3>2. y \notin Back
      <4>1. x \in Nat /\ ~(x <= y)
        BY <2>8, <3>1
      <4> QED
        BY <2>7, <4>1
    <3>3. j \notin Ends
      <4>1. k - y = j
        BY <2>5, <3>1
      <4> QED
        BY <3>2, <4>1
    <3>4. j \in 1..l /\ c[j] \in Nat
      BY <2>5, <2>9
    <3> QED
      BY <1>1, <3>3, <3>4 DEF Ends
  <2> HIDE DEF Back
  <2>11. PICK n \in Nat : \E off : Cuts(c, off, n, h)
    <3>1. ~(k <= h)
      BY <2>5, <2>9
    <3> QED
      BY <2>2, <2>8, <3>1 DEF Bad
  <2>21. PICK off : Cuts(c, off, n, h)
    BY <2>11
  <2>12. PICK m \in Nat : m = n + 1
    OBVIOUS
  <2> DEFINE more == [i \in 0..m |-> IF i = m THEN k ELSE off[i]]
  <2>13. /\ off \in [0..n -> Nat] /\ off[0] = 0 /\ off[n] = h
         /\ \A i \in 1..n : /\ off[i - 1] < off[i] /\ off[i] <= h /\ c[off[i]] < Half
                            /\ \A j \in (off[i - 1] + 1)..(off[i] - 1) : c[j] >= Half
    BY <2>21 DEF Cuts
  <2>14. /\ more \in [0..m -> Nat] /\ more[0] = 0 /\ more[m] = k
         /\ more[n] = h /\ \A i \in 0..n : more[i] = off[i]
    BY <2>5, <2>12, <2>13
  <2> HIDE DEF more
  <2>15. ASSUME NEW i \in 1..m
         PROVE  /\ more[i - 1] < more[i] /\ more[i] <= k /\ c[more[i]] < Half
                /\ \A j \in (more[i - 1] + 1)..(more[i] - 1) : c[j] >= Half
    <3>1. CASE i = m
      <4>1. m - 1 = n /\ k <= k
        BY <2>5, <2>12
      <4> QED
        BY <2>5, <2>9, <2>10, <2>14, <3>1, <4>1
    <3>2. CASE i # m
      <4>1. i \in 1..n /\ i \in 0..n /\ i - 1 \in 0..n
        BY <2>12, <3>2
      <4>2. more[i] = off[i] /\ more[i - 1] = off[i - 1] /\ off[i] \in Nat
        BY <2>13, <2>14, <4>1
      <4>3. off[i] <= h => off[i] <= k
        BY <2>5, <2>9, <4>2
      <4> QED
        BY <2>13, <4>1, <4>2, <4>3
    <3> QED
      BY <3>1, <3>2
  <2>16. Cuts(c, more, m, k)
    BY <2>14, <2>15 DEF Cuts
  <2> QED
    BY <2>3, <2>16
<1>4. PICK n \in Nat : \E off : Cuts(c, off, n, l)
  BY <1>2, <1>3
<1>5. n # 0
  BY <1>4 DEF Cuts
<1> QED
  BY <1>4, <1>5

\* The octets between two cuts.
Between(c, off, n) == [i \in 1..n |-> SubSeq(c, off[i - 1] + 1, off[i])]

\* s is what c has between the cuts off[i - 1] and off[i].
Spans(c, off, s, i) ==
  /\ IsSubIdentifier(s) /\ off[i] = off[i - 1] + Len(s)
  /\ \A t \in 1..Len(s) : s[t] = c[off[i - 1] + t]

LEMMA BetweenIs ==
  ASSUME NEW c \in Seq(Nat), NEW l \in Nat \ {0}, Len(c) = l,
         NEW n \in Nat \ {0}, NEW off, Cuts(c, off, n, l), NEW i \in 1..n
  PROVE  Spans(c, off, Between(c, off, n)[i], i)
<1>1. PICK a \in Nat : a = off[i - 1]
  <2>1. i - 1 \in 0..n
    OBVIOUS
  <2> QED
    BY <2>1 DEF Cuts
<1>2. PICK e \in Nat : e = off[i] /\ a < e /\ e <= l /\ c[e] < Half
  <2>1. i \in 0..n
    OBVIOUS
  <2> QED
    BY <1>1, <2>1 DEF Cuts
<1>3. \A j \in (a + 1)..(e - 1) : c[j] >= Half
  BY <1>1, <1>2 DEF Cuts
<1>4. PICK k \in Nat \ {0} : a + k = e /\ k = e - (a + 1) + 1
  <2>1. e - a \in Nat \ {0} /\ a + (e - a) = e /\ e - a = e - (a + 1) + 1
    <3>1. a \in Nat /\ e \in Nat /\ a < e
      BY <1>1, <1>2
    <3> QED
      BY ONLY <3>1
  <2> QED
    BY <2>1
<1>5. PICK s \in Seq(Nat) : /\ s = SubSeq(c, a + 1, e) /\ Len(s) = k
                            /\ \A t \in 1..k : s[t] = c[(a + 1) + t - 1]
  <2>1. a + 1 \in Int /\ e \in Int /\ a + 1 <= e /\ \A j \in (a + 1)..e : c[j] \in Nat
    BY <1>1, <1>2
  <2>2. /\ SubSeq(c, a + 1, e) \in Seq(Nat)
        /\ Len(SubSeq(c, a + 1, e)) = IF a + 1 <= e THEN e - (a + 1) + 1 ELSE 0
        /\ \A t \in 1..(e - (a + 1) + 1) : SubSeq(c, a + 1, e)[t] = c[(a + 1) + t - 1]
    BY <2>1, SubSeqProperties
  <2> QED
    BY <1>4, <2>1, <2>2
<1>6. \A t \in 1..k : s[t] = c[a + t]
  <2> SUFFICES ASSUME NEW t \in 1..k PROVE s[t] = c[a + t]
    OBVIOUS
  <2>1. (a + 1) + t - 1 = a + t
    BY <1>1, <1>4
  <2> QED
    BY <1>5, <2>1
<1>7. s = Between(c, off, n)[i]
  BY <1>1, <1>2, <1>5 DEF Between
<1>8. IsSubIdentifier(s)
  <2>1. s[k] < Half
    <3>1. k \in 1..k
      BY <1>4
    <3> QED
      BY <1>2, <1>4, <1>6, <3>1
  <2>2. ASSUME NEW t \in 1..(k - 1) PROVE s[t] >= Half
    <3>1. t \in 1..k /\ a + t \in (a + 1)..(e - 1)
      <4>1. a \in Nat /\ e \in Nat /\ k \in Nat /\ a + k = e /\ t \in 1..(k - 1)
        BY <1>1, <1>2, <1>4
      <4> QED
        BY ONLY <4>1
    <3> QED
      BY <1>3, <1>6, <3>1
  <2>3. s \in Seq(Nat) /\ Len(s) = k /\ k > 0
    BY <1>4, <1>5
  <2> QED
    BY ONLY <2>1, <2>2, <2>3 DEF IsSubIdentifier
<1>9. Spans(c, off, s, i)
  BY <1>1, <1>2, <1>4, <1>5, <1>6, <1>8 DEF Spans
<1> QED
  BY <1>7, <1>9

\* Any octets of which the last ends a sub-identifier are sub-identifiers.
LEMMA SubIdentifiersFound ==
  ASSUME NEW c \in Seq(Nat), NEW l \in Nat \ {0}, Len(c) = l, c[l] < Half
  PROVE  \E n \in Nat \ {0} : \E off :
           Cuts(c, off, n, l) /\ SubIdentifiers(c) = Between(c, off, n)
<1>1. PICK n \in Nat \ {0} : \E off : Cuts(c, off, n, l)
  BY CutsExist
<1>2. PICK off : Cuts(c, off, n, l)
  BY <1>1
<1>3. off \in [0..n -> Nat] /\ off[0] = 0 /\ off[n] = l
  BY <1>2 DEF Cuts
<1>4. PICK parts : parts = Between(c, off, n)
  OBVIOUS
<1>5. ASSUME NEW i \in 1..n
      PROVE  /\ parts[i] \in Seq(Nat) /\ IsSubIdentifier(parts[i])
             /\ Len(parts[i]) \in Nat /\ off[i] = off[i - 1] + Len(parts[i])
             /\ \A t \in 1..Len(parts[i]) : parts[i][t] = c[off[i - 1] + t]
  <2>1. /\ IsSubIdentifier(parts[i]) /\ off[i] = off[i - 1] + Len(parts[i])
        /\ \A t \in 1..Len(parts[i]) : parts[i][t] = c[off[i - 1] + t]
    <3>1. Spans(c, off, Between(c, off, n)[i], i)
      BY <1>2, BetweenIs
    <3> QED
      BY <1>4, <3>1 DEF Spans
  <2> QED
    BY <2>1 DEF IsSubIdentifier
<1>6. parts \in Seq(Seq(Nat)) /\ Len(parts) = n
  <2>1. parts = [i \in 1..n |-> parts[i]]
    BY <1>4 DEF Between
  <2>2. parts \in [1..n -> Seq(Nat)]
    BY <1>5, <2>1
  <2> QED
    BY <2>2
<1>7. PICK f : Joined(f, parts, n) /\ Concat(parts) = f[n]
  <2>1. n \in Nat
    OBVIOUS
  <2> QED
    BY <1>5, <1>6, <2>1, ConcatIs
<1>8. /\ f \in [0..n -> Seq(Nat)] /\ f[0] = << >>
      /\ \A i \in 1..n : f[i] = f[i - 1] \o parts[i]
  BY <1>7 DEF Joined
<1> DEFINE Good(i) == Len(f[i]) = off[i] /\ \A t \in 1..off[i] : f[i][t] = c[t]
           Bad == {i \in 0..n : ~Good(i)}
<1>9. Bad = {}
  <2> SUFFICES ASSUME Bad # {} PROVE FALSE
    OBVIOUS
  <2>1. Bad \in SUBSET Nat
    OBVIOUS
  <2> HIDE DEF Bad
  <2>2. PICK i \in Bad : \A j \in Bad : i <= j
    BY <2>1, SmallestExists
  <2>3. i \in 0..n /\ ~Good(i)
    BY <2>2 DEF Bad
  <2>4. i # 0
    BY <1>3, <1>8, <2>3
  <2>5. PICK h \in 0..n : h = i - 1 /\ i \in 1..n
    <3>1. i - 1 \in 0..n /\ i \in 1..n
      BY <2>3, <2>4
    <3> QED
      BY <3>1
  <2>6. Good(h)
    <3>1. ~(i <= h)
      BY <2>5
    <3> QED
      BY <2>2, <2>5, <3>1 DEF Bad
  <2>7. f[h] \in Seq(Nat) /\ parts[i] \in Seq(Nat) /\ f[i] = f[h] \o parts[i]
    BY <1>5, <1>8, <2>5
  <2>8. PICK a \in Nat : a = off[h] /\ a = Len(f[h])
    BY <1>3, <2>5, <2>6
  <2>9. PICK k \in Nat : k = Len(parts[i])
    BY <1>5, <2>5
  <2>10. Len(f[i]) = a + k /\ \A t \in 1..(a + k) : f[i][t] = IF t <= a THEN f[h][t] ELSE parts[i][t - a]
    <3>1. PICK u \in Seq(Nat), v \in Seq(Nat) : u = f[h] /\ v = parts[i]
      BY <2>7
    <3>2. PICK z : z = f[i] /\ z = u \o v
      BY <2>7, <3>1
    <3>3. /\ Len(z) = Len(u) + Len(v)
          /\ \A t \in 1..(Len(u) + Len(v)) : z[t] = IF t <= Len(u) THEN u[t] ELSE v[t - Len(u)]
      <4>1. z = u \o v
        BY <3>2
      <4> QED
        BY <4>1, Concatenated
    <3> HIDE DEF Good
    <3> QED
      BY <2>8, <2>9, <3>1, <3>2, <3>3
  <2>11. off[i] = a + k /\ \A t \in 1..k : parts[i][t] = c[a + t]
    BY <1>5, <2>5, <2>8, <2>9
  <2>12. ASSUME NEW t \in 1..(a + k) PROVE f[i][t] = c[t]
    <3>1. CASE t <= a
      BY <2>6, <2>8, <2>10, <3>1
    <3>2. CASE ~(t <= a)
      <4>1. t - a \in 1..k /\ a + (t - a) = t
        BY <3>2
      <4> QED
        BY <2>10, <2>11, <3>2, <4>1
    <3> QED
      BY <3>1, <3>2
  <2> QED
    BY <2>3, <2>10, <2>11, <2>12
<1>10. Concat(parts) = c
  <2>1. Good(n) /\ f[n] \in Seq(Nat)
    <3>1. n \in 0..n
      OBVIOUS
    <3> QED
      BY <1>8, <1>9, <3>1
  <2>2. Len(f[n]) = Len(c) /\ \A t \in 1..Len(c) : f[n][t] = c[t]
    BY <1>3, <2>1
  <2> HIDE DEF Good
  <2>3. f[n] = c
    BY <2>1, <2>2
  <2> QED
    BY <1>7, <2>3
<1>11. SubIdentifiers(c) = parts
  BY <1>5, <1>6, <1>10, SubIdentifiersIs
<1> QED
  BY <1>2, <1>4, <1>11

\* A sub-identifier of k octets is a number of k digits.
LEMMA ArcBound ==
  ASSUME NEW s \in Seq(Nat), Len(s) > 0
  PROVE  Arc(s) \in Nat /\ Size(Arc(s), Half) <= Len(s)
<1>1. PICK h \in Nat : h = Half /\ h >= 2 /\ h # 0
  BY HalfBase
<1>2. PICK n \in Nat : Len(s) = n + 1
  <2>1. Len(s) - 1 \in Nat /\ Len(s) = (Len(s) - 1) + 1
    OBVIOUS
  <2> QED
    BY <2>1
<1>3. \A i \in 1..(n + 1) : s[i] % h \in 0..(h - 1)
  <2> SUFFICES ASSUME NEW i \in 1..(n + 1) PROVE s[i] % h \in 0..(h - 1)
    OBVIOUS
  <2>1. s[i] \in Int /\ h \in Nat \ {0}
    BY <1>1, <1>2
  <2> QED
    BY <2>1, Division
<1>4. PICK ds \in Seq(Nat) :
        /\ ds = [i \in 1..Len(s) |-> s[i] % Half] /\ Len(ds) = n + 1
        /\ \A i \in 1..(n + 1) : ds[i] \in 0..(h - 1)
  <2> DEFINE ds == [i \in 1..(n + 1) |-> s[i] % h]
  <2>1. \A i \in 1..(n + 1) : s[i] % h \in Nat
    BY <1>1, <1>3
  <2>2. ds \in Seq(Nat) /\ Len(ds) = n + 1 /\ \A i \in 1..(n + 1) : ds[i] = s[i] % h
    BY <2>1
  <2>3. ds = [i \in 1..Len(s) |-> s[i] % Half]
    BY <1>1, <1>2
  <2> HIDE DEF ds
  <2> QED
    BY <1>3, <2>2, <2>3
<1>5. Arc(s) = Number(ds, h)
  BY <1>1, <1>4 DEF Arc
<1>6. /\ Number(ds, h) \in Nat /\ ds[1] \in Nat /\ Power(h, n) \in Nat \ {0}
      /\ Number(ds, h) < (ds[1] + 1) * Power(h, n)
  <2>1. \A i \in 1..(n + 1) : ds[i] < h
    BY <1>1, <1>4
  <2> QED
    BY <1>1, <1>4, <2>1, NumberBounds
<1>7. PICK d \in 0..(h - 1) : d = ds[1]
  <2>1. 1 \in 1..(n + 1)
    OBVIOUS
  <2> QED
    BY <1>4, <2>1
<1>8. PICK p \in Nat, x \in Nat : p = Power(h, n) /\ x = Number(ds, h) /\ x < (d + 1) * p
  BY <1>6, <1>7
<1>9. Power(h, n + 1) = p * h
  BY <1>1, <1>8, PowerNext
<1>10. x < p * h
  <2>1. (h - (d + 1)) * p >= 0
    BY <1>1
  <2>2. (h - (d + 1)) * p = p * h - (d + 1) * p /\ p * h \in Nat /\ (d + 1) * p \in Nat
    OBVIOUS
  <2> QED
    BY <1>8, <2>1, <2>2
<1>11. Size(x, h) <= n + 1
  <2>1. n + 1 \in Nat \ {0} /\ x < Power(h, n + 1)
    BY <1>9, <1>10
  <2> QED
    BY <1>1, <2>1, SizeIs
<1> QED
  BY <1>1, <1>2, <1>5, <1>8, <1>11

\* OIDType::serialise() writes what OIDType::fromBuffer() read, in no more
\* octets.
LEMMA OIDRewritten ==
  ASSUME NEW c \in Seq(Octet), OIDValue(c) # Invalid
  PROVE  \E arcs \in Seq(Nat) :
           /\ OIDValue(c) = [type |-> "OID", arcs |-> arcs]
           /\ OIDContents(arcs) # Failed
           /\ Len(OIDContents(arcs)) <= Len(c)
<1>1. PICK h \in Nat : h = Half /\ h >= 2
  BY HalfBase
<1>2. PICK span \in Nat \ {0}, max \in Nat : span = RootSpan /\ max = MaxArc
  BY CodecAssumption DEF CodecAssumption
<1>3. 2 <= max /\ span <= max + 1
  BY <1>2, ArcAssumption
<1>4. c # << >> /\ ~(c[Len(c)] >= Half)
  BY DEF OIDValue
<1>5. c \in Seq(Nat)
  BY OctetsAreNumbers
<1>6. PICK l \in Nat \ {0} : l = Len(c) /\ c[l] < Half
  <2>1. Len(c) \in Nat \ {0} /\ Len(c) \in 1..Len(c)
    BY <1>4, <1>5
  <2>2. c[Len(c)] \in Nat
    BY <1>5, <2>1
  <2> QED
    BY <1>1, <1>4, <2>1, <2>2
<1>7. PICK n \in Nat \ {0} : \E off :
        Cuts(c, off, n, l) /\ SubIdentifiers(c) = Between(c, off, n)
  BY <1>5, <1>6, SubIdentifiersFound
<1>8. PICK off : Cuts(c, off, n, l) /\ SubIdentifiers(c) = Between(c, off, n)
  BY <1>7
<1>9. PICK subs : subs = SubIdentifiers(c)
  OBVIOUS
<1>10. Len(subs) = n
  BY <1>8, <1>9 DEF Between
<1>11. ASSUME NEW i \in 1..n
       PROVE  subs[i] \in Seq(Nat) /\ Len(subs[i]) > 0 /\ off[i] = off[i - 1] + Len(subs[i])
  <2>1. Spans(c, off, Between(c, off, n)[i], i)
    BY <1>5, <1>6, <1>8, BetweenIs
  <2> QED
    BY <1>8, <1>9, <2>1 DEF Spans, IsSubIdentifier
<1> DEFINE S(i) == Arc(subs[i])
<1>12. ASSUME NEW i \in 1..n PROVE S(i) \in Nat /\ Size(S(i), Half) <= Len(subs[i])
  BY <1>11, ArcBound
<1>13. PICK first \in Nat : first = S(1)
  BY <1>12
<1> HIDE DEF S
<1> DEFINE root == IF first < span THEN 0 ELSE IF first < 2 * span THEN 1 ELSE 2
           rest == [i \in 1..(n - 1) |-> S(i + 1)]
           arcs == <<root, first - root * span>> \o rest
<1>14. /\ ~\E i \in 3..Len(arcs) : arcs[i] > max
       /\ ~(first > max + 2 * span)
       /\ ~(Len(arcs) > MaxArcs) /\ ~(TextLength(arcs) >= MaxOID)
       /\ OIDValue(c) = [type |-> "OID", arcs |-> arcs]
  BY <1>2, <1>4, <1>9, <1>10, <1>13 DEF OIDValue, S
<1>15. PICK a \in 0..2, b \in Nat : /\ a = root /\ b = first - root * span
                                    /\ first = a * span + b
                                    /\ a < 2 => b < span
  <2>1. CASE first < span
    BY <2>1
  <2>2. CASE ~(first < span) /\ first < 2 * span
    BY <2>2
  <2>3. CASE ~(first < span) /\ ~(first < 2 * span)
    BY <2>3
  <2> QED
    BY <2>1, <2>2, <2>3
<1>16. a <= max /\ b <= max
  <2>1. a = 2 => b <= max
    BY <1>14, <1>15
  <2> QED
    BY <1>3, <1>15, <2>1
<1> HIDE DEF root
<1>17. /\ arcs \in Seq(Nat) /\ Len(arcs) = n + 1
       /\ arcs[1] = a /\ arcs[2] = b
       /\ \A i \in 2..n : arcs[i + 1] = S(i)
  <2>1. \A i \in 1..(n - 1) : S(i + 1) \in Nat
    BY <1>12
  <2>2. PICK ys \in Seq(Nat) : ys = rest /\ Len(ys) = n - 1 /\ \A i \in 1..(n - 1) : ys[i] = S(i + 1)
    <3>1. PICK m \in Nat : m = n - 1
      OBVIOUS
    <3>2. rest = [i \in 1..m |-> S(i + 1)] /\ \A i \in 1..m : S(i + 1) \in Nat
      BY <2>1, <3>1
    <3>3. rest \in Seq(Nat) /\ Len(rest) = m /\ \A i \in 1..m : rest[i] = S(i + 1)
      BY <3>2
    <3> HIDE DEF rest
    <3> QED
      BY <3>1, <3>3
  <2>3. PICK xs \in Seq(Nat) : xs = <<a, b>> /\ Len(xs) = 2 /\ xs[1] = a /\ xs[2] = b
    <3>1. a \in Nat /\ b \in Nat
      OBVIOUS
    <3>2. <<a, b>> \in Seq(Nat) /\ Len(<<a, b>>) = 2 /\ <<a, b>>[1] = a /\ <<a, b>>[2] = b
      BY ONLY <3>1
    <3> QED
      BY ONLY <3>2
  <2>4. PICK zs : zs = arcs /\ zs = xs \o ys
    BY <1>15, <2>2, <2>3
  <2>5. zs = xs \o ys
    BY <2>4
  <2>6. /\ zs \in Seq(Nat) /\ Len(zs) = Len(xs) + Len(ys)
        /\ \A t \in 1..(Len(xs) + Len(ys)) : zs[t] = IF t <= Len(xs) THEN xs[t] ELSE ys[t - Len(xs)]
    BY <2>5, Concatenated
  <2>7. Len(zs) = n + 1 /\ \A t \in 1..(n + 1) : zs[t] = IF t <= 2 THEN xs[t] ELSE ys[t - 2]
    BY <2>2, <2>3, <2>6
  <2>8. zs[1] = a /\ zs[2] = b
    BY <2>3, <2>7
  <2>9. ASSUME NEW i \in 2..n PROVE zs[i + 1] = S(i)
    <3>1. i + 1 \in 1..(n + 1) /\ ~(i + 1 <= 2) /\ (i + 1) - 2 = i - 1 /\ i - 1 \in 1..(n - 1)
      OBVIOUS
    <3>2. (i - 1) + 1 = i
      OBVIOUS
    <3> QED
      BY <2>2, <2>7, <3>1, <3>2
  <2> QED
    BY <2>4, <2>6, <2>7, <2>8, <2>9
<1> HIDE DEF arcs, rest
<1>18. \A i \in 1..(n + 1) : arcs[i] \in Nat /\ arcs[i] <= max
  <2> SUFFICES ASSUME NEW i \in 1..(n + 1) PROVE arcs[i] \in Nat /\ arcs[i] <= max
    OBVIOUS
  <2>1. arcs[i] \in Nat
    <3>1. arcs \in Seq(Nat) /\ i \in 1..Len(arcs)
      BY <1>17
    <3> QED
      BY ONLY <3>1
  <2>2. CASE i \in 3..(n + 1)
    BY <1>14, <1>17, <2>1, <2>2
  <2>3. CASE i = 1 \/ i = 2
    BY <1>16, <1>17, <2>3
  <2> QED
    BY <2>1, <2>2, <2>3
<1> DEFINE Sub(i) == IF i = 1 THEN arcs[1] * RootSpan + arcs[2] ELSE arcs[i + 1]
           parts == [i \in 1..n |-> SubIdentifier(Sub(i))]
<1>19. OIDContents(arcs) = Concat(parts)
  <2>1. ~(\/ TextLength(arcs) >= MaxOID
          \/ Len(arcs) \notin 2..MaxArcs
          \/ \E i \in 1..Len(arcs) : arcs[i] > MaxArc
          \/ arcs[1] > 2
          \/ arcs[1] < 2 /\ arcs[2] >= RootSpan)
    <3>1. Len(arcs) \in 2..MaxArcs
      <4>1. MaxArcs \in Nat
        BY CodecAssumption DEF CodecAssumption
      <4> QED
        BY <1>14, <1>17, <4>1
    <3>2. ~\E i \in 1..Len(arcs) : arcs[i] > MaxArc
      BY <1>2, <1>17, <1>18
    <3>3. ~(arcs[1] > 2) /\ ~(arcs[1] < 2 /\ arcs[2] >= RootSpan)
      BY <1>2, <1>15, <1>17
    <3> QED
      BY <1>14, <3>1, <3>2, <3>3
  <2>2. Len(arcs) - 1 = n
    BY <1>17
  <2> QED
    BY <2>1, <2>2 DEF OIDContents
<1>20. \A i \in 1..n : Sub(i) = S(i)
  <2> SUFFICES ASSUME NEW i \in 1..n PROVE Sub(i) = S(i)
    OBVIOUS
  <2>1. CASE i = 1
    BY <1>2, <1>13, <1>15, <1>17, <2>1
  <2>2. CASE i # 1
    BY <1>17, <2>2
  <2> QED
    BY <2>1, <2>2
<1> HIDE DEF Sub
<1>21. Len(parts) = n /\ \A i \in 1..n : parts[i] = SubIdentifier(S(i))
  BY <1>20
<1> HIDE DEF parts
<1>22. ASSUME NEW i \in 1..n
       PROVE  /\ IsSubIdentifier(parts[i]) /\ parts[i] \in Seq(Nat)
              /\ Len(parts[i]) <= off[i] - off[i - 1]
  <2>1. PICK x \in Nat : x = S(i) /\ Size(x, Half) <= Len(subs[i])
    BY <1>12
  <2>2. IsSubIdentifier(parts[i]) /\ Len(parts[i]) = Size(x, Half)
    BY <1>21, <2>1, SubIdentifierIs
  <2>3. parts[i] \in Seq(Nat)
    BY <2>2 DEF IsSubIdentifier
  <2>4. off[i] \in Nat /\ off[i - 1] \in Nat
    <3>1. i \in 0..n /\ i - 1 \in 0..n
      OBVIOUS
    <3> QED
      BY <1>8, <3>1 DEF Cuts
  <2>5. Len(subs[i]) \in Nat /\ off[i] = off[i - 1] + Len(subs[i])
    BY <1>11
  <2> QED
    BY <2>1, <2>2, <2>3, <2>4, <2>5
<1>23. parts \in Seq(Seq(Nat))
  <2>1. parts = [i \in 1..n |-> parts[i]]
    BY DEF parts
  <2>2. parts \in [1..n -> Seq(Nat)]
    BY <1>22, <2>1
  <2> QED
    BY <2>2
<1>24. Concat(parts) # Failed
  <2>1. Len(Concat(parts)) > 0
    BY <1>21, <1>22, <1>23, SubIdentifiersIs
  <2> QED
    BY <2>1 DEF Failed
<1>25. Len(Concat(parts)) <= l
  <2>1. n \in Nat /\ off \in [0..n -> Nat] /\ off[0] = 0 /\ off[n] = l
    BY <1>8 DEF Cuts
  <2>2. Len(Concat(parts)) <= off[n] - off[0]
    BY <1>21, <1>22, <2>1, ConcatFits
  <2> QED
    BY <2>1, <2>2
<1> QED
  BY <1>6, <1>14, <1>17, <1>19, <1>24, <1>25

\* What fromBuffer() of any class accepted, serialise() of that class writes
\* again, in no more octets than it was read from, and fromBuffer() then reads
\* the same value: what one direction accepts the other never refuses.
THEOREM ValuesRewritten ==
  ASSUME NEW type, NEW c \in Seq(Octet), NEW v, v = FromBuffer(type, c), v # Invalid
  PROVE  /\ v \in PrimitiveValue /\ v.type = type /\ ~Unserialisable(v)
         /\ Contents(v) \in Seq(Octet) /\ Len(Contents(v)) <= Len(c)
         /\ ReadAs(v) = v
<1>1. CASE type \in {"Integer"} \cup Unsigned
  <2>1. v = IntegerValue(type, c)
    BY <1>1 DEF FromBuffer, Unsigned, Exceptions
  <2>2. PICK n \in Nat : /\ IntegerValue(type, c) = [type |-> type, number |-> n]
                         /\ IntegerOf(type, n) = [type |-> type, number |-> n]
                         /\ Len(IntegerContents(n, type = "Integer")) <= Len(c)
    BY <1>1, <2>1, IntegerRewritten
  <2>3. v = [type |-> type, number |-> n] /\ v.type = type /\ v.number = n
    BY <2>1, <2>2
  <2>4. v \in PrimitiveValue
    BY <1>1, <2>3 DEF PrimitiveValue
  <2>5. Contents(v) = IntegerContents(n, type = "Integer")
    BY <1>1, <2>3 DEF Contents, Unsigned
  <2>6. ~Unserialisable(v)
    BY <1>1, <2>3 DEF Unserialisable, Unsigned
  <2>7. ReadAs(v) = v
    BY <1>1, <2>2, <2>3 DEF ReadAs
  <2> QED
    BY <2>2, <2>3, <2>4, <2>5, <2>6, <2>7, IntegerContentsOctets
<1>2. CASE type = "Counter64"
  <2>1. v = Counter64Value(c)
    BY <1>2 DEF FromBuffer, Unsigned, Exceptions
  <2>2. PICK n \in Nat : /\ Counter64Value(c) = [type |-> "Counter64", number |-> n]
                         /\ n < Power(Base, Counter64Octets)
                         /\ Len(Counter64Contents(n)) <= Len(c)
    BY <2>1, Counter64Rewritten
  <2>3. v = [type |-> "Counter64", number |-> n] /\ v.type = "Counter64" /\ v.number = n
    BY <2>1, <2>2
  <2>4. v \in PrimitiveValue
    BY <2>2, <2>3 DEF PrimitiveValue
  <2>5. Contents(v) = Counter64Contents(n) /\ ~Unserialisable(v) /\ ReadAs(v) = v
    BY <2>3 DEF Contents, Unserialisable, ReadAs, Unsigned
  <2> QED
    BY <1>2, <2>2, <2>3, <2>4, <2>5, Counter64ContentsOctets
<1>3. CASE type = "OID"
  <2>1. v = OIDValue(c)
    BY <1>3 DEF FromBuffer, Unsigned, Exceptions
  <2>2. PICK arcs \in Seq(Nat) : /\ OIDValue(c) = [type |-> "OID", arcs |-> arcs]
                                 /\ OIDContents(arcs) # Failed
                                 /\ Len(OIDContents(arcs)) <= Len(c)
    BY <2>1, OIDRewritten
  <2>3. v = [type |-> "OID", arcs |-> arcs] /\ v.type = "OID" /\ v.arcs = arcs
    BY <2>1, <2>2
  <2>4. v \in PrimitiveValue
    BY <2>3 DEF PrimitiveValue
  <2>5. Contents(v) = OIDContents(arcs) /\ ~Unserialisable(v) /\ ReadAs(v) = v
    BY <2>2, <2>3 DEF Contents, Unserialisable, ReadAs, Unsigned
  <2> QED
    BY <1>3, <2>2, <2>3, <2>4, <2>5, OIDContentsOctets
<1>4. CASE type \in {"Octets", "Opaque"}
  <2>1. v = OctetsValue(type, c)
    BY <1>4 DEF FromBuffer, Unsigned, Exceptions
  <2>2. /\ v = [type |-> type, octets |-> c] /\ v.type = type /\ v.octets = c
        /\ ~(Len(c) > (IF type = "Octets" THEN MaxOctets - 1 ELSE MaxOctets))
    BY <2>1 DEF OctetsValue
  <2>3. /\ type = "Octets" => ~(Len(c) >= MaxOctets)
        /\ Len(c) <= MaxOctets
    <3>1. MaxOctets \in Nat /\ Len(c) \in Nat
      BY CodecAssumption DEF CodecAssumption
    <3> QED
      BY <1>4, <2>2, <3>1
  <2>4. v \in PrimitiveValue
    BY <1>4, <2>2, <2>3 DEF PrimitiveValue
  <2>5. Contents(v) = c /\ ~Unserialisable(v) /\ ReadAs(v) = v
    BY <1>4, <2>2, <2>3 DEF Contents, Unserialisable, ReadAs, Unsigned
  <2> QED
    BY <2>2, <2>4, <2>5
<1>5. CASE type = "Address"
  <2>1. v = [type |-> type, octets |-> c] /\ FixedLength(type, Len(c))
    BY <1>5 DEF FromBuffer, Unsigned, Exceptions
  <2>2. v.type = "Address" /\ v.octets = c /\ Len(c) = AddressOctets
    BY <1>5, <2>1 DEF FixedLength
  <2>3. v \in PrimitiveValue
    BY <1>5, <2>1, <2>2 DEF PrimitiveValue
  <2>4. Contents(v) = c /\ ~Unserialisable(v) /\ ReadAs(v) = v
    BY <2>2 DEF Contents, Unserialisable, ReadAs, Unsigned
  <2> QED
    BY <1>5, <2>2, <2>3, <2>4
<1>6. CASE type \in {"Null"} \cup Exceptions
  <2>1. v = [type |-> type] /\ v.type = type
    BY <1>6 DEF FromBuffer, Unsigned, Exceptions
  <2>2. v \in PrimitiveValue
    BY <1>6, <2>1 DEF PrimitiveValue
  <2>3. Contents(v) = << >> /\ ~Unserialisable(v) /\ ReadAs(v) = v
    BY <1>6, <2>1 DEF Contents, Unserialisable, ReadAs, Unsigned, Exceptions
  <2>4. << >> \in Seq(Octet) /\ Len(<< >>) = 0 /\ Len(c) \in Nat /\ Len(c) >= 0
    OBVIOUS
  <2> QED
    BY <2>1, <2>2, <2>3, <2>4
<1> QED
  BY <1>1, <1>2, <1>3, <1>4, <1>5, <1>6 DEF FromBuffer

\* No header is shorter than the one that Header() makes of its length, or of
\* a smaller one.
LEMMA HeaderShortest ==
  ASSUME NEW buf \in Seq(Octet), NEW at \in Nat, NEW end \in Nat,
         at <= end, end <= Len(buf), ReadHeader(buf, at, end).ok,
         NEW n \in Nat, n <= ReadHeader(buf, at, end).length, NEW tag
  PROVE  n <= MaxLength /\ Len(Header(tag, n)) <= ReadHeader(buf, at, end).header
<1> DEFINE available == end - at
           first == buf[at + 2]
           octets == IF first < Half THEN 0 ELSE first - Half
           o == [i \in 1..octets |-> buf[at + 2 + i]]
           length == CASE octets = 0 -> first
                       [] octets = 1 -> o[1]
                       [] OTHER -> o[octets - 1] * Base + o[octets]
           bad == \/ available < 2
                  \/ first = Half \/ octets = Half - 1 \/ octets > available - 2
                  \/ \E i \in 1..(octets - 2) : o[i] # 0
                  \/ length > available - 2 - octets
           h == ReadHeader(buf, at, end)
<1>1. h = IF bad THEN [ok |-> FALSE, header |-> 0, length |-> 0]
                 ELSE [ok |-> TRUE, header |-> 2 + octets, length |-> length]
  BY DEF ReadHeader
<1> HIDE DEF bad
<1>2. ~bad
  BY <1>1
<1>3. h.header = 2 + octets /\ h.length = length
  BY <1>1, <1>2
<1>4. h.header \in Nat /\ h.header >= 2 /\ h.length \in Nat /\ at + h.header + h.length <= end
  BY HeaderFits
<1> HIDE DEF h
<1>5. first \in Octet
  <2>1. at + 2 \in 1..Len(buf)
    BY <1>4
  <2> QED
    BY <2>1
<1>6. PICK b \in Nat, half \in Nat : b = Base /\ half = Half /\ b = 2 * half /\ half >= 2
  BY HalfBase
<1>7. PICK k \in Nat : k = octets
  BY <1>5, <1>6 DEF Octet
<1>8. first \in Nat /\ (k = 0 => first < half \/ first = half) /\ ~(first = half)
  <2>1. ~(first = Half)
    BY <1>2 DEF bad
  <2> QED
    BY <1>5, <1>6, <1>7, <2>1 DEF Octet
<1>9. \A i \in 1..k : o[i] \in 0..(b - 1)
  <2> SUFFICES ASSUME NEW i \in 1..k PROVE o[i] \in 0..(b - 1)
    OBVIOUS
  <2>1. o[i] = buf[at + 2 + i]
    BY <1>7
  <2>2. at + 2 + i \in 1..Len(buf)
    <3>1. h.header = 2 + k
      BY <1>3, <1>7
    <3> QED
      BY <1>4, <3>1
  <2>3. buf[at + 2 + i] \in Octet
    BY <2>2
  <2> QED
    BY <1>6, <2>1, <2>3 DEF Octet
<1> HIDE DEF o, first, octets
<1>10. n <= length /\ length \in Nat
  BY <1>3, <1>4 DEF h
<1>11. CASE k = 0
  <2>1. n < half
    BY <1>6, <1>7, <1>8, <1>10, <1>11
  <2>2. Len(Header(tag, n)) = 2
    BY <1>6, <2>1 DEF Header
  <2>3. n <= b * b - 1
    <3>1. b * b >= b
      BY <1>6
    <3>2. b * b \in Nat
      BY <1>6
    <3> QED
      BY <1>6, <2>1, <3>1, <3>2
  <2> QED
    BY <1>4, <1>6, <2>2, <2>3 DEF h, MaxLength
<1>12. CASE k = 1
  <2>1. o[1] \in 0..(b - 1) /\ length = o[1]
    <3>1. 1 \in 1..k
      BY <1>12
    <3> QED
      BY <1>7, <1>9, <1>12, <3>1
  <2>2. n < b
    BY <1>6, <1>10, <2>1
  <2>3. Len(Header(tag, n)) <= 3
    BY <1>6, <2>2 DEF Header
  <2>4. n <= b * b - 1
    <3>1. b * b >= b
      BY <1>6
    <3>2. b * b \in Nat
      BY <1>6
    <3> QED
      BY <1>6, <2>2, <3>1, <3>2
  <2>5. h.header = 3
    BY <1>3, <1>7, <1>12
  <2>6. Len(Header(tag, n)) \in Nat
    BY DEF Header
  <2> QED
    BY <1>6, <2>3, <2>4, <2>5 DEF h, MaxLength
<1>13. CASE k >= 2
  <2>1. PICK x \in 0..(b - 1), y \in 0..(b - 1) : length = x * b + y
    <3>1. k - 1 \in 1..k /\ k \in 1..k /\ k # 0 /\ k # 1
      BY <1>13
    <3>2. length = o[k - 1] * b + o[k]
      BY <1>6, <1>7, <3>1
    <3> QED
      BY <1>9, <3>1, <3>2
  <2>2. x * b + y <= b * b - 1
    <3>1. (b - 1 - x) * b >= 0 /\ (b - 1 - x) * b = b * b - b - x * b
      BY <1>6
    <3>2. x * b \in Nat /\ b * b \in Nat
      BY <1>6
    <3> QED
      BY <1>6, <3>1, <3>2
  <2>3. n <= b * b - 1
    <3>1. x * b \in Nat /\ b * b \in Nat
      BY <1>6
    <3> QED
      BY <1>10, <2>1, <2>2, <3>1
  <2>4. Len(Header(tag, n)) <= 4
    BY DEF Header
  <2>5. h.header = 2 + k
    BY <1>3, <1>7
  <2>6. Len(Header(tag, n)) \in Nat
    BY DEF Header
  <2> QED
    BY <1>6, <1>13, <2>3, <2>4, <2>5, <2>6 DEF h, MaxLength
<1> QED
  BY <1>11, <1>12, <1>13

LEMMA HeaderOctets ==
  ASSUME Half >= 4, NEW tag \in Octet, NEW n \in Nat, n <= MaxLength
  PROVE  Header(tag, n) \in Seq(Octet) /\ Len(Header(tag, n)) >= 2
<1>1. PICK b \in Nat, half \in Nat : b = Base /\ half = Half /\ b = 2 * half /\ half >= 2
  BY HalfBase
<1>2. CASE n < half
  <2>1. n \in Octet
    BY <1>1, <1>2 DEF Octet
  <2>2. Header(tag, n) = <<tag, n>>
    BY <1>1, <1>2 DEF Header
  <2> QED
    BY <2>1, <2>2
<1>3. CASE ~(n < half) /\ n < b
  <2>1. n \in Octet /\ Half + 1 \in Octet
    BY <1>1, <1>3 DEF Octet
  <2>2. Header(tag, n) = <<tag, Half + 1, n>>
    BY <1>1, <1>3 DEF Header
  <2> QED
    BY <2>1, <2>2
<1>4. CASE ~(n < b)
  <2>1. Half + 2 \in Octet
    BY <1>1 DEF Octet
  <2>2. n \div Base \in Octet /\ n % Base \in Octet
    <3>1. n \div Base \in 1..(Base - 1) /\ n % Base \in Octet
      BY <1>1, <1>4, TwoDigits
    <3> QED
      BY <1>1, <3>1 DEF Octet
  <2>3. Header(tag, n) = <<tag, Half + 2, n \div Base, n % Base>>
    BY <1>1, <1>4 DEF Header
  <2> QED
    BY <2>1, <2>2, <2>3
<1> QED
  BY <1>2, <1>3, <1>4

\* Whatever the capacity, from n octets on, the frame is the same and has no more.
FramedIn(n, type, contents) ==
  \A capacity \in Nat : n <= capacity =>
    /\ Framed(type, contents, capacity) = Header(Tag[type], Len(contents)) \o contents
    /\ Framed(type, contents, capacity) \in Seq(Octet)
    /\ Framed(type, contents, capacity) # Failed
    /\ Len(Framed(type, contents, capacity)) <= n

\* Contents that are no longer than those of a header that was read can be
\* framed in the octets of both.
LEMMA FramedFits ==
  ASSUME Half >= 4, NEW buf \in Seq(Octet), NEW at \in Nat, NEW end \in Nat,
         at <= end, end <= Len(buf), NEW h, h = ReadHeader(buf, at, end), h.ok,
         NEW type \in Types, NEW contents \in Seq(Octet), Len(contents) <= h.length
  PROVE  FramedIn(h.header + h.length, type, contents)
<1> SUFFICES ASSUME NEW capacity \in Nat, h.header + h.length <= capacity
             PROVE  /\ Framed(type, contents, capacity)
                         = Header(Tag[type], Len(contents)) \o contents
                    /\ Framed(type, contents, capacity) \in Seq(Octet)
                    /\ Framed(type, contents, capacity) # Failed
                    /\ Len(Framed(type, contents, capacity)) <= h.header + h.length
  BY DEF FramedIn
<1>1. PICK n \in Nat : n = Len(contents)
  OBVIOUS
<1>2. PICK tag \in Octet : tag = Tag[type]
  BY CodecAssumption DEF CodecAssumption
<1>3. PICK k \in Nat, l \in Nat :
        k = h.header /\ l = h.length
  BY HeaderFits
<1>4. n <= MaxLength /\ Len(Header(tag, n)) <= k
  BY <1>1, <1>3, HeaderShortest
<1>5. PICK top \in Seq(Octet) : top = Header(tag, n) /\ Len(top) >= 2
  BY <1>4, HeaderOctets
<1>6. PICK t \in Nat : t = Len(top)
  OBVIOUS
<1>7. PICK frame : frame = top \o contents
  OBVIOUS
<1>8. frame \in Seq(Octet) /\ Len(frame) = t + n
  BY <1>1, <1>6, <1>7, ConcatProperties
<1>9. t <= k /\ n <= l /\ t >= 2 /\ k + l <= capacity
  BY <1>1, <1>3, <1>4, <1>5, <1>6
<1>10. t + n <= k + l /\ t + n <= capacity /\ t + n >= 2
  BY <1>9
<1>11. frame # Failed
  <2>1. Len(frame) # 0
    BY <1>8, <1>10
  <2> QED
    BY <2>1 DEF Failed
<1>12. MaxLength \in Nat
  <2>1. PICK b \in Nat : b = Base /\ b >= 1
    BY HalfBase
  <2>2. b * b >= 1 /\ b * b \in Nat
    BY <2>1
  <2> QED
    BY <2>1, <2>2 DEF MaxLength
<1>13. Framed(type, contents, capacity) = frame
  <2>1. ~(n > MaxLength \/ t + n > capacity)
    BY <1>4, <1>10, <1>12
  <2> QED
    BY <1>1, <1>2, <1>5, <1>6, <1>7, <2>1 DEF Framed
<1> QED
  BY <1>1, <1>2, <1>3, <1>5, <1>7, <1>8, <1>10, <1>11, <1>13
=============================================================================
