------------------------------ MODULE SNMPValue ------------------------------
(***************************************************************************)
(* The values of src/src/SNMPClient.cpp: octets in a payload on the heap   *)
(* that copies share and count, and that the last of them frees.  A value  *)
(* is what it holds: a payload, or none for a number or no octets.         *)
(***************************************************************************)
EXTENDS Integers, Sequences, FiniteSets

CONSTANTS
  Value,          \* the sketch's SNMPValue variables
  Payload,        \* addresses on the heap
  None,
  MaxValueOctets  \* SNMP_VALUE_MAX_LENGTH

ASSUME ValueAssumption ==
  /\ IsFiniteSet(Value) /\ None \notin Payload
  /\ MaxValueOctets \in Nat

VARIABLES heap, holds

\* Freed memory: a read of it is a read of anything.
Freed == [refs |-> 0, octets |-> <<-1>>]

Released(p, h) ==
  IF p = None THEN h
  ELSE [h EXCEPT ![p] = IF @.refs = 1 THEN Freed
                                      ELSE [refs |-> @.refs - 1, octets |-> @.octets]]

Retained(p, h) ==
  IF p = None THEN h
  ELSE [h EXCEPT ![p] = [refs |-> @.refs + 1, octets |-> @.octets]]

Bytes(v) == IF holds[v] = None THEN << >> ELSE heap[holds[v]].octets

ValuesInit ==
  /\ heap = [p \in Payload |-> Freed]
  /\ holds = [v \in Value |-> None]

\* ~SNMPValue(), and what is assigned from a new value or a number.
Clear(v) ==
  /\ heap' = Released(holds[v], heap)
  /\ holds' = [holds EXCEPT ![v] = None]

\* operator= and, for a value that holds nothing yet, the copy constructor.
Shared_KeepsOld(v, w) == IF v = w THEN heap ELSE Retained(holds[w], heap)
Shared(v, w) ==
  IF v = w THEN heap ELSE Retained(holds[w], Released(holds[v], heap))

Assign(v, w) ==
  /\ heap' = Shared(v, w)
  /\ holds' = [holds EXCEPT ![v] = holds[w]]

\* The data of setBytes() is the caller's, or lies in a payload from an
\* offset on, perhaps in the payload it replaces.
Caller(octets) == [payload |-> None, octets |-> octets, offset |-> 0]
Part(p, n) == [payload |-> p, octets |-> << >>, offset |-> n]

Data(source, h) ==
  LET octets == IF source.payload = None THEN source.octets ELSE h[source.payload].octets
  IN  SubSeq(octets, source.offset + 1, Len(octets))

Stored_ReleasesFirst(v, source, p) ==
  LET h == Released(holds[v], heap)
  IN  [h EXCEPT ![p] = [refs |-> 1, octets |-> Data(source, h)]]

\* The payload is allocated and filled before the old one is released.
Stored(v, source, p) ==
  Released(holds[v], [heap EXCEPT ![p] = [refs |-> 1, octets |-> Data(source, heap)]])

\* An octet string: an OID or an address of a wrong length is refused too,
\* and SetBytesFails stands for every refusal.
Settable(octets) == Len(octets) <= MaxValueOctets

SetBytes(v, source) ==
  /\ Settable(Data(source, heap))
  /\ IF Data(source, heap) = << >>
       THEN Clear(v)
       ELSE \E p \in {q \in Payload : heap[q].refs = 0} :
              /\ heap' = Stored(v, source, p)
              /\ holds' = [holds EXCEPT ![v] = p]

\* setBytes() refuses its arguments, or there is no memory.
SetBytesFails == UNCHANGED <<heap, holds>>
=============================================================================
