------------------------- MODULE NotificationsProofs -------------------------
(***************************************************************************)
(* The reference counts and the octets of the values, and the INFORMs that *)
(* are acknowledged, for any number of values, payloads and events.        *)
(*                                                                         *)
(* Each operation moves one value from a payload, or none, to another.     *)
(* The proof compares what this does to the number of holders of a payload *)
(* (HoldersMove) with what the operation does to its count.  Exact counts  *)
(* then keep octets: a payload that another value holds is not freed       *)
(* (SharedRefs), and a new one is held by none (UnheldRefs).               *)
(***************************************************************************)
EXTENDS Notifications, FiniteSetTheorems, TLAPS

Holders(f, p) == {v \in Value : f[v] = p}
Is(x, y) == IF x = y THEN 1 ELSE 0

IsHeap(h) == h = [p \in Payload |-> h[p]]

\* The inductive invariant: the counts, with the types they need.
ValuesInv ==
  /\ IsHeap(heap)
  /\ holds \in [Value -> Payload \cup {None}]
  /\ PayloadsCounted

LEMMA NoneIsNoPayload == None \notin Payload /\ IsFiniteSet(Value)
BY ValueAssumption DEF ValueAssumption

LEMMA HoldersFinite ==
  ASSUME NEW f, NEW p
  PROVE  IsFiniteSet(Holders(f, p)) /\ Cardinality(Holders(f, p)) \in Nat
<1>1. Holders(f, p) \subseteq Value
  BY DEF Holders
<1>2. IsFiniteSet(Holders(f, p))
  BY <1>1, NoneIsNoPayload, FS_Subset
<1> QED
  BY <1>2, FS_CardinalityType

\* One value moves to x.
LEMMA HoldersMove ==
  ASSUME NEW f \in [Value -> Payload \cup {None}], NEW v \in Value,
         NEW x \in Payload \cup {None}, NEW p \in Payload
  PROVE  Cardinality(Holders([f EXCEPT ![v] = x], p)) =
           Cardinality(Holders(f, p)) + Is(x, p) - Is(f[v], p)
<1> DEFINE g == [f EXCEPT ![v] = x]
<1>1. IsFiniteSet(Holders(f, p)) /\ Cardinality(Holders(f, p)) \in Nat
  BY HoldersFinite
<1>2. CASE x = p /\ f[v] # p
  <2>1. Holders(g, p) = Holders(f, p) \cup {v} /\ v \notin Holders(f, p)
    BY <1>2 DEF Holders
  <2>2. Cardinality(Holders(g, p)) = Cardinality(Holders(f, p)) + 1
    BY <1>1, <2>1, FS_AddElement
  <2> QED
    BY <1>1, <1>2, <2>2 DEF Is
<1>3. CASE x # p /\ f[v] = p
  <2>1. Holders(g, p) = Holders(f, p) \ {v} /\ v \in Holders(f, p)
    BY <1>3 DEF Holders
  <2>2. Cardinality(Holders(g, p)) = Cardinality(Holders(f, p)) - 1
    BY <1>1, <2>1, FS_RemoveElement
  <2> QED
    BY <1>1, <1>3, <2>2 DEF Is
<1>4. CASE x = p <=> f[v] = p
  <2>1. Holders(g, p) = Holders(f, p)
    BY <1>4 DEF Holders
  <2> QED
    BY <1>1, <1>4, <2>1 DEF Is
<1> QED
  BY <1>2, <1>3, <1>4

LEMMA ReleasedCount ==
  ASSUME NEW h, IsHeap(h), NEW q \in Payload \cup {None}, NEW p \in Payload,
         h[p].refs \in Nat
  PROVE  /\ IsHeap(Released(q, h))
         /\ Released(q, h)[p].refs = h[p].refs - Is(q, p)
<1>1. CASE q = None
  BY <1>1, NoneIsNoPayload DEF Released, Is
<1>2. CASE q \in Payload
  <2>1. q # None
    BY <1>2, NoneIsNoPayload
  <2>2. Released(q, h) = [h EXCEPT ![q] = IF h[q].refs = 1 THEN Freed
           ELSE [refs |-> h[q].refs - 1, octets |-> h[q].octets]]
    BY <2>1 DEF Released
  <2>3. IsHeap(Released(q, h))
    BY <1>2, <2>2 DEF IsHeap
  <2>4. CASE p = q
    <3>1. Released(q, h)[p] = IF h[p].refs = 1 THEN Freed
            ELSE [refs |-> h[p].refs - 1, octets |-> h[p].octets]
      BY <1>2, <2>2, <2>4 DEF IsHeap
    <3> QED
      BY <2>3, <2>4, <3>1 DEF Freed, Is
  <2>5. CASE p # q
    <3>1. Released(q, h)[p] = h[p]
      BY <1>2, <2>2, <2>5 DEF IsHeap
    <3> QED
      BY <2>3, <2>5, <3>1 DEF Is
  <2> QED
    BY <2>4, <2>5
<1> QED
  BY <1>1, <1>2

LEMMA RetainedCount ==
  ASSUME NEW h, IsHeap(h), NEW q \in Payload \cup {None}, NEW p \in Payload,
         h[p].refs \in Int
  PROVE  /\ IsHeap(Retained(q, h))
         /\ Retained(q, h)[p].refs = h[p].refs + Is(q, p)
<1>1. CASE q = None
  BY <1>1, NoneIsNoPayload DEF Retained, Is
<1>2. CASE q \in Payload
  <2>1. q # None
    BY <1>2, NoneIsNoPayload
  <2>2. Retained(q, h) =
          [h EXCEPT ![q] = [refs |-> h[q].refs + 1, octets |-> h[q].octets]]
    BY <2>1 DEF Retained
  <2>3. IsHeap(Retained(q, h))
    BY <1>2, <2>2 DEF IsHeap
  <2>4. CASE p = q
    <3>1. Retained(q, h)[p] = [refs |-> h[p].refs + 1, octets |-> h[p].octets]
      BY <1>2, <2>2, <2>4 DEF IsHeap
    <3> QED
      BY <2>3, <2>4, <3>1 DEF Is
  <2>5. CASE p # q
    <3>1. Retained(q, h)[p] = h[p]
      BY <1>2, <2>2, <2>5 DEF IsHeap
    <3> QED
      BY <2>3, <2>5, <3>1 DEF Is
  <2> QED
    BY <2>4, <2>5
<1> QED
  BY <1>1, <1>2

-----------------------------------------------------------------------------
(***************************************************************************)
(* The operations of a value.                                              *)
(***************************************************************************)
LEMMA Counts ==
  ASSUME ValuesInv, NEW p \in Payload
  PROVE  heap[p].refs = Cardinality(Holders(holds, p)) /\ heap[p].refs \in Nat
<1>1. heap[p].refs = Cardinality(Holders(holds, p))
  BY DEF ValuesInv, PayloadsCounted, Holders
<1>2. Cardinality(Holders(holds, p)) \in Nat
  BY HoldersFinite
<1> QED
  BY <1>1, <1>2

\* An operation that moves v to x, and counts as much for every payload.
LEMMA MoveKeeps ==
  ASSUME ValuesInv, NEW v \in Value, NEW x \in Payload \cup {None},
         holds' = [holds EXCEPT ![v] = x],
         IsHeap(heap'),
         \A p \in Payload : heap'[p].refs = heap[p].refs + Is(x, p) - Is(holds[v], p)
  PROVE  ValuesInv'
<1>1. holds \in [Value -> Payload \cup {None}]
  BY DEF ValuesInv
<1>2. ASSUME NEW p \in Payload
      PROVE  heap'[p].refs = Cardinality(Holders(holds', p))
  BY <1>1, <1>2, Counts, HoldersMove
<1>3. PayloadsCounted'
  BY <1>2 DEF PayloadsCounted, Holders
<1> QED
  BY <1>1, <1>3 DEF ValuesInv, IsHeap

LEMMA ClearKeeps ==
  ASSUME ValuesInv, NEW v \in Value, Clear(v)
  PROVE  ValuesInv'
<1>1. IsHeap(heap) /\ holds[v] \in Payload \cup {None}
  BY DEF ValuesInv
<1>2. ASSUME NEW p \in Payload
      PROVE  /\ IsHeap(heap')
             /\ heap'[p].refs = heap[p].refs + Is(None, p) - Is(holds[v], p)
  <2>1. heap[p].refs \in Nat /\ Is(None, p) = 0
    BY Counts, NoneIsNoPayload DEF Is
  <2>2. IsHeap(heap') /\ heap'[p].refs = heap[p].refs - Is(holds[v], p)
    BY <1>1, <2>1, ReleasedCount DEF Clear
  <2> QED
    BY <2>1, <2>2 DEF Is
<1>3. IsHeap(heap')
  <2>1. CASE holds[v] = None
    BY <1>1, <2>1 DEF Clear, Released
  <2> QED
    BY <1>1, <1>2, <2>1
<1> QED
  BY <1>2, <1>3, MoveKeeps DEF Clear

LEMMA AssignKeeps ==
  ASSUME ValuesInv, NEW v \in Value, NEW w \in Value, Assign(v, w)
  PROVE  ValuesInv'
<1>1. IsHeap(heap) /\ holds \in [Value -> Payload \cup {None}]
  BY DEF ValuesInv
<1>2. CASE v = w
  <2>1. heap' = heap /\ holds' = holds
    BY <1>1, <1>2 DEF Assign, Shared
  <2> QED
    BY <2>1 DEF ValuesInv, IsHeap, PayloadsCounted
<1>3. CASE v # w
  <2> DEFINE h == Released(holds[v], heap)
  <2>1. heap' = Retained(holds[w], h) /\ holds' = [holds EXCEPT ![v] = holds[w]]
    BY <1>3 DEF Assign, Shared
  <2>2. holds[v] \in Payload \cup {None} /\ holds[w] \in Payload \cup {None}
    BY <1>1
  <2>3. ASSUME NEW p \in Payload
        PROVE  /\ IsHeap(heap')
               /\ heap'[p].refs = heap[p].refs + Is(holds[w], p) - Is(holds[v], p)
    <3>1. heap[p].refs \in Nat
      BY Counts
    <3>2. IsHeap(h) /\ h[p].refs = heap[p].refs - Is(holds[v], p)
      BY <1>1, <2>2, <3>1, ReleasedCount
    <3>3. h[p].refs \in Int
      BY <3>1, <3>2 DEF Is
    <3> HIDE DEF h
    <3>4. IsHeap(heap') /\ heap'[p].refs = h[p].refs + Is(holds[w], p)
      BY <2>1, <2>2, <3>2, <3>3, RetainedCount
    <3> QED
      BY <3>1, <3>2, <3>4 DEF Is
  <2>4. IsHeap(heap')
    <3>1. CASE holds[v] = None /\ holds[w] = None
      BY <1>1, <2>1, <3>1 DEF Released, Retained
    <3> QED
      BY <2>2, <2>3, <3>1
  <2> QED
    BY <2>1, <2>2, <2>3, <2>4, MoveKeeps
<1> QED
  BY <1>2, <1>3

LEMMA SetBytesKeeps ==
  ASSUME ValuesInv, NEW v \in Value, NEW source, SetBytes(v, source)
  PROVE  ValuesInv'
<1>1. IsHeap(heap) /\ holds \in [Value -> Payload \cup {None}]
  BY DEF ValuesInv
<1>2. CASE Clear(v)
  BY <1>2, ClearKeeps
<1>3. ASSUME NEW q \in Payload, heap[q].refs = 0,
             heap' = Stored(v, source, q), holds' = [holds EXCEPT ![v] = q]
      PROVE  ValuesInv'
  <2> DEFINE h == [heap EXCEPT ![q] = [refs |-> 1, octets |-> Data(source, heap)]]
  <2>1. IsHeap(h) /\ holds[v] \in Payload \cup {None}
    BY <1>1 DEF IsHeap
  <2>2. heap' = Released(holds[v], h)
    BY <1>3 DEF Stored
  <2>3. ASSUME NEW p \in Payload
        PROVE  /\ IsHeap(heap')
               /\ heap'[p].refs = heap[p].refs + Is(q, p) - Is(holds[v], p)
    <3>1. heap[p].refs \in Nat
      BY Counts
    <3>2. h[p].refs = heap[p].refs + Is(q, p)
      <4>1. CASE p = q
        <5>1. h[p] = [refs |-> 1, octets |-> Data(source, heap)]
          BY <1>1, <4>1 DEF IsHeap
        <5> QED
          BY <1>3, <4>1, <5>1 DEF Is
      <4>2. CASE p # q
        <5>1. h[p] = heap[p]
          BY <1>1, <4>2 DEF IsHeap
        <5> QED
          BY <3>1, <4>2, <5>1 DEF Is
      <4> QED
        BY <4>1, <4>2
    <3>3. h[p].refs \in Nat
      BY <3>1, <3>2 DEF Is
    <3> HIDE DEF h
    <3>4. IsHeap(heap') /\ heap'[p].refs = h[p].refs - Is(holds[v], p)
      BY <2>1, <2>2, <3>3, ReleasedCount
    <3> QED
      BY <3>1, <3>2, <3>4 DEF Is
  <2> HIDE DEF h
  <2> QED
    BY <1>3, <2>3, MoveKeeps
<1> QED
  BY <1>2, <1>3 DEF SetBytes

LEMMA InitInv == Init => ValuesInv
<1> SUFFICES ASSUME Init PROVE ValuesInv
  OBVIOUS
<1>1. heap = [p \in Payload |-> Freed] /\ holds = [v \in Value |-> None]
  BY DEF Init, ValuesInit
<1>2. ASSUME NEW p \in Payload
      PROVE  heap[p].refs = Cardinality({v \in Value : holds[v] = p})
  <2>1. {v \in Value : holds[v] = p} = {}
    BY <1>1, NoneIsNoPayload
  <2>2. heap[p].refs = 0
    BY <1>1 DEF Freed
  <2> QED
    BY <2>1, <2>2, FS_EmptySet
<1> QED
  BY <1>1, <1>2 DEF ValuesInv, IsHeap, PayloadsCounted

LEMMA NextInv == ValuesInv /\ [Next]_vars => ValuesInv'
<1> SUFFICES ASSUME ValuesInv, [Next]_vars PROVE ValuesInv'
  OBVIOUS
<1>1. CASE UNCHANGED <<heap, holds>>
  BY <1>1 DEF ValuesInv, IsHeap, PayloadsCounted
<1>2. ASSUME NEW e \in Event, AgentSends(e) \/ Lose(e) \/ AgentReceives(e)
      PROVE  ValuesInv'
  BY <1>1, <1>2 DEF AgentSends, Lose, AgentReceives, values
<1>3. ASSUME NEW c \in Community \cup {None}, Register(c)
      PROVE  ValuesInv'
  BY <1>1, <1>3 DEF Register, values
<1>4. ASSUME NEW e \in Event, NEW again, NEW memory, Notify(e, again, memory)
      PROVE  ValuesInv'
  BY <1>1, <1>4 DEF Notify, values
<1>5. ASSUME NEW i \in 1..3, NEW v \in Value, HandlerReads(i, v)
      PROVE  ValuesInv'
  BY <1>5, ClearKeeps, SetBytesKeeps DEF HandlerReads
<1>6. ASSUME NEW accepts, NEW sent, HandlerReturns(accepts, sent)
      PROVE  ValuesInv'
  BY <1>1, <1>6 DEF HandlerReturns, values
<1>7. ASSUME NEW v \in Value, SketchDestroys(v)
      PROVE  ValuesInv'
  BY <1>7, ClearKeeps DEF SketchDestroys
<1>8. ASSUME NEW v \in Value, NEW octets, SketchSets(v, octets)
      PROVE  ValuesInv'
  BY <1>1, <1>8, SetBytesKeeps DEF SketchSets, SetBytesFails
<1>9. ASSUME NEW v \in Value, NEW w \in Value, SketchAssigns(v, w)
      PROVE  ValuesInv'
  BY <1>9, AssignKeeps DEF SketchAssigns
<1>10. ASSUME NEW v \in Value, NEW w \in Value, NEW n, SketchSetsPart(v, w, n)
       PROVE  ValuesInv'
  BY <1>10, SetBytesKeeps DEF SketchSetsPart
<1>11. CASE UNCHANGED vars
  BY <1>1, <1>11 DEF vars
<1> QED
  BY <1>2, <1>3, <1>4, <1>5, <1>6, <1>7, <1>8, <1>9, <1>10, <1>11 DEF Next

\* The counts of SNMPValue's payloads agree with their holders, whatever the
\* sketch copies, assigns, replaces and destroys.
THEOREM PayloadsStayCounted == Spec => []PayloadsCounted
<1>1. ValuesInv => PayloadsCounted
  BY DEF ValuesInv
<1> QED
  BY <1>1, InitInv, NextInv, PTL DEF Spec

-----------------------------------------------------------------------------
(***************************************************************************)
(* The octets of a value.  A payload that another value holds too is not   *)
(* freed, and a new one is held by none.                                   *)
(***************************************************************************)
LEMMA ReleasedOctets ==
  ASSUME NEW h, IsHeap(h), NEW q \in Payload \cup {None}, NEW p \in Payload,
         q = p => h[p].refs # 1
  PROVE  Released(q, h)[p].octets = h[p].octets
<1>1. CASE q = None
  BY <1>1 DEF Released
<1>2. CASE q # None
  <2>1. Released(q, h) = [h EXCEPT ![q] = IF h[q].refs = 1 THEN Freed
           ELSE [refs |-> h[q].refs - 1, octets |-> h[q].octets]]
    BY <1>2 DEF Released
  <2>2. CASE p = q
    <3>1. Released(q, h)[p] = [refs |-> h[p].refs - 1, octets |-> h[p].octets]
      BY <2>1, <2>2 DEF IsHeap
    <3> QED
      BY <3>1
  <2>3. CASE p # q
    <3>1. Released(q, h)[p] = h[p]
      BY <2>1, <2>3 DEF IsHeap
    <3> QED
      BY <3>1
  <2> QED
    BY <2>2, <2>3
<1> QED
  BY <1>1, <1>2

LEMMA RetainedOctets ==
  ASSUME NEW h, IsHeap(h), NEW q \in Payload \cup {None}, NEW p \in Payload
  PROVE  Retained(q, h)[p].octets = h[p].octets
<1>1. CASE q = None
  BY <1>1 DEF Retained
<1>2. CASE q # None
  <2>1. Retained(q, h) =
          [h EXCEPT ![q] = [refs |-> h[q].refs + 1, octets |-> h[q].octets]]
    BY <1>2 DEF Retained
  <2>2. CASE p = q
    <3>1. Retained(q, h)[p] = [refs |-> h[p].refs + 1, octets |-> h[p].octets]
      BY <2>1, <2>2 DEF IsHeap
    <3> QED
      BY <2>2, <3>1
  <2>3. CASE p # q
    <3>1. Retained(q, h)[p] = h[p]
      BY <2>1, <2>3 DEF IsHeap
    <3> QED
      BY <3>1
  <2> QED
    BY <2>2, <2>3
<1> QED
  BY <1>1, <1>2

LEMMA SharedRefs ==
  ASSUME ValuesInv, NEW p \in Payload, NEW u \in Value, NEW v \in Value, u # v,
         holds[u] = p, holds[v] = p
  PROVE  heap[p].refs # 1
<1>1. {u, v} \subseteq Holders(holds, p) /\ IsFiniteSet(Holders(holds, p))
  BY HoldersFinite DEF Holders
<1>2. Cardinality({u, v}) = 2
  <2>1. IsFiniteSet({u}) /\ Cardinality({u}) = 1
    BY FS_Singleton
  <2>2. {u, v} = {u} \cup {v} /\ v \notin {u}
    OBVIOUS
  <2> QED
    BY <2>1, <2>2, FS_AddElement
<1>3. Cardinality({u, v}) <= Cardinality(Holders(holds, p))
  BY <1>1, FS_Subset
<1> QED
  BY <1>2, <1>3, Counts, HoldersFinite

LEMMA UnheldRefs ==
  ASSUME ValuesInv, NEW p \in Payload, heap[p].refs = 0, NEW u \in Value
  PROVE  holds[u] # p
<1>1. IsFiniteSet(Holders(holds, p)) /\ Cardinality(Holders(holds, p)) = 0
  BY Counts, HoldersFinite
<1>2. Holders(holds, p) = {}
  BY <1>1, FS_EmptySet
<1> QED
  BY <1>2 DEF Holders

\* No value but v changes its octets.
Others(v) == \A u \in Value \ {v} : Bytes(u)' = Bytes(u)

LEMMA ClearBytes ==
  ASSUME ValuesInv, NEW v \in Value, Clear(v)
  PROVE  Bytes(v)' = << >> /\ Others(v)
<1>1. IsHeap(heap) /\ holds \in [Value -> Payload \cup {None}]
  BY DEF ValuesInv
<1>2. Bytes(v)' = << >>
  BY <1>1 DEF Clear, Bytes
<1>3. ASSUME NEW u \in Value \ {v}
      PROVE  Bytes(u)' = Bytes(u)
  <2>1. holds'[u] = holds[u]
    BY <1>1 DEF Clear
  <2>2. CASE holds[u] = None
    BY <2>1, <2>2 DEF Bytes
  <2>3. CASE holds[u] # None
    <3>1. holds[u] \in Payload /\ holds[v] \in Payload \cup {None}
      BY <1>1, <2>3
    <3>2. holds[v] = holds[u] => heap[holds[u]].refs # 1
      BY <3>1, SharedRefs
    <3>3. heap'[holds[u]].octets = heap[holds[u]].octets
      BY <1>1, <3>1, <3>2, ReleasedOctets DEF Clear
    <3> QED
      BY <2>1, <2>3, <3>3 DEF Bytes
  <2> QED
    BY <2>2, <2>3
<1> QED
  BY <1>2, <1>3 DEF Others

LEMMA AssignBytes ==
  ASSUME ValuesInv, NEW v \in Value, NEW w \in Value, Assign(v, w)
  PROVE  Bytes(v)' = Bytes(w) /\ Others(v)
<1>1. IsHeap(heap) /\ holds \in [Value -> Payload \cup {None}]
  BY DEF ValuesInv
<1>2. CASE v = w
  <2>1. heap' = heap /\ holds' = holds
    BY <1>1, <1>2 DEF Assign, Shared
  <2> QED
    BY <1>2, <2>1 DEF Bytes, Others
<1>3. CASE v # w
  <2> DEFINE h == Released(holds[v], heap)
  <2>1. heap' = Retained(holds[w], h) /\ holds' = [holds EXCEPT ![v] = holds[w]]
    BY <1>3 DEF Assign, Shared
  <2>2. holds'[v] = holds[w] /\ \A u \in Value \ {v} : holds'[u] = holds[u]
    BY <1>1, <2>1
  <2>3. ASSUME NEW u \in Value \ {v}, holds[u] # None
        PROVE  heap'[holds[u]].octets = heap[holds[u]].octets
    <3>1. /\ holds[u] \in Payload /\ holds[v] \in Payload \cup {None}
          /\ holds[w] \in Payload \cup {None}
      BY <1>1, <2>3
    <3>2. holds[v] = holds[u] => heap[holds[u]].refs # 1
      BY <3>1, SharedRefs
    <3>3. h[holds[u]].octets = heap[holds[u]].octets
      BY <1>1, <3>1, <3>2, ReleasedOctets
    <3>4. heap[holds[u]].refs \in Nat
      BY <3>1, Counts
    <3>5. IsHeap(h)
      BY <1>1, <3>1, <3>4, ReleasedCount
    <3> HIDE DEF h
    <3> QED
      BY <2>1, <3>1, <3>3, <3>5, RetainedOctets
  <2>4. ASSUME NEW u \in Value \ {v}
        PROVE  IF holds[u] = None THEN Bytes(u) = << >>
               ELSE heap'[holds[u]].octets = Bytes(u)
    BY <2>3, <2>4 DEF Bytes
  <2>5. Bytes(v)' = Bytes(w)
    BY <1>3, <2>2, <2>4 DEF Bytes
  <2>6. ASSUME NEW u \in Value \ {v}
        PROVE  Bytes(u)' = Bytes(u)
    BY <2>2, <2>4 DEF Bytes
  <2> QED
    BY <2>5, <2>6 DEF Others
<1> QED
  BY <1>2, <1>3

LEMMA SetBytesBytes ==
  ASSUME ValuesInv, NEW v \in Value, NEW source, SetBytes(v, source)
  PROVE  Bytes(v)' = Data(source, heap) /\ Others(v)
<1>1. IsHeap(heap) /\ holds \in [Value -> Payload \cup {None}]
  BY DEF ValuesInv
<1>2. CASE Data(source, heap) = << >>
  BY <1>2, ClearBytes DEF SetBytes
<1>3. CASE Data(source, heap) # << >>
  <2> DEFINE octets == Data(source, heap)
  <2>1. PICK q \in Payload : /\ heap[q].refs = 0
                             /\ heap' = Stored(v, source, q)
                             /\ holds' = [holds EXCEPT ![v] = q]
    BY <1>3 DEF SetBytes
  <2> DEFINE h == [heap EXCEPT ![q] = [refs |-> 1, octets |-> octets]]
  <2>2. IsHeap(h) /\ heap' = Released(holds[v], h)
    BY <1>1, <2>1 DEF Stored, IsHeap
  <2>3. h[q].octets = octets /\ \A p \in Payload \ {q} : h[p] = heap[p]
    <3>1. h[q] = [refs |-> 1, octets |-> octets]
      BY <1>1 DEF IsHeap
    <3> QED
      BY <1>1, <3>1 DEF IsHeap
  <2>4. holds[v] \in Payload \cup {None} /\ holds[v] # q
    BY <1>1, <2>1, UnheldRefs
  <2> HIDE DEF h, octets
  <2>5. Bytes(v)' = octets
    <3>1. heap'[q].octets = octets
      BY <2>2, <2>3, <2>4, ReleasedOctets
    <3>2. holds'[v] = q /\ q # None
      BY <1>1, <2>1, NoneIsNoPayload
    <3> QED
      BY <3>1, <3>2 DEF Bytes
  <2>6. ASSUME NEW u \in Value \ {v}
        PROVE  Bytes(u)' = Bytes(u)
    <3>1. holds'[u] = holds[u] /\ holds[u] # q
      BY <1>1, <2>1, UnheldRefs
    <3>2. CASE holds[u] = None
      BY <3>1, <3>2 DEF Bytes
    <3>3. CASE holds[u] # None
      <4>1. holds[u] \in Payload \ {q}
        BY <1>1, <3>1, <3>3
      <4>2. holds[v] = holds[u] => h[holds[u]].refs # 1
        BY <2>3, <4>1, SharedRefs
      <4>3. heap'[holds[u]].octets = h[holds[u]].octets
        BY <2>2, <2>4, <4>1, <4>2, ReleasedOctets
      <4> QED
        BY <2>3, <3>1, <3>3, <4>1, <4>3 DEF Bytes
    <3> QED
      BY <3>2, <3>3
  <2> QED
    BY <2>5, <2>6 DEF Others, octets
<1> QED
  BY <1>2, <1>3

\* What the sketch expects of its values, with the types that need it.
ExpectedInv ==
  /\ expected \in [Value -> Seq(Nat)]
  /\ handling \in Event \cup {None}
  /\ ValuesKeepTheirBytes

LEMMA ChangeKeeps ==
  ASSUME ExpectedInv, NEW v \in Value, NEW octets \in Seq(Nat),
         Bytes(v)' = octets, Others(v), UNCHANGED handling,
         expected' = [expected EXCEPT ![v] = octets]
  PROVE  ExpectedInv'
<1>1. expected' \in [Value -> Seq(Nat)] /\ handling' \in Event \cup {None}
  BY DEF ExpectedInv
<1>2. ASSUME NEW u \in Value
      PROVE  Bytes(u)' = expected'[u]
  <2>1. CASE u = v
    BY <2>1 DEF ExpectedInv
  <2>2. CASE u # v
    BY <2>2 DEF ExpectedInv, Others, ValuesKeepTheirBytes
  <2> QED
    BY <2>1, <2>2
<1> QED
  BY <1>1, <1>2 DEF ExpectedInv, ValuesKeepTheirBytes

\* Data given from outside is stored as it is.
LEMMA CallerData ==
  ASSUME NEW octets \in Seq(Nat)
  PROVE  Data(Caller(octets), heap) = octets
<1>1. Data(Caller(octets), heap) = SubSeq(octets, 0 + 1, Len(octets))
  BY DEF Data, Caller
<1>2. SubSeq(octets, 1, Len(octets)) = octets
  OBVIOUS
<1> QED
  BY <1>1, <1>2

LEMMA ReadKeeps ==
  ASSUME ValuesInv, ExpectedInv, NEW i \in 1..3, NEW v \in Value, HandlerReads(i, v)
  PROVE  ExpectedInv'
<1> DEFINE octets == BindingOctets(Bindings(MessageOf[handling])[i].kids[2])
<1>1. octets \in Seq(Nat)
  <2>1. handling \in Event /\ i <= Len(Bindings(MessageOf[handling]))
    BY DEF HandlerReads, ExpectedInv
  <2> QED
    BY <2>1, MessagesAreDecoded DEF MessagesAreDecoded
<1>2. UNCHANGED handling
  BY DEF HandlerReads, client
<1>3. CASE SetBytes(v, Caller(octets)) /\ expected' = [expected EXCEPT ![v] = octets]
  <2> HIDE DEF octets
  <2>1. Bytes(v)' = octets /\ Others(v)
    BY <1>1, <1>3, SetBytesBytes, CallerData
  <2> QED
    BY <1>1, <1>2, <1>3, <2>1, ChangeKeeps
<1>4. CASE Clear(v) /\ expected' = [expected EXCEPT ![v] = << >>]
  <2>1. << >> \in Seq(Nat)
    OBVIOUS
  <2> QED
    BY <1>2, <1>4, <2>1, ClearBytes, ChangeKeeps
<1> QED
  BY <1>3, <1>4 DEF HandlerReads

LEMMA PartKeeps ==
  ASSUME ValuesInv, ExpectedInv, NEW v \in Value, NEW w \in Value, NEW n \in 0..1,
         SketchSetsPart(v, w, n)
  PROVE  ExpectedInv'
<1> DEFINE octets == SubSeq(expected[w], n + 1, Len(expected[w]))
<1>1. expected[w] \in Seq(Nat)
  BY DEF ExpectedInv
<1>2. octets \in Seq(Nat)
  BY <1>1
<1>3. heap[holds[w]].octets = expected[w] /\ holds[w] # None
  BY DEF SketchSetsPart, ExpectedInv, ValuesKeepTheirBytes, Bytes
<1>4. Data(Part(holds[w], n), heap) = octets
  BY <1>3 DEF Data, Part
<1>5. SetBytes(v, Part(holds[w], n)) /\ UNCHANGED handling
  BY DEF SketchSetsPart, client
<1>6. Bytes(v)' = octets /\ Others(v)
  BY <1>4, <1>5, SetBytesBytes
<1>7. expected' = [expected EXCEPT ![v] = octets]
  BY DEF SketchSetsPart
<1> HIDE DEF octets
<1> QED
  BY <1>2, <1>5, <1>6, <1>7, ChangeKeeps

LEMMA NextExpected == ValuesInv /\ ExpectedInv /\ [Next]_vars => ExpectedInv'
<1> SUFFICES ASSUME ValuesInv, ExpectedInv, [Next]_vars PROVE ExpectedInv'
  OBVIOUS
<1>1. CASE UNCHANGED values /\ handling' \in Event \cup {None}
  BY <1>1 DEF values, ExpectedInv, ValuesKeepTheirBytes, Bytes
<1>2. ASSUME NEW e \in Event, AgentSends(e) \/ Lose(e) \/ AgentReceives(e)
      PROVE  ExpectedInv'
  BY <1>1, <1>2 DEF AgentSends, Lose, AgentReceives, client, ExpectedInv
<1>3. ASSUME NEW c \in Community \cup {None}, Register(c)
      PROVE  ExpectedInv'
  BY <1>1, <1>3 DEF Register, ExpectedInv
<1>4. ASSUME NEW e \in Event, NEW again, NEW memory, Notify(e, again, memory)
      PROVE  ExpectedInv'
  BY <1>1, <1>4 DEF Notify
<1>5. ASSUME NEW i \in 1..3, NEW v \in Value, HandlerReads(i, v)
      PROVE  ExpectedInv'
  BY <1>5, ReadKeeps
<1>6. ASSUME NEW accepts, NEW sent, HandlerReturns(accepts, sent)
      PROVE  ExpectedInv'
  BY <1>1, <1>6 DEF HandlerReturns
<1>7. ASSUME NEW v \in Value, SketchDestroys(v)
      PROVE  ExpectedInv'
  <2>1. << >> \in Seq(Nat)
    OBVIOUS
  <2> QED
    BY <1>7, <2>1, ClearBytes, ChangeKeeps DEF SketchDestroys, client
<1>8. ASSUME NEW v \in Value, NEW octets \in Settings, SketchSets(v, octets)
      PROVE  ExpectedInv'
  <2>1. octets \in Seq(Nat) /\ UNCHANGED handling
    BY <1>8, NotificationAssumption DEF NotificationAssumption, SketchSets, client
  <2>2. CASE SetBytes(v, Caller(octets)) /\ expected' = [expected EXCEPT ![v] = octets]
    <3>1. Bytes(v)' = octets /\ Others(v)
      BY <2>1, <2>2, SetBytesBytes, CallerData
    <3> QED
      BY <2>1, <2>2, <3>1, ChangeKeeps
  <2>3. CASE SetBytesFails /\ UNCHANGED expected
    BY <1>1, <2>1, <2>3 DEF SetBytesFails, values, ExpectedInv
  <2> QED
    BY <1>8, <2>2, <2>3 DEF SketchSets
<1>9. ASSUME NEW v \in Value, NEW w \in Value, SketchAssigns(v, w)
      PROVE  ExpectedInv'
  <2>1. Bytes(w) = expected[w] /\ expected[w] \in Seq(Nat)
    BY DEF ExpectedInv, ValuesKeepTheirBytes
  <2>2. Bytes(v)' = expected[w] /\ Others(v)
    BY <1>9, <2>1, AssignBytes DEF SketchAssigns
  <2> QED
    BY <1>9, <2>1, <2>2, ChangeKeeps DEF SketchAssigns, client
<1>10. ASSUME NEW v \in Value, NEW w \in Value, NEW n \in 0..1, SketchSetsPart(v, w, n)
       PROVE  ExpectedInv'
  BY <1>10, PartKeeps
<1>11. CASE UNCHANGED vars
  BY <1>1, <1>11 DEF vars, values, ExpectedInv
<1> QED
  BY <1>2, <1>3, <1>4, <1>5, <1>6, <1>7, <1>8, <1>9, <1>10, <1>11 DEF Next

\* A value keeps the octets it was given, whatever becomes of the values it
\* shares them with, and when it is given a part of its own.
THEOREM ValuesKeep == Spec => []ValuesKeepTheirBytes
<1>1. Init => ExpectedInv
  <2> SUFFICES ASSUME Init PROVE ExpectedInv
    OBVIOUS
  <2>1. << >> \in Seq(Nat) /\ holds = [v \in Value |-> None]
    BY DEF Init, ValuesInit
  <2> QED
    BY <2>1 DEF Init, ExpectedInv, ValuesKeepTheirBytes, Bytes
<1>2. ExpectedInv => ValuesKeepTheirBytes
  BY DEF ExpectedInv
<1> QED
  BY <1>1, <1>2, InitInv, NextInv, NextExpected, PTL DEF Spec

-----------------------------------------------------------------------------
(***************************************************************************)
(* Acknowledgements.                                                       *)
(***************************************************************************)
\* The inductive invariant: events stay events on their way to "accepted".
AcknowledgedInv ==
  /\ AcknowledgedIsAccepted
  /\ \A x \in accepted : x.event \in Event
  /\ handling \in Event \cup {None}

\* What the agent sends or loses, and what the sketch does with its values,
\* is no acknowledgement.
LEMMA NoAnswer ==
  ASSUME AcknowledgedInv, UNCHANGED <<toAgent, acknowledged, accepted>>,
         handling' \in Event \cup {None}
  PROVE  AcknowledgedInv'
BY DEF AcknowledgedInv, AcknowledgedIsAccepted, IsInform, Acknowledgement

LEMMA ReceiveKeeps ==
  ASSUME AcknowledgedInv, NEW e \in Event, AgentReceives(e)
  PROVE  AcknowledgedInv'
<1>1. /\ IsInform(e) /\ Acknowledgement(MessageOf[e]) \in toAgent
      /\ acknowledged' = acknowledged \cup {e}
      /\ UNCHANGED <<toAgent, accepted, handling>>
  BY DEF AgentReceives, client
<1>2. PICK x \in accepted :
        /\ IsInform(x.event)
        /\ Acknowledgement(MessageOf[e]) = Acknowledgement(MessageOf[x.event])
  BY <1>1 DEF AcknowledgedInv, AcknowledgedIsAccepted
<1>3. e \in {y.event : y \in accepted}
  <2>1. x.event \in Event
    BY DEF AcknowledgedInv
  <2>2. x.event = e
    BY <1>1, <1>2, <2>1, InformsAreDistinct DEF InformsAreDistinct
  <2> QED
    BY <2>2
<1> QED
  BY <1>1, <1>3 DEF AcknowledgedInv, AcknowledgedIsAccepted, IsInform, Acknowledgement

LEMMA ReturnKeeps ==
  ASSUME AcknowledgedInv, NEW accepts \in BOOLEAN, NEW sent \in BOOLEAN,
         HandlerReturns(accepts, sent)
  PROVE  AcknowledgedInv'
<1>1. /\ handling \in Event /\ handling' = None
      /\ accepted' = IF accepts
                       THEN accepted \cup {[event |-> handling, community |-> under]}
                       ELSE accepted
      /\ toAgent' \subseteq toAgent \cup
           IF accepts /\ IsInform(handling)
             THEN {Acknowledgement(MessageOf[handling])} ELSE {}
      /\ acknowledged' = acknowledged
  BY DEF HandlerReturns, Acknowledges, AcknowledgedInv
<1>2. accepted \subseteq accepted' /\ \A x \in accepted' : x.event \in Event
  BY <1>1 DEF AcknowledgedInv
<1>3. ASSUME NEW m \in toAgent'
      PROVE  \E x \in accepted' :
               IsInform(x.event) /\ m = Acknowledgement(MessageOf[x.event])
  <2>1. CASE m \in toAgent
    BY <1>2, <2>1 DEF AcknowledgedInv, AcknowledgedIsAccepted
  <2>2. CASE m \notin toAgent
    <3>1. accepts /\ IsInform(handling) /\ m = Acknowledgement(MessageOf[handling])
      BY <1>1, <1>3, <2>2
    <3> DEFINE y == [event |-> handling, community |-> under]
    <3>2. y \in accepted' /\ y.event = handling
      BY <1>1, <3>1
    <3> QED
      BY <3>1, <3>2
  <2> QED
    BY <2>1, <2>2
<1>4. acknowledged' \subseteq {x.event : x \in accepted'}
  BY <1>1, <1>2 DEF AcknowledgedInv, AcknowledgedIsAccepted
<1>5. AcknowledgedIsAccepted'
  BY <1>3, <1>4 DEF AcknowledgedIsAccepted, IsInform, Acknowledgement
<1> QED
  BY <1>1, <1>2, <1>5 DEF AcknowledgedInv

LEMMA NextAcknowledged ==
  ASSUME AcknowledgedInv, [Next]_vars
  PROVE  AcknowledgedInv'
<1>1. handling \in Event \cup {None}
  BY DEF AcknowledgedInv
<1>2. ASSUME NEW e \in Event, AgentSends(e) \/ Lose(e)
      PROVE  AcknowledgedInv'
  BY <1>1, <1>2, NoAnswer DEF AgentSends, Lose, client
<1>3. ASSUME NEW c \in Community \cup {None}, Register(c)
      PROVE  AcknowledgedInv'
  BY <1>1, <1>3, NoAnswer DEF Register, network
<1>4. ASSUME NEW e \in Event, NEW again, NEW memory, Notify(e, again, memory)
      PROVE  AcknowledgedInv'
  BY <1>4, NoAnswer DEF Notify
<1>5. ASSUME UNCHANGED <<client, network>>
      PROVE  AcknowledgedInv'
  BY <1>1, <1>5, NoAnswer DEF client, network
<1>6. ASSUME NEW i \in 1..3, NEW v \in Value, HandlerReads(i, v)
      PROVE  AcknowledgedInv'
  BY <1>5, <1>6 DEF HandlerReads
<1>7. ASSUME NEW v \in Value,
             \/ SketchDestroys(v)
             \/ \E octets \in Settings : SketchSets(v, octets)
             \/ \E w \in Value : \/ SketchAssigns(v, w)
                                 \/ \E n \in 0..1 : SketchSetsPart(v, w, n)
      PROVE  AcknowledgedInv'
  BY <1>5, <1>7 DEF SketchDestroys, SketchSets, SketchAssigns, SketchSetsPart
<1>8. CASE UNCHANGED vars
  BY <1>5, <1>8 DEF vars, client, network
<1> QED
  BY <1>2, <1>3, <1>4, <1>6, <1>7, <1>8, ReceiveKeeps, ReturnKeeps DEF Next

\* Whatever is lost, repeated or reordered, and whichever acknowledgements
\* fail to be sent, an agent that tells its INFORMs apart stops repeating one
\* only after a handler of notify() accepted it.
THEOREM InformsAcknowledged == Spec => []AcknowledgedIsAccepted
<1>1. Init => AcknowledgedInv
  BY DEF Init, AcknowledgedInv, AcknowledgedIsAccepted
<1>2. AcknowledgedInv => AcknowledgedIsAccepted
  BY DEF AcknowledgedInv
<1> QED
  BY <1>1, <1>2, NextAcknowledged, PTL DEF Spec

-----------------------------------------------------------------------------
(***************************************************************************)
(* What a handler sees.                                                    *)
(***************************************************************************)
\* The events whose messages are notifications of a community, with it.
Notices ==
  {x \in [event : Event, community : Community] :
     IsNotification(MessageOf[x.event], x.community)}

\* A handler running for event e was called under community c of the sketch.
Notice(e, c) == e \in Event /\ c \in Community /\ IsNotification(MessageOf[e], c)

\* The invariant: whatever is registered meanwhile, a handler runs only for a
\* notification of the community it was called under.
OnlyNotices ==
  /\ community \in Community \cup {None}
  /\ handling # None => Notice(handling, under)
  /\ accepted \subseteq Notices

LEMMA NextNotices ==
  ASSUME OnlyNotices, [Next]_vars
  PROVE  OnlyNotices'
<1>1. ASSUME UNCHANGED client PROVE OnlyNotices'
  BY <1>1 DEF OnlyNotices, Notices, Notice, client
<1>2. ASSUME NEW e \in Event, AgentSends(e) \/ Lose(e) \/ AgentReceives(e)
      PROVE  OnlyNotices'
  BY <1>1, <1>2 DEF AgentSends, Lose, AgentReceives
<1>3. ASSUME NEW c \in Community \cup {None}, Register(c)
      PROVE  OnlyNotices'
  BY <1>3 DEF Register, OnlyNotices, Notices, Notice
<1>4. ASSUME NEW e \in Event, NEW again, NEW memory, Notify(e, again, memory)
      PROVE  OnlyNotices'
  <2>1. UNCHANGED <<community, accepted>>
    BY <1>4 DEF Notify
  <2>2. CASE Passes(MessageOf[e]) /\ memory
    <3>1. handling' = e /\ under' = community
      BY <1>4, <2>2 DEF Notify
    <3>2. Notice(e, community)
      BY <2>2 DEF Passes, Notice, OnlyNotices
    <3> QED
      BY <2>1, <3>1, <3>2 DEF OnlyNotices, Notices, Notice
  <2>3. CASE ~(Passes(MessageOf[e]) /\ memory)
    <3>1. UNCHANGED client
      BY <1>4, <2>1, <2>3 DEF Notify, client
    <3> QED
      BY <1>1, <3>1
  <2> QED
    BY <2>2, <2>3
<1>5. ASSUME NEW accepts, NEW sent, HandlerReturns(accepts, sent)
      PROVE  OnlyNotices'
  <2>1. /\ handling # None /\ handling' = None /\ UNCHANGED community
        /\ accepted' = IF accepts
                         THEN accepted \cup {[event |-> handling, community |-> under]}
                         ELSE accepted
    BY <1>5 DEF HandlerReturns
  <2>2. [event |-> handling, community |-> under] \in Notices
    BY <2>1 DEF OnlyNotices, Notices, Notice
  <2>3. accepted' \subseteq Notices
    BY <2>1, <2>2 DEF OnlyNotices
  <2> QED
    BY <2>1, <2>3 DEF OnlyNotices, Notices
<1>6. ASSUME NEW i \in 1..3, NEW v \in Value, HandlerReads(i, v)
      PROVE  OnlyNotices'
  BY <1>1, <1>6 DEF HandlerReads
<1>7. ASSUME NEW v \in Value,
             \/ SketchDestroys(v)
             \/ \E octets \in Settings : SketchSets(v, octets)
             \/ \E w \in Value : \/ SketchAssigns(v, w)
                                 \/ \E n \in 0..1 : SketchSetsPart(v, w, n)
      PROVE  OnlyNotices'
  BY <1>1, <1>7 DEF SketchDestroys, SketchSets, SketchAssigns, SketchSetsPart
<1>8. CASE UNCHANGED vars
  BY <1>1, <1>8 DEF vars, client
<1> QED
  BY <1>2, <1>3, <1>4, <1>5, <1>6, <1>7, <1>8 DEF Next

\* However the network repeats and reorders them and whenever the sketch
\* changes its community, what a handler accepts has passed every check of
\* notify() for the community registered when the handler was called: shape,
\* version, PDU, generic trap and errors, bindings and the two names.
THEOREM HandlersSeeNotices == Spec => [](accepted \subseteq Notices)
<1>1. Init => OnlyNotices
  BY DEF Init, OnlyNotices
<1>2. OnlyNotices => accepted \subseteq Notices
  BY DEF OnlyNotices
<1> QED
  BY <1>1, <1>2, NextNotices, PTL DEF Spec

\* If a message passes the checks of notify() only for a community that its
\* event is a genuine notification of, only genuine ones are accepted, each
\* under its own community.
THEOREM OnlyGenuineAccepted ==
  ASSUME \A e \in Event, c \in Community :
           IsNotification(MessageOf[e], c) => [event |-> e, community |-> c] \in Genuine
  PROVE  Spec => []OnlyNotificationsAccepted
<1>1. accepted \subseteq Notices => OnlyNotificationsAccepted
  BY DEF Notices, OnlyNotificationsAccepted
<1> QED
  BY <1>1, HandlersSeeNotices, PTL
=============================================================================
