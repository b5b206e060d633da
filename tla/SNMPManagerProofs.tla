------------------------- MODULE SNMPManagerProofs -------------------------
(***************************************************************************)
(* Proofs about the registrations of the low-level API: their request      *)
(* tables, their references, the dispatch of responses and the promises    *)
(* of ReplyMatching, for any number of registrations, builders, requests   *)
(* and entries.                                                            *)
(***************************************************************************)
EXTENDS SNMPManagerProperties, FiniteSetTheorems, WellFoundedInduction, TLAPS

Table == [Entry -> Key \cup {Free}]

\* No request twice in table t.
Distinct(t) == \A e, f \in Entry : t[e] = t[f] /\ t[e] # Free => e = f

\* The inductive invariant: each registration's table is well formed, and its
\* summary and its tracking flag agree with it.
TableInv ==
  /\ pending \in [Callback -> Table]
  /\ awaiting \in [Callback -> BOOLEAN]
  /\ tracking \in [Callback -> BOOLEAN]
  /\ \A c \in Callback :
       /\ Distinct(pending[c])
       /\ awaiting[c] <=> SomeActive(pending[c])
       /\ awaiting[c] => tracking[c]

-----------------------------------------------------------------------------
(***************************************************************************)
(* What the operators on tables return.                                    *)
(***************************************************************************)
LEMMA FreshTable ==
  LET t == [e \in Entry |-> Free]
  IN t \in Table /\ Distinct(t) /\ ~SomeActive(t)
BY DEF Table, Distinct, SomeActive

LEMMA ConsumedTable ==
  ASSUME NEW t \in Table, NEW q, Distinct(t)
  PROVE  /\ Consumed(t, q) \in Table
         /\ Distinct(Consumed(t, q))
         /\ SomeActive(Consumed(t, q)) \in BOOLEAN
         /\ SomeActive(Consumed(t, q)) => SomeActive(t)
<1>1. \A e \in Entry :
        /\ Consumed(t, q)[e] = IF t[e] = q THEN Free ELSE t[e]
        /\ t[e] \in Key \cup {Free}
  BY DEF Consumed, Table
<1>2. Consumed(t, q) \in Table
  BY <1>1 DEF Consumed, Table
<1>3. Distinct(Consumed(t, q))
  BY <1>1 DEF Distinct
<1>4. QED
  BY <1>1, <1>2, <1>3 DEF SomeActive

LEMMA TrackedTable ==
  ASSUME NEW t \in Table, NEW q \in Key, Distinct(t), HasFree(t) \/ Has(t, q)
  PROVE  /\ Tracked(t, q) \in Table
         /\ Distinct(Tracked(t, q))
         /\ SomeActive(Tracked(t, q))
         /\ Has(Tracked(t, q), q)
<1>1. q # Free
  BY TableAssumption
<1>2. CASE Has(t, q)
  <2>1. Tracked(t, q) = t
    BY <1>2 DEF Tracked
  <2>2. QED
    BY <1>1, <1>2, <2>1 DEF Has, SomeActive
<1>3. CASE ~Has(t, q)
  <2>1. HasFree(t)
    BY <1>3
  <2>2. FreeEntry(t) \in Entry /\ t[FreeEntry(t)] = Free
    BY <2>1 DEF HasFree, FreeEntry
  <2> DEFINE u == [t EXCEPT ![FreeEntry(t)] = q]
  <2>3. Tracked(t, q) = u
    BY <1>3, <2>1 DEF Tracked
  <2>4. /\ u \in Table
        /\ u[FreeEntry(t)] = q
        /\ \A e \in Entry \ {FreeEntry(t)} : u[e] = t[e]
    BY <2>2 DEF Table
  <2>5. \A e \in Entry : t[e] # q
    BY <1>3 DEF Has
  <2> HIDE DEF u
  <2>6. Distinct(u)
    BY <2>2, <2>4, <2>5 DEF Distinct
  <2>7. Has(u, q) /\ SomeActive(u)
    BY <1>1, <2>2, <2>4 DEF Has, SomeActive
  <2>8. QED
    BY <2>3, <2>4, <2>6, <2>7
<1>4. QED
  BY <1>2, <1>3

-----------------------------------------------------------------------------
(***************************************************************************)
(* The ways a step changes tables.                                         *)
(***************************************************************************)
LEMMA AbandonStep ==
  ASSUME TableInv, NEW S, Abandon(S)
  PROVE  TableInv'
<1> DEFINE t == [e \in Entry |-> Free]
<1>1. t \in Table /\ Distinct(t) /\ ~SomeActive(t)
  BY FreshTable
<1>2. \A c \in Callback :
        /\ pending'[c] = IF c \in S THEN t ELSE pending[c]
        /\ awaiting'[c] = (c \notin S /\ awaiting[c])
        /\ tracking'[c] = tracking[c]
  BY DEF Abandon
<1> HIDE DEF t
<1>3. pending' \in [Callback -> Table]
  <2>1. pending' = [c \in Callback |-> IF c \in S THEN t ELSE pending[c]]
    BY DEF Abandon, t
  <2>2. QED
    BY <1>1, <2>1 DEF TableInv
<1>4. awaiting' \in [Callback -> BOOLEAN] /\ tracking' \in [Callback -> BOOLEAN]
  BY DEF Abandon, TableInv
<1>5. ASSUME NEW c \in Callback
      PROVE  /\ Distinct(pending'[c])
             /\ awaiting'[c] <=> SomeActive(pending'[c])
             /\ awaiting'[c] => tracking'[c]
  <2>1. CASE c \in S
    BY <1>1, <1>2, <2>1
  <2>2. CASE c \notin S
    BY <1>2, <2>2 DEF TableInv
  <2>3. QED
    BY <2>1, <2>2
<1>6. QED
  BY <1>3, <1>4, <1>5 DEF TableInv

LEMMA ConsumeStep ==
  ASSUME TableInv, NEW S, NEW q, Consume(S, q)
  PROVE  TableInv'
<1>1. \A c \in Callback : pending[c] \in Table /\ Distinct(pending[c])
  BY DEF TableInv
<1>2. \A c \in Callback :
        /\ Consumed(pending[c], q) \in Table
        /\ Distinct(Consumed(pending[c], q))
        /\ SomeActive(Consumed(pending[c], q)) \in BOOLEAN
        /\ SomeActive(Consumed(pending[c], q)) => SomeActive(pending[c])
  BY <1>1, ConsumedTable
<1>3. pending' \in [Callback -> Table]
  BY <1>1, <1>2 DEF Consume
<1>4. awaiting' \in [Callback -> BOOLEAN] /\ tracking' \in [Callback -> BOOLEAN]
  BY <1>2 DEF Consume, TableInv
<1>5. ASSUME NEW c \in Callback
      PROVE  /\ Distinct(pending'[c])
             /\ awaiting'[c] <=> SomeActive(pending'[c])
             /\ awaiting'[c] => tracking'[c]
  <2>1. CASE c \in S
    <3>1. /\ pending'[c] = Consumed(pending[c], q)
          /\ awaiting'[c] = SomeActive(Consumed(pending[c], q))
          /\ tracking'[c] = tracking[c]
      BY <2>1 DEF Consume
    <3>2. QED
      BY <1>2, <3>1 DEF TableInv
  <2>2. CASE c \notin S
    <3>1. /\ pending'[c] = pending[c]
          /\ awaiting'[c] = awaiting[c]
          /\ tracking'[c] = tracking[c]
      BY <2>2 DEF Consume
    <3>2. QED
      BY <3>1 DEF TableInv
  <2>3. QED
    BY <2>1, <2>2
<1>6. QED
  BY <1>3, <1>4, <1>5 DEF TableInv

LEMMA SendStep ==
  ASSUME TableInv, NEW b \in Builder, NEW q \in Key, SendTo(b, q)
  PROVE  TableInv'
<1> DEFINE S == RegistrationsOf(b)
<1>1. \A c \in S : HasFree(pending[c]) \/ Has(pending[c], q)
  BY DEF SendTo, CanTrack
<1>2. /\ pending' = [c \in Callback |->
           IF c \in S THEN Tracked(pending[c], q) ELSE pending[c]]
      /\ awaiting' = [c \in Callback |-> c \in S \/ awaiting[c]]
      /\ tracking' = [c \in Callback |-> c \in S \/ tracking[c]]
  BY DEF SendTo
<1> HIDE DEF S
<1>3. \A c \in Callback : pending[c] \in Table /\ Distinct(pending[c])
  BY DEF TableInv
<1>4. \A c \in Callback : c \in S =>
        /\ Tracked(pending[c], q) \in Table
        /\ Distinct(Tracked(pending[c], q))
        /\ SomeActive(Tracked(pending[c], q))
  BY <1>1, <1>3, TrackedTable
<1>5. pending' \in [Callback -> Table]
  BY <1>2, <1>3, <1>4
<1>6. awaiting' \in [Callback -> BOOLEAN] /\ tracking' \in [Callback -> BOOLEAN]
  BY <1>2 DEF TableInv
<1>7. ASSUME NEW c \in Callback
      PROVE  /\ Distinct(pending'[c])
             /\ awaiting'[c] <=> SomeActive(pending'[c])
             /\ awaiting'[c] => tracking'[c]
  <2>1. CASE c \in S
    BY <1>2, <1>4, <2>1
  <2>2. CASE c \notin S
    BY <1>2, <2>2 DEF TableInv
  <2>3. QED
    BY <2>1, <2>2
<1>8. QED
  BY <1>5, <1>6, <1>7 DEF TableInv

LEMMA UnchangedTables ==
  ASSUME TableInv, UNCHANGED table
  PROVE  TableInv'
BY DEF TableInv, table

-----------------------------------------------------------------------------
LEMMA TableInit == Init => TableInv
<1> SUFFICES ASSUME Init PROVE TableInv
  OBVIOUS
<1> DEFINE t == [e \in Entry |-> Free]
<1>1. t \in Table /\ Distinct(t) /\ ~SomeActive(t)
  BY FreshTable
<1>2. /\ pending = [c \in Callback |-> t]
      /\ awaiting = [c \in Callback |-> FALSE]
      /\ tracking = [c \in Callback |-> FALSE]
  BY DEF Init
<1> HIDE DEF t
<1>3. QED
  BY <1>1, <1>2 DEF TableInv

LEMMA TableNext == TableInv /\ [Next]_vars => TableInv'
<1> SUFFICES ASSUME TableInv, [Next]_vars PROVE TableInv'
  OBVIOUS
<1> USE UnchangedTables
<1>1. ASSUME NEW c \in Callback, ClearPendingRequests(c) PROVE TableInv'
  BY <1>1, AbandonStep DEF ClearPendingRequests
<1>2. ASSUME NEW c \in Callback, NEW o \in Object, Register(c, o)
      PROVE  TableInv'
  BY <1>2 DEF Register
<1>3. CASE DestroyManager
  BY <1>3 DEF DestroyManager
<1>4. ASSUME NEW b \in Builder,
             NewBuilder(b) \/ ClearOIDList(b) \/ DestroyBuilder(b)
      PROVE  TableInv'
  BY <1>4 DEF NewBuilder, ClearOIDList, DestroyBuilder
<1>5. ASSUME NEW b \in Builder, CancelPendingRequests(b) PROVE TableInv'
  BY <1>5, AbandonStep DEF CancelPendingRequests
<1>6. ASSUME NEW b \in Builder, NEW other \in Builder, MoveBuilder(b, other)
      PROVE  TableInv'
  BY <1>6 DEF MoveBuilder
<1>7. ASSUME NEW b \in Builder, NEW c \in Callback, AddOIDPointer(b, c)
      PROVE  TableInv'
  BY <1>7 DEF AddOIDPointer
<1>8. ASSUME NEW b \in Builder, NEW q \in Key, SendTo(b, q) PROVE TableInv'
  BY <1>8, SendStep
<1>9. ASSUME NEW q \in Key, ReceiveError(q) PROVE TableInv'
  BY <1>9, ConsumeStep DEF ReceiveError
<1>10. ASSUME NEW q \in Key, NEW bs \in Responses, ReceiveBindings(q, bs)
       PROVE  TableInv'
  BY <1>10 DEF ReceiveBindings
<1>11. CASE Dispatch
  <2> DEFINE c == Chosen(Head(frame.left).name)
  <2>1. Consume({c}, frame.key) \/ UNCHANGED table
    BY <1>11 DEF Dispatch
  <2> HIDE DEF c
  <2>2. QED
    BY <2>1, ConsumeStep
<1>12. CASE Dispatched \/ Return
  BY <1>12 DEF Dispatched, Return
<1>13. CASE Over \/ UNCHANGED vars
  BY <1>13 DEF Over, vars, table
<1>14. QED
  BY <1>1, <1>2, <1>3, <1>4, <1>5, <1>6, <1>7, <1>8, <1>9, <1>10, <1>11,
     <1>12, <1>13 DEF Next

LEMMA TableHolds == Spec => []TableInv
BY TableInit, TableNext, PTL DEF Spec

\* requestPending is true exactly while a request awaits its reply, and only
\* on a registration that was tracked (track(), consume(),
\* clearPendingRequests()).
THEOREM SummariesAgree == Spec => []SummaryAgrees
<1>1. TableInv => SummaryAgrees
  BY DEF TableInv, SummaryAgrees, Active, SomeActive
<1>2. QED
  BY <1>1, TableHolds, PTL

\* No request ever occupies two entries of one table (track()).
THEOREM TablesDistinct == Spec => []EntriesDiffer
<1>1. TableInv => EntriesDiffer
  BY DEF TableInv, EntriesDiffer, Distinct
<1>2. QED
  BY <1>1, TableHolds, PTL

-----------------------------------------------------------------------------
(***************************************************************************)
(* Lists of registrations and the references they hold.                    *)
(***************************************************************************)
Places(s, c) == {i \in DOMAIN s : s[i] = c}

\* All places of the lists of a family L of lists, and those that hold c.
AllPlaces(L) == UNION {{<<b, i>> : i \in DOMAIN L[b]} : b \in Builder}
Holding(L, c) == {l \in AllPlaces(L) : L[l[1]][l[2]] = c}

LEMMA PlacesOfList ==
  ASSUME NEW s \in Seq(Callback), NEW c
  PROVE  /\ IsFiniteSet(Places(s, c))
         /\ Occurrences(c, s) = Cardinality(Places(s, c))
         /\ Occurrences(c, s) \in Nat
         /\ Occurrences(c, s) > 0 <=> c \in ToSet(s)
         /\ ToSet(s) \subseteq Callback
<1>1. IsFiniteSet(1..Len(s)) /\ Places(s, c) \in SUBSET (1..Len(s))
  <2>1. Len(s) \in Int /\ DOMAIN s = 1..Len(s)
    OBVIOUS
  <2>2. IsFiniteSet(1..Len(s))
    BY <2>1, FS_Interval
  <2>3. QED
    BY <2>1, <2>2 DEF Places
<1>2. IsFiniteSet(Places(s, c))
  BY <1>1, FS_Subset
<1>3. Occurrences(c, s) = Cardinality(Places(s, c))
  BY DEF Occurrences, Places
<1>4. Cardinality(Places(s, c)) \in Nat
  BY <1>2, FS_CardinalityType
<1>5. Cardinality(Places(s, c)) = 0 <=> Places(s, c) = {}
  BY <1>2, FS_EmptySet
<1>6. Places(s, c) # {} <=> c \in ToSet(s)
  BY DEF Places, ToSet
<1>7. ToSet(s) \subseteq Callback
  BY DEF ToSet
<1>8. QED
  BY <1>2, <1>3, <1>4, <1>5, <1>6, <1>7

LEMMA PlacesOfAppend ==
  ASSUME NEW s \in Seq(Callback), NEW x \in Callback, NEW c
  PROVE  Occurrences(c, Append(s, x)) =
           Occurrences(c, s) + (IF c = x THEN 1 ELSE 0)
<1> DEFINE t == Append(s, x)
           n == Len(s) + 1
<1>1. /\ t \in Seq(Callback) /\ DOMAIN t = (1..Len(s)) \cup {n}
      /\ DOMAIN s = 1..Len(s) /\ n \notin DOMAIN s
      /\ \A i \in DOMAIN s : t[i] = s[i]
      /\ t[n] = x
  OBVIOUS
<1> HIDE DEF t, n
<1>2. Places(t, c) = IF c = x THEN Places(s, c) \cup {n} ELSE Places(s, c)
  BY <1>1 DEF Places
<1>3. n \notin Places(s, c)
  BY <1>1 DEF Places
<1>4. /\ IsFiniteSet(Places(s, c))
      /\ Occurrences(c, s) = Cardinality(Places(s, c))
      /\ Occurrences(c, s) \in Nat
  BY PlacesOfList
<1>5. Occurrences(c, t) = Cardinality(Places(t, c))
  BY <1>1, PlacesOfList
<1>6. Cardinality(Places(s, c) \cup {n}) = Cardinality(Places(s, c)) + 1
  BY <1>3, <1>4, FS_AddElement
<1>7. QED
  BY <1>2, <1>4, <1>5, <1>6 DEF t

LEMMA PlacesOfEmpty ==
  \A c : Occurrences(c, << >>) = 0
<1> TAKE c
<1>1. {i \in DOMAIN << >> : << >>[i] = c} = {}
  OBVIOUS
<1>2. QED
  BY <1>1, FS_EmptySet DEF Occurrences

LEMMA HoldingCount ==
  ASSUME NEW L, IsFiniteSet(AllPlaces(L)), NEW c
  PROVE  Cardinality(Holding(L, c)) \in Nat
<1>1. Holding(L, c) \in SUBSET AllPlaces(L)
  BY DEF Holding
<1>2. IsFiniteSet(Holding(L, c))
  BY <1>1, FS_Subset
<1>3. QED
  BY <1>2, FS_CardinalityType

\* The family M of lists is L with the list of b replaced by s, and counts
\* the places that hold a registration accordingly.
Recounted(L, M, b, s) ==
  /\ M \in [Builder -> Seq(Callback)]
  /\ IsFiniteSet(AllPlaces(M))
  /\ \A c : Cardinality(Holding(M, c)) =
              Cardinality(Holding(L, c)) - Occurrences(c, L[b])
                + Occurrences(c, s)

LEMMA ReplacedList ==
  ASSUME NEW L \in [Builder -> Seq(Callback)], IsFiniteSet(AllPlaces(L)),
         NEW b \in Builder, NEW s \in Seq(Callback), NEW M,
         M = [L EXCEPT ![b] = s]
  PROVE  Recounted(L, M, b, s)
<1> SUFFICES ASSUME NEW c
             PROVE  /\ M \in [Builder -> Seq(Callback)]
                    /\ IsFiniteSet(AllPlaces(M))
                    /\ Cardinality(Holding(M, c)) =
                         Cardinality(Holding(L, c)) - Occurrences(c, L[b])
                           + Occurrences(c, s)
  BY Zenon DEF Recounted
<1> DEFINE Rest == {l \in AllPlaces(L) : l[1] # b}
           Apart == {l \in Rest : L[l[1]][l[2]] = c}
<1>1. /\ M \in [Builder -> Seq(Callback)] /\ M[b] = s
      /\ \A a \in Builder \ {b} : M[a] = L[a]
  OBVIOUS
<1>2. IsFiniteSet(Rest) /\ IsFiniteSet(Apart)
  <2>1. Rest \in SUBSET AllPlaces(L) /\ Apart \in SUBSET AllPlaces(L)
    OBVIOUS
  <2>2. QED
    BY <2>1, FS_Subset
<1>3. ASSUME NEW N \in [Builder -> Seq(Callback)],
             \A a \in Builder \ {b} : N[a] = L[a]
      PROVE  /\ IsFiniteSet(AllPlaces(N))
             /\ Cardinality(Holding(N, c)) =
                  Cardinality(Apart) + Occurrences(c, N[b])
  <2> DEFINE D == {b} \X DOMAIN N[b]
             P == {b} \X Places(N[b], c)
  <2>1. N[b] \in Seq(Callback)
    OBVIOUS
  <2>2. /\ IsFiniteSet(Places(N[b], c))
        /\ Occurrences(c, N[b]) = Cardinality(Places(N[b], c))
        /\ Occurrences(c, N[b]) \in Nat
    BY <2>1, PlacesOfList
  <2>3. IsFiniteSet({b}) /\ Cardinality({b}) = 1
    BY FS_Singleton
  <2>4. IsFiniteSet(DOMAIN N[b])
    <3>1. Len(N[b]) \in Int /\ DOMAIN N[b] = 1..Len(N[b])
      BY <2>1
    <3>2. QED
      BY <3>1, FS_Interval
  <2>5. IsFiniteSet(D)
    BY <2>3, <2>4, FS_Product
  <2>6. IsFiniteSet(P) /\ Cardinality(P) = Occurrences(c, N[b])
    <3>1. IsFiniteSet(P)
          /\ Cardinality(P) = Cardinality({b}) * Cardinality(Places(N[b], c))
      BY <2>2, <2>3, FS_Product
    <3>2. QED
      BY <2>2, <2>3, <3>1
  <2>7. AllPlaces(N) = Rest \cup D
    <3>1. ASSUME NEW l \in AllPlaces(N) PROVE l \in Rest \cup D
      <4>1. PICK a \in Builder : \E i \in DOMAIN N[a] : l = <<a, i>>
        BY <3>1 DEF AllPlaces
      <4>2. PICK i \in DOMAIN N[a] : l = <<a, i>>
        BY <4>1
      <4>3. CASE a = b
        BY <4>2, <4>3
      <4>4. CASE a # b
        <5>1. N[a] = L[a] /\ l[1] # b
          BY <1>3, <4>2, <4>4
        <5>2. l \in AllPlaces(L)
          BY <4>2, <5>1 DEF AllPlaces
        <5>3. QED
          BY <5>1, <5>2
      <4>5. QED
        BY <4>3, <4>4
    <3>2. ASSUME NEW l \in Rest PROVE l \in AllPlaces(N)
      <4>1. PICK a \in Builder : \E i \in DOMAIN L[a] : l = <<a, i>>
        BY <3>2 DEF AllPlaces
      <4>2. PICK i \in DOMAIN L[a] : l = <<a, i>>
        BY <4>1
      <4>3. N[a] = L[a]
        BY <1>3, <3>2, <4>2
      <4>4. QED
        BY <4>2, <4>3 DEF AllPlaces
    <3>3. ASSUME NEW l \in D PROVE l \in AllPlaces(N)
      BY <3>3 DEF AllPlaces
    <3>4. QED
      BY <3>1, <3>2, <3>3
  <2>8. IsFiniteSet(AllPlaces(N))
    <3> HIDE DEF D, Rest, Apart
    <3>1. IsFiniteSet(Rest \cup D)
      BY <1>2, <2>5, FS_Union
    <3>2. QED
      BY <2>7, <3>1
  <2>9. Holding(N, c) = Apart \cup P
    <3>1. \A l \in Rest : N[l[1]] = L[l[1]]
      <4> SUFFICES ASSUME NEW l \in Rest PROVE N[l[1]] = L[l[1]]
        OBVIOUS
      <4>1. l[1] \in Builder \ {b}
        BY DEF AllPlaces
      <4>2. QED
        BY <1>3, <4>1
    <3>2. \A l \in D : l[1] = b /\ l[2] \in DOMAIN N[b]
      OBVIOUS
    <3>3. Holding(N, c) = {l \in Rest \cup D : N[l[1]][l[2]] = c}
      BY <2>7 DEF Holding
    <3>4. {l \in Rest : N[l[1]][l[2]] = c} = Apart
      BY <3>1
    <3>5. {l \in D : N[l[1]][l[2]] = c} = P
      BY DEF Places
    <3> HIDE DEF D, P, Rest, Apart
    <3>6. QED
      BY <3>3, <3>4, <3>5
  <2>10. Apart \cap P = {}
    OBVIOUS
  <2>11. Cardinality(Apart) \in Nat
    BY <1>2, FS_CardinalityType
  <2> HIDE DEF P, D, Apart, Rest
  <2>12. Cardinality(Apart \cup P) =
           Cardinality(Apart) + Cardinality(P) - Cardinality(Apart \cap P)
    BY <1>2, <2>6, FS_Union
  <2>13. Cardinality(Apart \cap P) = 0
    BY <2>10, FS_EmptySet
  <2>14. QED
    BY <2>2, <2>6, <2>8, <2>9, <2>11, <2>12, <2>13
<1>4. /\ Cardinality(Holding(L, c)) = Cardinality(Apart) + Occurrences(c, L[b])
      /\ IsFiniteSet(AllPlaces(M))
      /\ Cardinality(Holding(M, c)) = Cardinality(Apart) + Occurrences(c, s)
  BY <1>1, <1>3
<1>5. Cardinality(Apart) \in Nat
  BY <1>2, FS_CardinalityType
<1>6. Occurrences(c, L[b]) \in Nat /\ Occurrences(c, s) \in Nat
  <2>1. L[b] \in Seq(Callback)
    OBVIOUS
  <2>2. QED
    BY <2>1, PlacesOfList
<1> HIDE DEF Apart
<1>7. QED
  BY <1>1, <1>4, <1>5, <1>6

-----------------------------------------------------------------------------
(***************************************************************************)
(* References.                                                             *)
(***************************************************************************)
\* The places where the manager and the builders hold registration c.
Held(c) == Occurrences(c, registered) + Cardinality(Holding(list, c))

\* The inductive invariant: the lists are finite, only a live builder has
\* one, and every registration counts the places that hold it.
References ==
  /\ life \in [Callback -> {"none", "live", "freed"}]
  /\ refs \in [Callback -> Nat]
  /\ registered \in Seq(Callback)
  /\ builder \in [Builder -> {"none", "live", "destroyed"}]
  /\ list \in [Builder -> Seq(Callback)]
  /\ IsFiniteSet(AllPlaces(list))
  /\ \A b \in Builder : builder[b] # "live" => list[b] = << >>
  /\ \A c \in Callback : refs[c] = Held(c) /\ (Live(c) <=> Held(c) > 0)

LEMMA HeldIsHolders == \A c : Held(c) = Holders(c)
BY DEF Held, Holders, Occurrences, Holding, AllPlaces, Listed

LEMMA HeldType ==
  ASSUME References, NEW c \in Callback
  PROVE  /\ Occurrences(c, registered) \in Nat
         /\ Cardinality(Holding(list, c)) \in Nat
         /\ Held(c) \in Nat
<1>1. Cardinality(Holding(list, c)) \in Nat
  BY HoldingCount DEF References
<1>2. Occurrences(c, registered) \in Nat
  BY PlacesOfList DEF References
<1>3. QED
  BY <1>1, <1>2 DEF Held

LEMMA ReferencesInit == Init => References
<1> SUFFICES ASSUME Init PROVE References
  OBVIOUS
<1>1. AllPlaces(list) = {}
  BY DEF Init, AllPlaces
<1>2. /\ IsFiniteSet(AllPlaces(list))
      /\ \A c : Cardinality(Holding(list, c)) = 0
  <2>1. \A c : Holding(list, c) = {}
    BY <1>1 DEF Holding
  <2>2. QED
    BY <1>1, <2>1, FS_EmptySet
<1>3. \A c : Occurrences(c, registered) = 0
  BY PlacesOfEmpty DEF Init
<1>4. \A c : Held(c) = 0
  BY <1>2, <1>3 DEF Held
<1>5. QED
  BY <1>2, <1>4 DEF Init, References, Live

\* When the holders of some places release them, the counts stay right and
\* a registration is freed with its last place.
LEMMA ReleaseStep ==
  ASSUME References, NEW s \in Seq(Callback), Release(s),
         \A c \in Callback : Held(c)' = Held(c) - Occurrences(c, s)
                             /\ Held(c)' >= 0
  PROVE  /\ life' \in [Callback -> {"none", "live", "freed"}]
         /\ refs' \in [Callback -> Nat]
         /\ \A c \in Callback :
              refs'[c] = Held(c)' /\ (Live(c)' <=> Held(c)' > 0)
<1>1. \A c \in Callback : /\ Occurrences(c, s) \in Nat
                          /\ Occurrences(c, s) > 0 <=> c \in ToSet(s)
  BY PlacesOfList
<1>2. \A c \in Callback : Held(c) \in Nat
  BY HeldType
<1>3. ASSUME NEW c \in Callback
      PROVE  /\ refs'[c] = Held(c)' /\ refs'[c] \in Nat
             /\ life'[c] = IF c \in ToSet(s) /\ refs[c] = Occurrences(c, s)
                           THEN "freed" ELSE life[c]
  <2>1. refs'[c] = refs[c] - Occurrences(c, s)
    BY DEF Release
  <2>2. refs[c] = Held(c)
    BY DEF References
  <2>3. refs'[c] = Held(c)' /\ Held(c)' \in Nat
    BY <1>1, <1>2, <2>1, <2>2
  <2>4. QED
    BY <2>3 DEF Release
<1>4. life' \in [Callback -> {"none", "live", "freed"}]
  BY DEF Release, References
<1>5. refs' \in [Callback -> Nat]
  BY <1>3 DEF Release
<1>6. ASSUME NEW c \in Callback PROVE Live(c)' <=> Held(c)' > 0
  <2>1. /\ refs[c] = Held(c) /\ (life[c] = "live" <=> Held(c) > 0)
        /\ Held(c)' = Held(c) - Occurrences(c, s) /\ Held(c)' >= 0
        /\ Held(c) \in Nat /\ Occurrences(c, s) \in Nat
        /\ Occurrences(c, s) > 0 <=> c \in ToSet(s)
        /\ life'[c] = IF c \in ToSet(s) /\ refs[c] = Occurrences(c, s)
                      THEN "freed" ELSE life[c]
    BY <1>1, <1>2, <1>3 DEF References, Live
  <2>2. Live(c)' <=> life'[c] = "live"
    BY DEF Live
  <2>3. CASE c \in ToSet(s) /\ refs[c] = Occurrences(c, s)
    <3>1. life'[c] = "freed" /\ Held(c)' = 0
      BY <2>1, <2>3
    <3>2. QED
      BY <2>2, <3>1
  <2>4. CASE c \in ToSet(s) /\ refs[c] # Occurrences(c, s)
    <3>1. Held(c)' > 0 /\ Held(c) > 0 /\ life'[c] = life[c]
      BY <2>1, <2>4
    <3>2. QED
      BY <2>1, <2>2, <3>1
  <2>5. CASE c \notin ToSet(s)
    <3>1. Held(c)' = Held(c) /\ life'[c] = life[c]
      BY <2>1, <2>5
    <3>2. QED
      BY <2>1, <2>2, <3>1
  <2>6. QED
    BY <2>3, <2>4, <2>5
<1>7. QED
  BY <1>3, <1>4, <1>5, <1>6

LEMMA RegisterStep ==
  ASSUME References, NEW c \in Callback, NEW o, Register(c, o)
  PROVE  References'
<1>1. /\ registered' = Append(registered, c) /\ registered \in Seq(Callback)
      /\ life[c] = "none" /\ life' = [life EXCEPT ![c] = "live"]
      /\ refs' = [refs EXCEPT ![c] = 1]
      /\ UNCHANGED <<builder, list>>
  BY DEF Register, References
<1>2. Held(c) = 0
  BY <1>1, HeldType DEF References, Live
<1>3. ASSUME NEW d \in Callback
      PROVE  Held(d)' = Held(d) + (IF d = c THEN 1 ELSE 0)
  <2>1. Occurrences(d, registered') =
          Occurrences(d, registered) + (IF d = c THEN 1 ELSE 0)
    BY <1>1, PlacesOfAppend
  <2>2. Held(d)' = Occurrences(d, registered') + Cardinality(Holding(list, d))
    BY <1>1 DEF Held
  <2>3. QED
    BY <2>1, <2>2, HeldType DEF Held
<1>4. \A d \in Callback : refs'[d] = Held(d)' /\ (Live(d)' <=> Held(d)' > 0)
  BY <1>1, <1>2, <1>3, HeldType DEF References, Live
<1>5. life' \in [Callback -> {"none", "live", "freed"}]
      /\ refs' \in [Callback -> Nat] /\ registered' \in Seq(Callback)
  BY <1>1 DEF References
<1>6. QED
  BY <1>1, <1>4, <1>5 DEF References

LEMMA AddOIDPointerStep ==
  ASSUME References, NEW b \in Builder, NEW c \in Callback, AddOIDPointer(b, c)
  PROVE  References'
<1> DEFINE s == Append(list[b], c)
<1>1. list \in [Builder -> Seq(Callback)] /\ IsFiniteSet(AllPlaces(list))
  BY DEF References
<1>2. /\ list' = [list EXCEPT ![b] = s] /\ s \in Seq(Callback)
      /\ list[b] \in Seq(Callback)
      /\ builder[b] = "live" /\ Live(c)
      /\ refs' = [refs EXCEPT ![c] = @ + 1]
      /\ UNCHANGED <<life, registered, builder>>
  BY DEF AddOIDPointer, References
<1>3. \A d : Occurrences(d, s) =
               Occurrences(d, list[b]) + (IF d = c THEN 1 ELSE 0)
  BY <1>2, PlacesOfAppend
<1> HIDE DEF s
<1>4. Recounted(list, list', b, s)
  BY <1>1, <1>2, ReplacedList
<1>5. ASSUME NEW d \in Callback
      PROVE  Held(d)' = Held(d) + (IF d = c THEN 1 ELSE 0)
  <2>1. Cardinality(Holding(list', d)) =
          Cardinality(Holding(list, d)) - Occurrences(d, list[b])
            + Occurrences(d, s)
    BY <1>4, Zenon DEF Recounted
  <2>2. Occurrences(d, list[b]) \in Nat
    BY <1>2, PlacesOfList
  <2>3. Held(d)' = Occurrences(d, registered) + Cardinality(Holding(list', d))
    BY <1>2 DEF Held
  <2>4. QED
    BY <1>3, <2>1, <2>2, <2>3, HeldType DEF Held
<1>6. \A d \in Callback : refs'[d] = Held(d)' /\ (Live(d)' <=> Held(d)' > 0)
  BY <1>2, <1>5, HeldType DEF References, Live
<1>7. list' \in [Builder -> Seq(Callback)] /\ IsFiniteSet(AllPlaces(list'))
  BY <1>4 DEF Recounted
<1>8. refs' \in [Callback -> Nat]
  BY <1>2 DEF References
<1>9. \A a \in Builder : builder'[a] # "live" => list'[a] = << >>
  BY <1>2 DEF References
<1>10. QED
  BY <1>2, <1>6, <1>7, <1>8, <1>9 DEF References

\* A builder's list becomes empty: clearOIDList() and ~SNMPGet().
LEMMA ClearStep ==
  ASSUME References, NEW b \in Builder, Release(list[b]),
         list' = [list EXCEPT ![b] = << >>], registered' = registered,
         builder' = builder \/ builder' = [builder EXCEPT ![b] = "destroyed"]
  PROVE  References'
<1>1. list \in [Builder -> Seq(Callback)] /\ IsFiniteSet(AllPlaces(list))
  BY DEF References
<1>2. list[b] \in Seq(Callback) /\ << >> \in Seq(Callback)
  BY DEF References
<1>3. Recounted(list, list', b, << >>)
  BY <1>1, <1>2, ReplacedList
<1>4. ASSUME NEW d \in Callback
      PROVE  Held(d)' = Held(d) - Occurrences(d, list[b]) /\ Held(d)' >= 0
  <2>1. /\ Cardinality(Holding(list', d)) =
             Cardinality(Holding(list, d)) - Occurrences(d, list[b])
               + Occurrences(d, << >>)
        /\ list' \in [Builder -> Seq(Callback)]
        /\ IsFiniteSet(AllPlaces(list'))
    BY <1>3, Zenon DEF Recounted
  <2>2. Occurrences(d, list[b]) \in Nat /\ Occurrences(d, << >>) = 0
    BY <1>2, PlacesOfList, PlacesOfEmpty
  <2>3. Held(d)' = Occurrences(d, registered) + Cardinality(Holding(list', d))
    BY DEF Held
  <2>4. Cardinality(Holding(list', d)) \in Nat
    BY <2>1, HoldingCount
  <2>5. QED
    BY <2>1, <2>2, <2>3, <2>4, HeldType DEF Held
<1>5. /\ life' \in [Callback -> {"none", "live", "freed"}]
      /\ refs' \in [Callback -> Nat]
      /\ \A c \in Callback :
           refs'[c] = Held(c)' /\ (Live(c)' <=> Held(c)' > 0)
  BY <1>2, <1>4, ReleaseStep
<1>6. list' \in [Builder -> Seq(Callback)] /\ IsFiniteSet(AllPlaces(list'))
  BY <1>3 DEF Recounted
<1>7. /\ builder' \in [Builder -> {"none", "live", "destroyed"}]
      /\ \A a \in Builder : builder'[a] # "live" => list'[a] = << >>
  BY DEF References
<1>8. QED
  BY <1>5, <1>6, <1>7 DEF References

LEMMA DestroyManagerStep ==
  ASSUME References, DestroyManager
  PROVE  References'
<1>1. /\ Release(registered) /\ registered' = << >>
      /\ registered \in Seq(Callback) /\ UNCHANGED <<builder, list>>
  BY DEF DestroyManager, References
<1>2. ASSUME NEW d \in Callback
      PROVE  Held(d)' = Held(d) - Occurrences(d, registered) /\ Held(d)' >= 0
  <2>1. Held(d)' = Occurrences(d, << >>) + Cardinality(Holding(list, d))
    BY <1>1 DEF Held
  <2>2. Occurrences(d, << >>) = 0
    BY PlacesOfEmpty
  <2>3. QED
    BY <2>1, <2>2, HeldType DEF Held
<1>3. /\ life' \in [Callback -> {"none", "live", "freed"}]
      /\ refs' \in [Callback -> Nat]
      /\ \A c \in Callback :
           refs'[c] = Held(c)' /\ (Live(c)' <=> Held(c)' > 0)
  BY <1>1, <1>2, ReleaseStep
<1>4. registered' \in Seq(Callback)
  BY <1>1
<1>5. QED
  BY <1>1, <1>3, <1>4 DEF References

LEMMA MoveBuilderStep ==
  ASSUME References, NEW b \in Builder, NEW other \in Builder,
         MoveBuilder(b, other)
  PROVE  References'
<1> DEFINE middle == [list EXCEPT ![b] = list[other]]
<1>1. list \in [Builder -> Seq(Callback)] /\ IsFiniteSet(AllPlaces(list))
  BY DEF References
<1>2. /\ b # other /\ builder' = [builder EXCEPT ![b] = "live"]
      /\ list[b] = << >> /\ list[other] \in Seq(Callback)
      /\ << >> \in Seq(Callback)
      /\ list' = [middle EXCEPT ![other] = << >>]
      /\ UNCHANGED <<life, refs, registered>>
      /\ builder[b] = "none" /\ builder[other] = "live"
  BY DEF MoveBuilder, References
<1>3. Recounted(list, middle, b, list[other])
  BY <1>1, <1>2, ReplacedList
<1>4. /\ middle \in [Builder -> Seq(Callback)] /\ middle[other] = list[other]
      /\ IsFiniteSet(AllPlaces(middle))
  BY <1>1, <1>2, <1>3 DEF Recounted
<1>5. Recounted(middle, list', other, << >>)
  BY <1>2, <1>4, ReplacedList
<1>6. ASSUME NEW d \in Callback
      PROVE  Cardinality(Holding(middle, d)) =
               Cardinality(Holding(list, d)) - Occurrences(d, << >>)
                 + Occurrences(d, list[other])
  <2> HIDE DEF middle
  <2>1. Cardinality(Holding(middle, d)) =
          Cardinality(Holding(list, d)) - Occurrences(d, list[b])
            + Occurrences(d, list[other])
    BY <1>3, Zenon DEF Recounted
  <2>2. QED
    BY <1>2, <2>1
<1> HIDE DEF middle
<1>7. list' \in [Builder -> Seq(Callback)] /\ IsFiniteSet(AllPlaces(list'))
  BY <1>5 DEF Recounted
<1>8. ASSUME NEW d \in Callback
      PROVE  Held(d)' = Held(d)
  <2>1. Cardinality(Holding(list', d)) =
          Cardinality(Holding(middle, d)) - Occurrences(d, list[other])
            + Occurrences(d, << >>)
    <3>1. Cardinality(Holding(list', d)) =
            Cardinality(Holding(middle, d)) - Occurrences(d, middle[other])
              + Occurrences(d, << >>)
      BY <1>5, Zenon DEF Recounted
    <3>2. QED
      BY <1>4, <3>1
  <2>2. Occurrences(d, list[other]) \in Nat /\ Occurrences(d, << >>) = 0
    BY <1>2, PlacesOfList, PlacesOfEmpty
  <2>3. Held(d)' = Occurrences(d, registered) + Cardinality(Holding(list', d))
    BY <1>2 DEF Held
  <2>4. QED
    BY <1>6, <2>1, <2>2, <2>3, HeldType DEF Held
<1>9. /\ builder' \in [Builder -> {"none", "live", "destroyed"}]
      /\ \A a \in Builder : builder'[a] # "live" => list'[a] = << >>
  <2>1. \A a \in Builder \ {b, other} : list'[a] = list[a]
    BY <1>2, <1>4 DEF middle, References
  <2>2. QED
    BY <1>2, <2>1 DEF References
<1>10. QED
  BY <1>2, <1>7, <1>8, <1>9 DEF References, Live

LEMMA ReferencesNext == References /\ [Next]_vars => References'
<1> SUFFICES ASSUME References, [Next]_vars PROVE References'
  OBVIOUS
<1>1. CASE UNCHANGED <<life, refs, registered, builder, list>>
  BY <1>1 DEF References, Held, Live
<1>2. CASE UNCHANGED vars \/ Over \/ Dispatch \/ Dispatched \/ Return
  BY <1>1, <1>2 DEF vars, Over, Dispatch, Dispatched, Return
<1>3. ASSUME NEW c \in Callback, ClearPendingRequests(c) PROVE References'
  BY <1>1, <1>3 DEF ClearPendingRequests
<1>4. ASSUME NEW b \in Builder, NewBuilder(b) PROVE References'
  <2>1. /\ builder' = [builder EXCEPT ![b] = "live"]
        /\ UNCHANGED <<life, refs, registered, list>>
    BY <1>4 DEF NewBuilder
  <2>2. /\ builder' \in [Builder -> {"none", "live", "destroyed"}]
        /\ \A a \in Builder : builder'[a] # "live" => list[a] = << >>
    BY <2>1 DEF References
  <2>3. QED
    BY <2>1, <2>2 DEF References, Held, Live
<1>5. ASSUME NEW b \in Builder, CancelPendingRequests(b) PROVE References'
  BY <1>1, <1>5 DEF CancelPendingRequests
<1>6. ASSUME NEW b \in Builder, ClearOIDList(b) \/ DestroyBuilder(b)
      PROVE  References'
  BY <1>6, ClearStep DEF ClearOIDList, DestroyBuilder
<1>7. ASSUME NEW b \in Builder, NEW q \in Key, SendTo(b, q) PROVE References'
  BY <1>1, <1>7 DEF SendTo
<1>8. ASSUME NEW q \in Key, ReceiveError(q) PROVE References'
  BY <1>1, <1>8 DEF ReceiveError
<1>9. ASSUME NEW q \in Key, NEW bs \in Responses, ReceiveBindings(q, bs)
      PROVE  References'
  BY <1>1, <1>9 DEF ReceiveBindings
<1>10. QED
  BY <1>2, <1>3, <1>4, <1>5, <1>6, <1>7, <1>8, <1>9, RegisterStep,
     AddOIDPointerStep, DestroyManagerStep, MoveBuilderStep DEF Next

LEMMA ReferencesHold == Spec => []References
BY ReferencesInit, ReferencesNext, PTL DEF Spec

\* A registration lives exactly as long as the manager or a builder holds it
\* and counts the places that do, in whatever order they are filled, cleared,
\* moved and destroyed (retain(), release()).
THEOREM ReferencesAreAccounted == Spec => []ReferencesAccounted
<1>1. References => ReferencesAccounted
  BY HeldIsHolders DEF References, ReferencesAccounted
<1>2. QED
  BY <1>1, ReferencesHold, PTL

-----------------------------------------------------------------------------
(***************************************************************************)
(* Dispatch of a response.                                                 *)
(***************************************************************************)
\* The inductive invariant of calls in progress: a response being parsed has
\* the key of a request and is nobody's request.
CallInv ==
  /\ object \in [Callback -> Object \cup {None}]
  /\ serial \in [Callback -> 0..(SerialModulus - 1)]
  /\ manager \in {"live", "destroyed"}
  /\ pc \in {"idle", "parse", "return"}
  /\ frame \in Frames
  /\ pc = "parse" => frame.key \in Key /\ frame.sentFor = {}

LEMMA SendFrame ==
  ASSUME CallInv, References, NEW b \in Builder, NEW q \in Key, SendTo(b, q)
  PROVE  /\ CallInv'
         /\ frame'.key = q /\ frame'.sentFor = RegistrationsOf(b)
<1>1. frame' = [key |-> q, sentFor |-> RegistrationsOf(b), owed |-> {},
                left |-> << >>, names |-> {}]
  BY DEF SendTo, NoFrame
<1>2. RegistrationsOf(b) \in SUBSET Callback
  <2>1. list[b] \in Seq(Callback)
    BY DEF References
  <2>2. QED
    BY <2>1, PlacesOfList DEF RegistrationsOf
<1>3. frame' \in Frames
  BY <1>1, <1>2 DEF Frames
<1>4. pc' = "return" /\ UNCHANGED <<object, serial, manager>>
  BY DEF SendTo
<1>5. QED
  BY <1>1, <1>3, <1>4 DEF CallInv

LEMMA ReceiveFrame ==
  ASSUME CallInv, NEW q \in Key, NEW bs \in Responses, ReceiveBindings(q, bs)
  PROVE  CallInv'
<1> DEFINE names == {bs[i].name : i \in DOMAIN bs}
           owed == {c \in Callback : q \in Active(c)}
<1>1. frame' = [key |-> q, sentFor |-> {}, owed |-> owed, left |-> bs,
                names |-> names]
  BY DEF ReceiveBindings, NoFrame
<1>2. bs \in Seq(Binding) /\ names \in SUBSET Name
  <2>1. PICK n \in Nat : bs \in [1..n -> Binding]
    BY BoundAssumption DEF Responses
  <2>2. \A i \in DOMAIN bs : bs[i] \in Binding
    BY <2>1
  <2>3. \A x \in Binding : x.name \in Name
    BY DEF Binding
  <2>4. QED
    BY <2>1, <2>2, <2>3
<1>3. owed \in SUBSET Callback
  OBVIOUS
<1> HIDE DEF names, owed
<1>4. frame' \in Frames /\ frame'.key = q /\ frame'.sentFor = {}
  BY <1>1, <1>2, <1>3 DEF Frames
<1>5. UNCHANGED <<object, serial, manager>> /\ pc' = "parse"
  BY DEF ReceiveBindings
<1>6. QED
  BY <1>4, <1>5 DEF CallInv

LEMMA DispatchFrame ==
  ASSUME CallInv, Dispatch
  PROVE  CallInv'
<1> DEFINE b == Head(frame.left)
           c == Chosen(b.name)
           rest == Tail(frame.left)
<1>1. frame \in Frames /\ frame.left \in Seq(Binding) /\ frame.left # << >>
  BY DEF CallInv, Dispatch, Frames
<1>2. rest \in Seq(Binding) /\ << >> \in Seq(Binding)
  BY <1>1
<1>3. frame' = [frame EXCEPT !.left = rest]
        \/ frame' = [frame EXCEPT !.left = << >>]
  BY DEF Dispatch
<1>4. frame' \in Frames /\ frame'.key = frame.key
      /\ frame'.sentFor = frame.sentFor
  <2> HIDE DEF rest
  <2>1. QED
    BY <1>1, <1>2, <1>3 DEF Frames
<1>5. serial' = serial
        \/ serial' = [serial EXCEPT ![c] = (@ + 1) % SerialModulus]
  BY DEF Dispatch
<1>6. serial' \in [Callback -> 0..(SerialModulus - 1)]
  <2> HIDE DEF c
  <2>1. serial \in [Callback -> 0..(SerialModulus - 1)]
    BY DEF CallInv
  <2>2. \A n \in Nat : (n + 1) % SerialModulus \in 0..(SerialModulus - 1)
    BY TableAssumption
  <2>3. QED
    BY <1>5, <2>1, <2>2, TableAssumption
<1>7. UNCHANGED <<object, manager, pc>>
  BY DEF Dispatch
<1>8. QED
  BY <1>4, <1>6, <1>7 DEF CallInv

LEMMA CallInit == Init => CallInv
BY TableAssumption DEF Init, CallInv, Frames, NoFrame

LEMMA CallNext == CallInv /\ References /\ [Next]_vars => CallInv'
<1> SUFFICES ASSUME CallInv, References, [Next]_vars PROVE CallInv'
  OBVIOUS
<1>1. CASE UNCHANGED <<object, serial, manager, pc, frame>>
  BY <1>1 DEF CallInv
<1>2. CASE UNCHANGED vars \/ Over
  BY <1>1, <1>2 DEF vars, Over
<1>3. CASE Dispatched
  BY <1>3 DEF Dispatched, CallInv
<1>4. CASE Return
  <2>1. NoFrame \in Frames
    BY DEF NoFrame, Frames
  <2>2. QED
    BY <1>4, <2>1 DEF Return, CallInv
<1>5. CASE DestroyManager
  BY <1>5 DEF DestroyManager, CallInv
<1>6. ASSUME NEW c \in Callback, NEW o \in Object, Register(c, o)
      PROVE  CallInv'
  BY <1>6 DEF Register, CallInv
<1>7. ASSUME NEW c \in Callback, ClearPendingRequests(c) PROVE CallInv'
  BY <1>1, <1>7 DEF ClearPendingRequests
<1>8. ASSUME NEW b \in Builder,
             \/ NewBuilder(b) \/ CancelPendingRequests(b) \/ ClearOIDList(b)
             \/ DestroyBuilder(b)
             \/ \E other \in Builder : MoveBuilder(b, other)
             \/ \E c \in Callback : AddOIDPointer(b, c)
      PROVE  CallInv'
  BY <1>1, <1>8 DEF NewBuilder, CancelPendingRequests, ClearOIDList,
     DestroyBuilder, MoveBuilder, AddOIDPointer
<1>9. ASSUME NEW q \in Key, ReceiveError(q) PROVE CallInv'
  BY <1>1, <1>9 DEF ReceiveError
<1>10. QED
  BY <1>2, <1>3, <1>4, <1>5, <1>6, <1>7, <1>8, <1>9, SendFrame, ReceiveFrame,
     DispatchFrame DEF Next

LEMMA CallHolds == Spec => []CallInv
BY CallInit, CallNext, ReferencesHold, PTL DEF Spec

\* Every variable keeps its type: no count of references becomes negative
\* (release()), no table holds more than its entries (track()) and an update
\* count turns over at 2^32.
THEOREM ManagerTypes == Spec => []ManagerTypeOK
<1>1. TableInv /\ References /\ CallInv => ManagerTypeOK
  BY DEF TableInv, Table, References, CallInv, ManagerTypeOK
<1>2. QED
  BY <1>1, TableHolds, ReferencesHold, CallHolds, PTL

\* Every variable keeps its type, and requestPending its agreement with the
\* table (track(), consume(), clearPendingRequests(), release()).
THEOREM ManagerKeepsInv == Spec => []ManagerInv
<1>1. ManagerTypeOK /\ SummaryAgrees => ManagerInv
  BY DEF ManagerInv
<1>2. QED
  BY <1>1, ManagerTypes, SummariesAgree, PTL

\* The registrations of a request that was sent.
LEMMA SendTracked ==
  ASSUME TableInv, References, NEW b \in Builder, NEW q \in Key, SendTo(b, q)
  PROVE  \A c \in RegistrationsOf(b) : c \in Callback /\ Has(pending'[c], q)
<1> DEFINE S == RegistrationsOf(b)
<1> SUFFICES ASSUME NEW c \in S PROVE c \in Callback /\ Has(pending'[c], q)
  OBVIOUS
<1>1. c \in Callback
  <2>1. list[b] \in Seq(Callback)
    BY DEF References
  <2>2. QED
    BY <2>1, PlacesOfList DEF RegistrationsOf
<1>2. HasFree(pending[c]) \/ Has(pending[c], q)
  BY DEF SendTo, CanTrack
<1>3. pending' = [d \in Callback |->
        IF d \in S THEN Tracked(pending[d], q) ELSE pending[d]]
  BY DEF SendTo
<1> HIDE DEF S
<1>4. Has(Tracked(pending[c], q), q)
  BY <1>1, <1>2, TrackedTable DEF TableInv
<1>5. QED
  BY <1>1, <1>3, <1>4

LEMMA SendsNext ==
  TableInv /\ References /\ CallInv /\ SendsAreTracked /\ [Next]_vars
    => SendsAreTracked'
<1> SUFFICES ASSUME TableInv, References, CallInv, SendsAreTracked,
                    [Next]_vars, pc' = "return"
             PROVE  \A c \in frame'.sentFor : frame'.key \in Active(c)'
  BY DEF SendsAreTracked
<1>1. CASE UNCHANGED vars \/ Over
  BY <1>1 DEF vars, Over, SendsAreTracked, Active
<1>2. CASE Dispatched
  <2>1. frame'.sentFor = {}
    BY <1>2 DEF Dispatched, CallInv
  <2>2. QED
    BY <2>1
<1>3. ASSUME NEW b \in Builder, NEW q \in Key, SendTo(b, q)
      PROVE  \A c \in frame'.sentFor : frame'.key \in Active(c)'
  <2>1. frame'.key = q /\ frame'.sentFor = RegistrationsOf(b)
    BY <1>3, SendFrame
  <2>2. \A c \in RegistrationsOf(b) : c \in Callback /\ Has(pending'[c], q)
    BY <1>3, SendTracked
  <2>3. q # Free
    BY TableAssumption
  <2>4. QED
    BY <2>1, <2>2, <2>3 DEF Has, Active
<1>4. QED
  BY <1>1, <1>2, <1>3 DEF Next, DestroyManager, Dispatch, Return,
     ClearPendingRequests, Register, NewBuilder, CancelPendingRequests,
     ClearOIDList, DestroyBuilder, MoveBuilder, AddOIDPointer, ReceiveError,
     ReceiveBindings

\* When sendTo() returns from a transmission every registration of the builder
\* has an entry for the request (canTrack() before, track() after), whatever
\* order of sends, cancels and replies filled the tables.
THEOREM SendsTracked == Spec => []SendsAreTracked
<1>1. Init => SendsAreTracked
  BY DEF Init, SendsAreTracked
<1>2. QED
  BY <1>1, SendsNext, TableHolds, ReferencesHold, CallHolds, PTL DEF Spec

-----------------------------------------------------------------------------
(***************************************************************************)
(* Which registration a binding reaches.                                   *)
(***************************************************************************)
LEMMA SmallestExists ==
  ASSUME NEW I \in SUBSET Nat, I # {}
  PROVE  \E i \in I : \A j \in I : i <= j
<1> DEFINE R == OpToRel(<, Nat)
<1>1. IsWellFoundedOn(R, Nat)
  BY NatLessThanWellFounded
<1>2. \A x, y \in Nat : y < x => <<y, x>> \in R
  BY DEF OpToRel
<1> HIDE DEF R
<1>3. PICK i \in I : \A j \in I : ~(<<j, i>> \in R)
  BY <1>1, WFMin
<1>4. ASSUME NEW j \in I PROVE i <= j
  <2>1. i \in Nat /\ j \in Nat
    OBVIOUS
  <2>2. ~(j < i)
    <3>1. j < i => <<j, i>> \in R
      BY <1>2, <2>1
    <3>2. QED
      BY <1>3, <3>1
  <2>3. QED
    BY <2>1, <2>2
<1>5. QED
  BY <1>4

\* The first of some places of the manager's list is one of them.
LEMMA FirstIsThere ==
  ASSUME References, NEW places \in SUBSET DOMAIN registered, places # {}
  PROVE  \E i \in places : FirstOf(places) = registered[i]
<1>1. places \in SUBSET Nat
  BY DEF References
<1>2. \E i \in places : \A j \in places : i <= j
  BY <1>1, SmallestExists
<1>3. Min(places) \in places
  BY <1>2 DEF Min
<1>4. QED
  BY <1>3 DEF FirstOf

\* A binding for OID n reaches no registration, or one of the manager's for
\* that OID of the peer; if any of them was ever tracked, one that sent the
\* request.
LEMMA ChosenFits ==
  ASSUME References, NEW n, Chosen(n) # None
  PROVE  /\ Chosen(n) \in Callback
         /\ object[Chosen(n)] = [ip |-> frame.key.peer, oid |-> n]
         /\ (\E i \in Candidates(n) : tracking[registered[i]])
              => Sent(Chosen(n))
         /\ tracking[Chosen(n)] => Sent(Chosen(n))
<1> DEFINE strict == \E i \in Candidates(n) : tracking[registered[i]]
           places == {i \in Candidates(n) : strict => Sent(registered[i])}
<1>1. Chosen(n) = FirstOf(places)
  BY DEF Chosen
<1>2. places \in SUBSET Candidates(n)
      /\ \A i \in places : strict => Sent(registered[i])
  OBVIOUS
<1>3. Candidates(n) \in SUBSET DOMAIN registered
      /\ \A i \in Candidates(n) :
           object[registered[i]] = [ip |-> frame.key.peer, oid |-> n]
  BY DEF Candidates
<1> HIDE DEF strict, places
<1>4. places # {}
  BY <1>1 DEF FirstOf
<1>5. PICK i \in places : Chosen(n) = registered[i]
  BY <1>1, <1>2, <1>3, <1>4, FirstIsThere
<1>6. registered[i] \in Callback
  BY <1>2, <1>3 DEF References
<1>7. QED
  BY <1>2, <1>3, <1>5, <1>6 DEF strict

LEMMA StepDropsLateReplies ==
  ASSUME TableInv, References, CallInv, [Next]_vars,
         NEW c \in Callback, serial'[c] # serial[c],
         frame.key \notin Active(c),
         NEW i \in DOMAIN registered, object[registered[i]] = object[c]
  PROVE  ~tracking[registered[i]]
<1> DEFINE b == Head(frame.left)
           d == Chosen(b.name)
<1>1. Dispatch
  BY DEF Next, vars, DestroyManager, Dispatched, Return, Over,
     ClearPendingRequests, Register, NewBuilder, CancelPendingRequests,
     ClearOIDList, DestroyBuilder, MoveBuilder, AddOIDPointer, SendTo,
     ReceiveError, ReceiveBindings
<1>2. d # None /\ serial' = [serial EXCEPT ![d] = (@ + 1) % SerialModulus]
  BY <1>1 DEF Dispatch
<1> DEFINE n == b.name
<1>3. /\ object[d] = [ip |-> frame.key.peer, oid |-> n]
      /\ (\E j \in Candidates(n) : tracking[registered[j]]) => Sent(d)
  BY <1>2, ChosenFits
<1> HIDE DEF n, d
<1>4. c = d
  BY <1>2 DEF CallInv
<1>5. i \in Candidates(n)
  BY <1>3, <1>4 DEF Candidates
<1>6. frame.key # Free
  BY <1>1, TableAssumption DEF CallInv, Dispatch
<1>7. ~Sent(d)
  BY <1>4, <1>6 DEF Sent, Has, Active
<1>8. QED
  BY <1>3, <1>5, <1>7

\* A reply that answers no tracked request is never given to a registration
\* of an object that was ever tracked (parsePacket(), the strict choice).
THEOREM LateRepliesDropped == Spec => LateRepliesAreDropped
<1>1. TableInv /\ References /\ CallInv /\ [Next]_vars =>
        [\A c \in Callback :
           serial'[c] # serial[c] /\ frame.key \notin Active(c) =>
             \A i \in DOMAIN registered :
               object[registered[i]] = object[c]
                 => ~tracking[registered[i]]]_vars
  BY StepDropsLateReplies
<1>2. QED
  BY <1>1, TableHolds, ReferencesHold, CallHolds, PTL
     DEF Spec, LateRepliesAreDropped

-----------------------------------------------------------------------------
(***************************************************************************)
(* The tables implement the sets of requests of ReplyMatching.             *)
(***************************************************************************)
\* The requests in table t.
Requests(t) == {t[e] : e \in Entry} \ {Free}

LEMMA ActiveRequests ==
  /\ \A c : Active(c) = Requests(pending[c])
  /\ \A c : Active(c)' = Requests(pending'[c])
BY DEF Active, Requests

LEMMA FreshRequests == Requests([e \in Entry |-> Free]) = {}
BY DEF Requests

LEMMA ConsumedRequests ==
  ASSUME NEW t, NEW q
  PROVE  Requests(Consumed(t, q)) = Requests(t) \ {q}
<1>1. \A e \in Entry :
        Consumed(t, q)[e] = IF t[e] = q THEN Free ELSE t[e]
  BY DEF Consumed
<1>2. QED
  BY <1>1 DEF Requests

LEMMA TrackedRequests ==
  ASSUME NEW t \in Table, NEW q \in Key, HasFree(t) \/ Has(t, q)
  PROVE  Requests(Tracked(t, q)) = Requests(t) \cup {q}
<1>1. q # Free
  BY TableAssumption
<1>2. CASE Has(t, q)
  <2>1. Tracked(t, q) = t
    BY <1>2 DEF Tracked
  <2>2. QED
    BY <1>1, <1>2, <2>1 DEF Has, Requests
<1>3. CASE ~Has(t, q)
  <2>1. FreeEntry(t) \in Entry /\ t[FreeEntry(t)] = Free
    BY <1>3 DEF HasFree, FreeEntry
  <2> DEFINE f == FreeEntry(t)
             u == [t EXCEPT ![f] = q]
  <2>2. Tracked(t, q) = u
    BY <1>3 DEF Tracked
  <2> HIDE DEF f
  <2>3. u[f] = q /\ \A e \in Entry \ {f} : u[e] = t[e]
    BY <2>1 DEF Table, f
  <2> HIDE DEF u
  <2>4. Requests(u) = Requests(t) \cup {q}
    BY <1>1, <2>1, <2>3 DEF Requests, f
  <2>5. QED
    BY <2>2, <2>4
<1>4. QED
  BY <1>2, <1>3

\* A table holds at most as many requests as it has entries.
LEMMA RequestsFit ==
  ASSUME NEW t \in Table
  PROVE  Cardinality(Requests(t)) <= MaxPending
<1> DEFINE E == {e \in Entry : t[e] # Free}
           R == Requests(t)
           f == [e \in E |-> t[e]]
<1>1. IsFiniteSet(Entry) /\ Cardinality(Entry) = MaxPending
  <2>1. MaxPending \in Int /\ 1 \in Int /\ MaxPending >= 1
    BY TableAssumption
  <2>2. QED
    BY <2>1, FS_Interval DEF Entry
<1>2. E \in SUBSET Entry
  OBVIOUS
<1>3. IsFiniteSet(E) /\ Cardinality(E) <= Cardinality(Entry)
  <2> HIDE DEF E
  <2>1. QED
    BY <1>1, <1>2, FS_Subset
<1>4. f \in Surjection(E, R)
  BY DEF Surjection, Requests
<1>5. IsFiniteSet(R) /\ Cardinality(R) <= Cardinality(E)
  <2> HIDE DEF E, R, f
  <2>1. QED
    BY <1>3, <1>4, FS_Surjection
<1>6. Cardinality(R) \in Nat /\ Cardinality(E) \in Nat
  <2> HIDE DEF E, R
  <2>1. QED
    BY <1>3, <1>5, FS_CardinalityType
<1>7. QED
  BY <1>1, <1>3, <1>5, <1>6, TableAssumption

LEMMA SameCount == \A S : Matching!Cardinality(S) = Cardinality(S)
BY DEF Matching!Cardinality, Cardinality

LEMMA MatchingInit == Init => Matching!Init
<1> SUFFICES ASSUME Init PROVE Matching!Init
  OBVIOUS
<1>1. \A c \in Callback : Active(c) = {}
  BY ActiveRequests, FreshRequests DEF Init
<1>2. QED
  BY <1>1 DEF Init, Matching!Init

LEMMA MatchingAbandons ==
  ASSUME NEW S \in SUBSET Callback, Abandon(S), UNCHANGED serial
  PROVE  Matching!Next
<1>1. \A c \in Callback :
        Active(c)' = IF c \in S THEN {} ELSE Active(c)
  BY ActiveRequests, FreshRequests DEF Abandon
<1>2. Matching!Abandon(S)
  BY <1>1 DEF Abandon, Matching!Abandon
<1>3. QED
  BY <1>2 DEF Matching!Next

LEMMA MatchingRefuses ==
  ASSUME NEW S \in SUBSET Callback, NEW q \in Key, Consume(S, q),
         UNCHANGED serial
  PROVE  Matching!Next
<1>1. \A c \in Callback :
        Active(c)' = IF c \in S THEN Active(c) \ {q} ELSE Active(c)
  BY ActiveRequests, ConsumedRequests DEF Consume
<1>2. Matching!Refuse(S, q)
  BY <1>1 DEF Consume, Matching!Refuse
<1>3. QED
  BY <1>2 DEF Matching!Next

LEMMA MatchingAsks ==
  ASSUME TableInv, References, NEW b \in Builder, NEW q \in Key, SendTo(b, q)
  PROVE  Matching!Next
<1> DEFINE S == RegistrationsOf(b)
<1>1. S \in SUBSET Callback
  <2>1. list[b] \in Seq(Callback)
    BY DEF References
  <2>2. QED
    BY <2>1, PlacesOfList DEF RegistrationsOf
<1>2. \A c \in S : HasFree(pending[c]) \/ Has(pending[c], q)
  BY DEF SendTo, CanTrack
<1>3. /\ pending' = [c \in Callback |->
           IF c \in S THEN Tracked(pending[c], q) ELSE pending[c]]
      /\ tracking' = [c \in Callback |-> c \in S \/ tracking[c]]
      /\ UNCHANGED serial
  BY DEF SendTo
<1> HIDE DEF S
<1>4. ASSUME NEW c \in Callback
      PROVE  Active(c)' = IF c \in S THEN Active(c) \cup {q} ELSE Active(c)
  <2>1. pending[c] \in Table
    BY DEF TableInv
  <2>2. QED
    BY <1>2, <1>3, <2>1, ActiveRequests, TrackedRequests
<1>5. \A c \in S : Matching!Cardinality(Active(c) \cup {q}) <= MaxPending
  <2> TAKE c \in S
  <2>1. pending'[c] \in Table
    BY <1>1, SendStep DEF TableInv
  <2>2. Active(c) \cup {q} = Requests(pending'[c])
    BY <1>1, <1>4, ActiveRequests
  <2>3. QED
    BY <2>1, <2>2, RequestsFit, SameCount
<1>6. Matching!Ask(S, q)
  BY <1>1, <1>3, <1>4, <1>5 DEF Matching!Ask
<1>7. QED
  BY <1>1, <1>6 DEF Matching!Next

LEMMA MatchingDispatches ==
  ASSUME TableInv, References, CallInv, Dispatch
  PROVE  Matching!Next \/ UNCHANGED Matching!vars
<1> DEFINE n == Head(frame.left).name
           c == Chosen(n)
           q == frame.key
<1>1. \/ c = None /\ UNCHANGED <<table, serial>>
      \/ /\ c # None
         /\ IF tracking[c] THEN Consume({c}, q) ELSE UNCHANGED table
         /\ serial' = serial
              \/ serial' = [serial EXCEPT ![c] = (@ + 1) % SerialModulus]
  BY DEF Dispatch
<1>2. c # None => c \in Callback /\ (tracking[c] => Sent(c))
  BY ChosenFits
<1>3. q \in Key /\ q # Free
  BY TableAssumption DEF Dispatch, CallInv
<1> HIDE DEF n, c
<1>4. CASE UNCHANGED <<table, serial>>
  BY <1>4 DEF table, Matching!vars, Active
<1>5. CASE c # None
  <2>1. c \in Callback
    BY <1>2, <1>5
  <2>2. \A d \in Callback \ {c} : serial'[d] = serial[d]
    BY <1>1, <1>5 DEF CallInv
  <2>3. Matching!Touches(c)
    BY <2>2 DEF Matching!Touches
  <2>4. CASE tracking[c]
    <3>1. q \in Active(c)
      BY <1>2, <1>3, <1>5, <2>4 DEF Sent, Has, Active
    <3>2. Consume({c}, q)
      BY <1>1, <1>5, <2>4
    <3>3. \A d \in Callback :
            Active(d)' = IF d = c THEN Active(d) \ {q} ELSE Active(d)
      BY <3>2, ActiveRequests, ConsumedRequests DEF Consume
    <3>4. Matching!Answer(c, q)
      BY <2>1, <2>3, <3>1, <3>2, <3>3 DEF Consume, Matching!Answer
    <3>5. QED
      BY <1>3, <2>1, <3>4 DEF Matching!Next
  <2>5. CASE ~tracking[c]
    <3>1. UNCHANGED <<pending, tracking>>
      BY <1>1, <1>5, <2>5 DEF table
    <3>2. Matching!Unsolicited(c)
      BY <2>3, <2>5, <3>1 DEF Matching!Unsolicited, Active
    <3>3. QED
      BY <2>1, <3>2 DEF Matching!Next
  <2>6. QED
    BY <2>4, <2>5
<1>6. QED
  BY <1>1, <1>4, <1>5

LEMMA MatchingNext ==
  TableInv /\ References /\ CallInv /\ [Next]_vars
    => [Matching!Next]_(Matching!vars)
<1> SUFFICES ASSUME TableInv, References, CallInv, [Next]_vars
             PROVE  Matching!Next \/ UNCHANGED Matching!vars
  OBVIOUS
<1>1. CASE UNCHANGED <<pending, tracking, serial>>
  BY <1>1 DEF Matching!vars, Active
<1>2. CASE \/ UNCHANGED vars \/ Over \/ Dispatched \/ Return
           \/ DestroyManager
  BY <1>1, <1>2 DEF vars, table, Over, Dispatched, Return, DestroyManager
<1>3. ASSUME NEW c \in Callback,
             ClearPendingRequests(c) \/ \E o \in Object : Register(c, o)
      PROVE  Matching!Next \/ UNCHANGED Matching!vars
  BY <1>1, <1>3, MatchingAbandons DEF ClearPendingRequests, Register, table
<1>4. ASSUME NEW b \in Builder,
             \/ NewBuilder(b) \/ ClearOIDList(b) \/ DestroyBuilder(b)
             \/ \E other \in Builder : MoveBuilder(b, other)
             \/ \E c \in Callback : AddOIDPointer(b, c)
      PROVE  Matching!Next \/ UNCHANGED Matching!vars
  <2>1. UNCHANGED <<pending, tracking, serial>>
    BY <1>4 DEF NewBuilder, ClearOIDList, DestroyBuilder, MoveBuilder,
       AddOIDPointer, table
  <2>2. QED
    BY <1>1, <2>1
<1>5. ASSUME NEW b \in Builder, CancelPendingRequests(b)
      PROVE  Matching!Next
  <2>1. list[b] \in Seq(Callback)
    BY DEF References
  <2>2. RegistrationsOf(b) \in SUBSET Callback
    BY <2>1, PlacesOfList DEF RegistrationsOf
  <2>3. QED
    BY <1>5, <2>2, MatchingAbandons DEF CancelPendingRequests
<1>6. ASSUME NEW q \in Key, ReceiveError(q) PROVE Matching!Next
  <2>1. ToSet(registered) \in SUBSET Callback
    BY PlacesOfList DEF References
  <2>2. QED
    BY <1>6, <2>1, MatchingRefuses DEF ReceiveError
<1>7. ASSUME NEW q \in Key, NEW bs \in Responses, ReceiveBindings(q, bs)
      PROVE  Matching!Next \/ UNCHANGED Matching!vars
  BY <1>1, <1>7 DEF ReceiveBindings, table
<1>8. QED
  BY <1>2, <1>3, <1>4, <1>5, <1>6, <1>7, MatchingAsks, MatchingDispatches
     DEF Next

\* The registrations' tables implement the sets of requests that replies are
\* owed to: a reply is taken at most once and only where it is owed, unless
\* nothing was ever sent for the registration, and no send is accepted beyond
\* the limit (canTrack(), track(), consume(), parsePacket()).
THEOREM TablesMatchReplies == Spec => ImplementsMatching
BY MatchingInit, MatchingNext, TableHolds, ReferencesHold, CallHolds, PTL
   DEF Spec, ImplementsMatching, Matching!Spec
=============================================================================
