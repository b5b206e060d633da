--------------------------- MODULE SNMPClientProofs ---------------------------
(***************************************************************************)
(* Theorems about SNMPClient, for any operations, slots and packet sizes.  *)
(***************************************************************************)
EXTENDS SNMPClientProperties, TLAPS

USE DEF Slot, Device, Terminal, CellStatus, OpStatus, Origin, Mode, Tick

\* Every assumption on the constants, in the form the proofs use.
LEMMA Constants ==
  /\ None \notin Op
  /\ Kind \in [Op -> {"query", "set", "walk", "stream"}]
  /\ Version \in [Op -> {"v1", "v2c"}]
  /\ Capacity \in [Op -> Nat \ {0}] /\ Fit \in [Op -> Nat]
  /\ MaxPending \in Nat \ {0} /\ MaxID \in Nat \ {0}
  /\ Rows \in Nat /\ Retries \in Nat
  /\ TimeoutMs \in Nat \ {0} /\ WalkDeadline \in Nat \ {0}
  /\ MaxStall \in Nat \ {0} /\ ClockModulus \in Nat \ {0}
  /\ CellOutcomes \subseteq Terminal \ {"Partial", "Timeout"}
<1>1. ClockModulus \in Nat \ {0}
  BY ClockAssumption
<1>2. QED
  BY <1>1, OpAssumption, KindAssumption, SizeAssumption, ClockAssumption,
     OutcomeAssumption

\* The part of the invariant that an operation's own step can disturb.
OpInv ==
  /\ op \in [Op -> OperationState]
  /\ slots \in [Slot -> Op \cup {None}]
  /\ active \subseteq Op \cup {None}
  /\ hist \in [Op -> History]
  /\ SlotAgreement
  /\ Frame

\* finish() leaves an operation's fields well typed.
LEMMA EndedType ==
  ASSUME NEW r \in OperationState, NEW s \in Terminal
  PROVE  Ended(r, s) \in OperationState
<1>1. r.cells \in Seq(Cell)
  BY DEF OperationState
<1>2. \A i \in 1..Len(r.cells) : r.cells[i] \in Cell
  BY <1>1
<1>3. \A i \in 1..Len(r.cells) : [r.cells[i] EXCEPT !.status = s] \in Cell
  BY <1>2 DEF Cell
<1>4. Inherit(r.cells, s) \in Seq(Cell)
  BY <1>1, <1>2, <1>3 DEF Inherit
<1>5. QED
  BY <1>4 DEF Ended, OperationState

\* Releasing the slot of an operation that is no longer pending keeps the
\* agreement between slots and pending operations (remove()).
LEMMA ReleaseKeepsAgreement ==
  ASSUME SlotAgreement, NEW o \in Op,
         slots \in [Slot -> Op \cup {None}],
         op'[o].status # "Pending",
         \A p \in Op \ {o} : op'[p] = op[p],
         \A t \in Slot : slots'[t] = IF slots[t] = o THEN None ELSE slots[t]
  PROVE  SlotAgreement'
<1>1. ASSUME NEW t \in Slot, slots'[t] # None
      PROVE  op'[slots'[t]].status = "Pending"
  <2>1. slots'[t] = slots[t] /\ slots[t] # o /\ slots[t] \in Op
    BY <1>1
  <2>2. Pending(slots[t])
    BY <2>1, <1>1 DEF SlotAgreement
  <2>3. QED
    BY <2>1, <2>2 DEF Pending
<1>2. ASSUME NEW t \in Slot, NEW u \in Slot,
             slots'[t] # None, slots'[t] = slots'[u]
      PROVE  t = u
  BY <1>2 DEF SlotAgreement
<1>3. ASSUME NEW p \in Op, op'[p].status = "Pending"
      PROVE  \E t \in Slot : slots'[t] = p
  <2>1. p # o /\ Pending(p)
    BY <1>3 DEF Pending
  <2>2. QED
    BY <2>1 DEF SlotAgreement
<1>4. QED
  BY <1>1, <1>2, <1>3 DEF SlotAgreement, Pending

\* A step that ends an operation, whatever its fields had become, keeps the
\* scheduler's agreement: its slot is released with its status.
LEMMA FinishStep ==
  ASSUME OpInv, NEW o \in Op, NEW r \in OperationState, NEW s \in Terminal,
         Finish(o, r, s)
  PROVE  OpInv'
<1>1. Ended(r, s) \in OperationState
  BY EndedType
<1>2. op' \in [Op -> OperationState]
  BY <1>1 DEF OpInv, Finish
<1>3. op'[o].status = s /\ s # "Pending"
  BY <1>1 DEF OpInv, Finish, Ended, OperationState
<1>4. \A p \in Op \ {o} : op'[p] = op[p]
  BY DEF OpInv, Finish
<1>5. slots' \in [Slot -> Op \cup {None}]
  BY DEF OpInv, Finish, Without
<1>6. \A t \in Slot : slots'[t] = IF slots[t] = o THEN None ELSE slots[t]
  BY DEF Finish, Without
<1>7. hist' \in [Op -> History]
  <2>1. hist[o] \in History
    BY DEF OpInv
  <2>2. [hist[o] EXCEPT !.ends = @ + 1] \in History
    BY <2>1 DEF History
  <2>3. QED
    BY <2>2 DEF OpInv, Finish
<1>8. active' \subseteq Op \cup {None}
  BY DEF OpInv, Finish
<1>9. SlotAgreement'
  BY <1>3, <1>4, <1>5, <1>6, ReleaseKeepsAgreement DEF OpInv
<1>10. Frame'
  BY <1>3, <1>4 DEF OpInv, Frame, Framed
<1>11. QED
  BY <1>2, <1>5, <1>7, <1>8, <1>9, <1>10 DEF OpInv

\* A step that changes the fields of an operation but not its status keeps it
\* if the new fields are framed.
LEMMA ContinueStep ==
  ASSUME OpInv, NEW o \in Op, NEW r \in OperationState,
         r.status = op[o].status, Framed(o, r), Continue(o, r)
  PROVE  OpInv'
<1>1. op' \in [Op -> OperationState] /\ op'[o] = r
  BY DEF OpInv, Continue
<1>2. \A p \in Op \ {o} : op'[p] = op[p]
  BY DEF OpInv, Continue
<1>3. UNCHANGED <<slots, active, hist>>
  BY DEF Continue
<1>4. SlotAgreement'
  BY <1>1, <1>2, <1>3 DEF OpInv, SlotAgreement, Pending
<1>5. Frame'
  BY <1>1, <1>2 DEF OpInv, Frame
<1>6. QED
  BY <1>1, <1>3, <1>4, <1>5 DEF OpInv

\* The part of the invariant about the client itself.
EnvInv ==
  /\ begun \in BOOLEAN
  /\ nextID \in 0..MaxID
  /\ now \in Tick
  /\ pc \in PC
  /\ k \in 1..(MaxPending + 1)
  /\ rx \in Delivery
  /\ pc \in {"walk", "stream"} => rx.op \in Op
  /\ wire \subseteq Datagram

LEMMA Parts == IInv <=> OpInv /\ EnvInv
BY DEF IInv, OpInv, EnvInv, TypeOK

LEMMA PartsNext == (OpInv /\ EnvInv)' => IInv'
BY DEF IInv, OpInv, EnvInv, TypeOK

LEMMA InitHolds == Init => IInv
<1> SUFFICES ASSUME Init PROVE IInv
  OBVIOUS
<1>1. ASSUME NEW o \in Op PROVE NewOperation(o) \in OperationState
  <2>1. << >> \in Seq(Cell)
    OBVIOUS
  <2>2. QED
    BY <2>1, Constants DEF NewOperation, InitMode, OperationState
<1>2. op \in [Op -> OperationState]
  BY <1>1 DEF Init
<1>3. NoHistory \in History
  BY Constants DEF NoHistory, History
<1>4. hist \in [Op -> History]
  BY <1>3 DEF Init
<1>5. \A o \in Op : op[o].status = "NotStarted"
  BY DEF Init, NewOperation
<1>6. \A t \in Slot : slots[t] = None
  BY DEF Init
<1>7. SlotAgreement /\ Frame
  BY <1>5, <1>6 DEF SlotAgreement, Frame, Framed, Pending
<1>8. rx \in Delivery
  BY Constants DEF Init, NoDelivery, NoSource, Delivery
<1>9. slots \in [Slot -> Op \cup {None}]
  BY DEF Init
<1>10. now \in Tick /\ nextID \in 0..MaxID /\ k \in 1..(MaxPending + 1)
  BY Constants DEF Init
<1>11. wire \subseteq Datagram /\ active \subseteq Op \cup {None}
  BY DEF Init
<1>12. pc \in PC /\ begun \in BOOLEAN /\ pc \notin {"walk", "stream"}
  BY DEF Init, PC
<1>13. QED
  BY <1>2, <1>4, <1>7, <1>8, <1>9, <1>10, <1>11, <1>12 DEF IInv, TypeOK

-----------------------------------------------------------------------------
(***************************************************************************)
(* The application's calls.                                                *)
(***************************************************************************)
LEMMA FreshCellType == ASSUME NEW n \in Nat PROVE FreshCell(n) \in Cell
BY Constants DEF FreshCell, NoSource, Cell

LEMMA AddOIDStep == ASSUME OpInv, NEW o \in Op, AddOID(o) PROVE OpInv'
<1>1. op[o] \in OperationState
  BY DEF OpInv
<1>2. op[o].cells \in Seq(Cell) /\ Len(op[o].cells) \in Nat
  BY <1>1 DEF OperationState
<1> DEFINE c == Append(op[o].cells, FreshCell(Len(op[o].cells) + 1))
           r == [op[o] EXCEPT !.cells = c]
<1>3. c \in Seq(Cell)
  BY <1>2, FreshCellType
<1> HIDE DEF c
<1>4. r \in OperationState /\ r.status = op[o].status
  BY <1>1, <1>3 DEF OperationState
<1>5. Framed(o, r)
  BY <1>4 DEF AddOID, Framed
<1>6. Continue(o, r)
  BY DEF AddOID, Continue, c
<1>7. QED
  BY <1>4, <1>5, <1>6, ContinueStep

LEMMA ConfigureStep == ASSUME OpInv, NEW o \in Op, Configure(o) PROVE OpInv'
<1>1. op[o] \in OperationState
  BY DEF OpInv
<1>2. op[o].cells \in Seq(Cell)
  BY <1>1 DEF OperationState
<1> DEFINE c == [i \in 1..Len(op[o].cells) |->
                   IF i = 1 THEN FreshCell(0) ELSE op[o].cells[i]]
           r == [op[o] EXCEPT !.rooted = TRUE, !.cells = c]
<1>3. c \in Seq(Cell)
  BY <1>2, FreshCellType
<1>4. Continue(o, r)
  BY <1>1 DEF Configure, Continue
<1> HIDE DEF c
<1>5. r \in OperationState /\ r.status = op[o].status
  BY <1>1, <1>3 DEF OperationState
<1>6. Framed(o, r)
  BY <1>5 DEF Configure, Framed
<1>7. QED
  BY <1>5, <1>6, <1>4, ContinueStep

LEMMA ScheduledType ==
  ASSUME NEW o \in Op, NEW r \in OperationState
  PROVE  /\ Scheduled(o, r) \in OperationState
         /\ Scheduled(o, r).status = "Pending"
         /\ Scheduled(o, r).sent = FALSE
         /\ Scheduled(o, r).offset = 0
         /\ ~Walking(o) => Len(Scheduled(o, r).cells) = Len(r.cells)
<1> DEFINE c == Emptied(o, r.cells)
<1>1. r.cells \in Seq(Cell)
  BY DEF OperationState
<1>2. ASSUME NEW i \in 1..Len(r.cells)
      PROVE  [r.cells[i] EXCEPT !.status = "Pending",
                !.src = IF Kind[o] = "set" THEN @ ELSE NoSource] \in Cell
  <2>1. r.cells[i] \in Cell
    BY <1>1
  <2>2. NoSource \in Origin
    BY Constants DEF NoSource
  <2>3. QED
    BY <2>1, <2>2 DEF Cell
<1>3. c \in Seq(Cell)
  <2>1. CASE Walking(o)
    BY <2>1 DEF Emptied
  <2>2. CASE ~Walking(o)
    <3> DEFINE e(i) == [r.cells[i] EXCEPT !.status = "Pending",
                          !.src = IF Kind[o] = "set" THEN @ ELSE NoSource]
               n == Len(r.cells)
    <3>1. c = [i \in 1..n |-> e(i)]
      BY <2>2 DEF Emptied
    <3>2. n \in Nat
      BY <1>1
    <3>3. \A i \in 1..n : e(i) \in Cell
      BY <1>2
    <3> HIDE DEF c, e, n
    <3>4. QED
      BY <3>1, <3>2, <3>3
  <2>3. QED
    BY <2>1, <2>2
<1>4. ~Walking(o) => Len(c) = Len(r.cells)
  BY <1>1 DEF Emptied
<1>5. Len(c) \in Nat
  BY <1>3
<1>6. Scheduled(o, r) =
        [r EXCEPT !.status = "Pending", !.completed = FALSE,
                  !.mode = IF ~Walking(o) THEN @
                           ELSE IF Version[o] = "v1" THEN "next" ELSE "bulk",
                  !.cursor = 0, !.cells = c, !.offset = 0,
                  !.batchLimit = Len(c), !.id = 0, !.sent = FALSE,
                  !.attempts = 0, !.startedAt = 0]
  BY DEF Scheduled
<1> DEFINE m == IF ~Walking(o) THEN r.mode
                ELSE IF Version[o] = "v1" THEN "next" ELSE "bulk"
<1>7. m \in Mode
  BY DEF OperationState
<1>8. Scheduled(o, r) =
        [r EXCEPT !.status = "Pending", !.completed = FALSE, !.mode = m,
                  !.cursor = 0, !.cells = c, !.offset = 0,
                  !.batchLimit = Len(c), !.id = 0, !.sent = FALSE,
                  !.attempts = 0, !.startedAt = 0]
  BY <1>6
<1>9. 0 \in 0..Rows /\ 0 \in 0..MaxID /\ 0 \in 0..Retries /\ 0 \in Tick
  BY Constants
<1> HIDE DEF c, m
<1>10. Scheduled(o, r) \in OperationState
  <2> DEFINE x == [r EXCEPT !.status = "Pending", !.completed = FALSE,
                            !.mode = m, !.cursor = 0, !.cells = c]
             y == [x EXCEPT !.offset = 0, !.batchLimit = Len(c), !.id = 0,
                            !.sent = FALSE, !.attempts = 0, !.startedAt = 0]
  <2>1. x \in OperationState
    BY <1>3, <1>7, <1>9 DEF OperationState
  <2>2. Scheduled(o, r) = y
    BY <1>8 DEF OperationState
  <2> HIDE DEF x
  <2>3. y \in OperationState
    BY <2>1, <1>5, <1>9 DEF OperationState
  <2>4. QED
    BY <2>2, <2>3
<1>11. /\ Scheduled(o, r).status = "Pending" /\ Scheduled(o, r).cells = c
       /\ Scheduled(o, r).sent = FALSE /\ Scheduled(o, r).offset = 0
  BY <1>8 DEF OperationState
<1>12. QED
  BY <1>4, <1>10, <1>11

LEMMA StartStep ==
  ASSUME OpInv, nextID \in 0..MaxID, NEW o \in Op, Start(o) PROVE OpInv'
<1>1. op[o] \in OperationState
  BY DEF OpInv
<1>2. op[o].cells \in Seq(Cell)
  BY <1>1 DEF OperationState
<1> DEFINE r == Scheduled(o, op[o])
<1>3. /\ r \in OperationState /\ r.status = "Pending" /\ r.sent = FALSE
      /\ r.offset = 0 /\ (~Walking(o) => Len(r.cells) = Len(op[o].cells))
  BY <1>1, ScheduledType
<1>4. op' = [op EXCEPT ![o] = r]
  BY DEF Start
<1> HIDE DEF r
<1>5. op' \in [Op -> OperationState] /\ op'[o] = r
  BY <1>3, <1>4 DEF OpInv
<1>6. \A p \in Op \ {o} : op'[p] = op[p]
  BY <1>4 DEF OpInv
<1>7. PICK s \in Slot : slots[s] = None /\ slots' = [slots EXCEPT ![s] = o]
  BY DEF Start
<1>8. slots' \in [Slot -> Op \cup {None}]
  BY <1>7 DEF OpInv
<1>9. \A t \in Slot : slots'[t] = IF t = s THEN o ELSE slots[t]
  BY <1>7 DEF OpInv
<1>10. op[o].status # "Pending"
  BY DEF Start
<1>11. SlotAgreement'
  <2>1. \A t \in Slot : slots[t] # o
    BY <1>10, Constants DEF OpInv, SlotAgreement, Pending
  <2>2. ASSUME NEW t \in Slot, slots'[t] # None
        PROVE  op'[slots'[t]].status = "Pending"
    <3>1. CASE t = s
      BY <3>1, <1>3, <1>5, <1>9
    <3>2. CASE t # s
      BY <3>2, <2>1, <2>2, <1>6, <1>9 DEF OpInv, SlotAgreement, Pending
    <3>3. QED
      BY <3>1, <3>2
  <2>3. ASSUME NEW t \in Slot, NEW u \in Slot,
               slots'[t] # None, slots'[t] = slots'[u]
        PROVE  t = u
    BY <2>1, <2>3, <1>9 DEF OpInv, SlotAgreement
  <2>4. ASSUME NEW p \in Op, op'[p].status = "Pending"
        PROVE  \E t \in Slot : slots'[t] = p
    <3>1. CASE p = o
      BY <3>1, <1>9
    <3>2. CASE p # o
      <4>1. PICK t \in Slot : slots[t] = p
        BY <3>2, <2>4, <1>6 DEF OpInv, SlotAgreement, Pending
      <4>2. t # s
        BY <4>1, <1>7, Constants
      <4>3. QED
        BY <4>1, <4>2, <1>9
    <3>3. QED
      BY <3>1, <3>2
  <2>5. QED
    BY <2>2, <2>3, <2>4 DEF SlotAgreement, Pending
<1>12. Frame'
  <2>1. Framed(o, r)
    <3>1. ~Walking(o) => Len(op[o].cells) > 0
      BY <1>2 DEF Start
    <3>2. QED
      BY <3>1, <1>3 DEF Framed
  <2>2. QED
    BY <2>1, <1>5, <1>6 DEF OpInv, Frame
<1>13. [NoHistory EXCEPT !.floor = nextID] \in History
  BY DEF NoHistory, History
<1>14. hist' \in [Op -> History]
  BY <1>13 DEF Start, OpInv
<1>15. active' \subseteq Op \cup {None}
  BY DEF Start, OpInv
<1>16. QED
  BY <1>5, <1>8, <1>11, <1>12, <1>14, <1>15 DEF OpInv

LEMMA CancelStep == ASSUME OpInv, NEW o \in Op, Cancel(o) PROVE OpInv'
<1>1. op[o] \in OperationState
  BY DEF OpInv
<1>2. Finish(o, op[o], "Cancelled")
  BY DEF Cancel
<1>3. QED
  BY <1>1, <1>2, FinishStep

LEMMA TakeCompletedStep ==
  ASSUME OpInv, NEW o \in Op, TakeCompleted(o) PROVE OpInv'
<1>1. op[o] \in OperationState /\ hist[o] \in History
  BY DEF OpInv
<1> DEFINE r == [op[o] EXCEPT !.completed = FALSE]
<1>2. op' = [op EXCEPT ![o] = r]
  BY DEF TakeCompleted
<1>3. r \in OperationState /\ r.status = op[o].status
  BY <1>1 DEF OperationState
<1>4. Framed(o, op[o]) => Framed(o, r)
  BY <1>1 DEF Framed, OperationState
<1> HIDE DEF r
<1>5. op' \in [Op -> OperationState] /\ op'[o] = r
  BY <1>2, <1>3 DEF OpInv
<1>6. \A p \in Op \ {o} : op'[p] = op[p]
  BY <1>2 DEF OpInv
<1>7. SlotAgreement'
  BY <1>3, <1>5, <1>6 DEF TakeCompleted, OpInv, SlotAgreement, Pending
<1>8. Frame'
  BY <1>4, <1>5, <1>6 DEF OpInv, Frame
<1>9. [hist[o] EXCEPT !.taken = @ + 1] \in History
  BY <1>1 DEF History
<1>10. hist' \in [Op -> History]
  BY <1>9 DEF OpInv, TakeCompleted
<1>11. QED
  BY <1>5, <1>7, <1>8, <1>10 DEF OpInv, TakeCompleted

LEMMA DestroyOperationStep ==
  ASSUME OpInv, NEW o \in Op, DestroyOperation(o) PROVE OpInv'
<1>1. op[o] \in OperationState
  BY DEF OpInv
<1> DEFINE r == [op[o] EXCEPT !.status = "Destroyed"]
<1>2. op' = [op EXCEPT ![o] = r]
  BY DEF DestroyOperation
<1>3. r \in OperationState /\ r.status # "Pending"
  BY <1>1 DEF OperationState
<1> HIDE DEF r
<1>4. op' \in [Op -> OperationState] /\ op'[o] = r
  BY <1>2, <1>3 DEF OpInv
<1>5. \A p \in Op \ {o} : op'[p] = op[p]
  BY <1>2 DEF OpInv
<1>6. \A t \in Slot : slots'[t] = IF slots[t] = o THEN None ELSE slots[t]
  BY DEF DestroyOperation, Without
<1>7. slots' \in [Slot -> Op \cup {None}]
  BY DEF OpInv, DestroyOperation, Without
<1>8. SlotAgreement'
  BY <1>3, <1>4, <1>5, <1>6, <1>7, ReleaseKeepsAgreement DEF OpInv
<1>9. Frame'
  BY <1>3, <1>4, <1>5 DEF OpInv, Frame, Framed
<1>10. QED
  BY <1>4, <1>7, <1>8, <1>9 DEF OpInv, DestroyOperation

-----------------------------------------------------------------------------
(***************************************************************************)
(* Datagrams.                                                              *)
(***************************************************************************)
LEMMA ResendType ==
  ASSUME NEW o \in Op, NEW r \in OperationState
  PROVE  /\ Resend(r) \in OperationState
         /\ Resend(r).status = r.status
         /\ Framed(o, r) => Framed(o, Resend(r))
<1>1. 0 \in 0..Retries
  BY Constants
<1>2. Resend(r) \in OperationState
  BY <1>1 DEF Resend, OperationState
<1>3. /\ Resend(r).status = r.status /\ Resend(r).cells = r.cells
      /\ Resend(r).offset = r.offset /\ Resend(r).sent = FALSE
  BY DEF Resend, OperationState
<1>4. QED
  BY <1>2, <1>3 DEF Framed

\* The operation a reply reaches is pending and waits for that reply.
LEMMA ReachedIsWaiting ==
  ASSUME OpInv, NEW o \in Op, NEW m, Reaches(o, m)
  PROVE  Pending(o) /\ op[o].sent
<1>1. PICK t \in Slot : slots[t] = o /\ Matches(t, m)
  BY DEF Reaches
<1>2. QED
  BY <1>1 DEF OpInv, SlotAgreement, Matches

\* The fields of a waiting operation, its request sent again after a change
\* of mode or batch limit.
LEMMA ResendStep ==
  ASSUME OpInv, NEW o \in Op, NEW r \in OperationState,
         r.status = op[o].status, r.cells = op[o].cells,
         r.offset = op[o].offset, Continue(o, Resend(r))
  PROVE  OpInv'
<1>1. Framed(o, op[o])
  BY DEF OpInv, Frame
<1>2. Framed(o, Resend(r))
  BY <1>1 DEF Framed, Resend, OperationState
<1>3. QED
  BY <1>2, ResendType, ContinueStep

LEMMA ReplyNoSuchNameStep ==
  ASSUME OpInv, NEW o \in Op, Pending(o), op[o].sent, ReplyNoSuchName(o)
  PROVE  OpInv'
<1>1. op[o] \in OperationState /\ Framed(o, op[o]) /\ ~Walking(o)
  BY DEF OpInv, Frame, ReplyNoSuchName
<1>2. op[o].cells \in Seq(Cell) /\ op[o].offset \in Nat /\ op[o].batch \in Nat
  BY <1>1 DEF OperationState
<1>3. op[o].offset < Len(op[o].cells) /\ Len(op[o].cells) \in Nat
  BY <1>1, <1>2 DEF Framed, Pending
<1>4. CASE op[o].batch > 1
  <2> DEFINE r == [op[o] EXCEPT !.batchLimit = 1]
  <2>1. r \in OperationState
    BY <1>1 DEF OperationState
  <2>2. r.status = op[o].status /\ r.cells = op[o].cells
        /\ r.offset = op[o].offset
    BY <1>1 DEF OperationState
  <2>3. Continue(o, Resend(r))
    BY <1>4 DEF ReplyNoSuchName
  <2> HIDE DEF r
  <2>4. QED
    BY <2>1, <2>2, <2>3, ResendStep
<1>5. CASE ~(op[o].batch > 1)
  <2> DEFINE j == op[o].offset + 1
             c == [op[o].cells EXCEPT ![j] = [@ EXCEPT !.status = "Missing"]]
             r == [op[o] EXCEPT !.cells = c, !.offset = j]
             n == Len(r.cells)
  <2>1. op[o].cells[j] \in Cell
    BY <1>2, <1>3
  <2>2. [op[o].cells[j] EXCEPT !.status = "Missing"] \in Cell
    BY <2>1 DEF Cell
  <2>3. c \in Seq(Cell) /\ Len(c) = Len(op[o].cells)
    BY <1>2, <1>3, <2>2
  <2>4. j \in Nat /\ j <= Len(c)
    BY <1>2, <1>3, <2>3
  <2>5. IF j = n
        THEN Finish(o, r, IF n = 1 THEN "Missing" ELSE "Partial")
        ELSE Continue(o, Resend(r))
    BY <1>5 DEF ReplyNoSuchName
  <2> HIDE DEF c, j
  <2>6. r \in OperationState /\ r.status = op[o].status /\ r.cells = c
        /\ r.offset = j
    BY <1>1, <2>3, <2>4 DEF OperationState
  <2> HIDE DEF r
  <2>7. CASE j = n
    BY <2>5, <2>6, <2>7, FinishStep
  <2>8. CASE j # n
    <3>1. Framed(o, Resend(r))
      BY <2>3, <2>4, <2>6, <2>8, <1>2 DEF Framed, Resend, OperationState
    <3>2. QED
      BY <3>1, <2>5, <2>6, <2>8, ResendType, ContinueStep
  <2>9. QED
    BY <2>7, <2>8
<1>6. QED
  BY <1>4, <1>5

LEMMA ReplyTooBigStep ==
  ASSUME OpInv, NEW o \in Op, ReplyTooBig(o) PROVE OpInv'
<1>1. op[o] \in OperationState
  BY DEF OpInv
<1>2. op[o].batch \div 2 \in Nat
  BY <1>1 DEF OperationState
<1> DEFINE r == [op[o] EXCEPT !.batchLimit = op[o].batch \div 2]
<1>3. r \in OperationState
  BY <1>1, <1>2 DEF OperationState
<1>4. r.status = op[o].status /\ r.cells = op[o].cells
      /\ r.offset = op[o].offset
  BY <1>1 DEF OperationState
<1>5. Continue(o, Resend(r))
  BY DEF ReplyTooBig
<1> HIDE DEF r
<1>6. QED
  BY <1>3, <1>4, <1>5, ResendStep

\* The fallback from GETBULK to GETNEXT, for whichever of its three causes.
LEMMA FallBackStep ==
  ASSUME OpInv, NEW o \in Op,
         Continue(o, Resend([op[o] EXCEPT !.mode = "next"]))
  PROVE  OpInv'
<1>1. op[o] \in OperationState
  BY DEF OpInv
<1> DEFINE r == [op[o] EXCEPT !.mode = "next"]
<1>2. r \in OperationState
  BY <1>1 DEF OperationState
<1>3. r.status = op[o].status /\ r.cells = op[o].cells
      /\ r.offset = op[o].offset
  BY <1>1 DEF OperationState
<1>4. QED
  BY <1>2, <1>3, ResendStep

\* A run that ends with the fields it has.
LEMMA EndStep ==
  ASSUME OpInv, NEW o \in Op, NEW s \in Terminal, Finish(o, op[o], s)
  PROVE  OpInv'
<1>1. op[o] \in OperationState
  BY DEF OpInv
<1>2. QED
  BY <1>1, FinishStep

LEMMA FilledType ==
  ASSUME NEW c \in Cell, NEW s \in CellOutcomes, NEW src \in Origin
  PROVE  Filled(c, s, src) \in Cell /\ Filled(c, s, src).status = s
<1>1. NoSource \in Origin
  BY Constants DEF NoSource
<1>2. s \in CellStatus
  BY Constants
<1>3. QED
  BY <1>1, <1>2 DEF Filled, Cell

LEMMA ReplyBindingsStep ==
  ASSUME OpInv, NEW o \in Op, NEW m, Source(m) \in Origin,
         Pending(o), op[o].sent, ReplyBindings(o, m)
  PROVE  OpInv'
<1>1. op[o] \in OperationState /\ Framed(o, op[o]) /\ ~Walking(o)
  BY DEF OpInv, Frame, ReplyBindings
<1>2. op[o].cells \in Seq(Cell) /\ op[o].offset \in Nat /\ op[o].batch \in Nat
  BY <1>1 DEF OperationState
<1> DEFINE old == op[o].cells
           first == op[o].offset
           last == first + op[o].batch
           n == Len(old)
<1>3. first < n /\ last <= n /\ n \in Nat
  BY <1>1, <1>2 DEF Framed, Pending
<1>4. PICK outcome \in [1..op[o].batch -> CellOutcomes] :
        LET cells == [i \in 1..n |->
                        IF first < i /\ i <= last
                        THEN Filled(old[i], outcome[i - first], Source(m))
                        ELSE old[i]]
            r == Resend([op[o] EXCEPT !.cells = cells, !.offset = last])
        IN IF last = Len(cells) THEN Finish(o, r, Summary(cells))
                                ELSE Continue(o, r)
  BY DEF ReplyBindings
<1> DEFINE e(i) == IF first < i /\ i <= last
                   THEN Filled(old[i], outcome[i - first], Source(m))
                   ELSE old[i]
           c == [i \in 1..n |-> e(i)]
           q == [op[o] EXCEPT !.cells = c, !.offset = last]
<1>5. IF last = Len(c) THEN Finish(o, Resend(q), Summary(c))
                       ELSE Continue(o, Resend(q))
  BY <1>4
<1>6. \A i \in 1..n : e(i) \in Cell
  <2>1. TAKE i \in 1..n
  <2>2. old[i] \in Cell
    BY <1>2
  <2>3. CASE first < i /\ i <= last
    <3>1. outcome[i - first] \in CellOutcomes
      BY <2>3, <1>2
    <3>2. QED
      BY <3>1, <2>2, <2>3, FilledType
  <2>4. QED
    BY <2>2, <2>3
<1>7. n = 1 /\ last = n => e(1).status \in CellOutcomes
  <2>1. SUFFICES ASSUME n = 1, last = n PROVE e(1).status \in CellOutcomes
    OBVIOUS
  <2>2. first = 0 /\ op[o].batch = 1 /\ old[1] \in Cell
    BY <2>1, <1>2, <1>3
  <2>3. outcome[1] \in CellOutcomes
    BY <2>2
  <2>4. e(1) = Filled(old[1], outcome[1], Source(m))
    BY <2>1, <2>2
  <2>5. QED
    BY <2>2, <2>3, <2>4, FilledType
<1> HIDE DEF e
<1>8. c \in Seq(Cell) /\ Len(c) = n
  BY <1>3, <1>6
<1>9. last = n => Summary(c) \in Terminal
  <2>1. n = 1 => c[1] = e(1)
    OBVIOUS
  <2>2. QED
    BY <2>1, <1>7, <1>8, Constants DEF Summary
<1> HIDE DEF c
<1> DEFINE l == last
<1>10. l \in Nat /\ q = [op[o] EXCEPT !.cells = c, !.offset = l]
  BY <1>2
<1> HIDE DEF q, l
<1>11. q \in OperationState /\ q.status = op[o].status /\ q.cells = c
       /\ q.offset = last
  <2>1. q \in OperationState /\ q.status = op[o].status /\ q.cells = c
        /\ q.offset = l
    BY <1>1, <1>8, <1>10 DEF OperationState
  <2>2. QED
    BY <2>1 DEF l
<1>12. Resend(q) \in OperationState /\ Resend(q).status = op[o].status
  BY <1>11, ResendType
<1>13. CASE last = n
  BY <1>5, <1>8, <1>9, <1>12, <1>13, FinishStep
<1>14. CASE last # n
  <2>1. Framed(o, Resend(q))
    BY <1>2, <1>3, <1>8, <1>11, <1>14 DEF Framed, Resend, OperationState
  <2>2. QED
    BY <2>1, <1>5, <1>8, <1>12, <1>14, ContinueStep
<1>15. QED
  BY <1>13, <1>14

\* Every datagram that can arrive carries an ID the client has used.
LEMMA MessageType ==
  ASSUME EnvInv, NEW m \in Answers \cup Strays
  PROVE  Source(m) \in Origin
<1>1. nextID \in 0..MaxID /\ MaxID \in Nat
  BY Constants DEF EnvInv
<1>2. CASE m \in Answers
  <2>1. PICK q \in wire : m = [id |-> q.id, from |-> DeviceOf[q.op], to |-> q.op]
    BY <1>2 DEF Answers
  <2>2. q \in Datagram
    BY <2>1 DEF EnvInv
  <2>3. m.id \in 0..MaxID /\ m.to \in Op
    BY <2>1, <2>2, <1>1 DEF Datagram
  <2>4. QED
    BY <2>3 DEF Source
<1>3. CASE m \in Strays
  <2>1. m \in [id : 1..nextID, from : Device, to : {None}]
    BY <1>3 DEF Strays
  <2>2. m.id \in 0..MaxID /\ m.to = None
    BY <2>1, <1>1
  <2>3. QED
    BY <2>2 DEF Source
<1>4. QED
  BY <1>2, <1>3

\* receive() starts the pass, or the delivery of a walk's reply.
LEMMA ReceiveStep ==
  ASSUME OpInv, EnvInv, Receive PROVE OpInv' /\ EnvInv'
<1>1. UNCHANGED <<begun, nextID, now, wire>>
  BY DEF Receive
<1>2. ASSUME ToPass, UNCHANGED rx PROVE EnvInv'
  BY <1>1, <1>2, Constants DEF EnvInv, ToPass, PC
<1>3. CASE ReceiveNothing /\ ToPass /\ UNCHANGED rx
  <2>1. OpInv'
    BY <1>3 DEF ReceiveNothing, OpInv, SlotAgreement, Frame, Pending
  <2>2. QED
    BY <2>1, <1>2, <1>3
<1>4. CASE ReceiveNotification /\ ToPass /\ UNCHANGED rx
  <2>1. OpInv'
    BY <1>4 DEF ReceiveNotification, OpInv, SlotAgreement, Frame, Pending
  <2>2. QED
    BY <2>1, <1>2, <1>4
<1>5. ASSUME NEW m \in Answers \cup Strays, NEW o \in Op, ReceiveReply(o, m)
      PROVE  OpInv' /\ EnvInv'
  <2>1. Pending(o) /\ op[o].sent
    BY <1>5, ReachedIsWaiting DEF ReceiveReply
  <2>2. Source(m) \in Origin
    BY MessageType
  <2>3. ASSUME \/ ReplyInvalidError(o) \/ ReplyNoSuchName(o) \/ ReplyTooBig(o)
               \/ ReplyEndOfWalk(o) \/ ReplyBulkTooBig(o)
               \/ \E e \in {"tooBig", "noSuchName", "other"} : ReplyError(o, e)
               \/ ReplyWrongBindings(o) \/ ReplyBindings(o, m)
        PROVE  OpInv'
    <3>1. CASE ReplyInvalidError(o)
      BY <3>1, EndStep DEF ReplyInvalidError
    <3>2. CASE ReplyNoSuchName(o)
      BY <3>2, <2>1, ReplyNoSuchNameStep
    <3>3. CASE ReplyTooBig(o)
      BY <3>3, ReplyTooBigStep
    <3>4. CASE ReplyEndOfWalk(o)
      BY <3>4, EndStep DEF ReplyEndOfWalk
    <3>5. CASE ReplyBulkTooBig(o)
      BY <3>5, FallBackStep DEF ReplyBulkTooBig
    <3>6. ASSUME NEW e \in {"tooBig", "noSuchName", "other"}, ReplyError(o, e)
          PROVE  OpInv'
      BY <3>6, EndStep DEF ReplyError
    <3>7. CASE ReplyWrongBindings(o)
      BY <3>7, EndStep DEF ReplyWrongBindings
    <3>8. CASE ReplyBindings(o, m)
      BY <3>8, <2>1, <2>2, ReplyBindingsStep
    <3>9. QED
      BY <2>3, <3>1, <3>2, <3>3, <3>4, <3>5, <3>6, <3>7, <3>8
  <2>4. CASE ReplyWalk(o, m) /\ UNCHANGED <<op, slots, active, hist, k>>
    <3>1. OpInv'
      BY <2>4 DEF OpInv, SlotAgreement, Frame, Pending
    <3>2. op[o].id \in 0..MaxID
      BY DEF OpInv, OperationState
    <3>3. NoDelivery \in Delivery
      BY Constants DEF NoDelivery, NoSource, Delivery
    <3>4. rx' \in Delivery /\ rx'.op = o
      BY <2>2, <2>4, <3>2, <3>3 DEF ReplyWalk, Delivery
    <3>5. EnvInv'
      BY <2>4, <3>4, <1>1 DEF ReplyWalk, EnvInv, PC
    <3>6. QED
      BY <3>1, <3>5
  <2>5. QED
    BY <1>2, <1>5, <2>3, <2>4 DEF ReceiveReply
<1>6. QED
  BY <1>3, <1>4, <1>5 DEF Receive

-----------------------------------------------------------------------------
(***************************************************************************)
(* Walks.                                                                  *)
(***************************************************************************)
LEMMA DeliveryEndsStep ==
  ASSUME EnvInv, DeliveryEnds, UNCHANGED <<begun, nextID, now, wire>>
  PROVE  EnvInv'
<1>1. NoDelivery \in Delivery
  BY Constants DEF NoDelivery, NoSource, Delivery
<1>2. QED
  BY <1>1, Constants DEF EnvInv, DeliveryEnds, ToPass, PC

LEMMA WalkCollectStep ==
  ASSUME OpInv, EnvInv, rx.op \in Op, NEW name \in 0..(Rows + 1),
         WalkCollect(name), UNCHANGED <<begun, nextID, now, wire>>
  PROVE  OpInv' /\ EnvInv'
<1> DEFINE o == rx.op
<1>1. op[o] \in OperationState /\ Framed(o, op[o])
  BY DEF OpInv, Frame
<1>2. CASE Finish(o, op[o], "CapacityExceeded") /\ DeliveryEnds
  BY <1>2, EndStep, DeliveryEndsStep
<1>3. ASSUME NEW s \in CellOutcomes,
             Continue(o, [op[o] EXCEPT
               !.cells = Append(@, Filled(FreshCell(name), s, rx.src)),
               !.cursor = name])
      PROVE  OpInv'
  <2> DEFINE c == Append(op[o].cells, Filled(FreshCell(name), s, rx.src))
             r == [op[o] EXCEPT !.cells = c, !.cursor = name]
  <2>1. name \in Nat /\ name \in 0..Rows
    <3>1. name <= Rows
      BY DEF WalkCollect
    <3>2. QED
      BY <3>1, Constants
  <2>2. rx.src \in Origin
    BY DEF EnvInv, Delivery
  <2>3. Filled(FreshCell(name), s, rx.src) \in Cell
    BY <2>1, <2>2, FreshCellType, FilledType
  <2>4. c \in Seq(Cell)
    BY <1>1, <2>3 DEF OperationState
  <2>5. Continue(o, r)
    BY <1>3
  <2> HIDE DEF c
  <2>6. r \in OperationState /\ r.status = op[o].status /\ r.sent = op[o].sent
        /\ r.id = op[o].id
    BY <1>1, <2>1, <2>4 DEF OperationState
  <2>7. Walking(o)
    BY DEF WalkCollect, Walking
  <2>8. Framed(o, r)
    BY <1>1, <2>6, <2>7 DEF Framed
  <2> HIDE DEF r
  <2>9. QED
    BY <2>5, <2>6, <2>8, ContinueStep
<1>4. ASSUME rx' = [rx EXCEPT !.any = TRUE], UNCHANGED <<pc, k>>
      PROVE  EnvInv'
  <2>1. rx' \in Delivery /\ rx'.op = o
    BY <1>4 DEF EnvInv, Delivery
  <2>2. QED
    BY <1>4, <2>1 DEF EnvInv
<1>5. QED
  BY <1>2, <1>3, <1>4 DEF WalkCollect

LEMMA WalkStreamStep ==
  ASSUME OpInv, EnvInv, rx.op \in Op, NEW name \in 0..(Rows + 1),
         WalkStream(name), UNCHANGED <<begun, nextID, now, wire>>
  PROVE  OpInv' /\ EnvInv'
<1>1. name \in 0..Rows
  BY Constants DEF WalkStream
<1>2. rx' \in Delivery /\ rx'.op \in Op
  BY <1>1 DEF WalkStream, EnvInv, Delivery
<1>3. EnvInv'
  BY <1>2 DEF WalkStream, EnvInv, PC
<1>4. OpInv'
  BY DEF WalkStream, OpInv, SlotAgreement, Frame, Pending
<1>5. QED
  BY <1>3, <1>4

LEMMA WalkEndOfListStep ==
  ASSUME OpInv, EnvInv, rx.op \in Op, WalkEndOfList,
         UNCHANGED <<begun, nextID, now, wire>>
  PROVE  OpInv' /\ EnvInv'
<1> DEFINE o == rx.op
           r == op[o]
<1>1. r \in OperationState
  BY DEF OpInv
<1>2. EnvInv'
  BY DeliveryEndsStep DEF WalkEndOfList
<1>3. CASE Continue(o, Resend(r))
  BY <1>1, <1>2, <1>3, ResendStep
<1>4. CASE Continue(o, Resend([r EXCEPT !.mode = "next"]))
  BY <1>2, <1>4, FallBackStep
<1>5. CASE Finish(o, r, "ProtocolError")
  BY <1>2, <1>5, EndStep
<1>6. QED
  BY <1>2, <1>3, <1>4, <1>5 DEF WalkEndOfList

LEMMA WalkBindingStep ==
  ASSUME OpInv, EnvInv, WalkBinding PROVE OpInv' /\ EnvInv'
<1>1. UNCHANGED <<begun, nextID, now, wire>>
  BY DEF WalkBinding
<1>2. rx.op \in Op
  BY DEF WalkBinding, EnvInv
<1>3. ASSUME NEW s \in Terminal, Finish(rx.op, op[rx.op], s), DeliveryEnds
      PROVE  OpInv' /\ EnvInv'
  BY <1>1, <1>2, <1>3, EndStep, DeliveryEndsStep
<1>4. CASE WalkEndOfMib
  BY <1>4, <1>3 DEF WalkEndOfMib
<1>5. ASSUME NEW name \in 0..(Rows + 1),
             \/ WalkNotIncreasing(name) \/ WalkLeavesSubtree(name)
             \/ WalkCollect(name) \/ WalkStream(name)
      PROVE  OpInv' /\ EnvInv'
  <2>1. CASE WalkNotIncreasing(name)
    BY <2>1, <1>3 DEF WalkNotIncreasing
  <2>2. CASE WalkLeavesSubtree(name)
    BY <2>2, <1>3 DEF WalkLeavesSubtree
  <2>3. CASE WalkCollect(name)
    BY <2>3, <1>1, <1>2, WalkCollectStep
  <2>4. CASE WalkStream(name)
    BY <2>4, <1>1, <1>2, WalkStreamStep
  <2>5. QED
    BY <1>5, <2>1, <2>2, <2>3, <2>4
<1>6. CASE WalkEndOfList
  BY <1>6, <1>1, <1>2, WalkEndOfListStep
<1>7. QED
  BY <1>4, <1>5, <1>6 DEF WalkBinding

LEMMA StreamContinueStep ==
  ASSUME OpInv, EnvInv, StreamContinue PROVE OpInv' /\ EnvInv'
<1> DEFINE o == rx.op
<1>1. o \in Op /\ rx.name \in 0..Rows
  BY DEF StreamContinue, EnvInv, Delivery
<1>2. op[o] \in OperationState /\ Framed(o, op[o])
  BY <1>1 DEF OpInv, Frame
<1>3. CASE SameRun
  <2> DEFINE r == [op[o] EXCEPT !.cursor = rx.name]
  <2>1. op' = [op EXCEPT ![o] = r] /\ UNCHANGED <<slots, hist>> /\ active' = {}
    BY <1>3 DEF StreamContinue
  <2>2. r \in OperationState /\ r.status = op[o].status
    BY <1>1, <1>2 DEF OperationState
  <2>3. Framed(o, r)
    BY <1>2 DEF Framed, OperationState
  <2> HIDE DEF r
  <2>4. op' \in [Op -> OperationState] /\ op'[o] = r
    BY <1>1, <2>1, <2>2 DEF OpInv
  <2>5. \A p \in Op \ {o} : op'[p] = op[p]
    BY <2>1 DEF OpInv
  <2>6. SlotAgreement' /\ Frame'
    BY <2>1, <2>2, <2>3, <2>4, <2>5 DEF OpInv, SlotAgreement, Frame, Pending
  <2>7. EnvInv'
    BY <1>1, <1>3 DEF StreamContinue, EnvInv, PC
  <2>8. QED
    BY <2>1, <2>4, <2>6, <2>7 DEF OpInv
<1>4. CASE ~SameRun
  <2>1. OpInv'
    BY <1>4 DEF StreamContinue, OpInv, SlotAgreement, Frame, Pending
  <2>2. EnvInv'
    BY <1>4, DeliveryEndsStep DEF StreamContinue
  <2>3. QED
    BY <2>1, <2>2
<1>5. QED
  BY <1>3, <1>4

LEMMA StreamStopStep ==
  ASSUME OpInv, EnvInv, StreamStop PROVE OpInv' /\ EnvInv'
<1>1. rx.op \in Op
  BY DEF StreamStop, EnvInv
<1>2. QED
  BY <1>1, EndStep, DeliveryEndsStep DEF StreamStop

-----------------------------------------------------------------------------
(***************************************************************************)
(* loop(): transmission and the pass.                                      *)
(***************************************************************************)
LEMMA LoopStep ==
  ASSUME OpInv, EnvInv, NEW d \in 0..MaxStall, Loop(d) PROVE OpInv' /\ EnvInv'
<1>1. d \in Nat
  BY Constants
<1>2. now' \in Tick
  <2>1. now \in Nat /\ now + d \in Nat
    BY <1>1, Constants DEF EnvInv, Tick
  <2>2. ClockModulus \in Nat \ {0}
    BY Constants
  <2>3. \A n \in Nat : n % ClockModulus \in 0..(ClockModulus - 1)
    BY <2>2
  <2>4. now' = (now + d) % ClockModulus
    BY DEF Loop
  <2>5. QED
    BY <2>1, <2>3, <2>4 DEF Tick
<1>3. EnvInv'
  BY <1>2 DEF Loop, EnvInv, PC
<1>4. ASSUME NEW o \in Op
      PROVE  [hist[o] EXCEPT
                !.waited = IF Pending(o) /\ op[o].sent
                           THEN Least(@ + d, TimeoutMs) ELSE 0,
                !.aged = IF Pending(o) /\ op[o].id # 0
                         THEN Least(@ + d, WalkDeadline) ELSE 0]
               \in History
  <2> DEFINE w == Least(hist[o].waited + d, TimeoutMs)
             g == Least(hist[o].aged + d, WalkDeadline)
  <2>1. hist[o] \in History
    BY DEF OpInv
  <2>2. w \in Nat /\ g \in Nat
    BY <1>1, <2>1, Constants DEF History, Least
  <2> HIDE DEF w, g
  <2>3. \A x, y \in Nat : [hist[o] EXCEPT !.waited = x, !.aged = y] \in History
    BY <2>1 DEF History
  <2>4. QED
    BY <2>2, <2>3 DEF w, g, History
<1>5. hist' \in [Op -> History]
  BY <1>4 DEF Loop
<1>6. OpInv'
  BY <1>5 DEF Loop, OpInv, SlotAgreement, Frame, Pending
<1>7. QED
  BY <1>3, <1>6

LEMMA BatchSizeType ==
  ASSUME NEW o \in Op, NEW r \in OperationState,
         ~Walking(o) => r.offset < Len(r.cells)
  PROVE  /\ BatchSize(o, r) \in Nat
         /\ ~Walking(o) => r.offset + BatchSize(o, r) <= Len(r.cells)
<1>1. /\ r.cells \in Seq(Cell) /\ r.offset \in Nat /\ r.batchLimit \in Nat
      /\ Fit[o] \in Nat
  BY Constants DEF OperationState
<1>2. Len(r.cells) \in Nat
  BY <1>1
<1>3. QED
  BY <1>1, <1>2 DEF BatchSize, Least

LEMMA CountedType ==
  ASSUME NEW h \in History, NEW new \in BOOLEAN
  PROVE  Counted(h, new) \in History
<1> DEFINE c == IF new THEN 1 ELSE h.copies + 1
           u == IF new THEN h.used + 1 ELSE h.used
<1>1. h.copies \in Nat /\ h.used \in Nat
  BY DEF History
<1>2. c \in Nat /\ u \in Nat
  BY <1>1
<1>3. Counted(h, new) = [h EXCEPT !.copies = c, !.used = u, !.waited = 0]
  BY DEF Counted
<1> HIDE DEF c, u
<1>4. \A x, y \in Nat :
        [h EXCEPT !.copies = x, !.used = y, !.waited = 0] \in History
  BY DEF History
<1>5. QED
  BY <1>2, <1>3, <1>4

\* send(), for an operation that is pending and whose fields, apart from the
\* counters set just before, have become r0.
LEMMA SendStep ==
  ASSUME OpInv, EnvInv, NEW o \in Op, Pending(o), NEW r0 \in OperationState,
         r0.status = op[o].status, Framed(o, r0), Send(o, r0)
  PROVE  OpInv' /\ nextID' \in 0..MaxID /\ wire' \subseteq Datagram
<1> DEFINE b == BatchSize(o, r0)
           r == [r0 EXCEPT !.batch = b]
           q == Numbered(r)
<1>1. /\ r0.status = "Pending"
      /\ ~Walking(o) => r0.offset < Len(r0.cells)
      /\ r0.sent => r0.id # 0
  BY DEF Pending, Framed
<1>2. b \in Nat /\ (~Walking(o) => r0.offset + b <= Len(r0.cells))
  BY <1>1, BatchSizeType
<1> HIDE DEF b
<1>3. /\ r \in OperationState /\ r.status = "Pending" /\ r.sent = r0.sent
      /\ r.id = r0.id /\ r.cells = r0.cells /\ r.offset = r0.offset
      /\ r.batch = b
  BY <1>1, <1>2 DEF OperationState
<1>4. nextID \in 0..MaxID /\ MaxID \in Nat /\ wire \subseteq Datagram
  BY Constants DEF EnvInv
<1>5. CASE Unsendable(o, r)
  <2>1. Finish(o, r, "CapacityExceeded") /\ UNCHANGED <<nextID, wire>>
    BY <1>5 DEF Send, b
  <2>2. QED
    BY <2>1, <1>3, <1>4, FinishStep
<1>6. CASE ~Unsendable(o, r)
  <2>1. ~r.sent => nextID + 1 \in 1..MaxID
    BY <1>4, <1>6 DEF Unsendable
  <2>2. /\ q \in OperationState /\ q.status = "Pending" /\ q.cells = r0.cells
        /\ q.offset = r0.offset /\ q.batch = b /\ q.id \in 1..MaxID
        /\ (~r0.sent => q.id = nextID + 1)
    <3>1. CASE r.sent
      <4>1. q = r
        BY <3>1 DEF Numbered
      <4>2. r.id \in 0..MaxID /\ r.id # 0
        BY <1>1, <1>3, <3>1 DEF OperationState
      <4>3. r.id \in 1..MaxID
        BY <4>2, <1>4
      <4> HIDE DEF q, r
      <4>4. QED
        BY <4>1, <4>3, <1>3, <3>1
    <3>2. CASE ~r.sent
      <4>1. q = [r EXCEPT !.id = nextID + 1]
        BY <3>2 DEF Numbered
      <4> DEFINE id == nextID + 1
      <4>2. id \in 1..MaxID /\ id \in 0..MaxID
        BY <2>1, <3>2, <1>4
      <4>3. q = [r EXCEPT !.id = id]
        BY <4>1
      <4> HIDE DEF id, r, q
      <4>4. /\ q \in OperationState /\ q.status = r.status
            /\ q.cells = r.cells /\ q.offset = r.offset
            /\ q.batch = r.batch /\ q.id = id
        BY <1>3, <4>2, <4>3 DEF OperationState
      <4>5. QED
        BY <4>2, <4>4, <1>3 DEF id
    <3>3. QED
      BY <3>1, <3>2
  <2>3. nextID' \in 0..MaxID
    BY <1>4, <1>6, <2>1, <2>2, <1>3 DEF Send, b
  <2>4. CASE Finish(o, q, "TransportError") /\ UNCHANGED wire
    BY <2>2, <2>3, <2>4, <1>4, FinishStep
  <2>5. CASE /\ op' = [op EXCEPT ![o] = [q EXCEPT !.sent = TRUE, !.sentAt = now]]
             /\ wire' = wire \cup {Request(o, q)}
             /\ hist' = [hist EXCEPT ![o] = Counted(hist[o], ~r0.sent)]
             /\ UNCHANGED <<slots, active>>
    <3> DEFINE x == [q EXCEPT !.sent = TRUE, !.sentAt = now]
    <3> HIDE DEF q, r
    <3>1. /\ x \in OperationState /\ x.status = "Pending" /\ x.cells = r0.cells
          /\ x.offset = r0.offset /\ x.batch = b /\ x.id \in 1..MaxID
      BY <2>2 DEF OperationState, EnvInv
    <3>2. op' = [op EXCEPT ![o] = x]
      BY <2>5
    <3>3. Request(o, q) \in Datagram
      <4>1. q.offset \in Nat /\ q.mode \in Mode /\ q.cursor \in 0..Rows
            /\ q.batch \in Nat
        BY <2>2 DEF OperationState
      <4>2. QED
        BY <4>1, <2>2 DEF Request, Datagram
    <3> HIDE DEF x
    <3>4. op' \in [Op -> OperationState] /\ op'[o] = x
      BY <3>1, <3>2 DEF OpInv
    <3>5. \A p \in Op \ {o} : op'[p] = op[p]
      BY <3>2 DEF OpInv
    <3>6. SlotAgreement'
      BY <2>5, <3>1, <3>4, <3>5 DEF OpInv, SlotAgreement, Pending
    <3>7. Framed(o, x)
      BY <1>1, <1>2, <3>1 DEF Framed
    <3>8. Frame'
      BY <3>4, <3>5, <3>7 DEF OpInv, Frame
    <3>9. hist[o] \in History /\ hist \in [Op -> History]
      BY DEF OpInv
    <3>10. hist' \in [Op -> History]
      <4>1. (~r0.sent) \in BOOLEAN
        OBVIOUS
      <4>2. Counted(hist[o], ~r0.sent) \in History
        BY <3>9, <4>1, CountedType
      <4>3. QED
        BY <2>5, <3>9, <4>2
    <3>11. QED
      BY <2>3, <2>5, <3>3, <3>4, <3>6, <3>8, <3>10, <1>4 DEF OpInv
  <2>6. QED
    BY <1>6, <2>4, <2>5, <1>3 DEF Send, b
<1>7. QED
  BY <1>5, <1>6

LEMMA PassSlotStep ==
  ASSUME OpInv, EnvInv, NEW o \in Op, Pending(o), PassSlot(o)
  PROVE  OpInv' /\ nextID' \in 0..MaxID /\ wire' \subseteq Datagram
<1>1. op[o] \in OperationState /\ Framed(o, op[o])
  BY DEF OpInv, Frame
<1>2. nextID \in 0..MaxID /\ wire \subseteq Datagram /\ now \in Tick
  BY DEF EnvInv
<1>3. CASE PassDeadline(o)
  BY <1>2, <1>3, EndStep DEF PassDeadline
<1>4. CASE PassSend(o)
  <2>1. CASE op[o].id = 0
    <3> DEFINE r == [op[o] EXCEPT !.startedAt = now]
    <3>1. Send(o, r)
      BY <1>4, <2>1 DEF PassSend
    <3>2. /\ r \in OperationState /\ r.status = op[o].status
          /\ Framed(o, op[o]) => Framed(o, r)
      BY <1>1, <1>2 DEF OperationState, Framed
    <3> HIDE DEF r
    <3>3. QED
      BY <1>1, <3>1, <3>2, SendStep
  <2>2. CASE op[o].id # 0
    BY <1>1, <1>4, <2>2, SendStep DEF PassSend
  <2>3. QED
    BY <2>1, <2>2
<1>5. CASE PassRetry(o)
  <2> DEFINE r == [op[o] EXCEPT !.attempts = @ + 1]
  <2>1. Send(o, r)
    BY <1>5 DEF PassRetry
  <2>2. op[o].attempts + 1 \in 0..Retries
    <3>1. op[o].attempts \in 0..Retries
      BY <1>1 DEF OperationState
    <3>2. op[o].attempts < Retries
      BY <1>5 DEF PassRetry, MayRetry
    <3>3. Retries \in Nat
      BY Constants
    <3>4. QED
      BY <3>1, <3>2, <3>3
  <2>3. /\ r \in OperationState /\ r.status = op[o].status
        /\ Framed(o, op[o]) => Framed(o, r)
    BY <1>1, <2>2 DEF OperationState, Framed
  <2> HIDE DEF r
  <2>4. QED
    BY <1>1, <2>1, <2>3, SendStep
<1>6. CASE PassFallBack(o)
  BY <1>2, <1>6, FallBackStep DEF PassFallBack
<1>7. CASE PassHalve(o)
  <2> DEFINE r == [op[o] EXCEPT !.batchLimit = op[o].batch \div 2]
  <2>1. op[o].batch \div 2 \in Nat
    BY <1>1 DEF OperationState
  <2>2. /\ r \in OperationState /\ r.status = op[o].status
        /\ r.cells = op[o].cells /\ r.offset = op[o].offset
    BY <1>1, <2>1 DEF OperationState
  <2>3. Continue(o, Resend(r)) /\ UNCHANGED <<nextID, wire>>
    BY <1>7 DEF PassHalve
  <2> HIDE DEF r
  <2>4. QED
    BY <1>2, <2>2, <2>3, ResendStep
<1>8. CASE PassGiveUp(o)
  BY <1>2, <1>8, EndStep DEF PassGiveUp
<1>9. CASE PassWait(o)
  BY <1>1, <1>2, <1>9, ContinueStep DEF PassWait
<1>10. QED
  BY <1>3, <1>4, <1>5, <1>6, <1>7, <1>8, <1>9 DEF PassSlot

LEMMA PassStep ==
  ASSUME OpInv, EnvInv, Pass PROVE OpInv' /\ EnvInv'
<1>1. k \in 1..MaxPending /\ k' \in 1..(MaxPending + 1)
  BY Constants DEF Pass, EnvInv
<1>2. OpInv' /\ nextID' \in 0..MaxID /\ wire' \subseteq Datagram
  <2>1. CASE PassEmpty
    BY <2>1 DEF PassEmpty, OpInv, EnvInv, SlotAgreement, Frame, Pending
  <2>2. ASSUME NEW o \in Op, slots[k] = o, PassSlot(o)
        PROVE  OpInv' /\ nextID' \in 0..MaxID /\ wire' \subseteq Datagram
    <3>1. Pending(o)
      BY <1>1, <2>2, Constants DEF OpInv, SlotAgreement
    <3>2. QED
      BY <2>2, <3>1, PassSlotStep
  <2>3. QED
    BY <2>1, <2>2 DEF Pass
<1>3. EnvInv'
  BY <1>1, <1>2 DEF Pass, EnvInv
<1>4. QED
  BY <1>2, <1>3

LEMMA DestroySlotStep ==
  ASSUME OpInv, EnvInv, DestroySlot PROVE OpInv' /\ EnvInv'
<1>1. EnvInv'
  BY Constants DEF DestroySlot, EnvInv
<1>2. CASE UNCHANGED <<op, slots, active, hist>>
  BY <1>1, <1>2 DEF OpInv, SlotAgreement, Frame, Pending
<1>3. ASSUME NEW o \in Op, Finish(o, op[o], "Cancelled") PROVE OpInv'
  BY <1>3, EndStep
<1>4. QED
  BY <1>1, <1>2, <1>3 DEF DestroySlot

-----------------------------------------------------------------------------
\* Every step of the client and of its application preserves the invariant.
LEMMA NextStep == IInv /\ [Next]_vars => IInv'
<1> SUFFICES ASSUME OpInv, EnvInv, [Next]_vars PROVE OpInv' /\ EnvInv'
  BY Parts, PartsNext
<1>1. ASSUME UNCHANGED <<op, slots, active, hist>> PROVE OpInv'
  BY <1>1 DEF OpInv, SlotAgreement, Frame, Pending
<1>2. ASSUME UNCHANGED <<begun, nextID, now, pc, k, rx, wire>> PROVE EnvInv'
  BY <1>2 DEF EnvInv
<1>3. CASE Begin
  BY <1>1, <1>3 DEF Begin, EnvInv
<1>4. CASE DestroyClient
  BY <1>1, <1>4 DEF DestroyClient, EnvInv, PC
<1>5. ASSUME NEW o \in Op,
             \/ AddOID(o) \/ Configure(o) \/ Start(o) \/ Cancel(o)
             \/ TakeCompleted(o) \/ DestroyOperation(o)
      PROVE  OpInv' /\ EnvInv'
  <2>1. EnvInv'
    BY <1>2, <1>5 DEF AddOID, Configure, Start, Cancel, TakeCompleted,
                      DestroyOperation
  <2>2. CASE AddOID(o)
    BY <2>1, <2>2, AddOIDStep
  <2>3. CASE Configure(o)
    BY <2>1, <2>3, ConfigureStep
  <2>4. CASE Start(o)
    BY <2>1, <2>4, StartStep DEF EnvInv
  <2>5. CASE Cancel(o)
    BY <2>1, <2>5, CancelStep
  <2>6. CASE TakeCompleted(o)
    BY <2>1, <2>6, TakeCompletedStep
  <2>7. CASE DestroyOperation(o)
    BY <2>1, <2>7, DestroyOperationStep
  <2>8. QED
    BY <1>5, <2>2, <2>3, <2>4, <2>5, <2>6, <2>7
<1>6. CASE Call
  BY <1>6, LoopStep DEF Call
<1>7. CASE Return
  <2>1. OpInv'
    BY <1>7 DEF Return, OpInv, SlotAgreement, Frame, Pending
  <2>2. QED
    BY <2>1, <1>2, <1>7 DEF Return
<1>8. CASE Receive
  BY <1>8, ReceiveStep
<1>9. CASE WalkBinding
  BY <1>9, WalkBindingStep
<1>10. CASE StreamContinue
  BY <1>10, StreamContinueStep
<1>11. CASE StreamStop
  BY <1>11, StreamStopStep
<1>12. CASE Pass
  BY <1>12, PassStep
<1>13. CASE PassDone
  BY <1>1, <1>13, Constants DEF PassDone, EnvInv, PC
<1>14. CASE DestroySlot
  BY <1>14, DestroySlotStep
<1>15. CASE Destroyed
  BY <1>1, <1>15 DEF Destroyed, EnvInv, PC
<1>16. CASE Dead \/ UNCHANGED vars
  BY <1>1, <1>2, <1>16 DEF Dead, vars
<1>17. QED
  BY <1>3, <1>4, <1>5, <1>6, <1>7, <1>8, <1>9, <1>10, <1>11, <1>12, <1>13,
     <1>14, <1>15, <1>16 DEF Next, Application, Internal

\* The inductive invariant holds in every state of every behaviour.
THEOREM InvariantHolds == Spec => []IInv
<1>1. Init => IInv
  BY InitHolds
<1>2. IInv /\ [Next]_vars => IInv'
  BY NextStep
<1>3. QED
  BY <1>1, <1>2, PTL DEF Spec

\* Every field keeps its type: in particular no request ID ever passes
\* INT32_MAX (nextID_ in send()), and attempts never pass the retries.
THEOREM TypesHold == Spec => []TypeOK
<1>1. IInv => TypeOK
  BY DEF IInv
<1>2. QED
  BY <1>1, InvariantHolds, PTL

\* The scheduler's table holds exactly the pending operations, each once:
\* no slot outlives the run or the object it points to, and no pending
\* operation is without a slot (schedule(), remove(), finish(),
\* ~SNMPOperation()).
THEOREM SlotsAgree == Spec => []SlotAgreement
<1>1. IInv => SlotAgreement
  BY DEF IInv
<1>2. QED
  BY <1>1, InvariantHolds, PTL
=============================================================================
