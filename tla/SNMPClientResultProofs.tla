------------------------ MODULE SNMPClientResultProofs ------------------------
(***************************************************************************)
(* Theorems about what SNMPClient leaves in an operation's cells: when     *)
(* they settle, what an outcome says of them, where their values come      *)
(* from, and in which order a walk collects them; and about its timeouts.  *)
(*                                                                         *)
(* Each is proved along the forms of a step that SNMPClientRunProofs       *)
(* establishes.                                                            *)
(***************************************************************************)
EXTENDS SNMPClientRunProofs

USE DEF Slot, Device, Terminal, CellStatus, OpStatus, Origin, Mode, Tick

(***************************************************************************)
(* What each form does to cells.                                           *)
(***************************************************************************)
\* Calls of the application add fresh cells, and lose values only of a walk
\* that is configured again; those of a pending operation they leave alone.
LEMMA EditCells ==
  ASSUME OpInv, NEW o \in Op, Edits(o)
  PROVE  LET old == op[o].cells
             new == op'[o].cells
         IN /\ Pending(o) => new = old
            /\ ~Walking(o) =>
                 /\ Len(old) <= Len(new)
                 /\ \A i \in 1..Len(old) : new[i] = old[i]
            /\ \A i \in 1..Len(new) :
                 \/ i \in 1..Len(old) /\ new[i] = old[i]
                 \/ new[i].status = "NotStarted" /\ new[i].src = NoSource
<1> DEFINE old == op[o].cells
           new == op'[o].cells
<1>1. op \in [Op -> OperationState] /\ op[o] \in OperationState
  BY DEF OpInv
<1>2. old \in Seq(Cell) /\ Len(old) \in Nat
  BY <1>1 DEF OperationState
<1>3. CASE TakeCompleted(o) \/ DestroyOperation(o)
  <2>1. new = old
    BY <1>1, <1>3 DEF TakeCompleted, DestroyOperation, OperationState
  <2>2. QED
    BY <1>2, <2>1
<1>4. CASE AddOID(o)
  <2> DEFINE c == FreshCell(Len(old) + 1)
  <2>1. new = Append(old, c) /\ ~Pending(o)
    BY <1>1, <1>4 DEF AddOID, OperationState, Pending
  <2>2. c.status = "NotStarted" /\ c.src = NoSource
    BY DEF FreshCell
  <2> HIDE DEF c
  <2>3. /\ Len(new) = Len(old) + 1 /\ new[Len(old) + 1] = c
        /\ \A i \in 1..Len(old) : new[i] = old[i]
    BY <1>2, <2>1
  <2> HIDE DEF old, new
  <2>4. \A i \in 1..Len(new) : i \in 1..Len(old) \/ i = Len(old) + 1
    BY <1>2, <2>3
  <2>5. Len(old) <= Len(new)
    BY <1>2, <2>3
  <2>6. QED
    BY <2>1, <2>2, <2>3, <2>4, <2>5 DEF old, new
<1>5. CASE Configure(o)
  <2>1. /\ new = [i \in 1..Len(old) |->
                    IF i = 1 THEN FreshCell(0) ELSE old[i]]
        /\ ~Pending(o) /\ Walking(o)
    BY <1>1, <1>5 DEF Configure, OperationState, Pending
  <2>2. Len(new) = Len(old)
    BY <1>2, <2>1
  <2>3. FreshCell(0).status = "NotStarted" /\ FreshCell(0).src = NoSource
    BY DEF FreshCell
  <2> HIDE DEF old
  <2>4. \A i \in 1..Len(old) : new[i] = IF i = 1 THEN FreshCell(0) ELSE old[i]
    BY <2>1
  <2> HIDE DEF new
  <2>5. QED
    BY <2>1, <2>2, <2>3, <2>4 DEF old, new
<1>6. QED
  BY <1>3, <1>4, <1>5 DEF Edits

\* finish() gives the status of the operation to the cells that wait.
LEMMA InheritedCells ==
  ASSUME NEW c \in Seq(Cell), NEW s \in Terminal
  PROVE  /\ Inherit(c, s) \in Seq(Cell) /\ Len(Inherit(c, s)) = Len(c)
         /\ \A i \in 1..Len(c) :
              /\ c[i].status # "Pending" => Inherit(c, s)[i] = c[i]
              /\ Inherit(c, s)[i].status # "Pending"
              /\ Inherit(c, s)[i].src = c[i].src
              /\ Inherit(c, s)[i].name = c[i].name
<1> DEFINE e(i) == IF c[i].status = "Pending" THEN [c[i] EXCEPT !.status = s]
                                              ELSE c[i]
<1>1. ASSUME NEW i \in 1..Len(c)
      PROVE  /\ e(i) \in Cell
             /\ c[i].status # "Pending" => e(i) = c[i]
             /\ e(i).status # "Pending"
             /\ e(i).src = c[i].src /\ e(i).name = c[i].name
  <2>1. c[i] \in Cell
    OBVIOUS
  <2>2. QED
    BY <2>1 DEF Cell
<1>2. Inherit(c, s) = [i \in 1..Len(c) |-> e(i)]
  BY DEF Inherit
<1> HIDE DEF e
<1>3. QED
  BY <1>1, <1>2

\* A commit settles the waiting cells of the batch and no other.
LEMMA CommittedBatch ==
  ASSUME RunInv, NEW o \in Op, NEW m, NEW last, Commits(o, m, last)
  PROVE  LET old == op[o].cells
             new == op'[o].cells
         IN /\ Pending(o) /\ ~Walking(o) /\ Len(new) = Len(old)
            /\ last \in Nat
            /\ \A i \in 1..Len(old) :
                 IF old[i].status = "Pending" /\ i <= last
                 THEN /\ new[i].status \in Terminal \ {"Partial", "Timeout"}
                      /\ new[i].src \in {NoSource, Source(m), old[i].src}
                      /\ i \in op[o].offset + 1 .. last
                 ELSE new[i] = old[i]
<1> DEFINE old == op[o].cells
           new == op'[o].cells
           first == op[o].offset
<1>1. /\ Pending(o) /\ ~Walking(o) /\ last = first + op[o].batch
      /\ op[o].batch \in Nat /\ first \in Nat
  BY ReachedFacts DEF Commits
<1>2. \A i \in 1..Len(old) : (old[i].status = "Pending") <=> (i > first)
  BY <1>1 DEF RunInv, BatchesInOrder
<1>3. /\ Len(new) = Len(old)
      /\ \A i \in 1..Len(old) :
           IF first < i /\ i <= last
           THEN /\ new[i].status \in Terminal \ {"Partial", "Timeout"}
                /\ new[i].src \in {NoSource, Source(m), old[i].src}
           ELSE new[i] = old[i]
  BY DEF Commits
<1> HIDE DEF old, new, first
<1>4. last \in Nat
  BY <1>1
<1>5. \A i \in 1..Len(old) :
        IF old[i].status = "Pending" /\ i <= last
        THEN /\ new[i].status \in Terminal \ {"Partial", "Timeout"}
             /\ new[i].src \in {NoSource, Source(m), old[i].src}
             /\ i \in first + 1 .. last
        ELSE new[i] = old[i]
  BY <1>1, <1>2, <1>3, <1>4
<1>6. QED
  BY <1>1, <1>3, <1>4, <1>5 DEF old, new, first

-----------------------------------------------------------------------------
(***************************************************************************)
(* Cells settle once.                                                      *)
(***************************************************************************)
LEMMA SettledStays ==
  ASSUME RunInv, Step, NEW o \in Op, Pending(o),
         NEW i \in 1..Len(op[o].cells), op[o].cells[i].status # "Pending"
  PROVE  op'[o].cells[i] = op[o].cells[i]
<1>1. /\ OpInv /\ op[o] \in OperationState /\ op[o].cells \in Seq(Cell)
  BY Parts DEF RunInv, OpInv, OperationState
<1>2. ASSUME NEW m, NEW last, Commits(o, m, last)
      PROVE  op'[o].cells[i] = op[o].cells[i]
  BY <1>2, CommittedBatch
<1>3. CASE Edits(o)
  BY <1>1, <1>3, EditCells
<1>4. CASE Start(o)
  BY <1>4 DEF Start, Pending
<1>5. CASE Ends(o)
  <2>1. CASE op'[o].cells = Inherit(op[o].cells, op'[o].status)
             /\ op'[o].status \in Terminal
    BY <1>1, <2>1, InheritedCells
  <2>2. QED
    BY <1>2, <1>5, <2>1 DEF Ends
<1>6. CASE Reopens(o)
  BY <1>2, <1>6 DEF Reopens
<1>7. CASE Transmits(o)
  BY <1>7 DEF Transmits
<1>8. CASE Advances(o)
  <2>1. CASE op'[o].cells = op[o].cells
    BY <2>1
  <2>2. ASSUME NEW c, op'[o].cells = Append(op[o].cells, c)
        PROVE  op'[o].cells[i] = op[o].cells[i]
    BY <1>1, <2>2
  <2>3. QED
    BY <1>8, <2>1, <2>2 DEF Advances
<1>9. QED
  BY <1>1, <1>3, <1>4, <1>5, <1>6, <1>7, <1>8, FormsOf

\* Within a run a cell is written once: later batches, retries, timeouts and
\* cancellation keep what earlier batches brought (receive(), finish()).
THEOREM SettledCellsStay == Spec => CellsSettleOnce
<1>1. RunInv /\ [Next]_vars =>
        [\A o \in Op : Pending(o) =>
           \A i \in 1..Len(op[o].cells) :
             op[o].cells[i].status # "Pending" =>
               op'[o].cells[i] = op[o].cells[i]]_vars
  BY RunNext, SettledStays
<1>2. QED
  BY <1>1, RunHolds, PTL DEF Spec, CellsSettleOnce

-----------------------------------------------------------------------------
(***************************************************************************)
(* Outcomes.                                                               *)
(***************************************************************************)
\* What the outcome of operation o, whose fields are r, says of its cells.
Honest(o, r) ==
  /\ r.status \in Terminal =>
       \A i \in 1..Len(r.cells) : r.cells[i].status # "Pending"
  /\ r.status = "Success" /\ ~Walking(o) =>
       \A i \in 1..Len(r.cells) :
         r.cells[i].status \in {"Success", "NotStarted"}
  /\ r.status = "Partial" =>
       \E i \in 1..Len(r.cells) :
         r.cells[i].status \notin {"Success", "NotStarted"}

\* A run asks for every cell of a query, and walks are never partial.
Outcomes ==
  \A o \in Op :
    /\ Honest(o, op[o])
    /\ Pending(o) /\ ~Walking(o) =>
         \A i \in 1..Len(op[o].cells) : op[o].cells[i].status # "NotStarted"
    /\ Walking(o) => op[o].status # "Partial"

\* The status of a query tells what became of its cells.
LEMMA SummaryFacts ==
  ASSUME NEW c, Summary(c) = "Partial", Len(c) # 1
  PROVE  \E i \in 1..Len(c) : c[i].status # "Success"
BY DEF Summary

LEMMA SummarySuccess ==
  ASSUME NEW c, Summary(c) = "Success", Len(c) \in Nat
  PROVE  \A i \in 1..Len(c) : c[i].status = "Success"
BY DEF Summary

LEMMA CommittedRun ==
  ASSUME RunInv, Outcomes, NEW o \in Op, NEW m,
         Commits(o, m, Len(op[o].cells)), op'[o].status \in Terminal,
         op'[o].status = Summary(op'[o].cells)
  PROVE  Honest(o, op'[o]) /\ ~Walking(o)
<1> DEFINE old == op[o].cells
           c == op'[o].cells
<1>1. /\ Pending(o) /\ ~Walking(o) /\ Len(c) = Len(old) /\ Len(c) \in Nat
      /\ \A i \in 1..Len(old) :
           IF old[i].status = "Pending"
           THEN c[i].status \in Terminal \ {"Partial", "Timeout"}
           ELSE c[i] = old[i]
  <2>1. Len(old) \in Nat
    BY Parts DEF RunInv, OpInv, OperationState
  <2>2. QED
    BY <2>1, CommittedBatch
<1>2. \A i \in 1..Len(old) : old[i].status # "NotStarted"
  BY <1>1 DEF Outcomes
<1> HIDE DEF old, c
<1>3. \A i \in 1..Len(c) : c[i].status \notin {"Pending", "NotStarted"}
  BY <1>1, <1>2
<1>4. Summary(c) = "Partial" =>
        \E i \in 1..Len(c) : c[i].status \notin {"Success", "NotStarted"}
  <2> SUFFICES ASSUME Summary(c) = "Partial"
               PROVE  \E i \in 1..Len(c) : c[i].status \notin {"Success", "NotStarted"}
    OBVIOUS
  <2>1. CASE Len(c) = 1
    <3>1. c[1].status = "Partial"
      BY <2>1 DEF Summary
    <3>2. QED
      BY <1>3, <2>1, <3>1
  <2>2. CASE Len(c) # 1
    BY <1>3, <2>2, SummaryFacts
  <2>3. QED
    BY <2>1, <2>2
<1>5. Summary(c) = "Success" => \A i \in 1..Len(c) : c[i].status = "Success"
  BY <1>1, SummarySuccess
<1>6. QED
  BY <1>1, <1>3, <1>4, <1>5 DEF Honest, c

LEMMA OutcomesNext ==
  ASSUME RunInv, Outcomes, Step, OpInv'
  PROVE  Outcomes'
<1> SUFFICES ASSUME NEW o \in Op
             PROVE  /\ Honest(o, op'[o])
                    /\ op'[o].status = "Pending" /\ ~Walking(o) =>
                         \A i \in 1..Len(op'[o].cells) :
                           op'[o].cells[i].status # "NotStarted"
                    /\ Walking(o) => op'[o].status # "Partial"
  BY DEF Outcomes, Honest, Pending
<1>1. /\ OpInv /\ op[o] \in OperationState /\ op[o].cells \in Seq(Cell)
  BY Parts DEF RunInv, OpInv, OperationState
<1>2. /\ Honest(o, op[o])
      /\ op[o].status = "Pending" /\ ~Walking(o) =>
           \A i \in 1..Len(op[o].cells) : op[o].cells[i].status # "NotStarted"
      /\ Walking(o) => op[o].status # "Partial"
  BY DEF Outcomes, Pending
<1>3. CASE op'[o] = op[o]
  BY <1>2, <1>3
<1>4. CASE op'[o].status = "Pending" /\ op[o].status = "Pending"
           /\ op'[o].cells = op[o].cells
  BY <1>2, <1>4 DEF Honest
<1>5. CASE Edits(o)
  <2> DEFINE old == op[o].cells
             new == op'[o].cells
  <2>1. op'[o].status \in {op[o].status, "Destroyed"}
    BY <1>1, <1>5, EditFields
  <2>2. /\ op[o].status = "Pending" => new = old
        /\ ~Walking(o) => /\ Len(old) <= Len(new)
                          /\ \A i \in 1..Len(old) : new[i] = old[i]
        /\ \A i \in 1..Len(new) :
             (i \in 1..Len(old) /\ new[i] = old[i]) \/ new[i].status = "NotStarted"
    BY <1>1, <1>5, EditCells DEF Pending
  <2>3. Len(new) \in Nat /\ Len(old) \in Nat
    BY <1>1 DEF OpInv, OperationState
  <2> HIDE DEF old, new
  <2>4. CASE op'[o].status = "Destroyed"
    BY <1>2, <2>4 DEF Honest
  <2>5. CASE op'[o].status = op[o].status
    <3>1. op[o].status \in Terminal =>
            \A i \in 1..Len(new) : new[i].status # "Pending"
      BY <1>2, <2>2 DEF Honest, old
    <3>2. op[o].status = "Success" /\ ~Walking(o) =>
            \A i \in 1..Len(new) : new[i].status \in {"Success", "NotStarted"}
      BY <1>2, <2>2 DEF Honest, old
    <3>3. op[o].status = "Partial" =>
            \E i \in 1..Len(new) : new[i].status \notin {"Success", "NotStarted"}
      BY <1>2, <2>2, <2>3 DEF Honest, old
    <3>4. QED
      BY <1>2, <2>2, <2>5, <3>1, <3>2, <3>3 DEF Honest, old, new
  <2>6. QED
    BY <2>1, <2>4, <2>5
<1>6. CASE Start(o)
  <2>1. /\ op'[o].status = "Pending"
        /\ \A i \in 1..Len(op'[o].cells) : op'[o].cells[i].status = "Pending"
    BY <1>1, <1>6, StartFields
  <2>2. QED
    BY <2>1 DEF Honest
<1>7. CASE Ends(o)
  <2>1. CASE /\ op'[o].status \in Terminal \ {"Partial"}
             /\ op'[o].status = "Success" => Walking(o)
             /\ op'[o].cells = Inherit(op[o].cells, op'[o].status)
    BY <1>1, <2>1, InheritedCells DEF Honest
  <2>2. ASSUME NEW m, Commits(o, m, Len(op[o].cells)),
               op'[o].status \in Terminal,
               op'[o].status = Summary(op'[o].cells)
        PROVE  Honest(o, op'[o]) /\ op'[o].status # "Pending" /\ ~Walking(o)
    BY <2>2, CommittedRun
  <2>3. QED
    BY <1>7, <2>1, <2>2 DEF Ends
<1>8. CASE Reopens(o)
  <2>1. op'[o].status = "Pending" /\ op[o].status = "Pending"
    BY <1>8 DEF Reopens, Pending
  <2>2. ASSUME NEW m, NEW last, Commits(o, m, last)
        PROVE  \A i \in 1..Len(op'[o].cells) :
                 op'[o].cells[i].status # "NotStarted"
    BY <1>2, <2>1, <2>2, CommittedBatch
  <2>3. CASE op'[o].cells = op[o].cells
    BY <1>4, <2>1, <2>3
  <2>4. CASE op'[o].cells # op[o].cells
    BY <1>8, <2>1, <2>2, <2>4 DEF Reopens, Honest
  <2>5. QED
    BY <2>3, <2>4
<1>9. CASE Transmits(o)
  BY <1>4, <1>9 DEF Transmits, Pending
<1>10. CASE Advances(o)
  <2>1. op'[o].status = "Pending" /\ Walking(o)
    BY <1>10 DEF Advances, Delivering, RunInv, Control
  <2>2. QED
    BY <2>1 DEF Honest
<1>11. QED
  BY <1>1, <1>3, <1>5, <1>6, <1>7, <1>8, <1>9, <1>10, FormsOf

LEMMA OutcomesHold == Spec => []Outcomes
<1>1. Init => Outcomes
  <2> SUFFICES ASSUME Init PROVE Outcomes
    OBVIOUS
  <2>1. \A o \in Op : op[o].status = "NotStarted"
    BY DEF Init, NewOperation
  <2>2. QED
    BY <2>1 DEF Outcomes, Honest, Pending
<1>2. RunInv /\ Outcomes /\ [Next]_vars => Outcomes'
  BY RunNext, Parts, OutcomesNext DEF RunInv, IInv, OpInv, TypeOK
<1>3. QED
  BY <1>1, <1>2, RunHolds, PTL DEF Spec

\* The application can act on an outcome: Success means that every value
\* asked for is there, Partial that one is not, and no outcome leaves a cell
\* waiting (finish(), the last batch in receive()).
THEOREM OutcomesAreHonest == Spec => []OutcomeIsHonest
<1>1. Outcomes => OutcomeIsHonest
  BY DEF Outcomes, Honest, OutcomeIsHonest
<1>2. QED
  BY <1>1, OutcomesHold, PTL

-----------------------------------------------------------------------------
(***************************************************************************)
(* Walks.                                                                  *)
(***************************************************************************)
\* What a collecting walk whose fields are r has: rows in order, its cursor
\* at the last of them.
Ordered(r) ==
  LET c == r.cells
  IN /\ \A i, j \in 1..Len(c) : i < j => c[i].name < c[j].name
     /\ \A i \in 1..Len(c) : c[i].name \in 1..Rows
     /\ r.cursor = IF c = << >> THEN 0 ELSE c[Len(c)].name

\* Another row, beyond the cursor.
LEMMA OrderedAppend ==
  ASSUME NEW r \in OperationState, NEW q \in OperationState, Ordered(r),
         NEW c \in Cell, q.cells = Append(r.cells, c), q.cursor = c.name,
         r.cursor < q.cursor
  PROVE  Ordered(q)
<1> DEFINE old == r.cells
           new == q.cells
           n == Len(r.cells)
<1>1. old \in Seq(Cell) /\ n \in Nat /\ r.cursor \in 0..Rows /\ q.cursor \in 0..Rows
  BY DEF OperationState
<1>2. \A i \in 1..n : old[i].name \in 1..Rows /\ old[i].name <= r.cursor
  <2> SUFFICES ASSUME NEW i \in 1..n
               PROVE  old[i].name \in 1..Rows /\ old[i].name <= r.cursor
    OBVIOUS
  <2>1. old # << >> /\ n \in 1..n
    BY <1>1
  <2>2. r.cursor = old[n].name /\ old[n].name \in 1..Rows /\ old[i].name \in 1..Rows
    BY <2>1 DEF Ordered
  <2>3. i < n => old[i].name < old[n].name
    BY <2>1 DEF Ordered
  <2>4. QED
    BY <1>1, <2>2, <2>3, Constants
<1>3. /\ Len(new) = n + 1 /\ new[n + 1] = c /\ new # << >>
      /\ \A i \in 1..n : new[i] = old[i]
  BY <1>1
<1>4. c.name \in 1..Rows
  BY <1>1, Constants
<1>5. \A i \in 1..(n + 1) : i \in 1..n \/ i = n + 1
  BY <1>1
<1>6. \A i, j \in 1..n : i < j => old[i].name < old[j].name
  BY DEF Ordered
<1> HIDE DEF old, new, n
<1>7. \A i \in 1..(n + 1) : new[i].name \in 1..Rows
  BY <1>2, <1>3, <1>4, <1>5
<1>8. ASSUME NEW i \in 1..(n + 1), NEW j \in 1..(n + 1), i < j
      PROVE  new[i].name < new[j].name
  <2>1. i \in 1..n
    BY <1>1, <1>8
  <2>2. CASE j \in 1..n
    BY <1>3, <1>6, <1>8, <2>1, <2>2
  <2>3. CASE j = n + 1
    <3>1. old[i].name <= r.cursor /\ r.cursor < c.name /\ old[i].name \in 1..Rows
      BY <1>2, <2>1
    <3>2. old[i].name < c.name
      BY <1>1, <1>4, <3>1, Constants
    <3>3. QED
      BY <1>3, <2>1, <2>3, <3>2
  <2>4. QED
    BY <1>5, <2>2, <2>3
<1>9. q.cursor = new[n + 1].name
  BY <1>3
<1>10. QED
  BY <1>3, <1>7, <1>8, <1>9 DEF Ordered, new

LEMMA WalkInOrderNext ==
  ASSUME RunInv, WalkInOrder, Step, OpInv'
  PROVE  WalkInOrder'
<1> SUFFICES ASSUME NEW o \in Op, op'[o].status = "Pending", Kind[o] = "walk"
             PROVE  Ordered(op'[o])
  BY DEF WalkInOrder, Ordered, Pending
<1>1. OpInv /\ op[o] \in OperationState /\ op'[o] \in OperationState
  BY Parts DEF RunInv, OpInv
<1>2. Pending(o) => Ordered(op[o])
  BY DEF WalkInOrder, Ordered
<1>3. Walking(o)
  BY DEF Walking
<1>4. CASE /\ Pending(o) /\ op'[o].cells = op[o].cells
           /\ op'[o].cursor = op[o].cursor
  BY <1>2, <1>4 DEF Ordered
<1>5. CASE op'[o] = op[o]
  BY <1>4, <1>5 DEF Pending
<1>6. CASE Edits(o)
  BY <1>1, <1>4, <1>6, EditFields DEF Pending
<1>7. CASE Start(o)
  <2>1. op'[o].cells = << >> /\ op'[o].cursor = 0
    BY <1>1, <1>3, <1>7, StartFields
  <2>2. QED
    BY <2>1 DEF Ordered
<1>8. CASE Ends(o)
  BY <1>8 DEF Ends
<1>9. CASE Reopens(o)
  <2>1. \A m, last : ~Commits(o, m, last)
    BY <1>3 DEF Commits
  <2>2. QED
    BY <1>3, <1>4, <1>9, <2>1 DEF Reopens, RunInv, Modes
<1>10. CASE Transmits(o)
  BY <1>4, <1>10 DEF Transmits
<1>11. CASE Advances(o)
  <2>1. pc = "walk"
    BY <1>11 DEF Advances, Delivering, RunInv, Control
  <2>2. Pending(o) /\ op[o].cursor < op'[o].cursor
    BY <1>11, <2>1 DEF Advances
  <2>3. PICK s \in CellOutcomes :
          op'[o].cells = Append(op[o].cells,
                                Filled(FreshCell(op'[o].cursor), s, rx.src))
    BY <1>11, <2>1 DEF Advances
  <2> DEFINE f == FreshCell(op'[o].cursor)
             c == Filled(f, s, rx.src)
  <2>4. f \in Cell /\ f.name = op'[o].cursor
    <3>1. op'[o].cursor \in 0..Rows
      BY <1>1 DEF OperationState
    <3>2. f \in Cell
      BY <3>1, FreshCellType, Constants
    <3>3. QED
      BY <3>2 DEF FreshCell
  <2>5. rx.src \in Origin
    BY Parts DEF RunInv, EnvInv, Delivery
  <2> HIDE DEF f
  <2>6. c \in Cell /\ c.name = op'[o].cursor
    BY <2>4, <2>5, FilledFields
  <2>7. op'[o].cells = Append(op[o].cells, c)
    BY <2>3 DEF f
  <2> HIDE DEF c
  <2>8. QED
    BY <1>1, <1>2, <2>2, <2>6, <2>7, OrderedAppend
<1>12. QED
  BY <1>1, <1>5, <1>6, <1>7, <1>8, <1>9, <1>10, <1>11, FormsOf

\* A collecting walk has each row of its subtree at most once and in order,
\* and its cursor at the last of them, across replies, retries and the
\* fallback to GETNEXT (receive(), the increasing-OID check).
THEOREM WalksCollectInOrder == Spec => []WalkInOrder
<1>1. Init => WalkInOrder
  <2> SUFFICES ASSUME Init PROVE WalkInOrder
    OBVIOUS
  <2>1. \A o \in Op : ~Pending(o)
    BY DEF Init, NewOperation, Pending
  <2>2. QED
    BY <2>1 DEF WalkInOrder
<1>2. RunInv /\ WalkInOrder /\ [Next]_vars => WalkInOrder'
  BY RunNext, Parts, WalkInOrderNext DEF RunInv, IInv, OpInv, TypeOK
<1>3. QED
  BY <1>1, <1>2, RunHolds, PTL DEF Spec

-----------------------------------------------------------------------------
(***************************************************************************)
(* Values.                                                                 *)
(***************************************************************************)
\* Cell c at place i of operation o has no value, or one that came in the
\* reply to a request of the run, which is one of those sent after floor,
\* that asked for it; sent are the requests so far.
Owned(o, i, c, floor, sent) ==
  c.src.id # 0 /\ Kind[o] # "set" =>
    /\ c.src.op = o
    /\ c.src.id > floor
    /\ \E q \in sent : /\ q.id = c.src.id /\ q.op = o
                       /\ Walking(o) \/ i \in q.first..q.last

Values ==
  /\ \A o \in Op :
       /\ \A i \in 1..Len(op[o].cells) :
            Owned(o, i, op[o].cells[i], hist[o].floor, wire)
       /\ hist[o].floor <= nextID
       /\ Pending(o) /\ op[o].id # 0 => op[o].id > hist[o].floor
  /\ Delivering => rx.src = [op |-> rx.op, id |-> rx.gen]

\* A cell that keeps its source keeps its owner: requests are not forgotten.
LEMMA StillOwned ==
  ASSUME NEW o \in Op, NEW i, NEW c, NEW d, NEW floor, NEW before, NEW after,
         Owned(o, i, c, floor, before), d.src = c.src, before \subseteq after
  PROVE  Owned(o, i, d, floor, after)
BY DEF Owned

\* The reply that reaches an operation answers the request it waits for:
\* another device's traffic under the same ID comes from another endpoint.
LEMMA ReplyAnswers ==
  ASSUME RunInv, Identities, pc = "receive", NEW o \in Op,
         NEW m \in Answers \cup Strays, Reaches(o, m)
  PROVE  /\ Source(m) = [op |-> o, id |-> op[o].id]
         /\ Request(o, op[o]) \in wire
<1>1. Pending(o) /\ op[o].sent /\ op[o].id = m.id /\ DeviceOf[o] = m.from
  BY ReachedFacts DEF Reaches, Matches
<1>2. Request(o, op[o]) \in wire
  BY <1>1 DEF Identities, Delivering
<1>3. Request(o, op[o]).id = m.id /\ Request(o, op[o]).op = o
  BY <1>1 DEF Request
<1>4. m \notin Strays
  BY <1>1, <1>2, <1>3 DEF Strays
<1>5. PICK q \in wire : m = [id |-> q.id, from |-> DeviceOf[q.op], to |-> q.op]
  BY <1>4 DEF Answers
<1>6. q = Request(o, op[o])
  BY <1>2, <1>3, <1>5 DEF Identities, RequestIdentity
<1>7. QED
  BY <1>1, <1>2, <1>3, <1>5, <1>6 DEF Source

\* What is delivered keeps its source.
LEMMA DeliveryNext ==
  ASSUME RunInv, Identities, Values, Step, Delivering'
  PROVE  rx'.src = [op |-> rx'.op, id |-> rx'.gen]
<1>1. rx \in Delivery
  BY Parts DEF RunInv, EnvInv
<1>2. Delivering => rx.src = [op |-> rx.op, id |-> rx.gen]
  BY DEF Values
<1>3. CASE UNCHANGED <<pc, rx>>
  BY <1>2, <1>3 DEF Delivering
<1>4. CASE Delivering /\ (rx' = rx \/ rx' = [rx EXCEPT !.any = TRUE])
  BY <1>1, <1>2, <1>4 DEF Delivery
<1>5. CASE Rests
  <2>1. ASSUME NEW m \in Answers \cup Strays, NEW o \in Op, Reaches(o, m),
               pc = "receive",
               rx' = [NoDelivery EXCEPT !.op = o, !.src = Source(m),
                                        !.gen = op[o].id]
        PROVE  rx'.src = [op |-> rx'.op, id |-> rx'.gen]
    <3>1. Source(m) = [op |-> o, id |-> op[o].id]
      BY <2>1, ReplyAnswers
    <3>2. rx'.src = Source(m) /\ rx'.op = o /\ rx'.gen = op[o].id
      BY <2>1 DEF NoDelivery
    <3>3. QED
      BY <3>1, <3>2
  <2>2. ASSUME NEW name, pc = "walk",
               rx' = [rx EXCEPT !.any = TRUE, !.name = name]
        PROVE  rx'.src = [op |-> rx'.op, id |-> rx'.gen]
    BY <1>1, <1>2, <2>2 DEF Delivery, Delivering
  <2>3. QED
    BY <1>3, <1>5, <2>1, <2>2 DEF Rests, Delivering
<1>6. ASSUME NEW d \in 0..MaxStall, Loop(d) PROVE FALSE
  BY <1>6 DEF Loop, Delivering
<1>7. ASSUME NEW o \in Op, Edits(o) \/ Start(o) \/ Transmits(o)
      PROVE  UNCHANGED <<pc, rx>>
  BY <1>7 DEF Edits, Start, Transmits
<1>8. ASSUME NEW o \in Op, Ends(o) \/ Reopens(o) PROVE UNCHANGED <<pc, rx>>
  BY <1>8 DEF Ends, Reopens, Passage, Delivering
<1>9. ASSUME NEW o \in Op, Advances(o)
      PROVE  Delivering /\ (rx' = rx \/ rx' = [rx EXCEPT !.any = TRUE])
  BY <1>9 DEF Advances
<1>10. QED
  BY <1>3, <1>4, <1>5, <1>6, <1>7, <1>8, <1>9 DEF Step

\* The cells of a committed batch are owned.
LEMMA CommittedOwned ==
  ASSUME RunInv, Identities, Values, NEW o \in Op,
         NEW m \in Answers \cup Strays, NEW last, Commits(o, m, last)
  PROVE  \A i \in 1..Len(op'[o].cells) :
           Owned(o, i, op'[o].cells[i], hist[o].floor, wire)
<1> DEFINE old == op[o].cells
           new == op'[o].cells
<1>1. pc = "receive" /\ Reaches(o, m) /\ last = op[o].offset + op[o].batch
  BY DEF Commits
<1>2. /\ Source(m) = [op |-> o, id |-> op[o].id]
      /\ Request(o, op[o]) \in wire
  BY <1>1, ReplyAnswers
<1>3. op[o].id > hist[o].floor
  BY <1>1, ReachedFacts DEF Values
<1>4. Len(new) = Len(old)
  BY CommittedBatch
<1> SUFFICES ASSUME NEW i \in 1..Len(old)
             PROVE  Owned(o, i, new[i], hist[o].floor, wire)
  BY <1>4
<1>5. Owned(o, i, old[i], hist[o].floor, wire)
  BY DEF Values
<1>6. CASE new[i].src = old[i].src
  BY <1>5, <1>6, StillOwned
<1>7. CASE new[i].src = NoSource
  BY <1>7 DEF Owned, NoSource
<1>8. CASE new[i].src = Source(m) /\ i \in op[o].offset + 1 .. last
  <2>1. /\ Request(o, op[o]).first = op[o].offset + 1
        /\ Request(o, op[o]).last = last
        /\ Request(o, op[o]).id = op[o].id /\ Request(o, op[o]).op = o
    BY <1>1 DEF Request
  <2>2. new[i].src.op = o /\ new[i].src.id = op[o].id
    BY <1>2, <1>8
  <2>3. QED
    BY <1>2, <1>3, <1>8, <2>1, <2>2 DEF Owned
<1>9. new[i] = old[i] \/ new[i].src \in {NoSource, Source(m), old[i].src}
  BY CommittedBatch
<1>10. new[i] = old[i] \/ i \in op[o].offset + 1 .. last
  BY CommittedBatch
<1>11. QED
  BY <1>6, <1>7, <1>8, <1>9, <1>10

LEMMA ValuesNext ==
  ASSUME RunInv, Identities, Values, Step
  PROVE  Values'
<1>1. /\ OpInv /\ wire \subseteq wire' /\ nextID \in Nat
      /\ nextID' \in {nextID, nextID + 1}
  BY Parts, WireGrows DEF RunInv
<1>2. ASSUME NEW o \in Op
      PROVE  /\ \A i \in 1..Len(op'[o].cells) :
                  Owned(o, i, op'[o].cells[i], hist'[o].floor, wire')
             /\ hist'[o].floor <= nextID'
             /\ op'[o].status = "Pending" /\ op'[o].id # 0 =>
                  op'[o].id > hist'[o].floor
  <2> DEFINE old == op[o].cells
             new == op'[o].cells
             f == hist[o].floor
  <2>1. /\ op[o] \in OperationState /\ hist[o] \in History
        /\ old \in Seq(Cell) /\ f \in Nat
    <3>1. op[o] \in OperationState /\ hist[o] \in History
      BY <1>1 DEF OpInv
    <3>2. old \in Seq(Cell) /\ f \in 0..MaxID
      BY <3>1 DEF OperationState, History
    <3>3. QED
      BY <3>1, <3>2, Constants
  <2>2. /\ \A i \in 1..Len(old) : Owned(o, i, old[i], f, wire)
        /\ f <= nextID /\ f <= nextID'
        /\ Pending(o) /\ op[o].id # 0 => op[o].id > f
    BY <1>1, <2>1 DEF Values
  <2> HIDE DEF f
  \* Every cell is as before, has the same source, or none.
  <2>3. ASSUME NEW i, NEW c,
               \/ i \in 1..Len(old) /\ c.src = old[i].src
               \/ c.src = NoSource
        PROVE  Owned(o, i, c, f, wire')
    <3>1. CASE c.src = NoSource
      BY <3>1 DEF Owned, NoSource
    <3>2. CASE i \in 1..Len(old) /\ c.src = old[i].src
      BY <1>1, <2>2, <3>2, StillOwned
    <3>3. QED
      BY <2>3, <3>1, <3>2
  <2>4. ASSUME NEW m \in Answers \cup Strays, NEW last, Commits(o, m, last)
        PROVE  \A i \in 1..Len(new) : Owned(o, i, new[i], f, wire')
    <3>1. \A i \in 1..Len(new) : Owned(o, i, new[i], f, wire)
      BY <2>4, CommittedOwned DEF f
    <3>2. QED
      BY <1>1, <3>1, StillOwned
  <2>5. CASE new = old /\ hist'[o].floor = f
             /\ (op'[o].status = "Pending" =>
                   Pending(o) /\ op'[o].id = op[o].id)
    BY <2>2, <2>3, <2>5
  <2>6. CASE op'[o] = op[o] /\ hist'[o].floor = hist[o].floor
    BY <2>5, <2>6 DEF Pending, f
  <2>7. CASE Edits(o)
    <3>1. hist'[o].floor = f
      BY <1>1, <2>7, EditHistory DEF f
    <3>2. \A i \in 1..Len(new) :
            (i \in 1..Len(old) /\ new[i] = old[i]) \/ new[i].src = NoSource
      BY <1>1, <2>7, EditCells
    <3>3. op'[o].status = "Pending" => Pending(o) /\ op'[o].id = op[o].id
      BY <1>1, <2>7, EditFields DEF Pending
    <3>4. QED
      BY <2>2, <2>3, <3>1, <3>2, <3>3
  <2>8. CASE Start(o)
    <3>1. /\ hist'[o] = [NoHistory EXCEPT !.floor = nextID] /\ op'[o].id = 0
          /\ \A i \in 1..Len(new) :
               new[i].src = IF Kind[o] = "set" THEN old[i].src ELSE NoSource
      BY <1>1, <2>8, StartFields
    <3>2. hist'[o].floor = nextID
      BY <3>1 DEF NoHistory
    <3>3. \A i \in 1..Len(new) : Owned(o, i, new[i], nextID, wire')
      BY <3>1 DEF Owned, NoSource
    <3>4. QED
      BY <1>1, <3>1, <3>2, <3>3
  <2>9. CASE Ends(o)
    <3>1. hist'[o].floor = f
      <4>1. hist'[o] = [hist[o] EXCEPT !.ends = @ + 1]
        BY <2>9 DEF Ends
      <4>2. QED
        BY <2>1, <4>1 DEF History, f
    <3>2. op'[o].status # "Pending"
      BY <2>9 DEF Ends
    <3>3. CASE /\ new = Inherit(old, op'[o].status)
               /\ op'[o].status \in Terminal
      <4>1. \A i \in 1..Len(new) : i \in 1..Len(old) /\ new[i].src = old[i].src
        BY <2>1, <3>3, InheritedCells
      <4>2. QED
        BY <2>2, <2>3, <3>1, <3>2, <4>1
    <3>4. QED
      BY <2>2, <2>4, <2>9, <3>1, <3>2, <3>3 DEF Ends
  <2>10. CASE Reopens(o)
    <3>1. /\ hist'[o].floor = f /\ op'[o].id = op[o].id /\ Pending(o)
      BY <2>10 DEF Reopens, f
    <3>2. CASE new = old
      BY <2>5, <3>1, <3>2
    <3>3. CASE new # old
      BY <2>2, <2>4, <2>10, <3>1, <3>3 DEF Reopens
    <3>4. QED
      BY <3>2, <3>3
  <2>11. CASE Transmits(o)
    <3>1. hist'[o].floor = f
      <4>1. op[o].sent \in BOOLEAN
        BY <2>1 DEF OperationState
      <4>2. hist'[o] = Counted(hist[o], ~op[o].sent)
        BY <2>11 DEF Transmits
      <4>3. QED
        BY <2>1, <4>1, <4>2, CountedFields DEF f
    <3>2. new = old /\ Pending(o)
      BY <2>11 DEF Transmits
    <3>3. op'[o].id = op[o].id \/ op'[o].id = nextID + 1
      BY <2>11 DEF Transmits
    <3>4. CASE op'[o].id = op[o].id
      BY <2>5, <3>1, <3>2, <3>4
    <3>5. CASE op'[o].id = nextID + 1
      <4>1. nextID + 1 > f
        BY <1>1, <2>1, <2>2 DEF f
      <4>2. QED
        BY <2>2, <2>3, <3>1, <3>2, <3>5, <4>1
    <3>6. QED
      BY <3>3, <3>4, <3>5
  <2>12. CASE Advances(o)
    <3>1. /\ hist'[o].floor = f /\ op'[o].id = op[o].id /\ Pending(o)
          /\ Delivering /\ rx.op = o /\ op[o].id = rx.gen
      BY <2>12 DEF Advances, f
    <3>2. CASE new = old
      BY <2>5, <3>1, <3>2
    <3>3. CASE pc = "walk"
      <4>1. PICK s \in CellOutcomes :
              new = Append(old, Filled(FreshCell(op'[o].cursor), s, rx.src))
        BY <2>12, <3>3 DEF Advances
      <4> DEFINE c == Filled(FreshCell(op'[o].cursor), s, rx.src)
      <4>2. c.src = rx.src \/ c.src = NoSource
        BY DEF Filled, FreshCell
      <4>3. rx.src.op = o /\ rx.src.id = op[o].id /\ op[o].id # 0 /\ Walking(o)
        BY <3>1 DEF Values, RunInv, Control, Delivering
      <4>4. \E q \in wire : q.id = op[o].id /\ q.op = o
        BY <3>1, <4>3 DEF Identities
      <4>5. ASSUME NEW i PROVE Owned(o, i, c, f, wire')
        <5> HIDE DEF c
        <5>1. CASE c.src = NoSource
          BY <2>3, <5>1
        <5>2. CASE c.src = rx.src
          BY <1>1, <2>2, <3>1, <4>3, <4>4, <5>2 DEF Owned
        <5>3. QED
          BY <4>2, <5>1, <5>2
      <4> HIDE DEF c
      <4>6. ASSUME NEW i \in 1..Len(new) PROVE Owned(o, i, new[i], f, wire')
        <5>1. /\ i \in 1..Len(old) => new[i] = old[i]
              /\ i \in 1..Len(old) \/ new[i] = c
          BY <2>1, <4>1 DEF c
        <5>2. QED
          BY <2>3, <4>5, <5>1
      <4>7. QED
        BY <2>2, <3>1, <4>6
    <3>4. QED
      BY <2>12, <3>1, <3>2, <3>3 DEF Advances
  <2>13. QED
    BY <1>1, <2>6, <2>7, <2>8, <2>9, <2>10, <2>11, <2>12, FormsOf
<1>3. Delivering' => rx'.src = [op |-> rx'.op, id |-> rx'.gen]
  BY DeliveryNext
<1>4. QED
  BY <1>2, <1>3 DEF Values, Pending

LEMMA ValuesHold == Spec => []Values
<1>1. Init => Values
  <2> SUFFICES ASSUME Init PROVE Values
    OBVIOUS
  <2>1. /\ \A o \in Op : /\ op[o].status = "NotStarted" /\ op[o].cells = << >>
                         /\ hist[o].floor = 0
        /\ nextID = 0 /\ pc = "idle"
    BY DEF Init, NewOperation, NoHistory
  <2>2. QED
    BY <2>1 DEF Values, Pending, Delivering
<1>2. RunInv /\ Identities /\ Values /\ [Next]_vars => Values'
  BY RunNext, ValuesNext
<1>3. QED
  BY <1>1, <1>2, RunHolds, IdentitiesHold, PTL DEF Spec

\* No value of an earlier run, of another operation or of another device ever
\* shows up in a result, however late, repeated or reordered the replies are
\* (receive(), matching by request ID, peer and community).
THEOREM ValuesAreOfTheirRun == Spec => []ValuesBelongToRun
<1>1. Values => ValuesBelongToRun
  BY DEF Values, Owned, ValuesBelongToRun
<1>2. QED
  BY <1>1, ValuesHold, PTL

-----------------------------------------------------------------------------
(***************************************************************************)
(* Time: every pass serves the timeouts that are due, and nothing times    *)
(* out before its time, although the clock wraps.                          *)
(*                                                                         *)
(* The client knows times only modulo ClockModulus, the history knows the  *)
(* true ones.  The two agree as long as no request and no walk is left     *)
(* unserved when loop() returns, which is why the theorems need each other.*)
(***************************************************************************)
(***************************************************************************)
(* Arithmetic of the clock.                                                *)
(***************************************************************************)
LEMMA Wrapping ==
  ASSUME NEW M \in Nat \ {0}, NEW x \in Int
  PROVE  /\ 0 <= x /\ x < M => x % M = x
         /\ -M <= x /\ x < 0 => x % M = x + M
         /\ M <= x /\ x < M + M => x % M = x - M
         /\ x % M \in 0..(M - 1)
<1>1. CASE 0 <= x /\ x < M
  BY <1>1
<1>2. CASE -M <= x /\ x < 0
  BY <1>2
<1>3. CASE M <= x /\ x < M + M
  BY <1>3
<1>4. x % M \in 0..(M - 1)
  OBVIOUS
<1>5. QED
  BY <1>1, <1>2, <1>3, <1>4

\* An elapsed time below the limit T grows by the time that passes, although
\* the clock may wrap.
LEMMA ElapsedGrows ==
  ASSUME NEW M \in Nat \ {0}, NEW t \in 0..(M - 1), NEW since \in 0..(M - 1),
         NEW d \in Nat, NEW T \in Nat \ {0}, T + d <= M,
         (t - since) % M < T
  PROVE  (((t + d) % M) - since) % M = ((t - since) % M) + d
<1>1. t \in Int /\ since \in Int /\ M \in Int /\ d < M
  OBVIOUS
<1> DEFINE u == (t + d) % M
<1>2. /\ t + d < M => u = t + d
      /\ t + d >= M => u = t + d - M
      /\ u \in 0..(M - 1)
  <2> DEFINE x == t + d
  <2>1. x \in Int /\ 0 <= x /\ x < M + M
    BY <1>1
  <2> HIDE DEF x
  <2>2. /\ x < M => x % M = x
        /\ x >= M => x % M = x - M
        /\ x % M \in 0..(M - 1)
    BY <1>1, <2>1, Wrapping
  <2>3. QED
    BY <2>2 DEF x
<1> DEFINE e == (t - since) % M
           f == (u - since) % M
<1>3. /\ t >= since => e = t - since
      /\ t < since => e = t - since + M
  <2> DEFINE x == t - since
  <2>1. x \in Int /\ -M <= x /\ x < M /\ (0 <= x <=> t >= since)
    BY <1>1
  <2> HIDE DEF x
  <2>2. /\ 0 <= x => x % M = x
        /\ x < 0 => x % M = x + M
    BY <1>1, <2>1, Wrapping
  <2>3. QED
    BY <1>1, <2>1, <2>2 DEF x
<1>4. /\ u >= since => f = u - since
      /\ u < since => f = u - since + M
  <2> DEFINE x == u - since
  <2>1. x \in Int /\ -M <= x /\ x < M /\ (0 <= x <=> u >= since)
    BY <1>1, <1>2
  <2> HIDE DEF x
  <2>2. /\ 0 <= x => x % M = x
        /\ x < 0 => x % M = x + M
    BY <1>1, <2>1, Wrapping
  <2>3. QED
    BY <1>1, <2>1, <2>2, <1>2 DEF x
<1>5. e < T
  OBVIOUS
<1> HIDE DEF u, e, f
<1>6. f = e + d
  BY <1>1, <1>2, <1>3, <1>4, <1>5
<1>7. QED
  BY <1>6 DEF u, e, f

-----------------------------------------------------------------------------
(***************************************************************************)
(* The history and the clock.                                              *)
(***************************************************************************)
\* At time t the history h of a run knows the elapsed times that the fields r
\* of operation o stand for, up to their limits.
Timely(o, r, h, t) ==
  /\ r.sent => h.waited = Least((t - r.sentAt) % ClockModulus, TimeoutMs)
  /\ Walking(o) =>
       h.aged = IF r.id = 0 THEN 0
                ELSE Least((t - r.startedAt) % ClockModulus, WalkDeadline)

\* Nothing is due for the operation.
Served(o, r, h) ==
  /\ r.sent => h.waited < TimeoutMs
  /\ Walking(o) => h.aged < WalkDeadline

\* Nothing is due when loop() returns, and during a pass nothing is due for
\* the slots it has visited.
Clocks ==
  /\ \A o \in Op : Pending(o) => Timely(o, op[o], hist[o], now)
  /\ pc = "idle" => \A o \in Op : Pending(o) => Served(o, op[o], hist[o])
  /\ pc = "pass" => \A s \in Slot : \A o \in Op :
       s < k /\ slots[s] = o => Served(o, op[o], hist[o])

LEMMA TimeStands ==
  ASSUME [Next]_vars
  PROVE  now' = now \/ \E d \in 0..MaxStall : Loop(d)
<1>1. CASE UNCHANGED vars
  BY <1>1 DEF vars
<1>2. CASE Application
  <2>1. CASE Begin \/ DestroyClient
    BY <2>1 DEF Begin, DestroyClient
  <2>2. ASSUME NEW o \in Op, AddOID(o) \/ Configure(o) \/ Start(o) \/ Cancel(o)
        PROVE  now' = now
    BY <2>2 DEF AddOID, Configure, Start, Cancel
  <2>3. ASSUME NEW o \in Op, TakeCompleted(o) \/ DestroyOperation(o)
        PROVE  now' = now
    BY <2>3 DEF TakeCompleted, DestroyOperation
  <2>4. QED
    BY <1>2, <2>1, <2>2, <2>3 DEF Application
<1>3. CASE Call
  BY <1>3 DEF Call
<1>4. CASE Internal
  BY <1>4 DEF Internal, Return, Receive, WalkBinding, StreamContinue,
              StreamStop, Pass, PassDone, DestroySlot, Destroyed
<1>5. CASE Dead
  BY <1>5 DEF Dead, vars
<1>6. QED
  BY <1>1, <1>2, <1>3, <1>4, <1>5 DEF Next

\* While time stands, an operation stays timely; it stays served, and one
\* that has just been started is.
LEMMA TimelyForms ==
  ASSUME RunInv, Step, ~ \E d \in 0..MaxStall : Loop(d), NEW o \in Op,
         op'[o].status = "Pending",
         Pending(o) => Timely(o, op[o], hist[o], now)
  PROVE  /\ Timely(o, op'[o], hist'[o], now)
         /\ Start(o) \/ (Pending(o) /\ Served(o, op[o], hist[o])) =>
              Served(o, op'[o], hist'[o])
<1>1. /\ OpInv /\ op[o] \in OperationState /\ hist[o] \in History
      /\ now \in Tick /\ Framed(o, op[o])
  BY Parts DEF RunInv, OpInv, EnvInv, Frame
<1>2. CASE op'[o] = op[o] /\ hist'[o] = hist[o]
  <2>1. Pending(o)
    BY <1>2 DEF Pending
  <2>2. ~Start(o)
    BY <2>1 DEF Start, Pending
  <2>3. QED
    BY <1>2, <2>1, <2>2
<1>3. CASE Edits(o)
  <2>1. Pending(o) /\ TakeCompleted(o)
    BY <1>1, <1>3, EditFields DEF Pending
  <2>2. /\ op'[o].sent = op[o].sent /\ op'[o].id = op[o].id
        /\ op'[o].sentAt = op[o].sentAt /\ op'[o].startedAt = op[o].startedAt
    BY <1>1, <2>1 DEF TakeCompleted, OpInv, OperationState
  <2>3. hist'[o].waited = hist[o].waited /\ hist'[o].aged = hist[o].aged
    BY <1>1, <2>1 DEF TakeCompleted, OpInv, History
  <2>4. ~Start(o)
    BY <2>1 DEF Start, Pending
  <2>5. QED
    BY <2>1, <2>2, <2>3, <2>4 DEF Timely, Served
<1>4. CASE Start(o)
  <2>1. /\ op'[o].sent = FALSE /\ op'[o].id = 0
        /\ hist'[o] = [NoHistory EXCEPT !.floor = nextID]
    BY <1>1, <1>4, StartFields
  <2>2. hist'[o].aged = 0
    BY <2>1 DEF NoHistory
  <2>3. QED
    BY <2>1, <2>2, Constants DEF Timely, Served
<1>5. CASE Ends(o)
  BY <1>5 DEF Ends
<1>6. CASE Reopens(o)
  <2>1. /\ Pending(o) /\ ~op'[o].sent /\ op'[o].id = op[o].id
        /\ op'[o].startedAt = op[o].startedAt /\ hist'[o] = hist[o]
    BY <1>6 DEF Reopens
  <2>2. ~Start(o)
    BY <2>1 DEF Start, Pending
  <2>3. QED
    BY <2>1, <2>2 DEF Timely, Served
<1>7. CASE Transmits(o)
  <2>1. /\ Pending(o) /\ op'[o].sent /\ op'[o].sentAt = now
        /\ hist'[o] = Counted(hist[o], ~op[o].sent)
    BY <1>7 DEF Transmits
  <2>2. hist'[o].waited = 0 /\ hist'[o].aged = hist[o].aged
    <3>1. op[o].sent \in BOOLEAN
      BY <1>1 DEF OperationState
    <3>2. QED
      BY <1>1, <2>1, <3>1, CountedFields
  <2>3. \A t \in Tick : (t - t) % ClockModulus = 0
    <3>1. 0 % ClockModulus = 0
      BY Constants
    <3>2. \A t \in Tick : t - t = 0
      BY Constants
    <3>3. QED
      BY <3>1, <3>2
  <2>4. Least((now - op'[o].sentAt) % ClockModulus, TimeoutMs) = 0
    BY <1>1, <2>1, <2>3, Constants DEF Least
  <2>5. Walking(o) =>
          hist[o].aged =
            IF op'[o].id = 0 THEN 0
            ELSE Least((now - op'[o].startedAt) % ClockModulus, WalkDeadline)
    <3> SUFFICES ASSUME Walking(o)
                 PROVE  hist[o].aged =
                          IF op'[o].id = 0 THEN 0
                          ELSE Least((now - op'[o].startedAt) % ClockModulus,
                                     WalkDeadline)
      OBVIOUS
    <3>1. hist[o].aged =
            IF op[o].id = 0 THEN 0
            ELSE Least((now - op[o].startedAt) % ClockModulus, WalkDeadline)
      BY <2>1 DEF Timely
    <3>2. CASE op'[o].id = op[o].id /\ op'[o].startedAt = op[o].startedAt
      BY <3>1, <3>2
    <3>3. CASE ~op[o].sent /\ op'[o].id = nextID + 1
               /\ op'[o].startedAt = IF op[o].id = 0 THEN now
                                     ELSE op[o].startedAt
      <4>1. op'[o].id # 0
        <5>1. nextID \in 0..MaxID
          BY DEF RunInv, IInv, TypeOK
        <5>2. QED
          BY <3>3, <5>1, Constants
      <4>2. CASE op[o].id = 0
        <5>1. Least((now - op'[o].startedAt) % ClockModulus, WalkDeadline) = 0
          BY <1>1, <2>3, <3>3, <4>2, Constants DEF Least
        <5>2. QED
          BY <3>1, <4>1, <4>2, <5>1
      <4>3. CASE op[o].id # 0
        BY <3>1, <3>3, <4>1, <4>3
      <4>4. QED
        BY <4>2, <4>3
    <3>4. QED
      BY <1>7, <3>2, <3>3 DEF Transmits
  <2>6. ~Start(o)
    BY <2>1 DEF Start, Pending
  <2>7. QED
    BY <2>1, <2>2, <2>4, <2>5, <2>6, Constants DEF Timely, Served
<1>8. CASE Advances(o)
  <2>1. /\ Pending(o) /\ op'[o].sent = op[o].sent /\ op'[o].id = op[o].id
        /\ op'[o].sentAt = op[o].sentAt
        /\ op'[o].startedAt = op[o].startedAt /\ hist'[o] = hist[o]
    BY <1>8 DEF Advances
  <2>2. ~Start(o)
    BY <2>1 DEF Start, Pending
  <2>3. QED
    BY <2>1, <2>2 DEF Timely, Served
<1>9. CASE Rests
  BY <1>2, <1>9 DEF Rests
<1>10. ASSUME NEW p \in Op, Others(p), p # o
       PROVE  op'[o] = op[o] /\ hist'[o] = hist[o]
  BY <1>10 DEF Others
<1>11. QED
  BY <1>2, <1>3, <1>4, <1>5, <1>6, <1>7, <1>8, <1>9, <1>10 DEF Step

\* loop() adds the time that has passed.
LEMMA LoopTimely ==
  ASSUME RunInv, Clocks, NEW d \in 0..MaxStall, Loop(d), NEW o \in Op,
         Pending(o)
  PROVE  Timely(o, op'[o], hist'[o], now')
<1>1. /\ op[o] \in OperationState /\ hist \in [Op -> History]
      /\ hist[o] \in History /\ now \in Tick
  BY Parts DEF RunInv, OpInv, EnvInv
<1>2. /\ pc = "idle" /\ op' = op /\ now' = (now + d) % ClockModulus
      /\ Timely(o, op[o], hist[o], now) /\ Served(o, op[o], hist[o])
  BY DEF Loop, Clocks
<1> DEFINE w == IF Pending(o) /\ op[o].sent
                THEN Least(hist[o].waited + d, TimeoutMs) ELSE 0
           g == IF Pending(o) /\ op[o].id # 0
                THEN Least(hist[o].aged + d, WalkDeadline) ELSE 0
<1>3. hist'[o].waited = w /\ hist'[o].aged = g
  <2>1. hist'[o] = [hist[o] EXCEPT !.waited = w, !.aged = g]
    BY DEF Loop
  <2> HIDE DEF w, g
  <2>2. QED
    BY <1>1, <2>1 DEF History
<1>4. /\ d \in Nat /\ TimeoutMs + d <= ClockModulus
      /\ WalkDeadline + d <= ClockModulus /\ ClockModulus \in Nat \ {0}
      /\ TimeoutMs \in Nat \ {0} /\ WalkDeadline \in Nat \ {0}
  BY Constants, ClockAssumption
<1>5. ASSUME NEW T \in Nat \ {0}, T + d <= ClockModulus,
             NEW since \in 0..(ClockModulus - 1), NEW x,
             x = Least((now - since) % ClockModulus, T), x < T
      PROVE  Least(x + d, T) = Least((now' - since) % ClockModulus, T)
  <2>1. (now - since) % ClockModulus < T /\ x = (now - since) % ClockModulus
    <3>1. (now - since) % ClockModulus \in Int
      BY <1>1, <1>4, <1>5
    <3> DEFINE e == (now - since) % ClockModulus
    <3> HIDE DEF e
    <3>2. e < T /\ x = e
      BY <1>5, <3>1 DEF Least, e
    <3>3. QED
      BY <3>2 DEF e
  <2>2. (now' - since) % ClockModulus = x + d
    BY <1>1, <1>2, <1>4, <1>5, <2>1, ElapsedGrows
  <2>3. QED
    BY <2>2
<1>6. op[o].sentAt \in 0..(ClockModulus - 1)
      /\ op[o].startedAt \in 0..(ClockModulus - 1)
  BY <1>1 DEF OperationState
<1>7. op[o].sent =>
        w = Least((now' - op[o].sentAt) % ClockModulus, TimeoutMs)
  BY <1>2, <1>4, <1>5, <1>6 DEF Timely, Served
<1>8. Walking(o) =>
        g = IF op[o].id = 0 THEN 0
            ELSE Least((now' - op[o].startedAt) % ClockModulus, WalkDeadline)
  BY <1>2, <1>4, <1>5, <1>6 DEF Timely, Served
<1>9. QED
  BY <1>2, <1>3, <1>7, <1>8 DEF Timely

-----------------------------------------------------------------------------
(***************************************************************************)
(* A pass serves what is due.                                              *)
(***************************************************************************)
\* Only start() makes an operation pending.
LEMMA PendingComes ==
  ASSUME RunInv, Step, NEW o \in Op, op'[o].status = "Pending"
  PROVE  Pending(o) \/ Start(o)
<1>1. OpInv
  BY Parts DEF RunInv
<1>2. CASE Edits(o)
  BY <1>1, <1>2, EditFields DEF Pending
<1>3. CASE Ends(o)
  BY <1>3 DEF Ends
<1>4. QED
  BY <1>1, <1>2, <1>3, FormsOf DEF Pending, Reopens, Transmits, Advances

\* Only start() fills a slot.
LEMMA SlotsFill ==
  ASSUME RunInv, [Next]_vars, NEW s \in Slot, NEW o \in Op, slots'[s] = o
  PROVE  slots[s] = o \/ Start(o)
<1>1. ASSUME NEW p, slots' = Without(p) PROVE slots[s] = o
  BY <1>1, Constants DEF Without
<1>2. ASSUME NEW p, NEW r, NEW x, Finish(p, r, x) \/ Continue(p, r)
      PROVE  slots[s] = o
  BY <1>1, <1>2 DEF Finish, Continue
<1>3. CASE UNCHANGED vars \/ Dead
  BY <1>3 DEF Dead, vars
<1>4. CASE Application
  <2>1. CASE Begin \/ DestroyClient
    BY <2>1 DEF Begin, DestroyClient
  <2>2. ASSUME NEW p \in Op, Start(p) PROVE slots[s] = o \/ Start(o)
    <3>1. slots \in [Slot -> Op \cup {None}]
      BY Parts DEF RunInv, OpInv
    <3>2. PICK t \in Slot : slots' = [slots EXCEPT ![t] = p]
      BY <2>2 DEF Start
    <3>3. CASE s = t
      BY <2>2, <3>1, <3>2, <3>3
    <3>4. CASE s # t
      BY <3>1, <3>2, <3>4
    <3>5. QED
      BY <3>3, <3>4
  <2>3. ASSUME NEW p \in Op, AddOID(p) \/ Configure(p) \/ TakeCompleted(p)
        PROVE  slots[s] = o
    BY <2>3 DEF AddOID, Configure, TakeCompleted
  <2>4. ASSUME NEW p \in Op, Cancel(p) \/ DestroyOperation(p)
        PROVE  slots[s] = o
    BY <1>1, <1>2, <2>4 DEF Cancel, DestroyOperation
  <2>5. QED
    BY <1>4, <2>1, <2>2, <2>3, <2>4 DEF Application
<1>5. CASE Call \/ Return \/ StreamContinue \/ PassDone \/ Destroyed
  BY <1>5 DEF Call, Loop, Return, StreamContinue, PassDone, Destroyed
<1>6. CASE Receive
  <2>1. CASE ReceiveNothing \/ ReceiveNotification
    BY <2>1 DEF ReceiveNothing, ReceiveNotification
  <2>2. ASSUME NEW m, NEW p \in Op, ReceiveReply(p, m) PROVE slots[s] = o
    <3>1. CASE ReplyInvalidError(p) \/ ReplyEndOfWalk(p) \/ ReplyBulkTooBig(p)
               \/ ReplyWrongBindings(p) \/ ReplyTooBig(p)
      BY <1>2, <3>1 DEF ReplyInvalidError, ReplyEndOfWalk, ReplyBulkTooBig,
                        ReplyWrongBindings, ReplyTooBig
    <3>2. CASE ReplyNoSuchName(p)
      BY <1>2, <3>2 DEF ReplyNoSuchName
    <3>3. CASE \E e \in {"tooBig", "noSuchName", "other"} : ReplyError(p, e)
      BY <1>2, <3>3 DEF ReplyError
    <3>4. CASE ReplyBindings(p, m)
      BY <1>2, <3>4 DEF ReplyBindings
    <3>5. QED
      BY <2>2, <3>1, <3>2, <3>3, <3>4 DEF ReceiveReply
  <2>3. QED
    BY <1>6, <2>1, <2>2 DEF Receive
<1>7. CASE WalkBinding
  <2>1. CASE WalkEndOfMib \/ WalkEndOfList
    BY <1>2, <2>1 DEF WalkEndOfMib, WalkEndOfList
  <2>2. ASSUME NEW name,
               WalkNotIncreasing(name) \/ WalkLeavesSubtree(name)
               \/ WalkStream(name)
        PROVE  slots[s] = o
    BY <1>2, <2>2 DEF WalkNotIncreasing, WalkLeavesSubtree, WalkStream
  <2>3. ASSUME NEW name, WalkCollect(name) PROVE slots[s] = o
    BY <1>2, <2>3 DEF WalkCollect
  <2>4. QED
    BY <1>7, <2>1, <2>2, <2>3 DEF WalkBinding
<1>8. CASE StreamStop
  BY <1>2, <1>8 DEF StreamStop
<1>9. CASE Pass
  <2>1. CASE PassEmpty
    BY <2>1 DEF PassEmpty
  <2>2. ASSUME NEW p \in Op, PassSlot(p) PROVE slots[s] = o
    <3>1. ASSUME NEW r, Send(p, r) PROVE slots[s] = o
      BY <1>2, <3>1 DEF Send
    <3>2. CASE PassSend(p) \/ PassRetry(p)
      BY <3>1, <3>2 DEF PassSend, PassRetry
    <3>3. CASE PassDeadline(p) \/ PassFallBack(p) \/ PassHalve(p)
               \/ PassGiveUp(p) \/ PassWait(p)
      BY <1>2, <3>3 DEF PassDeadline, PassFallBack, PassHalve, PassGiveUp,
                        PassWait
    <3>4. QED
      BY <2>2, <3>2, <3>3 DEF PassSlot
  <2>3. QED
    BY <1>9, <2>1, <2>2 DEF Pass
<1>10. CASE DestroySlot
  BY <1>2, <1>10 DEF DestroySlot
<1>11. QED
  BY <1>3, <1>4, <1>5, <1>6, <1>7, <1>8, <1>9, <1>10 DEF Next, Internal

\* A pass is entered at the first slot, goes on slot by slot, and is left
\* when it has seen them all.
LEMMA PassMoves ==
  ASSUME RunInv, [Next]_vars
  PROVE  /\ pc' = "pass" => (pc = "pass" /\ (k' = k \/ Pass)) \/ k' = 1
         /\ pc' = "idle" => pc = "idle" \/ PassDone
<1>1. CASE UNCHANGED vars \/ Dead
  BY <1>1 DEF Dead, vars
<1>2. CASE Application
  <2>1. CASE Begin \/ DestroyClient
    BY <2>1 DEF Begin, DestroyClient
  <2>2. ASSUME NEW o \in Op, AddOID(o) \/ Configure(o) \/ Start(o)
        PROVE  pc' = pc /\ k' = k
    BY <2>2 DEF AddOID, Configure, Start
  <2>3. ASSUME NEW o \in Op, Cancel(o) \/ TakeCompleted(o) \/ DestroyOperation(o)
        PROVE  pc' = pc /\ k' = k
    BY <2>3 DEF Cancel, TakeCompleted, DestroyOperation
  <2>4. QED
    BY <1>2, <2>1, <2>2, <2>3 DEF Application
<1>3. CASE Call \/ Return
  BY <1>3 DEF Call, Loop, Return
<1>4. CASE Receive
  <2>1. pc' = "pass" => k' = 1
    BY <1>4 DEF Receive, ReceiveReply, ToPass, ReplyWalk
  <2>2. pc' # "idle"
    BY <1>4 DEF Receive, ReceiveReply, ToPass, ReplyWalk
  <2>3. QED
    BY <2>1, <2>2
<1>5. CASE WalkBinding
  <2>1. CASE WalkEndOfMib \/ WalkEndOfList
    BY <2>1 DEF WalkEndOfMib, WalkEndOfList, DeliveryEnds, ToPass
  <2>2. ASSUME NEW name,
               WalkNotIncreasing(name) \/ WalkLeavesSubtree(name)
               \/ WalkStream(name)
        PROVE  pc' \in {"pass", "stream"} /\ (pc' = "pass" => k' = 1)
    BY <2>2 DEF WalkNotIncreasing, WalkLeavesSubtree, WalkStream,
                DeliveryEnds, ToPass
  <2>3. ASSUME NEW name, WalkCollect(name)
        PROVE  (pc' = "pass" /\ k' = 1) \/ pc' = pc
    BY <2>3 DEF WalkCollect, DeliveryEnds, ToPass
  <2>4. QED
    BY <1>5, <2>1, <2>2, <2>3 DEF WalkBinding
<1>6. CASE StreamContinue \/ StreamStop
  BY <1>6 DEF StreamContinue, StreamStop, DeliveryEnds, ToPass
<1>7. CASE Pass \/ PassDone \/ DestroySlot \/ Destroyed
  BY <1>7 DEF Pass, PassDone, DestroySlot, Destroyed
<1>8. QED
  BY <1>1, <1>2, <1>3, <1>4, <1>5, <1>6, <1>7 DEF Next, Internal

\* After the pass has been at its slot, nothing is due for an operation.
LEMMA PassServes ==
  ASSUME RunInv, Step, Pass, NEW o \in Op, slots[k] = o,
         Pending(o), op'[o].status = "Pending", Timely(o, op[o], hist[o], now)
  PROVE  Served(o, op'[o], hist'[o])
<1>1. /\ OpInv /\ op[o] \in OperationState /\ hist[o] \in History
      /\ now \in Tick
  BY Parts DEF RunInv, OpInv, EnvInv
<1>2. pc = "pass" /\ active = {} /\ PassSlot(o) /\ ~AppTurn
  BY Constants DEF Pass, PassEmpty, AppTurn
<1>3. ~ Finish(o, op[o], "Timeout")
  <2> SUFFICES ASSUME Finish(o, op[o], "Timeout") PROVE FALSE
    OBVIOUS
  <2>1. op'[o].status = "Timeout"
    BY <1>1, FinishEffect
  <2>2. QED
    BY <2>1
<1>4. ~Overdue(o)
  BY <1>2, <1>3 DEF PassSlot, PassDeadline, PassSend, PassRetry, PassFallBack,
                    PassHalve, PassGiveUp, PassWait
<1>5. Walking(o) => hist[o].aged < WalkDeadline
  <2> SUFFICES ASSUME Walking(o) PROVE hist[o].aged < WalkDeadline
    OBVIOUS
  <2>1. hist[o].aged = IF op[o].id = 0 THEN 0
                       ELSE Least(Elapsed(op[o].startedAt), WalkDeadline)
    BY DEF Timely, Elapsed
  <2>2. CASE op[o].id = 0
    BY <2>1, <2>2, Constants
  <2>3. CASE op[o].id # 0
    <3>1. ~(Elapsed(op[o].startedAt) >= WalkDeadline)
      BY <1>4, <2>3 DEF Overdue
    <3>2. Elapsed(op[o].startedAt) \in Int /\ WalkDeadline \in Int
      <4>1. op[o].startedAt \in Int /\ now \in Int /\ ClockModulus \in Nat \ {0}
        BY <1>1, Constants DEF OperationState
      <4>2. QED
        BY <4>1, Constants DEF Elapsed
    <3> HIDE DEF Elapsed
    <3>3. QED
      BY <2>1, <2>3, <3>1, <3>2 DEF Least
  <2>4. QED
    BY <2>2, <2>3
<1>6. CASE Reopens(o)
  BY <1>5, <1>6 DEF Reopens, Served
<1>7. CASE Transmits(o)
  <2>1. op[o].sent \in BOOLEAN /\ hist'[o] = Counted(hist[o], ~op[o].sent)
    BY <1>1, <1>7 DEF Transmits, OperationState
  <2>2. hist'[o].waited = 0 /\ hist'[o].aged = hist[o].aged
    BY <1>1, <2>1, CountedFields
  <2>3. QED
    BY <1>5, <2>2, Constants DEF Served
<1>8. CASE op'[o] = op[o] /\ hist'[o] = hist[o]
  <2>1. op[o].sent => ~Expired(o)
    <3> SUFFICES ASSUME op[o].sent, Expired(o) PROVE FALSE
      OBVIOUS
    <3>1. ASSUME NEW r, Continue(o, Resend(r)), r \in OperationState PROVE FALSE
      <4>1. op'[o].sent = FALSE
        BY <1>1, <3>1 DEF Continue, Resend, OpInv, OperationState
      <4>2. QED
        BY <1>8, <4>1
    <3>2. ~PassFallBack(o) /\ ~PassHalve(o)
      <4>1. ~PassFallBack(o)
        <5> DEFINE r == [op[o] EXCEPT !.mode = "next"]
        <5>1. r \in OperationState
          BY <1>1 DEF OperationState
        <5> HIDE DEF r
        <5>2. QED
          BY <3>1, <5>1 DEF PassFallBack, r
      <4>2. ~PassHalve(o)
        <5> DEFINE b == op[o].batch \div 2
                   r == [op[o] EXCEPT !.batchLimit = b]
        <5>1. b \in Nat
          <6>1. op[o].batch \in Nat
            BY <1>1 DEF OperationState
          <6>2. QED
            BY <6>1
        <5> HIDE DEF b
        <5>2. r \in OperationState
          BY <1>1, <5>1 DEF OperationState
        <5> HIDE DEF r
        <5>3. QED
          BY <3>1, <5>2 DEF PassHalve, r, b
      <4>3. QED
        BY <4>1, <4>2
    <3>3. PassRetry(o)
      BY <1>2, <1>3, <3>2 DEF PassSlot, PassDeadline, PassSend, PassGiveUp,
                              PassWait
    <3>4. Transmits(o)
      <4> DEFINE t == op[o].startedAt
                 a == op[o].attempts + 1
                 r == [op[o] EXCEPT !.startedAt = t, !.attempts = a]
      <4>1. /\ op[o].mode # "set" /\ op[o].attempts < Retries
            /\ Send(o, [op[o] EXCEPT !.attempts = @ + 1])
        BY <3>3 DEF PassRetry, MayRetry
      <4>2. t \in Tick /\ a \in 0..Retries
        <5>1. op[o].attempts \in 0..Retries /\ t \in Tick
          BY <1>1 DEF OperationState
        <5>2. QED
          BY <4>1, <5>1, Constants
      <4>3. r = [op[o] EXCEPT !.attempts = @ + 1]
        BY <1>1 DEF OperationState
      <4> HIDE DEF t, a
      <4>4. r \in OperationState
        BY <1>1, <4>2 DEF OperationState
      <4> HIDE DEF r
      <4>5. UNCHANGED <<pc, rx>>
        BY DEF Pass
      <4>6. Ends(o) \/ Transmits(o)
        BY <1>2, <4>1, <4>3, <4>4, <4>5, SendForm DEF r, t, a
      <4>7. QED
        BY <4>6 DEF Ends
    <3>5. op'[o].attempts = op[o].attempts + 1 /\ op[o].attempts \in Nat
      <4>1. op[o].attempts \in 0..Retries
        BY <1>1 DEF OperationState
      <4>2. QED
        BY <3>4, <4>1, Constants DEF Transmits
    <3>6. QED
      BY <1>8, <3>5
  <2>2. op[o].sent => hist[o].waited < TimeoutMs
    <3> SUFFICES ASSUME op[o].sent PROVE hist[o].waited < TimeoutMs
      OBVIOUS
    <3>1. ~(Elapsed(op[o].sentAt) >= TimeoutMs)
      BY <2>1 DEF Expired
    <3>2. Elapsed(op[o].sentAt) \in Int /\ TimeoutMs \in Int
      <4>1. op[o].sentAt \in Int /\ now \in Int /\ ClockModulus \in Nat \ {0}
        BY <1>1, Constants DEF OperationState
      <4>2. QED
        BY <4>1, Constants DEF Elapsed
    <3>3. hist[o].waited = Least(Elapsed(op[o].sentAt), TimeoutMs)
      BY DEF Timely, Elapsed
    <3> HIDE DEF Elapsed
    <3>4. QED
      BY <3>1, <3>2, <3>3 DEF Least
  <2>3. QED
    BY <1>5, <1>8, <2>2 DEF Served
<1>9. CASE Edits(o) \/ Start(o)
  BY <1>2, <1>9 DEF Edits, Start, AddOID, Configure, TakeCompleted,
                    DestroyOperation
<1>10. CASE Ends(o)
  BY <1>10 DEF Ends
<1>11. CASE Advances(o)
  BY <1>2, <1>11 DEF Advances, Delivering
<1>12. CASE Rests
  BY <1>8, <1>12 DEF Rests
<1>13. ASSUME NEW p \in Op, Others(p), p # o
       PROVE  op'[o] = op[o] /\ hist'[o] = hist[o]
  BY <1>13 DEF Others
<1>14. ~ \E d \in 0..MaxStall : Loop(d)
  BY <1>2 DEF Loop
<1>15. QED
  BY <1>6, <1>7, <1>8, <1>9, <1>10, <1>11, <1>12, <1>13, <1>14 DEF Step

LEMMA ClocksNext == RunInv /\ Clocks /\ [Next]_vars => Clocks'
<1> SUFFICES ASSUME RunInv, Clocks, [Next]_vars PROVE Clocks'
  OBVIOUS
<1>1. RunInv' /\ Step
  BY RunNext
<1>2. CASE \E d \in 0..MaxStall : Loop(d)
  <2>1. PICK d \in 0..MaxStall : Loop(d)
    BY <1>2
  <2>2. op' = op /\ pc' = "receive"
    BY <2>1 DEF Loop
  <2>3. ASSUME NEW o \in Op, op'[o].status = "Pending"
        PROVE  Timely(o, op'[o], hist'[o], now')
    <3>1. Pending(o)
      BY <2>2, <2>3 DEF Pending
    <3>2. QED
      BY <2>1, <3>1, LoopTimely
  <2>4. QED
    BY <2>2, <2>3 DEF Clocks, Pending
<1>3. CASE ~ \E d \in 0..MaxStall : Loop(d)
  <2>1. now' = now
    BY <1>3, TimeStands
  <2>2. ASSUME NEW o \in Op, op'[o].status = "Pending"
        PROVE  /\ Timely(o, op'[o], hist'[o], now)
               /\ Start(o) \/ Served(o, op[o], hist[o]) =>
                    Served(o, op'[o], hist'[o])
    <3>1. Pending(o) \/ Start(o)
      BY <1>1, <2>2, PendingComes
    <3>2. Pending(o) => Timely(o, op[o], hist[o], now)
      BY DEF Clocks
    <3>3. QED
      BY <1>1, <1>3, <2>2, <3>1, <3>2, TimelyForms
  <2>3. ASSUME pc' = "idle", NEW o \in Op, op'[o].status = "Pending"
        PROVE  Served(o, op'[o], hist'[o])
    <3>1. CASE pc = "idle"
      <4>1. Start(o) \/ Served(o, op[o], hist[o])
        BY <1>1, <2>3, <3>1, PendingComes DEF Clocks
      <4>2. QED
        BY <2>2, <2>3, <4>1
    <3>2. CASE PassDone
      <4>1. /\ pc = "pass" /\ k > MaxPending
            /\ op' = op /\ hist' = hist /\ k \in 1..(MaxPending + 1)
        BY <3>2 DEF PassDone, RunInv, IInv, TypeOK
      <4>2. Pending(o)
        BY <2>3, <4>1 DEF Pending
      <4>3. PICK s \in Slot : slots[s] = o
        BY <4>2 DEF RunInv, IInv, SlotAgreement
      <4>4. s < k
        BY <4>1, <4>3, Constants
      <4>5. QED
        BY <4>1, <4>3, <4>4 DEF Clocks
    <3>3. QED
      BY <2>3, <3>1, <3>2, PassMoves
  <2>4. ASSUME pc' = "pass", NEW s \in Slot, NEW o \in Op, s < k', slots'[s] = o
        PROVE  Served(o, op'[o], hist'[o])
    <3>1. op'[o].status = "Pending"
      BY <1>1, <2>4, Constants DEF RunInv, IInv, SlotAgreement, Pending
    <3>2. s \in Nat /\ s >= 1 /\ k \in Nat
      <4>1. k \in 1..(MaxPending + 1)
        BY DEF RunInv, IInv, TypeOK
      <4>2. QED
        BY <4>1, Constants
    <3>3. pc = "pass" /\ (k' = k \/ Pass)
      BY <2>4, <3>2, PassMoves
    <3>4. CASE s < k
      <4>1. Start(o) \/ Served(o, op[o], hist[o])
        BY <2>4, <3>3, <3>4, SlotsFill DEF Clocks
      <4>2. QED
        BY <2>2, <3>1, <4>1
    <3>5. CASE ~(s < k)
      <4>1. Pass /\ s = k /\ active = {} /\ pc = "pass"
        BY <2>4, <3>2, <3>3, <3>5 DEF Pass
      <4>2. ~Start(o)
        BY <4>1 DEF Start, AppTurn
      <4>3. slots[k] = o
        BY <2>4, <4>1, <4>2, SlotsFill
      <4>4. Pending(o)
        BY <1>1, <3>1, <4>2, PendingComes
      <4>5. Timely(o, op[o], hist[o], now)
        BY <4>4 DEF Clocks
      <4>6. QED
        BY <1>1, <3>1, <4>1, <4>3, <4>4, <4>5, PassServes
    <3>6. QED
      BY <3>4, <3>5
  <2>5. QED
    BY <2>1, <2>2, <2>3, <2>4 DEF Clocks, Pending
<1>4. QED
  BY <1>2, <1>3

LEMMA ClocksHold == Spec => []Clocks
<1>1. Init => Clocks
  BY DEF Init, NewOperation, Clocks, Pending
<1>2. QED
  BY <1>1, RunHolds, ClocksNext, PTL DEF Spec

\* When loop() returns, no request has been waiting for its timeout or
\* longer and no walk is older than its deadline, although the clock wraps
\* and whatever the retries and fallbacks (the pass over pending_).
THEOREM TimeoutsServed == Spec => []TimeoutsAreServed
<1>1. Clocks => TimeoutsAreServed
  BY DEF Clocks, Served, TimeoutsAreServed
<1>2. QED
  BY <1>1, ClocksHold, PTL

\* A run ends with Timeout only if its timeout passed in true time after the
\* last allowed transmission, or its walk's deadline did (the unsigned
\* differences of loop()).
THEOREM TimeoutsAreDue == Spec => NoEarlyTimeout
<1> DEFINE Due(o) ==
      \/ /\ hist[o].waited >= TimeoutMs
         /\ Kind[o] # "set" => hist[o].copies = 1 + Retries
      \/ Walking(o) /\ hist[o].aged >= WalkDeadline
<1>1. ASSUME RunInv, Clocks, Transmissions, [Next]_vars, NEW o \in Op,
             Pending(o), op'[o].status = "Timeout"
      PROVE  Due(o)
  <2>1. /\ OpInv /\ op[o] \in OperationState /\ hist[o] \in History
        /\ now \in Tick
    BY <1>1, Parts DEF RunInv, OpInv, EnvInv
  <2>2. Ends(o)
    <3>1. Step
      BY <1>1, RunNext
    <3>2. op'[o] # op[o]
      BY <1>1 DEF Pending
    <3>3. ~Edits(o)
      BY <1>1, <2>1, EditFields DEF Pending
    <3>4. ~Start(o)
      BY <1>1 DEF Start, Pending
    <3>5. QED
      BY <1>1, <2>1, <3>1, <3>2, <3>3, <3>4, FormsOf
         DEF Reopens, Transmits, Advances
  <2>3. TimedOut(o)
    <3> SUFFICES ASSUME ~TimedOut(o) PROVE FALSE
      OBVIOUS
    <3>1. op'[o].status = Summary(op'[o].cells)
          /\ \E m \in Answers \cup Strays : Commits(o, m, Len(op[o].cells))
      BY <1>1, <2>2 DEF Ends
    <3>2. PICK m \in Answers \cup Strays : Commits(o, m, Len(op[o].cells))
      BY <3>1
    <3>3. Len(op'[o].cells) = 1 /\ op'[o].cells[1].status = "Timeout"
      BY <1>1, <3>1 DEF Summary
    <3>4. /\ Len(op[o].cells) = 1 /\ op[o].offset < 1
          /\ op[o].offset \in Nat
      BY <2>1, <3>2, <3>3 DEF Commits, OperationState
    <3>5. op'[o].cells[1].status \in Terminal \ {"Partial", "Timeout"}
      BY <3>2, <3>4 DEF Commits
    <3>6. QED
      BY <3>3, <3>5
  <2>4. /\ ClockModulus \in Nat \ {0} /\ TimeoutMs \in Nat
        /\ WalkDeadline \in Nat
    BY Constants
  <2>5. /\ Elapsed(op[o].sentAt) \in Int
        /\ Elapsed(op[o].startedAt) \in Int
    <3>1. op[o].sentAt \in Int /\ op[o].startedAt \in Int /\ now \in Int
      BY <2>1, <2>4 DEF OperationState
    <3>2. QED
      BY <2>4, <3>1 DEF Elapsed
  <2>6. /\ op[o].sent =>
             hist[o].waited = Least(Elapsed(op[o].sentAt), TimeoutMs)
        /\ Walking(o) /\ op[o].id # 0 =>
             hist[o].aged = Least(Elapsed(op[o].startedAt), WalkDeadline)
    BY <1>1 DEF Clocks, Timely, Elapsed
  <2>7. CASE Overdue(o)
    BY <2>4, <2>5, <2>6, <2>7 DEF Overdue, Least
  <2>8. CASE Expired(o) /\ ~MayRetry(o)
    <3>1. hist[o].waited >= TimeoutMs /\ op[o].sent
      BY <2>4, <2>5, <2>6, <2>8 DEF Expired, Least
    <3>2. ASSUME Kind[o] # "set" PROVE hist[o].copies = 1 + Retries
      <4>1. op[o].mode # "set"
        BY <1>1, <3>2 DEF RunInv, Modes
      <4>2. op[o].attempts \in 0..Retries /\ Retries \in Nat
        BY <2>1, Constants DEF OperationState
      <4>3. ~(op[o].attempts < Retries)
        BY <2>8, <4>1 DEF MayRetry
      <4>4. hist[o].copies = op[o].attempts + 1
        BY <1>1, <3>1 DEF Transmissions
      <4>5. QED
        BY <4>2, <4>3, <4>4
    <3>3. QED
      BY <3>1, <3>2
  <2>9. QED
    BY <2>3, <2>7, <2>8 DEF TimedOut
<1>2. RunInv /\ Clocks /\ Transmissions /\ [Next]_vars =>
        [\A o \in Op : Pending(o) /\ op'[o].status = "Timeout" => Due(o)]_vars
  BY <1>1
<1>3. QED
  BY <1>2, RunHolds, ClocksHold, TransmissionsHold, PTL DEF Spec, NoEarlyTimeout
=============================================================================
