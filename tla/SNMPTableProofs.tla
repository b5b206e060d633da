--------------------------- MODULE SNMPTableProofs ---------------------------
(***************************************************************************)
(* Proofs about table reads, for any capacities, columns, indices and      *)
(* agents: the table and its walk are pending together (TableInv), rows    *)
(* are joined by their index (RowsJoined), valid cells stay (CellsStay)    *)
(* and the outcome is true of them (OutcomeIsHonest).                      *)
(***************************************************************************)
EXTENDS SNMPTableProperties, FiniteSetTheorems, TLAPS

USE TableAssumption DEF TableAssumption

\* Column k of a table is a column.
LEMMA ColumnType ==
  ASSUME TableTypeOK, NEW k \in 1..Len(table.columns)
  PROVE  /\ table.columns[k] \in Column
         /\ table.columns[k].name \in Name
         /\ table.columns[k].name # NoName
<1>1. table.columns \in Seq(Column)
  BY DEF TableTypeOK, Table
<1>2. table.columns[k] \in Column
  BY <1>1
<1>3. QED
  BY <1>2 DEF Column

LEMMA InitInv == Init => TableInv
<1> SUFFICES ASSUME Init PROVE TableInv
  OBVIOUS
<1>1. table \in Table /\ Len(table.columns) <= Columns
  BY DEF Init, NewTable, Table, Outcome, Width
<1>2. DOMAIN rows = {} /\ rows \in [DOMAIN rows -> Row]
  BY DEF Init, NoRows
<1>3. Cardinality(DOMAIN rows) <= Rows
  BY <1>2, FS_EmptySet
<1>4. TableTypeOK
  BY <1>1, <1>2, <1>3 DEF Init, TableTypeOK, WalkStatus
<1>5. WalkAgrees /\ FillsInOrder
  BY DEF Init, NewTable, WalkAgrees, FillsInOrder, Pending
<1>6. QED
  BY <1>4, <1>5 DEF TableInv

-----------------------------------------------------------------------------
(***************************************************************************)
(* consume() keeps the types, and gives up no valid cell.                  *)
(***************************************************************************)
LEMMA DeliverRows ==
  ASSUME TableInv, NEW i \in Index, NEW b \in Bindings, Deliver(i, b)
  PROVE  /\ IndexText(i) = i
         /\ Pending /\ table.current \in 1..Len(table.columns)
         /\ CellOf(i, b) \in Cell
         /\ DOMAIN rows' = DOMAIN rows \cup {i}
         /\ \A j \in DOMAIN rows : j # i => rows'[j] = rows[j]
         /\ rows'[i] = Filled(IF i \in DOMAIN rows THEN rows[i] ELSE EmptyRow,
                              CellOf(i, b))
<1>1. Pending /\ IndexText(i) = i
  BY DEF Deliver, TableInv, WalkAgrees, IndexText
<1>2. table.current \in 1..Len(table.columns)
  BY <1>1 DEF TableInv, WalkAgrees, TableTypeOK, Table, Width
<1>3. CellOf(i, b) \in Cell
  BY DEF CellOf, Cell, Source, TableInv, TableTypeOK, Index
<1>4. QED
  BY <1>1, <1>2, <1>3 DEF Deliver, Consumed

LEMMA FilledRow ==
  ASSUME TableTypeOK, NEW row \in Row, NEW cell \in Cell
  PROVE  /\ Filled(row, cell) \in Row
         /\ \A c \in Width : c # table.current => Filled(row, cell)[c] = row[c]
         /\ Filled(row, cell)[table.current]
              = IF Kept(row[table.current]) THEN row[table.current] ELSE cell
  BY DEF Filled, Row, TableTypeOK, Table

LEMMA EmptyRowType ==
  EmptyRow \in Row /\ \A c \in Width : EmptyRow[c].status # "Success"
                                       /\ EmptyRow[c].src = NoSource
  BY DEF EmptyRow, Row, Cell, Source, NoSource

LEMMA DeliverInv ==
  ASSUME TableInv, NEW i \in Index, NEW b \in Bindings, Deliver(i, b)
  PROVE  TableInv'
<1> DEFINE row == IF i \in DOMAIN rows THEN rows[i] ELSE EmptyRow
<1>1. /\ IndexText(i) = i /\ Pending /\ CellOf(i, b) \in Cell
      /\ DOMAIN rows' = DOMAIN rows \cup {i}
      /\ \A j \in DOMAIN rows : j # i => rows'[j] = rows[j]
      /\ rows'[i] = Filled(row, CellOf(i, b))
  BY DeliverRows
<1>2. row \in Row
  BY EmptyRowType DEF TableInv, TableTypeOK
<1> HIDE DEF row
<1>3. rows' \in [DOMAIN rows' -> Row]
  <2>1. \A j \in DOMAIN rows' : rows'[j] \in Row
    BY <1>1, <1>2, FilledRow DEF TableInv, TableTypeOK
  <2>2. rows' = [j \in DOMAIN rows' |-> rows'[j]]
    BY DEF Deliver, Consumed
  <2>3. QED
    BY <2>1, <2>2
<1>4. Cardinality(DOMAIN rows') <= Rows
  <2>1. IsFiniteSet(DOMAIN rows)
    <3>1. IsFiniteSet(1..Indices)
      BY FS_Interval
    <3>2. QED
      BY <3>1, FS_Subset DEF TableInv, TableTypeOK, Index
  <2>2. Cardinality(DOMAIN rows) \in Nat
    BY <2>1, FS_CardinalityType
  <2>3. CASE i \in DOMAIN rows
    BY <2>3, <1>1 DEF TableInv, TableTypeOK
  <2>4. CASE i \notin DOMAIN rows
    <3>1. Cardinality(DOMAIN rows') = Cardinality(DOMAIN rows) + 1
      BY <2>1, <2>4, <1>1, FS_AddElement
    <3>2. Cardinality(DOMAIN rows) # Rows
      BY <2>4, <1>1 DEF Deliver, Refused
    <3>3. QED
      BY <3>1, <3>2, <2>2 DEF TableInv, TableTypeOK
  <2>5. QED
    BY <2>3, <2>4
<1>5. TableTypeOK'
  <2>1. walk' \in [status : WalkStatus, root : Name \cup {NoName}, at : 0..Indices]
    BY DEF Deliver, TableInv, TableTypeOK, Index
  <2>2. DOMAIN rows' \subseteq Index /\ run' = run
    BY <1>1 DEF Deliver, TableInv, TableTypeOK
  <2>3. QED
    BY <2>1, <2>2, <1>3, <1>4 DEF Deliver, TableInv, TableTypeOK
<1>6. WalkAgrees'
  BY DEF Deliver, TableInv, WalkAgrees, Pending, NameInEffect, TableTypeOK
<1>7. FillsInOrder'
  <2> SUFFICES ASSUME NEW j \in DOMAIN rows', NEW c \in Width,
                      \/ c > table.current
                      \/ c = table.current /\ ~table.usingFallback /\ j > i
               PROVE  rows'[j][c].status # "Success"
    BY DEF FillsInOrder, Deliver, TableInv, TableTypeOK
  <2>1. CASE j # i
    BY <2>1, <1>1 DEF Deliver, TableInv, FillsInOrder, TableTypeOK, Table,
                      Index, Width
  <2>2. CASE j = i
    <3>1. c # table.current /\ c > table.current
      BY <2>2 DEF Index, Width, TableInv, TableTypeOK, Table
    <3>2. rows'[i][c] = row[c]
      BY <3>1, <1>1, <1>2, FilledRow DEF TableInv
    <3>3. row[c].status # "Success"
      BY <3>1, <1>1, EmptyRowType DEF row, TableInv, FillsInOrder
    <3>4. QED
      BY <2>2, <3>2, <3>3
  <2>3. QED
    BY <2>1, <2>2
<1>8. QED
  BY <1>5, <1>6, <1>7 DEF TableInv
-----------------------------------------------------------------------------
(***************************************************************************)
(* advance() stops the table, or goes on with a walk of the right column.  *)
(***************************************************************************)
Ending == WalkStatus \ {"Pending", "NotStarted"}

LEMMA StopInv ==
  ASSUME TableInv, NEW t \in Table, t.columns = table.columns,
         NEW x \in Outcome, table' = Stopped(t, x),
         NEW s \in Ending, walk' \in [status : {s}, root : Name \cup {NoName},
                                      at : 0..Indices],
         rows' = rows, client' \in {"new", "begun", "closing", "gone"},
         valid' \in BOOLEAN, run' = run
  PROVE  TableInv'
<1>1. /\ table' \in Table /\ table'.columns = table.columns
      /\ table'.status = x
  BY DEF Stopped, Table
<1>2. walk' \in [status : WalkStatus, root : Name \cup {NoName}, at : 0..Indices]
      /\ walk'.status # "Pending"
  BY DEF Ending
<1>3. x # "Pending"
  BY DEF Outcome, Stopping
<1>4. TableTypeOK'
  BY <1>1, <1>2 DEF TableInv, TableTypeOK
<1>5. WalkAgrees' /\ FillsInOrder'
  BY <1>1, <1>2, <1>3 DEF WalkAgrees, FillsInOrder, Pending
<1>6. QED
  BY <1>4, <1>5 DEF TableInv

\* configure() and start() for a column k of the table, or its fallback.
LEMMA WalkOnInv ==
  ASSUME TableInv, Pending, NEW t \in Table, t.columns = table.columns,
         t.status = "Pending", t.completed = FALSE,
         t.current \in 1..Len(table.columns),
         \/ t.current = table.current /\ t.usingFallback
         \/ t.current > table.current /\ ~t.usingFallback,
         t.usingFallback => t.columns[t.current].fallback # NoName,
         NEW s \in Ending, WalkOn(t, s),
         rows' = rows, client' \in {"new", "begun", "closing", "gone"},
         valid' \in BOOLEAN, run' = run
  PROVE  TableInv'
<1>1. NameInEffect(t) \in Name /\ NameInEffect(t) # NoName
  BY ColumnType DEF NameInEffect, TableInv, Column
<1>2. CASE valid
  <2>1. table' = t
        /\ walk' = [status |-> "Pending", root |-> NameInEffect(t), at |-> 0]
    BY <1>2 DEF WalkOn
  <2>2. TableTypeOK'
    BY <2>1, <1>1 DEF TableInv, TableTypeOK, WalkStatus
  <2>3. WalkAgrees'
    BY <2>1, <1>1 DEF WalkAgrees, Pending, NameInEffect
  <2>4. FillsInOrder'
    <3>1. table'.current = t.current /\ table'.usingFallback = t.usingFallback
      BY <2>1
    <3>2. ASSUME NEW i \in DOMAIN rows, NEW c \in Width,
                 c > t.current \/ (c = t.current /\ ~t.usingFallback)
          PROVE  rows[i][c].status # "Success"
      <4>1. table.current \in Int /\ t.current \in Int /\ c \in Int
        BY DEF Table, Width, TableInv, TableTypeOK
      <4>2. c > table.current
        BY <3>2, <4>1
      <4>3. QED
        BY <4>2 DEF TableInv, FillsInOrder
    <3>3. QED
      BY <3>1, <3>2 DEF FillsInOrder
  <2>5. QED
    BY <2>2, <2>3, <2>4 DEF TableInv
<1>3. CASE ~valid
  <2>1. table' = Stopped(t, "InvalidConfiguration")
        /\ walk' = [walk EXCEPT !.status = s, !.root = NameInEffect(t)]
    BY <1>3 DEF WalkOn
  <2>2. walk' \in [status : {s}, root : Name \cup {NoName}, at : 0..Indices]
    BY <2>1, <1>1 DEF TableInv, TableTypeOK
  <2>3. QED
    BY <2>1, <2>2, StopInv DEF Outcome
<1>4. QED
  BY <1>2, <1>3

LEMMA AdvanceInv ==
  ASSUME TableInv, Pending, NEW s \in Ending, Advance(s),
         rows' = rows, client' \in {"new", "begun", "closing", "gone"},
         valid' \in BOOLEAN, run' = run
  PROVE  TableInv'
<1>1. /\ table \in Table /\ table.current \in 1..Len(table.columns)
      /\ table.status = "Pending" /\ table.completed = FALSE
      /\ Len(table.columns) \in Nat /\ Len(table.columns) <= Columns
  BY DEF TableInv, TableTypeOK, WalkAgrees, Pending, Table, Width
<1>2. \A x \in Ending : [walk EXCEPT !.status = x]
         \in [status : {x}, root : Name \cup {NoName}, at : 0..Indices]
  BY DEF TableInv, TableTypeOK
<1>3. CASE s \in Stopping
  <2>1. table' = Stopped(table, s) /\ walk' = [walk EXCEPT !.status = s]
    BY <1>3 DEF Advance, Stop
  <2>2. s \in Outcome
    BY <1>3 DEF Outcome
  <2>3. QED
    BY <2>1, <2>2, <1>1, <1>2, StopInv
<1>4. CASE s \notin Stopping /\ WantsFallback(s)
  <2> DEFINE t == [table EXCEPT !.usingFallback = TRUE]
  <2>1. /\ t \in Table /\ t.columns = table.columns /\ t.status = "Pending"
        /\ t.completed = FALSE /\ t.usingFallback
        /\ t.current = table.current
    BY <1>1 DEF Table
  <2>2. WalkOn(t, s) /\ t.columns[t.current].fallback # NoName
    BY <1>4, <2>1 DEF Advance, WantsFallback
  <2> HIDE DEF t
  <2>3. QED
    BY <2>1, <2>2, <1>1, WalkOnInv
<1>5. CASE s \notin Stopping /\ ~WantsFallback(s)
  <2> DEFINE d == ColumnDone(s)
             t == [d EXCEPT !.current = @ + 1]
  <2>1. /\ d \in Table /\ d.columns = table.columns /\ d.status = "Pending"
        /\ d.completed = FALSE /\ ~d.usingFallback
        /\ d.current = table.current
    BY <1>1 DEF ColumnDone, Table
  <2>2. IF d.current < Len(d.columns)
          THEN WalkOn(t, s)
          ELSE Stop(Stopped(d, FinalStatus(d)), s)
    BY <1>5 DEF Advance
  <2> HIDE DEF d
  <2>3. CASE d.current < Len(d.columns)
    <3>1. t.current = table.current + 1
      BY <2>1 DEF Table
    <3>2. t.current \in 1..Len(table.columns) /\ t.current \in Width
      BY <3>1, <2>1, <2>3, <1>1 DEF Width
    <3>3. /\ t \in Table /\ t.columns = table.columns /\ t.status = "Pending"
          /\ t.completed = FALSE /\ ~t.usingFallback
      BY <2>1, <3>1, <3>2 DEF Table
    <3>4. t.current > table.current
      BY <3>1, <1>1
    <3>5. WalkOn(t, s)
      BY <2>2, <2>3
    <3> HIDE DEF t
    <3>6. QED
      BY <3>2, <3>3, <3>4, <3>5, WalkOnInv
  <2>4. CASE ~(d.current < Len(d.columns))
    <3>1. table' = Stopped(d, FinalStatus(d)) /\ walk' = [walk EXCEPT !.status = s]
      BY <2>2, <2>4 DEF Stop
    <3>2. FinalStatus(d) \in Outcome
      BY DEF FinalStatus, Outcome
    <3>3. QED
      BY <2>1, <3>1, <3>2, <1>2, StopInv
  <2>5. QED
    BY <2>3, <2>4
<1>6. QED
  BY <1>3, <1>4, <1>5

-----------------------------------------------------------------------------
LEMMA StartInv == TableInv /\ Start => TableInv'
<1> SUFFICES ASSUME TableInv, Start PROVE TableInv'
  OBVIOUS
<1>1. table.columns \in Seq(Column) /\ 1 \in 1..Len(table.columns)
  BY DEF Start, TableInv, TableTypeOK, Table
<1>2. table.columns[1].name \in Name /\ table.columns[1].name # NoName
  BY <1>1, ColumnType DEF TableInv
<1>3. /\ table' \in Table /\ table'.columns = table.columns /\ table'.current = 1
      /\ ~table'.usingFallback /\ ~table'.completed /\ table'.status = "Pending"
  <2>1. table \in Table /\ 1 \in Width /\ table' = Started
    BY DEF Start, TableInv, TableTypeOK, Width
  <2>2. QED
    BY <2>1 DEF Started, Table
<1>4. DOMAIN rows' = {} /\ rows' \in [DOMAIN rows' -> Row]
  BY DEF Start, Released, NoRows
<1>5. Cardinality(DOMAIN rows') <= Rows
  BY <1>4, FS_EmptySet
<1>6. run' \in 0..MaxRuns
  BY DEF Start, TableInv, TableTypeOK
<1>7. TableTypeOK'
  BY <1>2, <1>3, <1>4, <1>5, <1>6 DEF Start, TableInv, TableTypeOK, WalkStatus
<1>8. WalkAgrees'
  BY <1>1, <1>2, <1>3 DEF Start, WalkAgrees, Pending, NameInEffect
<1>9. FillsInOrder'
  BY <1>4 DEF FillsInOrder
<1>10. QED
  BY <1>7, <1>8, <1>9 DEF TableInv

LEMMA AddColumnInv ==
  ASSUME TableInv, NEW c \in Offered, AddColumn(c) PROVE TableInv'
<1>1. table' \in Table /\ Len(table'.columns) <= Columns
      /\ table'.status = table.status
  <2>1. Append(table.columns, c) \in Seq(Column)
        /\ Len(Append(table.columns, c)) = Len(table.columns) + 1
    BY DEF TableInv, TableTypeOK, Table
  <2>2. Len(table.columns) \in Nat
    BY DEF TableInv, TableTypeOK, Table
  <2>3. table' = [table EXCEPT !.columns = Append(table.columns, c)]
        /\ table \in Table /\ Len(table.columns) < Columns
    BY DEF AddColumn, TableInv, TableTypeOK
  <2>4. table' \in Table /\ table'.columns = Append(table.columns, c)
        /\ table'.status = table.status
    BY <2>1, <2>3 DEF Table
  <2>5. QED
    BY <2>1, <2>2, <2>3, <2>4
<1>2. TableTypeOK'
  <2>1. UNCHANGED <<rows, walk, client, valid, run>>
    BY DEF AddColumn
  <2>2. QED
    BY <1>1, <2>1 DEF TableInv, TableTypeOK
<1>3. QED
  BY <1>1, <1>2 DEF AddColumn, TableInv, WalkAgrees, FillsInOrder, Pending

LEMMA NextInv == TableInv /\ [Next]_vars => TableInv'
<1> SUFFICES ASSUME TableInv, [Next]_vars PROVE TableInv'
  OBVIOUS
<1>1. ASSUME NEW i \in Index, NEW b \in Bindings, Deliver(i, b) PROVE TableInv'
  BY <1>1, DeliverInv
<1>2. ASSUME NEW i \in Index, Overflow(i) PROVE TableInv'
  <2>1. "CapacityExceeded" \in Ending /\ Pending
    BY <1>2 DEF Overflow, Ending, WalkStatus, Stopping, TableInv, WalkAgrees
  <2>2. run' = run
    BY <1>2 DEF Overflow, Noted
  <2>3. QED
    BY <1>2, <2>1, <2>2, AdvanceInv DEF Overflow, TableInv, TableTypeOK
<1>3. ASSUME NEW s \in WalkOutcomes, WalkEnds(s) PROVE TableInv'
  <2>1. s \in Ending /\ Pending
    BY <1>3 DEF WalkEnds, Ending, WalkStatus, TableInv, WalkAgrees
  <2>2. run' = run
    BY <1>3 DEF WalkEnds, Noted
  <2>3. QED
    BY <1>3, <2>1, <2>2, AdvanceInv DEF WalkEnds, TableInv, TableTypeOK
<1>4. CASE Cancel \/ (DestroyWalk /\ walk.status = "Pending")
  <2>1. "Cancelled" \in Ending /\ Pending
    BY <1>4 DEF Cancel, Ending, WalkStatus, Stopping, TableInv, WalkAgrees
  <2>2. run' = run
    BY <1>4 DEF Cancel, DestroyWalk, Noted
  <2>3. QED
    BY <1>4, <2>1, <2>2, AdvanceInv DEF Cancel, DestroyWalk, TableInv, TableTypeOK
<1>5. ASSUME NEW c \in Offered, AddColumn(c) PROVE TableInv'
  BY <1>5, AddColumnInv
<1>6. CASE Start
  BY <1>6, StartInv
<1>7. CASE RejectedStart
  <2>1. 1 \in 1..Len(table.columns)
    BY <1>7 DEF RejectedStart, TableInv, TableTypeOK, Table
  <2>2. table.columns[1].name \in Name
    BY <2>1, ColumnType DEF TableInv
  <2>3. walk' \in [status : WalkStatus, root : Name \cup {NoName}, at : 0..Indices]
        /\ walk'.status = walk.status
    BY <1>7, <2>2 DEF RejectedStart, TableInv, TableTypeOK
  <2>4. QED
    BY <1>7, <2>3 DEF RejectedStart, TableInv, TableTypeOK, WalkAgrees,
                      FillsInOrder, Pending
<1>8. CASE TakeCompleted
  <2>1. /\ table' \in Table /\ ~Pending
        /\ table'.columns = table.columns /\ table'.status = table.status
    BY <1>8 DEF TakeCompleted, TableInv, TableTypeOK, WalkAgrees, Table, Pending
  <2>2. QED
    BY <1>8, <2>1 DEF TakeCompleted, TableInv, TableTypeOK, WalkAgrees,
                      FillsInOrder, Pending
<1>9. CASE ChangeDevice \/ Begin \/ DestroyClient \/ UNCHANGED vars
            \/ (DestroyWalk /\ walk.status # "Pending")
  BY <1>9 DEF ChangeDevice, Begin, DestroyClient, DestroyWalk, vars, TableInv,
              TableTypeOK, WalkAgrees, FillsInOrder, Pending, NameInEffect
<1>10. QED
  BY <1>1, <1>2, <1>3, <1>4, <1>5, <1>6, <1>7, <1>8, <1>9
     DEF Next, WalkStep, SketchStep

\* A pending table has a running walk, of the column whose name consume()
\* cuts off; it is never left waiting, whatever the walks' outcomes.
THEOREM TableInvHolds == Spec => []TableInv
BY InitInv, NextInv, PTL DEF Spec
-----------------------------------------------------------------------------
(***************************************************************************)
(* Every step but a delivery, a start and an added column keeps the rows,  *)
(* the columns and the run.                                                *)
(***************************************************************************)
LEMMA AdvanceColumns ==
  ASSUME TableTypeOK, NEW s, Advance(s) PROVE table'.columns = table.columns
<1>1. table \in Table
  BY DEF TableTypeOK
<1>2. \A t, x : WalkOn(t, x) /\ t \in Table => table'.columns = t.columns
  BY DEF WalkOn, Stopped, Table
<1>3. \A t, x, y : Stop(Stopped(t, y), x) /\ t \in Table => table'.columns = t.columns
  BY DEF Stop, Stopped, Table
<1>4. CASE s \in Stopping
  BY <1>1, <1>3, <1>4 DEF Advance
<1>5. CASE s \notin Stopping /\ WantsFallback(s)
  <2> DEFINE t == [table EXCEPT !.usingFallback = TRUE]
  <2>1. t \in Table /\ t.columns = table.columns
    BY <1>1 DEF Table
  <2>2. WalkOn(t, s)
    BY <1>5 DEF Advance
  <2> HIDE DEF t
  <2>3. QED
    BY <2>1, <2>2, <1>2
<1>6. CASE s \notin Stopping /\ ~WantsFallback(s)
  <2> DEFINE d == ColumnDone(s)
             t == [d EXCEPT !.current = @ + 1]
  <2>1. d \in Table /\ d.columns = table.columns
    BY <1>1 DEF ColumnDone, Table
  <2>2. IF d.current < Len(d.columns)
          THEN WalkOn(t, s) ELSE Stop(Stopped(d, FinalStatus(d)), s)
    BY <1>6 DEF Advance
  <2> HIDE DEF d
  <2>3. WalkOn(t, s) => table'.columns = t.columns
    BY <2>1 DEF WalkOn, Stopped, Table
  <2>4. t.columns = d.columns
    BY <2>1 DEF Table
  <2>5. QED
    BY <2>1, <2>2, <2>3, <2>4, <1>3
<1>7. QED
  BY <1>4, <1>5, <1>6

LEMMA OtherSteps ==
  ASSUME TableInv, [Next]_vars,
         ~(\E i \in Index, b \in Bindings : Deliver(i, b)), ~Start,
         ~(\E c \in Offered : AddColumn(c))
  PROVE  rows' = rows /\ run' = run /\ table'.columns = table.columns
<1>1. TableTypeOK
  BY DEF TableInv
<1>2. ASSUME NEW i \in Index, Overflow(i)
      PROVE  rows' = rows /\ run' = run /\ table'.columns = table.columns
  BY <1>1, <1>2, AdvanceColumns DEF Overflow
<1>3. ASSUME NEW s \in WalkOutcomes, WalkEnds(s)
      PROVE  rows' = rows /\ run' = run /\ table'.columns = table.columns
  BY <1>1, <1>3, AdvanceColumns DEF WalkEnds
<1>4. CASE Cancel \/ DestroyWalk
  BY <1>1, <1>4, AdvanceColumns DEF Cancel, DestroyWalk
<1>5. CASE TakeCompleted
  BY <1>1, <1>5 DEF TakeCompleted, TableTypeOK, Table
<1>6. CASE RejectedStart \/ ChangeDevice \/ Begin \/ DestroyClient \/ UNCHANGED vars
  BY <1>6 DEF RejectedStart, ChangeDevice, Begin, DestroyClient, vars
<1>7. QED
  BY <1>2, <1>3, <1>4, <1>5, <1>6 DEF Next, WalkStep, SketchStep

\* What RowsJoined says of one cell.
Joined(i, c, cell) ==
  cell.src # NoSource =>
    /\ c <= Len(table.columns)
    /\ cell.src.run = run
    /\ cell.src.index = i
    /\ cell.src.name \in {table.columns[c].name, table.columns[c].fallback}
    /\ cell.status = "Success" =>
         \/ /\ cell.src.name = table.columns[c].name
            /\ table.columns[c].expected \in {AnyType, cell.src.type}
         \/ /\ cell.src.name = table.columns[c].fallback
            /\ table.columns[c].fallbackExpected \in {AnyType, cell.src.type}

LEMMA RowsJoinedDef ==
  RowsJoined <=> \A i \in DOMAIN rows : \A c \in Width : Joined(i, c, rows[i][c])
BY DEF RowsJoined, Joined

\* The cell that consume() makes belongs to the row and column it goes to.
LEMMA NewCellJoined ==
  ASSUME TableInv, NEW i \in Index, NEW b \in Bindings, Deliver(i, b)
  PROVE  Joined(i, table.current, CellOf(i, b))
<1>1. walk.root = NameInEffect(table) /\ table.current <= Len(table.columns)
  BY DEF Deliver, TableInv, WalkAgrees
<1> DEFINE column == table.columns[table.current]
<1>2. walk.root = IF table.usingFallback THEN column.fallback ELSE column.name
  BY <1>1 DEF NameInEffect
<1>3. ASSUME CellOf(i, b).status = "Success"
      PROVE  (IF table.usingFallback THEN column.fallbackExpected ELSE column.expected)
               \in {AnyType, b.type}
  BY <1>3 DEF CellOf, ExpectedInEffect
<1>4. CellOf(i, b).src = [run |-> run, name |-> walk.root, index |-> i,
                          type |-> b.type]
  BY DEF CellOf
<1>5. QED
  BY <1>1, <1>2, <1>3, <1>4 DEF Joined

LEMMA JoinedNext == TableInv /\ RowsJoined /\ [Next]_vars => RowsJoined'
<1> SUFFICES ASSUME TableInv, RowsJoined, [Next]_vars PROVE RowsJoined'
  OBVIOUS
<1>1. ASSUME NEW i \in Index, NEW b \in Bindings, Deliver(i, b) PROVE RowsJoined'
  <2> DEFINE row == IF i \in DOMAIN rows THEN rows[i] ELSE EmptyRow
  <2>1. /\ DOMAIN rows' = DOMAIN rows \cup {i} /\ CellOf(i, b) \in Cell
        /\ \A j \in DOMAIN rows : j # i => rows'[j] = rows[j]
        /\ rows'[i] = Filled(row, CellOf(i, b))
        /\ table' = table /\ run' = run
    BY <1>1, DeliverRows DEF Deliver
  <2>2. row \in Row /\ \A c \in Width : Joined(i, c, row[c])
    BY RowsJoinedDef, EmptyRowType DEF Joined, TableInv, TableTypeOK
  <2> HIDE DEF row
  <2>3. ASSUME NEW j \in DOMAIN rows', NEW c \in Width PROVE Joined(j, c, rows'[j][c])
    <3>1. CASE j # i
      BY <3>1, <2>1, RowsJoinedDef
    <3>2. CASE j = i /\ c # table.current
      BY <3>2, <2>1, <2>2, FilledRow DEF TableInv
    <3>3. CASE j = i /\ c = table.current
      BY <3>3, <2>1, <2>2, FilledRow, <1>1, NewCellJoined DEF TableInv
    <3>4. QED
      BY <3>1, <3>2, <3>3
  <2>4. QED
    BY <2>1, <2>3 DEF RowsJoined, Joined
<1>2. CASE Start
  BY <1>2 DEF Start, Released, NoRows, RowsJoined
<1>3. ASSUME NEW k \in Offered, AddColumn(k) PROVE RowsJoined'
  <2>1. /\ Len(table'.columns) = Len(table.columns) + 1
        /\ Len(table.columns) \in Nat
        /\ \A c \in 1..Len(table.columns) : table'.columns[c] = table.columns[c]
    <3>1. table.columns \in Seq(Column) /\ k \in Column
          /\ table' = [table EXCEPT !.columns = Append(table.columns, k)]
      BY <1>3 DEF AddColumn, TableInv, TableTypeOK, Table
    <3>2. table'.columns = Append(table.columns, k)
      BY <3>1 DEF TableInv, TableTypeOK, Table
    <3>3. QED
      BY <3>1, <3>2
  <2>2. rows' = rows /\ run' = run
    BY <1>3 DEF AddColumn
  <2>3. ASSUME NEW j \in DOMAIN rows, NEW c \in Width, rows[j][c].src # NoSource
        PROVE  c \in 1..Len(table.columns)
    BY <2>1, <2>3 DEF RowsJoined, Width
  <2>4. QED
    BY <2>1, <2>2, <2>3 DEF RowsJoined
<1>4. CASE /\ ~(\E i \in Index, b \in Bindings : Deliver(i, b)) /\ ~Start
           /\ ~(\E c \in Offered : AddColumn(c))
  BY <1>4, OtherSteps DEF RowsJoined
<1>5. QED
  BY <1>1, <1>2, <1>3, <1>4

\* Cells are joined by the whole index, within one run, and hold what their
\* column, or its fallback, was answered (consume()).
THEOREM RowsJoinedHolds == Spec => []RowsJoined
<1>1. Init => RowsJoined
  BY DEF Init, NoRows, RowsJoined
<1>2. QED
  BY <1>1, JoinedNext, TableInvHolds, PTL DEF Spec

\* consume() never gives up a valid cell: a fallback column, or an agent
\* that goes on after a failure, only fills gaps.
THEOREM CellsStayHolds == Spec => CellsStay
<1> DEFINE Kept1 == run' = run =>
             \A i \in DOMAIN rows :
               /\ i \in DOMAIN rows'
               /\ \A c \in Width : rows[i][c].status = "Success" =>
                    rows'[i][c] = rows[i][c]
<1>1. TableInv /\ [Next]_vars => [Kept1]_vars
  <2> SUFFICES ASSUME TableInv, [Next]_vars PROVE Kept1
    OBVIOUS
  <2>1. ASSUME NEW i \in Index, NEW b \in Bindings, Deliver(i, b) PROVE Kept1
    <3>1. /\ DOMAIN rows' = DOMAIN rows \cup {i} /\ CellOf(i, b) \in Cell
          /\ \A j \in DOMAIN rows : j # i => rows'[j] = rows[j]
          /\ i \in DOMAIN rows => rows'[i] = Filled(rows[i], CellOf(i, b))
          /\ Pending /\ table.current \in Width
      BY <2>1, DeliverRows DEF TableInv, TableTypeOK, Table
    <3>2. ASSUME i \in DOMAIN rows, NEW c \in Width,
                 rows[i][c].status = "Success"
          PROVE  rows'[i][c] = rows[i][c]
      <4>1. rows[i] \in Row
        BY <3>2 DEF TableInv, TableTypeOK
      <4>2. CASE c # table.current
        BY <3>1, <3>2, <4>1, <4>2, FilledRow DEF TableInv
      <4>3. CASE c = table.current
        <5>1. table.usingFallback
          BY <2>1, <3>1, <3>2, <4>3 DEF Deliver, TableInv, FillsInOrder
        <5>2. Kept(rows[i][table.current])
          BY <5>1, <3>2, <4>3 DEF Kept
        <5>3. QED
          BY <5>2, <3>1, <3>2, <4>1, <4>3, FilledRow DEF TableInv
      <4>4. QED
        BY <4>2, <4>3
    <3>3. QED
      BY <3>1, <3>2
  <2>2. CASE Start
    BY <2>2 DEF Start, TableInv, TableTypeOK
  <2>3. ASSUME NEW c \in Offered, AddColumn(c) PROVE Kept1
    BY <2>3 DEF AddColumn
  <2>4. CASE /\ ~(\E i \in Index, b \in Bindings : Deliver(i, b)) /\ ~Start
             /\ ~(\E c \in Offered : AddColumn(c))
    BY <2>4, OtherSteps
  <2>5. QED
    BY <2>1, <2>2, <2>3, <2>4
<1>2. QED
  BY <1>1, TableInvHolds, PTL DEF Spec, CellsStay
-----------------------------------------------------------------------------
(***************************************************************************)
(* The outcome is true because the table remembers, while it is pending,   *)
(* whether a column that it has left behind had failed.                    *)
(***************************************************************************)
History == [ends : [DOMAIN hist.ends -> WalkStatus], seen : SUBSET (Width \X Index)]

ErrorsNoted ==
  Pending =>
    /\ DOMAIN hist.ends = 1..Len(table.columns)
    /\ table.columnErrors <=>
         \E c \in 1..(table.current - 1) : hist.ends[c] # "Success"

HonestInv == hist \in History /\ ErrorsNoted /\ OutcomeIsHonest

\* The walk of the current column ends, and its outcome is recorded.
LEMMA NotedEnds ==
  ASSUME TableInv, HonestInv, Pending, NEW s \in Ending
  PROVE  /\ Noted(s) \in [ends : [1..Len(table.columns) -> WalkStatus],
                          seen : SUBSET (Width \X Index)]
         /\ Noted(s).seen = hist.seen
         /\ Noted(s).ends = [hist.ends EXCEPT ![table.current] = s]
         /\ Noted(s).ends[table.current] = s
         /\ \A c \in 1..Len(table.columns) :
              c # table.current => Noted(s).ends[c] = hist.ends[c]
<1>1. /\ hist \in [ends : [1..Len(table.columns) -> WalkStatus],
                   seen : SUBSET (Width \X Index)]
      /\ table.current \in 1..Len(table.columns)
  BY DEF HonestInv, ErrorsNoted, History, TableInv, TableTypeOK, Table, Width,
         WalkAgrees
<1>2. s \in WalkStatus
  BY DEF Ending
<1>3. QED
  BY <1>1, <1>2 DEF Noted

\* advance() leaves the column behind, or stops the table with an outcome
\* that is true of the columns it walked.
LEMMA AdvanceHonest ==
  ASSUME TableInv, HonestInv, Pending, NEW s \in Ending, Advance(s), rows' = rows,
         hist'.ends = Noted(s).ends, hist' \in History',
         s = "CapacityExceeded" \/ \A x \in hist'.seen : x[2] \in DOMAIN rows
  PROVE  HonestInv'
<1> DEFINE n == Len(table.columns)
           late == \E c \in 1..table.current : hist'.ends[c] # "Success"
<1>1. /\ table \in Table /\ table.current \in 1..n /\ n \in Nat
      /\ table.status = "Pending"
  BY DEF TableInv, TableTypeOK, Table, Width, WalkAgrees, Pending
<1>2. /\ DOMAIN hist'.ends = 1..n /\ hist'.ends[table.current] = s
      /\ \A c \in 1..n : c # table.current => hist'.ends[c] = hist.ends[c]
  <2>1. Noted(s).ends \in [1..n -> WalkStatus]
    BY NotedEnds
  <2>2. DOMAIN Noted(s).ends = 1..n
    BY <2>1
  <2>3. /\ Noted(s).ends[table.current] = s
        /\ \A c \in 1..n : c # table.current => Noted(s).ends[c] = hist.ends[c]
    BY NotedEnds
  <2> HIDE DEF n
  <2>4. QED
    BY <2>2, <2>3
<1>3. table.columnErrors <=> \E c \in 1..(table.current - 1) : hist.ends[c] # "Success"
  BY DEF HonestInv, ErrorsNoted
<1>4. \A c \in 1..(table.current - 1) : c \in 1..n /\ c # table.current
  BY <1>1
<1>5. /\ \A c \in 1..(table.current - 1) : hist'.ends[c] = hist.ends[c]
      /\ table.columnErrors <=> \E c \in 1..(table.current - 1) : hist'.ends[c] # "Success"
  BY <1>2, <1>3, <1>4
<1>6. (table.columnErrors \/ s # "Success") <=> late
  <2>1. \A c \in 1..table.current : c = table.current \/ c \in 1..(table.current - 1)
    BY <1>1
  <2>2. \A c \in 1..(table.current - 1) : c \in 1..table.current
    BY <1>1
  <2>3. table.current \in 1..table.current
    BY <1>1
  <2>4. QED
    BY <1>2, <1>5, <2>1, <2>2, <2>3
<1> HIDE DEF n, late
\* A table that is stopped has no outcome that says anything of the columns.
<1>7. ASSUME NEW t, NEW x \in Stopping \cup {"InvalidConfiguration"}, t \in Table,
             table' = Stopped(t, x), s = "CapacityExceeded" => x = s
      PROVE  HonestInv'
  <2>1. table'.status = x
    BY <1>7 DEF Stopped, Table
  <2>2. x \notin {"Pending", "Success", "Partial"}
    BY DEF Stopping
  <2>3. ErrorsNoted'
    BY <2>1, <2>2 DEF ErrorsNoted, Pending
  <2>4. OutcomeIsHonest'
    BY <1>7, <2>1, <2>2 DEF OutcomeIsHonest
  <2>5. QED
    BY <2>3, <2>4 DEF HonestInv
\* A walk is started for this or for the next column.
<1>8. ASSUME NEW t, t \in Table, t.columns = table.columns, t.status = "Pending",
             WalkOn(t, s), s \notin Stopping,
             t.columnErrors <=>
               \E c \in 1..(t.current - 1) : hist'.ends[c] # "Success"
      PROVE  HonestInv'
  <2>1. CASE valid
    <3>1. table' = t
      BY <1>8, <2>1 DEF WalkOn
    <3>2. ErrorsNoted'
      BY <1>2, <1>8, <3>1 DEF ErrorsNoted, n
    <3>3. OutcomeIsHonest'
      BY <1>8, <3>1 DEF OutcomeIsHonest, Stopping
    <3>4. QED
      BY <3>2, <3>3 DEF HonestInv
  <2>2. CASE ~valid
    BY <1>7, <1>8, <2>2 DEF WalkOn, Stopping
  <2>3. QED
    BY <2>1, <2>2
<1>9. CASE s \in Stopping
  BY <1>1, <1>7, <1>9 DEF Advance, Stop
<1>10. CASE s \notin Stopping /\ WantsFallback(s)
  <2> DEFINE t == [table EXCEPT !.usingFallback = TRUE]
  <2>1. /\ t \in Table /\ t.columns = table.columns /\ t.status = "Pending"
        /\ t.columnErrors = table.columnErrors /\ t.current = table.current
    BY <1>1 DEF Table
  <2>2. WalkOn(t, s)
    BY <1>10 DEF Advance
  <2> HIDE DEF t
  <2>3. QED
    BY <1>5, <1>8, <1>10, <2>1, <2>2
<1>11. CASE s \notin Stopping /\ ~WantsFallback(s)
  <2> DEFINE d == ColumnDone(s)
             t == [d EXCEPT !.current = @ + 1]
  <2>1. /\ d \in Table /\ d.columns = table.columns /\ d.status = "Pending"
        /\ d.current = table.current
        /\ d.columnErrors <=> table.columnErrors \/ s # "Success"
    BY <1>1 DEF ColumnDone, Table
  <2>2. IF d.current < Len(d.columns)
          THEN WalkOn(t, s) ELSE Stop(Stopped(d, FinalStatus(d)), s)
    BY <1>11 DEF Advance
  <2>3. d.columnErrors <=> late
    BY <1>6, <2>1
  <2> HIDE DEF d
  <2>4. CASE d.current < Len(d.columns)
    <3>1. t.current = table.current + 1 /\ t.current \in Width
      BY <2>1, <2>4, <1>1 DEF Table, Width, TableInv, TableTypeOK
    <3>2. /\ t \in Table /\ t.columns = table.columns /\ t.status = "Pending"
          /\ t.columnErrors = d.columnErrors
      BY <2>1, <3>1 DEF Table
    <3>3. t.current - 1 = table.current
      BY <3>1, <1>1
    <3>4. WalkOn(t, s)
      BY <2>2, <2>4
    <3> HIDE DEF t
    <3>5. QED
      BY <1>8, <1>11, <2>3, <3>2, <3>3, <3>4 DEF late
  <2>5. CASE ~(d.current < Len(d.columns))
    <3>1. table.current = n
      BY <1>1, <2>1, <2>5 DEF n
    <3>2. table'.status = FinalStatus(d)
      BY <2>1, <2>2, <2>5 DEF Stop, Stopped, Table
    <3>3. FinalStatus(d) = IF ~late /\ AllOk(1..n) THEN "Success" ELSE "Partial"
      BY <2>1, <2>3 DEF FinalStatus, n
    <3>4. late <=> \E c \in 1..n : hist'.ends[c] # "Success"
      BY <3>1 DEF late
    <3>5. AllOk(1..n) <=> \A i \in DOMAIN rows' : \A c \in 1..n :
                            rows'[i][c].status = "Success"
      BY DEF AllOk
    <3>6. OutcomeIsHonest'
      BY <1>2, <1>11, <3>2, <3>3, <3>4, <3>5 DEF OutcomeIsHonest, Stopping
    <3>7. ErrorsNoted'
      BY <3>2, <3>3 DEF ErrorsNoted, Pending
    <3>8. QED
      BY <3>6, <3>7 DEF HonestInv
  <2>6. QED
    BY <2>4, <2>5
<1>12. QED
  BY <1>9, <1>10, <1>11

LEMMA HonestNext == TableInv /\ HonestInv /\ [Next]_vars => HonestInv'
<1> SUFFICES ASSUME TableInv, HonestInv, [Next]_vars PROVE HonestInv'
  OBVIOUS
<1>1. ASSUME NEW i \in Index, NEW b \in Bindings, Deliver(i, b) PROVE HonestInv'
  <2>1. DOMAIN rows' = DOMAIN rows \cup {i} /\ table' = table /\ Pending
        /\ table.current \in Width
    BY <1>1, DeliverRows DEF Deliver, TableInv, TableTypeOK, Table
  <2>2. /\ hist'.ends = hist.ends /\ hist' \in History'
        /\ hist'.seen = hist.seen \cup {<<table.current, i>>}
    BY <1>1, <2>1 DEF Deliver, HonestInv, History
  <2>3. ErrorsNoted'
    BY <2>1, <2>2 DEF HonestInv, ErrorsNoted, Pending
  <2>4. \A x \in hist'.seen : x[2] \in DOMAIN rows'
    BY <2>1, <2>2 DEF HonestInv, OutcomeIsHonest, Pending
  <2>5. QED
    BY <2>1, <2>2, <2>3, <2>4 DEF HonestInv, OutcomeIsHonest, Pending
<1>2. ASSUME NEW i \in Index, Overflow(i) PROVE HonestInv'
  <2>1. "CapacityExceeded" \in Ending /\ Pending /\ table.current \in Width
    BY <1>2 DEF Overflow, Ending, WalkStatus, Stopping, TableInv, WalkAgrees,
                TableTypeOK, Table
  <2>2. hist'.ends = Noted("CapacityExceeded").ends /\ hist' \in History'
    <3> DEFINE noted == Noted("CapacityExceeded")
               all == [1..Len(table.columns) -> WalkStatus]
    <3>1. noted \in [ends : all, seen : SUBSET (Width \X Index)]
      BY <2>1, NotedEnds
    <3>2. hist' = [noted EXCEPT !.seen = @ \cup {<<table.current, i>>}]
      BY <1>2 DEF Overflow
    <3> HIDE DEF noted, all
    <3>3. hist' \in [ends : all, seen : SUBSET (Width \X Index)]
          /\ hist'.ends = noted.ends
      BY <2>1, <3>1, <3>2
    <3>4. hist'.ends \in [DOMAIN hist'.ends -> WalkStatus]
      BY <3>3 DEF all
    <3>5. QED
      BY <3>3, <3>4 DEF History, noted
  <2>3. QED
    BY <1>2, <2>1, <2>2, AdvanceHonest DEF Overflow
<1>3. ASSUME NEW s \in Ending, Pending, Advance(s), hist' = Noted(s), rows' = rows
      PROVE  HonestInv'
  <2>1. hist' \in History' /\ hist'.seen = hist.seen
    BY <1>3, NotedEnds DEF History
  <2>2. QED
    BY <1>3, <2>1, AdvanceHonest DEF HonestInv, OutcomeIsHonest, Pending
<1>4. ASSUME NEW s \in WalkOutcomes, WalkEnds(s) PROVE HonestInv'
  BY <1>3, <1>4 DEF WalkEnds, Ending, WalkStatus, TableInv, WalkAgrees
<1>5. CASE Cancel \/ (DestroyWalk /\ walk.status = "Pending")
  BY <1>3, <1>5 DEF Cancel, DestroyWalk, Ending, WalkStatus, Stopping, TableInv,
                    WalkAgrees
<1>6. CASE Start
  <2>1. /\ hist'.seen = {}
        /\ hist'.ends = [c \in 1..Len(table.columns) |-> "Pending"]
        /\ hist' = [seen |-> hist'.seen, ends |-> hist'.ends]
    BY <1>6 DEF Start
  <2>2. /\ table'.columns = table.columns /\ table'.current = 1
        /\ table'.columnErrors = FALSE /\ table'.status = "Pending"
    BY <1>6 DEF Start, Started, TableInv, TableTypeOK, Table
  <2>3. hist' \in History'
    BY <2>1 DEF History, WalkStatus
  <2>4. ErrorsNoted'
    <3>1. table'.current - 1 = 0
      BY <2>2
    <3>2. QED
      BY <2>1, <2>2, <3>1 DEF ErrorsNoted
  <2>5. OutcomeIsHonest'
    BY <2>1, <2>2 DEF OutcomeIsHonest
  <2>6. QED
    BY <2>3, <2>4, <2>5 DEF HonestInv
<1>7. ASSUME hist' = hist, rows' = rows, table'.status = table.status,
             Pending => table' = table
      PROVE  HonestInv'
  BY <1>7 DEF HonestInv, History, ErrorsNoted, Pending, OutcomeIsHonest
<1>8. ASSUME NEW c \in Offered, AddColumn(c) PROVE HonestInv'
  BY <1>7, <1>8 DEF AddColumn, TableInv, TableTypeOK, Table
<1>9. CASE TakeCompleted
  BY <1>7, <1>9 DEF TakeCompleted, TableInv, TableTypeOK, WalkAgrees, Table
<1>10. CASE RejectedStart \/ ChangeDevice \/ Begin \/ DestroyClient \/ UNCHANGED vars
             \/ (DestroyWalk /\ walk.status # "Pending")
  BY <1>7, <1>10 DEF RejectedStart, ChangeDevice, Begin, DestroyClient, DestroyWalk,
                     vars
<1>11. QED
  BY <1>1, <1>2, <1>4, <1>5, <1>6, <1>8, <1>9, <1>10 DEF Next, WalkStep, SketchStep

\* The outcome that the sketch reads is true: Success leaves no failed column,
\* no invalid cell and no index out, Partial reports a real failure (advance()).
THEOREM OutcomeHolds == Spec => []OutcomeIsHonest
<1>1. Init => HonestInv
  <2> SUFFICES ASSUME Init PROVE HonestInv
    OBVIOUS
  <2>1. hist = [ends |-> << >>, seen |-> {}] /\ table.status = "NotStarted"
    BY DEF Init, NewTable
  <2>2. hist \in History
    <3>1. << >> \in [DOMAIN << >> -> WalkStatus]
      OBVIOUS
    <3>2. QED
      BY <2>1, <3>1 DEF History
  <2>3. QED
    BY <2>1, <2>2 DEF HonestInv, ErrorsNoted, OutcomeIsHonest, Pending
<1>2. HonestInv => OutcomeIsHonest
  BY DEF HonestInv
<1>3. QED
  BY <1>1, <1>2, HonestNext, TableInvHolds, PTL DEF Spec

-----------------------------------------------------------------------------
(***************************************************************************)
(* A table read is an operation with the client's contract.                *)
(***************************************************************************)
LEMMA SameCount == \A S : Contract!Cardinality(S) = Cardinality(S)
BY DEF Contract!Cardinality, Cardinality

LEMMA ContractInit == Init => Contract!Init
<1> SUFFICES ASSUME Init PROVE Contract!Init
  OBVIOUS
<1>1. table.status = "NotStarted" /\ table.completed = FALSE /\ client = "new"
  BY DEF Init, NewTable
<1>2. QED
  BY <1>1 DEF Contract!Init

\* A step that leaves the table's outcome and the client alone.
LEMMA ContractStutters ==
  ASSUME UNCHANGED <<table.status, table.completed, client>>
  PROVE  Contract!Next \/ UNCHANGED Contract!vars
BY DEF Contract!vars

\* advance() goes on, or ends the run with an outcome and a notice of it.
LEMMA ContractAdvances ==
  ASSUME TableInv, Pending, NEW s \in Ending, Advance(s),
         client' = client \/ {client, client'} = {"closing", "gone"}
  PROVE  Contract!Next \/ UNCHANGED Contract!vars
<1>1. /\ table \in Table /\ table.status = "Pending" /\ ~table.completed
      /\ (client' = "begun") = (client = "begun")
      /\ Len(table.columns) \in Nat /\ Len(table.columns) <= Columns
  BY DEF TableInv, TableTypeOK, WalkAgrees, Pending, Table
<1>2. ASSUME NEW t \in Table, NEW x \in Outcome, table' = Stopped(t, x)
      PROVE  Contract!Next
  <2>1. table'.status = x /\ table'.completed = TRUE
    BY <1>2 DEF Stopped, Table
  <2>2. Contract!End("table")
    BY <1>1, <2>1 DEF Contract!End
  <2>3. QED
    BY <2>2 DEF Contract!Next
<1>3. ASSUME NEW t \in Table, t.status = "Pending", ~t.completed, WalkOn(t, s)
      PROVE  Contract!Next \/ UNCHANGED Contract!vars
  <2>1. CASE valid
    BY <1>1, <1>3, <2>1 DEF WalkOn, Contract!vars, Table
  <2>2. CASE ~valid
    BY <1>2, <1>3, <2>2 DEF WalkOn, Outcome
  <2>3. QED
    BY <2>1, <2>2
<1>4. CASE s \in Stopping
  BY <1>1, <1>2, <1>4 DEF Advance, Stop, Outcome
<1>5. CASE s \notin Stopping /\ WantsFallback(s)
  <2> DEFINE t == [table EXCEPT !.usingFallback = TRUE]
  <2>1. t \in Table /\ t.status = "Pending" /\ ~t.completed
    BY <1>1 DEF Table
  <2>2. WalkOn(t, s)
    BY <1>5 DEF Advance
  <2> HIDE DEF t
  <2>3. QED
    BY <1>3, <2>1, <2>2
<1>6. CASE s \notin Stopping /\ ~WantsFallback(s)
  <2> DEFINE d == ColumnDone(s)
             t == [d EXCEPT !.current = @ + 1]
  <2>1. /\ d \in Table /\ d.status = "Pending" /\ ~d.completed
        /\ d.columns = table.columns
    BY <1>1 DEF ColumnDone, Table
  <2>2. IF d.current < Len(d.columns)
          THEN WalkOn(t, s) ELSE Stop(Stopped(d, FinalStatus(d)), s)
    BY <1>6 DEF Advance
  <2> HIDE DEF d
  <2>3. CASE d.current < Len(d.columns)
    <3>1. d.current + 1 \in Width
      BY <1>1, <2>1, <2>3 DEF Table, Width
    <3>2. t \in Table /\ t.status = "Pending" /\ ~t.completed
      BY <2>1, <3>1 DEF Table
    <3> HIDE DEF t
    <3>3. QED
      BY <1>3, <2>2, <2>3, <3>2
  <2>4. CASE ~(d.current < Len(d.columns))
    <3>1. FinalStatus(d) \in Outcome
      BY DEF FinalStatus, Outcome
    <3>2. QED
      BY <1>2, <2>1, <2>2, <2>4, <3>1 DEF Stop
  <2>5. QED
    BY <2>3, <2>4
<1>7. QED
  BY <1>4, <1>5, <1>6

LEMMA ContractAccepts == TableInv /\ Start => Contract!Next
<1> SUFFICES ASSUME TableInv, Start PROVE Contract!Next
  OBVIOUS
<1>1. /\ table'.status = "Pending" /\ table'.completed = FALSE
      /\ client = "begun" /\ client' = "begun"
  BY DEF Start, Started, TableInv, TableTypeOK, Table
<1>2. table.status # "Pending" /\ table.status # "Destroyed"
  BY DEF Start, Pending, TableInv, TableTypeOK, Table, Outcome, Stopping
<1>3. Contract!Cardinality(Contract!InProgress) < 1
  <2>1. Contract!InProgress = {}
    BY <1>2 DEF Contract!InProgress
  <2>2. QED
    BY <2>1, SameCount, FS_EmptySet
<1>4. Contract!Accept("table")
  BY <1>1, <1>2, <1>3 DEF Contract!Accept
<1>5. QED
  BY <1>4 DEF Contract!Next

LEMMA ContractNext ==
  TableInv /\ [Next]_vars => [Contract!Next]_(Contract!vars)
<1> SUFFICES ASSUME TableInv, [Next]_vars
             PROVE  Contract!Next \/ UNCHANGED Contract!vars
  OBVIOUS
<1>1. ASSUME NEW i \in Index, NEW b \in Bindings, Deliver(i, b)
      PROVE  Contract!Next \/ UNCHANGED Contract!vars
  BY <1>1, ContractStutters DEF Deliver
<1>2. ASSUME NEW i \in Index, Overflow(i)
      PROVE  Contract!Next \/ UNCHANGED Contract!vars
  BY <1>2, ContractAdvances DEF Overflow, Ending, WalkStatus, Stopping, TableInv,
     WalkAgrees
<1>3. ASSUME NEW s \in WalkOutcomes, WalkEnds(s)
      PROVE  Contract!Next \/ UNCHANGED Contract!vars
  BY <1>3, ContractAdvances DEF WalkEnds, Ending, WalkStatus, TableInv, WalkAgrees
<1>4. CASE Cancel
  BY <1>4, ContractAdvances DEF Cancel, Ending, WalkStatus, Stopping
<1>5. CASE DestroyWalk
  <2>1. {client, client'} = {"closing", "gone"}
    BY <1>5 DEF DestroyWalk
  <2>2. CASE walk.status = "Pending"
    BY <1>5, <2>1, <2>2, ContractAdvances DEF DestroyWalk, Ending, WalkStatus,
       Stopping, TableInv, WalkAgrees
  <2>3. CASE walk.status # "Pending"
    BY <1>5, <2>3 DEF DestroyWalk, Contract!vars
  <2>4. QED
    BY <2>2, <2>3
<1>6. CASE TakeCompleted
  <2>1. /\ table.completed = TRUE /\ table'.completed = FALSE
        /\ table'.status = table.status /\ client' = client
        /\ table.status # "Destroyed"
    BY <1>6 DEF TakeCompleted, TableInv, TableTypeOK, Table, Outcome, Stopping
  <2>2. Contract!Observe("table")
    BY <2>1 DEF Contract!Observe
  <2>3. QED
    BY <2>2 DEF Contract!Next
<1>7. CASE Begin
  BY <1>7 DEF Begin, Contract!Open, Contract!Next
<1>8. CASE DestroyClient
  BY <1>8 DEF DestroyClient, Contract!Close, Contract!Next
<1>9. ASSUME NEW c \in Offered, AddColumn(c)
      PROVE  Contract!Next \/ UNCHANGED Contract!vars
  BY <1>9, ContractStutters DEF AddColumn, TableInv, TableTypeOK, Table
<1>10. CASE RejectedStart \/ ChangeDevice \/ UNCHANGED vars
  BY <1>10, ContractStutters DEF RejectedStart, ChangeDevice, vars
<1>11. CASE Start
  BY <1>11, ContractAccepts
<1>12. QED
  BY <1>1, <1>2, <1>3, <1>4, <1>5, <1>6, <1>7, <1>8, <1>9, <1>10, <1>11
     DEF Next, WalkStep, SketchStep

\* A table read keeps the contract of the client's operations: only an
\* accepted start() begins a run, advance() ends it once, with an outcome and
\* a notice that takeCompleted() takes once, and no run starts before begin()
\* or once the client is being destroyed.
THEOREM TableKeepsContract == Spec => ImplementsContract
BY ContractInit, ContractNext, TableInvHolds, PTL
   DEF Spec, ImplementsContract, Contract!Spec
=============================================================================
