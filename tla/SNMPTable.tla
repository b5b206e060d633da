----------------------------- MODULE SNMPTable -----------------------------
(***************************************************************************)
(* The table reads of src/src/SNMPTable.h: selected columns are walked one *)
(* after the other by a single streaming walk and joined by the complete   *)
(* index that follows the column in each OID.  consume() receives every    *)
(* binding of the walk; advance() runs when the walk ends and starts it    *)
(* again for the column's fallback or for the next column.  Both run       *)
(* inside SNMPClient::loop(), or inside cancel(), without the sketch       *)
(* getting control in between.                                             *)
(*                                                                         *)
(* The walk is what OperationContract promises of it and module SNMPClient *)
(* implements: it delivers increasing indices of its root, or ends with    *)
(* any outcome, at any time.  An index is its rank 1..Indices and rows are *)
(* a function of the index: the search of consume() finds the row with the *)
(* whole index, and the order of discovery is left out.                    *)
(***************************************************************************)
EXTENDS Integers, Sequences, FiniteSets

CONSTANTS
  Rows, Columns,  \* capacities: the template parameters
  Indices,        \* how many indices an agent may have
  TooLong,        \* those whose text does not fit IndexCapacity
  Name,           \* column OIDs that addColumn() accepts
  NoName,         \* no fallback: the empty string
  Type, AnyType,  \* ASN.1 types; AnyType is NULLTYPE as an expected type
  Offered,        \* the columns that the sketch may add
  Bindings,       \* what copyValue() may make of a binding: status and type
  WalkOutcomes,   \* how a walk may end without the table's doing
  MaxRuns         \* bound: accepted starts

Index == 1..Indices
Width == 1..Columns
Column == [name : Name, expected : Type \cup {AnyType},
           fallback : Name \cup {NoName},
           fallbackExpected : Type \cup {AnyType}]
Stopping == {"Cancelled", "CapacityExceeded"}
Outcome == {"Success", "Partial", "NotStarted", "InvalidConfiguration"}
             \cup Stopping
WalkStatus == {"NotStarted", "Pending", "Success"} \cup Stopping \cup WalkOutcomes

ASSUME TableAssumption ==
  /\ Rows \in Nat \ {0} /\ Columns \in Nat \ {0}
  /\ Indices \in Nat /\ TooLong \subseteq Index
  /\ NoName \notin Name /\ AnyType \notin Type
  /\ Offered \subseteq Column
  /\ Bindings \subseteq [status : STRING, type : Type]
  /\ {"Pending", "NotStarted"} \cap WalkOutcomes = {}
  /\ MaxRuns \in Nat

VARIABLES
  table,      \* the fields of the SNMPTableRead
  rows,       \* its rows_, by index: a cell for every column
  walk,       \* its walk_: status, root and the index delivered last
  client,     \* "new", "begun", "closing" (its destructor runs) or "gone"
  valid,      \* the device's port and timeout pass the checks of schedule()
  run,        \* history: how many starts were accepted
  hist        \* history of the current run: how the last walk of each
              \* column has ended, and the indices seen in it

vars == <<table, rows, walk, client, valid, run, hist>>

Pending == table.status = "Pending"

NoSource == [run |-> 0, name |-> NoName, index |-> 0, type |-> AnyType]
NoRows == [i \in {} |-> NoSource]
EmptyRow == [c \in Width |-> [status |-> "Missing", src |-> NoSource]]

NewTable ==
  [columns |-> << >>, current |-> 1, usingFallback |-> FALSE,
   columnErrors |-> FALSE, status |-> "NotStarted", completed |-> FALSE]

\* The columns SNMPInterfaceRead adds: a description and two totals, each
\* wide with a narrow fallback, or narrow.
InterfaceColumns(highCapacity) ==
  LET Octets(wide, narrow) ==
        IF highCapacity
          THEN [name |-> wide, expected |-> "Counter64",
                fallback |-> narrow, fallbackExpected |-> "Counter32"]
          ELSE [name |-> narrow, expected |-> "Counter32",
                fallback |-> NoName, fallbackExpected |-> "Counter32"]
  IN  << [name |-> "ifDescr", expected |-> "String",
          fallback |-> NoName, fallbackExpected |-> AnyType],
         Octets("ifHCInOctets", "ifInOctets"),
         Octets("ifHCOutOctets", "ifOutOctets") >>

Init ==
  /\ table = NewTable
  /\ rows = NoRows
  /\ walk = [status |-> "NotStarted", root |-> NoName, at |-> 0]
  /\ client = "new"
  /\ valid = TRUE
  /\ run = 0
  /\ hist = [ends |-> << >>, seen |-> {}]

-----------------------------------------------------------------------------
(***************************************************************************)
(* consume(): what the table makes of a binding of its walk.               *)
(***************************************************************************)
\* The column OID that consume() cuts off an OID, and the type it expects.
NameInEffect(t) ==
  LET c == t.columns[t.current] IN IF t.usingFallback THEN c.fallback ELSE c.name

ExpectedInEffect(t) ==
  LET c == t.columns[t.current]
  IN  IF t.usingFallback THEN c.fallbackExpected ELSE c.expected

\* Cutting the length of another OID off leaves another text than i.
IndexText(i) == IF walk.root = NameInEffect(table) THEN i ELSE 0

Refused(i) ==
  \/ i \in TooLong
  \/ i \notin DOMAIN rows /\ Cardinality(DOMAIN rows) = Rows

\* The cell of a binding; a value of another type than expected is an error.
CellOf(i, b) ==
  [status |-> IF b.status = "Success" /\ ExpectedInEffect(table) \notin {AnyType, b.type}
                THEN "TypeMismatch" ELSE b.status,
   src |-> [run |-> run, name |-> walk.root, index |-> i, type |-> b.type]]

Kept_Never(cell) == FALSE

\* A fallback fills gaps only.
Kept(cell) == table.usingFallback /\ cell.status = "Success"

Filled(row, cell) ==
  IF Kept(row[table.current]) THEN row ELSE [row EXCEPT ![table.current] = cell]

Consumed(i, cell) ==
  LET row == IF i \in DOMAIN rows THEN rows[i] ELSE EmptyRow
  IN  [j \in DOMAIN rows \cup {i} |-> IF j = i THEN Filled(row, cell) ELSE rows[j]]

-----------------------------------------------------------------------------
(***************************************************************************)
(* advance(): the completion handler of the walk, which has ended with s.  *)
(***************************************************************************)
AllOk(columns) ==
  \A i \in DOMAIN rows : \A c \in columns : rows[i][c].status = "Success"

Stopped(t, s) == [t EXCEPT !.status = s, !.completed = TRUE]

\* configure() and start() of the walk.  Its slot has just been freed, so
\* only the device can refuse it, which the sketch may have changed.
WalkOn(t, s) ==
  IF valid
    THEN /\ table' = t
         /\ walk' = [status |-> "Pending", root |-> NameInEffect(t), at |-> 0]
    ELSE /\ table' = Stopped(t, "InvalidConfiguration")
         /\ walk' = [walk EXCEPT !.status = s, !.root = NameInEffect(t)]

Stop(t, s) == table' = t /\ walk' = [walk EXCEPT !.status = s]

WantsFallback_Again(s) ==
  /\ table.columns[table.current].fallback # NoName
  /\ DOMAIN rows = {} \/ s # "Success" \/ ~AllOk({table.current})

\* The column has a fallback that was not tried yet, and gaps to fill.
WantsFallback(s) ==
  /\ ~table.usingFallback
  /\ table.columns[table.current].fallback # NoName
  /\ DOMAIN rows = {} \/ s # "Success" \/ ~AllOk({table.current})

ColumnDone_KeepsFallback(s) == [table EXCEPT !.columnErrors = @ \/ s # "Success"]

ColumnDone(s) ==
  [table EXCEPT !.usingFallback = FALSE, !.columnErrors = @ \/ s # "Success"]

FinalStatus_IgnoresCells(t) == IF t.columnErrors THEN "Partial" ELSE "Success"

FinalStatus(t) ==
  IF ~t.columnErrors /\ AllOk(1..Len(t.columns)) THEN "Success" ELSE "Partial"

Advance(s) ==
  \/ /\ s \in Stopping
     /\ Stop(Stopped(table, s), s)
  \/ /\ s \notin Stopping /\ WantsFallback(s)
     /\ WalkOn([table EXCEPT !.usingFallback = TRUE], s)
  \/ /\ s \notin Stopping /\ ~WantsFallback(s)
     /\ LET t == ColumnDone(s)
        IN  IF t.current < Len(t.columns)
              THEN WalkOn([t EXCEPT !.current = @ + 1], s)
              ELSE Stop(Stopped(t, FinalStatus(t)), s)

\* History: how the last walk of each column has ended.
Noted(s) == [hist EXCEPT !.ends[table.current] = s]

-----------------------------------------------------------------------------
(***************************************************************************)
(* Steps of the walk, inside SNMPClient::loop() or its destructor.         *)
(***************************************************************************)
\* The next OID of the subtree arrives; if consume() returns false, the
\* walk ends with CapacityExceeded at once.
Deliver(i, b) ==
  /\ client = "begun" /\ walk.status = "Pending"
  /\ i > walk.at
  /\ ~Refused(IndexText(i))
  /\ rows' = Consumed(IndexText(i), CellOf(i, b))
  /\ walk' = [walk EXCEPT !.at = i]
  /\ hist' = [hist EXCEPT !.seen = @ \cup {<<table.current, i>>}]
  /\ UNCHANGED <<table, client, valid, run>>

Overflow(i) ==
  /\ client = "begun" /\ walk.status = "Pending"
  /\ i > walk.at
  /\ Refused(IndexText(i))
  /\ Advance("CapacityExceeded")
  /\ hist' = [Noted("CapacityExceeded") EXCEPT !.seen = @ \cup {<<table.current, i>>}]
  /\ UNCHANGED <<rows, client, valid, run>>

\* The subtree is exhausted, or the walk fails or times out.
WalkEnds(s) ==
  /\ client = "begun" /\ walk.status = "Pending"
  /\ Advance(s)
  /\ hist' = Noted(s)
  /\ UNCHANGED <<rows, client, valid, run>>

-----------------------------------------------------------------------------
(***************************************************************************)
(* Steps of the sketch.                                                    *)
(***************************************************************************)
AddColumn(c) ==
  /\ client \in {"new", "begun"} /\ ~Pending
  /\ Len(table.columns) < Columns
  /\ \A k \in 1..Len(table.columns) : table.columns[k].name # c.name
  /\ table' = [table EXCEPT !.columns = Append(@, c)]
  /\ UNCHANGED <<rows, walk, client, valid, run, hist>>

Started_KeepsNotice ==
  [table EXCEPT !.current = 1, !.status = "Pending", !.columnErrors = FALSE,
                !.usingFallback = FALSE]

Started ==
  [table EXCEPT !.current = 1, !.completed = FALSE, !.status = "Pending",
                !.columnErrors = FALSE, !.usingFallback = FALSE]

Released_KeepsRows == rows

\* An accepted start releases the rows of the last run.
Released == NoRows

Start ==
  /\ client = "begun" /\ valid
  /\ ~Pending /\ table.columns # << >>
  /\ run < MaxRuns
  /\ table' = Started
  /\ rows' = Released
  /\ walk' = [status |-> "Pending", root |-> table.columns[1].name, at |-> 0]
  /\ run' = run + 1
  /\ hist' = [seen |-> {}, ends |-> [c \in 1..Len(table.columns) |-> "Pending"]]
  /\ UNCHANGED <<client, valid>>

\* schedule() refuses the walk, also for want of a slot: the walk has been
\* configured, and the rows and the outcome of the last run stay.
RejectedStart ==
  /\ client \in {"new", "begun"}
  /\ ~Pending /\ table.columns # << >>
  /\ walk' = [walk EXCEPT !.root = table.columns[1].name]
  /\ UNCHANGED <<table, rows, client, valid, run, hist>>

Cancel ==
  /\ client = "begun" /\ Pending
  /\ Advance("Cancelled")
  /\ hist' = Noted("Cancelled")
  /\ UNCHANGED <<rows, client, valid, run>>

TakeCompleted ==
  /\ client \in {"new", "begun"} /\ table.completed
  /\ table' = [table EXCEPT !.completed = FALSE]
  /\ UNCHANGED <<rows, walk, client, valid, run, hist>>

\* The sketch assigns the device's port or timeoutMs, which are public.  It
\* should not while an operation is pending, but nothing stops it, and it is
\* what the error paths of advance() are for.
ChangeDevice ==
  /\ client \in {"new", "begun"}
  /\ valid' = ~valid
  /\ UNCHANGED <<table, rows, walk, client, run, hist>>

Begin ==
  /\ client = "new" /\ client' = "begun"
  /\ UNCHANGED <<table, rows, walk, valid, run, hist>>

\* ~SNMPClient: no more starts, then a pending walk ends with Cancelled.
DestroyClient ==
  /\ client = "begun" /\ client' = "closing"
  /\ UNCHANGED <<table, rows, walk, valid, run, hist>>

DestroyWalk ==
  /\ client = "closing" /\ client' = "gone"
  /\ IF walk.status = "Pending"
       THEN Advance("Cancelled") /\ hist' = Noted("Cancelled")
       ELSE UNCHANGED <<table, walk, hist>>
  /\ UNCHANGED <<rows, valid, run>>

WalkStep ==
  \/ \E i \in Index : (\E b \in Bindings : Deliver(i, b)) \/ Overflow(i)
  \/ \E s \in WalkOutcomes : WalkEnds(s)

SketchStep ==
  \/ \E c \in Offered : AddColumn(c)
  \/ Start \/ RejectedStart \/ Cancel \/ TakeCompleted \/ ChangeDevice
  \/ Begin \/ DestroyClient

Next == WalkStep \/ SketchStep \/ DestroyWalk

Spec == Init /\ [][Next]_vars

\* Every walk ends although the agent may be silent (EveryRunEnds of
\* SNMPClientProperties), and a destructor finishes what it began.
FairSpec == Spec /\ WF_vars(WalkStep) /\ WF_vars(DestroyWalk)
=============================================================================
