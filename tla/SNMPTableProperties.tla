------------------------- MODULE SNMPTableProperties -------------------------
(***************************************************************************)
(* What SNMPTable.h must guarantee: properties of module SNMPTable.        *)
(***************************************************************************)
EXTENDS SNMPTable

Source == [run : 0..MaxRuns, name : Name \cup {NoName}, index : 0..Indices,
           type : Type \cup {AnyType}]
Cell == [status : {b.status : b \in Bindings} \cup {"Missing", "TypeMismatch"},
         src : Source]
Row == [Width -> Cell]

Table == [columns : Seq(Column), current : Width, usingFallback : BOOLEAN, columnErrors : BOOLEAN,
          status : Outcome \cup {"Pending"}, completed : BOOLEAN]

\* Every variable has its type, and no more rows or columns than capacity.
TableTypeOK ==
  /\ table \in Table
  /\ Len(table.columns) <= Columns
  /\ DOMAIN rows \subseteq Index /\ Cardinality(DOMAIN rows) <= Rows
  /\ rows \in [DOMAIN rows -> Row]
  /\ walk \in [status : WalkStatus, root : Name \cup {NoName}, at : 0..Indices]
  /\ client \in {"new", "begun", "closing", "gone"}
  /\ valid \in BOOLEAN
  /\ run \in 0..MaxRuns

\* While the table is pending, its walk is, over the column that consume()
\* cuts off the OIDs; otherwise neither is.  advance() ignores what
\* configure() returns, and this is what makes that right.
WalkAgrees ==
  /\ Pending <=> walk.status = "Pending"
  /\ Pending => /\ table.current <= Len(table.columns)
                /\ walk.root = NameInEffect(table)
                /\ walk.root # NoName
                /\ ~table.completed

\* The columns fill one after the other, each from the first index on: the
\* cells that its own walk has not come to are not valid yet.
FillsInOrder ==
  Pending => \A i \in DOMAIN rows : \A c \in Width :
    \/ c > table.current
    \/ c = table.current /\ ~table.usingFallback /\ i > walk.at
    => rows[i][c].status # "Success"

\* The table never waits for a walk that is not running, nor reads it with
\* another column's name, nor finds a cell filled too early: the inductive
\* invariant.
TableInv == TableTypeOK /\ WalkAgrees /\ FillsInOrder

\* consume() joins by the whole index: whatever the agent sent, in whatever
\* columns and runs, each cell filled came in this run, from its own row and
\* from its column or that column's fallback, and a valid one has the type
\* expected there.
RowsJoined ==
  \A i \in DOMAIN rows : \A c \in Width :
    LET cell == rows[i][c]
        column == table.columns[c]
    IN  cell.src # NoSource =>
          /\ c <= Len(table.columns)
          /\ cell.src.run = run
          /\ cell.src.index = i
          /\ cell.src.name \in {column.name, column.fallback}
          /\ cell.status = "Success" =>
               \/ /\ cell.src.name = column.name
                  /\ column.expected \in {AnyType, cell.src.type}
               \/ /\ cell.src.name = column.fallback
                  /\ column.fallbackExpected \in {AnyType, cell.src.type}

\* The outcome is true: after Success the last walk of every column ended
\* well, every cell is valid and every index the agent sent has its row;
\* Partial means that a cell or a column did fail.  Only running out of room
\* leaves an index out.
OutcomeIsHonest ==
  LET columns == DOMAIN hist.ends
      allWell == /\ \A c \in columns : hist.ends[c] = "Success"
                 /\ \A i \in DOMAIN rows : \A c \in columns :
                      rows[i][c].status = "Success"
  IN  /\ table.status = "Success" => allWell
      /\ table.status = "Partial" => ~allWell
      /\ table.status # "CapacityExceeded" =>
           \A x \in hist.seen : x[2] \in DOMAIN rows

\* A valid cell stays as it is until the next accepted start, whatever the
\* fallback column sends for it and however the run ends.
CellsStay ==
  [][run' = run =>
       \A i \in DOMAIN rows :
         /\ i \in DOMAIN rows'
         /\ \A c \in Width : rows[i][c].status = "Success" =>
              rows'[i][c] = rows[i][c]]_vars

\* advance() runs out of columns and fallbacks: every accepted table ends.
EveryTableEnds == Pending ~> ~Pending

\* A table is itself an operation with the contract of the client's: it is
\* accepted once per run, ends once, and its end is observed once.
Contract == INSTANCE OperationContract WITH
  Op <- {"table"},
  Limit <- 1,
  status <- [o \in {"table"} |-> table.status],
  notice <- [o \in {"table"} |-> table.completed],
  open <- client = "begun"

ImplementsContract == Contract!Spec
=============================================================================
