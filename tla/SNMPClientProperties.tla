------------------------ MODULE SNMPClientProperties ------------------------
(***************************************************************************)
(* What SNMPClient must satisfy, for src/src/SNMPClient.cpp.               *)
(***************************************************************************)
EXTENDS SNMPClient

Origin == [op : Op \cup {None}, id : 0..MaxID]

Cell == [name : Nat, status : CellStatus, src : Origin]

Mode == {"get", "set", "next", "bulk"}

Tick == 0..(ClockModulus - 1)

OperationState ==
  [status : OpStatus, completed : BOOLEAN, mode : Mode, rooted : BOOLEAN,
   cursor : 0..Rows, cells : Seq(Cell), offset : Nat, batch : Nat,
   batchLimit : Nat, id : 0..MaxID, sent : BOOLEAN, attempts : 0..Retries,
   sentAt : Tick, startedAt : Tick]

History ==
  [floor : 0..MaxID, copies : Nat, used : Nat, ends : Nat, taken : Nat,
   waited : Nat, aged : Nat]

Delivery ==
  [op : Op \cup {None}, src : Origin, gen : 0..MaxID, any : BOOLEAN,
   name : 0..Rows]

Datagram ==
  [id : 1..MaxID, op : Op, mode : Mode, first : Nat, last : Nat,
   cursor : 0..Rows]

\* Type invariant.  It bounds nextID_ by INT32_MAX, so no request ID ever
\* becomes negative or is used again after a wrap (SNMPClient.cpp:563).
TypeOK ==
  /\ op \in [Op -> OperationState]
  /\ slots \in [Slot -> Op \cup {None}]
  /\ begun \in BOOLEAN
  /\ nextID \in 0..MaxID
  /\ now \in Tick
  /\ pc \in PC
  /\ k \in 1..(MaxPending + 1)
  /\ rx \in Delivery
  /\ pc \in {"walk", "stream"} => rx.op \in Op
  /\ active \subseteq Op \cup {None}
  /\ wire \subseteq Datagram
  /\ hist \in [Op -> History]

-----------------------------------------------------------------------------
(***************************************************************************)
(* The scheduler.                                                          *)
(***************************************************************************)
\* The pointers in pending_ are exactly the pending operations, each once: a
\* slot never keeps an operation that has ended or been destroyed, and none
\* is lost with its slot (schedule, remove, finish, ~SNMPOperation).
SlotAgreement ==
  /\ \A s \in Slot : slots[s] # None => Pending(slots[s])
  /\ \A s, t \in Slot : slots[s] # None /\ slots[s] = slots[t] => s = t
  /\ \A o \in Op : Pending(o) => \E s \in Slot : slots[s] = o

\* A run ends once: finish() is not called again for a run that is over,
\* from whichever of reply, timeout, send failure, cancel and destructor.
EndsOnce == \A o \in Op : hist[o].ends <= 1

\* takeCompleted() is true at most once for each run (SNMPClient.h:269).
TakenOnce == \A o \in Op : hist[o].taken <= 1

\* After ~SNMPClient() no operation is pending, although completion handlers
\* ran, and may have tried to start others, while the slots were emptied.
DestructorDrains == pc = "dead" => \A o \in Op : ~Pending(o)

\* What the fields r of operation o satisfy while it is pending: a request
\* that was sent has an ID, a query has cells left to read, and the batch it
\* waits for lies within its cells (schedule, send, receive).
Framed(o, r) ==
  r.status = "Pending" =>
    /\ r.sent => r.id # 0
    /\ ~Walking(o) =>
         /\ r.offset < Len(r.cells)
         /\ r.sent => r.offset + r.batch <= Len(r.cells)

Frame == \A o \in Op : Framed(o, op[o])

\* The inductive invariant: types, the scheduler's agreement and the frame
\* of every pending operation each need the other two.
IInv == TypeOK /\ SlotAgreement /\ Frame

-----------------------------------------------------------------------------
(***************************************************************************)
(* Requests and replies.                                                   *)
(***************************************************************************)
\* One request ID names one request: a retransmission repeats the message,
\* and every new batch, cursor or mode has a new ID (send, receive, loop).
RequestIdentity == \A p, q \in wire : p.id = q.id => p = q

\* A value in a cell came in the reply to a request of this very operation,
\* sent since its last accepted start, that asked for that cell: never from
\* a late reply to an earlier run, nor from another device's traffic.
ValuesBelongToRun ==
  \A o \in Op : \A i \in 1..Len(op[o].cells) :
    LET src == op[o].cells[i].src
    IN src.id # 0 /\ Kind[o] # "set" =>
         /\ src.op = o
         /\ src.id > hist[o].floor
         /\ \E q \in wire : /\ q.id = src.id
                            /\ q.op = o
                            /\ Walking(o) \/ i \in q.first..q.last

\* The cells before offset_ have their final status, the others wait.
BatchesInOrder ==
  \A o \in Op : Pending(o) /\ ~Walking(o) =>
    /\ op[o].offset < Len(op[o].cells)
    /\ \A i \in 1..Len(op[o].cells) :
         (op[o].cells[i].status = "Pending") <=> (i > op[o].offset)

\* An operation that has ended tells the truth: Success only if every cell
\* read in the run succeeded, Partial only if one did not, and no cell is
\* left Pending.  (A cell added or cleared since then is NotStarted.)
OutcomeIsHonest ==
  \A o \in Op : op[o].status \in Terminal =>
    LET S == {op[o].cells[i].status : i \in 1..Len(op[o].cells)}
    IN /\ "Pending" \notin S
       /\ op[o].status = "Success" /\ ~Walking(o) =>
            S \subseteq {"Success", "NotStarted"}
       /\ op[o].status = "Partial" => S \ {"Success", "NotStarted"} # {}

\* Within a run, a cell that has left Pending is never written again: later
\* batches, timeouts and cancellation keep what earlier batches brought.
CellsSettleOnce ==
  [][\A o \in Op : Pending(o) =>
       \A i \in 1..Len(op[o].cells) :
         op[o].cells[i].status # "Pending" =>
           op'[o].cells[i] = op[o].cells[i]]_vars

\* A read is transmitted at most 1 + retries times under one ID; a SET, which
\* might be applied twice, once in a run, and whole.
Retransmissions ==
  \A o \in Op : Pending(o) =>
    /\ hist[o].copies <= 1 + Retries
    /\ Kind[o] = "set" =>
         /\ hist[o].copies * hist[o].used <= 1
         /\ op[o].sent => op[o].batch = Len(op[o].cells)

\* Every request earns progress: each new ID of a run is paid for by a cell
\* settled, a batch made smaller, an OID of the walk or its one fallback, so
\* a query of n cells takes at most 2n - 1 requests whatever the agent does.
RequestBudget ==
  \A o \in Op : Pending(o) =>
    hist[o].used <=
      (IF Walking(o)
       THEN op[o].cursor
            + (IF op[o].mode = "next" /\ Version[o] = "v2c" THEN 1 ELSE 0)
       ELSE op[o].offset + Len(op[o].cells) - op[o].batchLimit)
      + (IF op[o].sent THEN 1 ELSE 0)

-----------------------------------------------------------------------------
(***************************************************************************)
(* Walks.                                                                  *)
(***************************************************************************)
\* The OIDs a walk has collected lie below its root and increase strictly,
\* the last being its cursor: across batches, retries and the fallback to
\* GETNEXT no row is collected twice or out of order.
WalkInOrder ==
  \A o \in Op : Pending(o) /\ Kind[o] = "walk" =>
    LET cells == op[o].cells
    IN /\ \A i, j \in 1..Len(cells) : i < j => cells[i].name < cells[j].name
       /\ \A i \in 1..Len(cells) : cells[i].name \in 1..Rows
       /\ op[o].cursor = IF cells = << >> THEN 0 ELSE cells[Len(cells)].name

\* A walk begins at its root: a reply to the previous run, or a callback of
\* that run returning after it has restarted the walk, does not move the
\* cursor past rows the new run has not asked for.
RunStartsAtRoot ==
  \A o \in Op : Pending(o) /\ op[o].id = 0 => op[o].cursor = 0

-----------------------------------------------------------------------------
(***************************************************************************)
(* Time.  hist.waited and hist.aged are the true, unwrapped times since    *)
(* the last transmission and since the first one of a walk, up to the      *)
(* timeout and the deadline.                                               *)
(***************************************************************************)
\* A run ends with Timeout only if its timeout really passed after the last
\* allowed transmission, or its walk deadline did, also when the 32-bit clock
\* wrapped in between.
NoEarlyTimeout ==
  [][\A o \in Op : Pending(o) /\ op'[o].status = "Timeout" =>
       \/ /\ hist[o].waited >= TimeoutMs
          /\ Kind[o] # "set" => hist[o].copies = 1 + Retries
       \/ Walking(o) /\ hist[o].aged >= WalkDeadline]_vars

\* After a pass no request has been waiting for its timeout or longer, and no
\* walk is older than its deadline, whatever the retries and fallbacks.
TimeoutsAreServed ==
  pc = "idle" =>
    \A o \in Op : Pending(o) =>
      /\ op[o].sent => hist[o].waited < TimeoutMs
      /\ Walking(o) => hist[o].aged < WalkDeadline

\* Every accepted run ends, even if no reply ever comes, and however often its
\* request is sent again, halved or split (loop(), receive()).
EveryRunEnds == \A o \in Op : Pending(o) ~> ~Pending(o)

-----------------------------------------------------------------------------
(***************************************************************************)
(* The promises of SNMPClient.h.                                           *)
(***************************************************************************)
Contract == INSTANCE OperationContract WITH
  Limit <- MaxPending,
  Outcome <- Terminal,
  status <- [o \in Op |-> op[o].status],
  notice <- [o \in Op |-> op[o].completed],
  open <- begun

\* The client implements the contract of its header.
ImplementsContract == Contract!Spec
=============================================================================
