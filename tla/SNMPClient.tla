----------------------------- MODULE SNMPClient -----------------------------
(***************************************************************************)
(* The query engine of src/src/SNMPClient.cpp: operations (query, SET and  *)
(* walk), the bounded table of scheduler slots, transmission, the handling *)
(* of replies, timeouts and retries of loop(), and the completion and      *)
(* streaming callbacks through which the application acts in the middle of *)
(* a pass.                                                                 *)
(*                                                                         *)
(* Data is abstracted.  An OID below a root is its position 1..Rows, 0 is  *)
(* the root and Rows + 1 any OID after the subtree.  A value is the        *)
(* request whose reply supplied it.  The network keeps every request ever  *)
(* sent: an agent may answer any of them, at any time and any number of    *)
(* times, or never, so loss, duplication, delay and reordering all occur.  *)
(*                                                                         *)
(* A definition D_Fault is D with a plausible bug.  Nothing refers to it:  *)
(* put in the place of D, it shows that a property notices the bug.        *)
(***************************************************************************)
EXTENDS Integers, Sequences, FiniteSets

CONSTANTS
  Op,             \* the SNMPOperation objects of the application
  None,           \* no operation: a null pointer
  DeviceOf,       \* the SNMPDevice (peer, port, version, community) of each
  Kind,           \* "query", "set", "walk" (collects), "stream" (onValue_)
  Version,        \* "v1" or "v2c", the version of the operation's device
  Configured,     \* operations whose device passes the checks of schedule()
  Capacity,       \* result slots of each operation
  Fit,            \* how many of its bindings one packet holds
  MaxPending,     \* SNMP_MAX_PENDING_REQUESTS
  MaxID,          \* INT32_MAX, the last request ID of one client
  Retries,        \* SNMPDevice::retries
  TimeoutMs,      \* SNMPDevice::timeoutMs
  WalkDeadline,   \* 60000 ms
  ClockModulus,   \* 2^32
  MaxStall,       \* the longest time between two passes of loop()
  Rows,           \* OIDs an agent can have below a walk's root
  CellOutcomes,   \* what copyValue() and the type check make of a binding
  StopAfterCancel \* may a stream callback cancel its walk and return false?

Slot == 1..MaxPending
Walking(o) == Kind[o] \in {"walk", "stream"}
Device == {DeviceOf[o] : o \in Op}

\* Statuses that finish() or copyValue() can leave behind.
Terminal == {"Success", "Missing", "Unsupported", "TypeMismatch", "Partial",
             "Timeout", "Cancelled", "CapacityExceeded", "TransportError",
             "ProtocolError", "AllocationFailure"}
CellStatus == Terminal \cup {"NotStarted", "Pending"}
OpStatus == CellStatus \cup {"Destroyed"}

ASSUME OpAssumption == None \notin Op /\ IsFiniteSet(Op)
ASSUME KindAssumption ==
  /\ Kind \in [Op -> {"query", "set", "walk", "stream"}]
  /\ Version \in [Op -> {"v1", "v2c"}]
  /\ Configured \subseteq Op
ASSUME SizeAssumption ==
  /\ Capacity \in [Op -> Nat \ {0}]
  /\ Fit \in [Op -> Nat]
  /\ MaxPending \in Nat \ {0}
  /\ MaxID \in Nat \ {0}
  /\ Rows \in Nat
  /\ Retries \in Nat
\* A pass comes often enough that an elapsed time never wraps unnoticed.
ASSUME ClockAssumption ==
  /\ {TimeoutMs, WalkDeadline, MaxStall} \subseteq Nat \ {0}
  /\ ClockModulus \in Nat
  /\ TimeoutMs + MaxStall <= ClockModulus
  /\ WalkDeadline + MaxStall <= ClockModulus
ASSUME OutcomeAssumption ==
  /\ "Success" \in CellOutcomes
  /\ CellOutcomes \subseteq Terminal \ {"Partial", "Timeout"}
ASSUME CallbackAssumption == StopAfterCancel \in BOOLEAN

VARIABLES
  op,      \* the fields of every SNMPOperation
  slots,   \* pending_: the operation in each slot, or None
  begun,   \* begun_
  nextID,  \* nextID_
  now,     \* the clock that loop() was last called with
  pc,      \* where the client is: see PC
  k,       \* the slot the pass over pending_ is at
  rx,      \* the walk whose reply is being delivered, binding by binding
  active,  \* operations (None: the notification) whose callback is running
  wire,    \* history: every request datagram handed to the transport
  hist     \* history of each operation's current run, read by no action

vars == <<op, slots, begun, nextID, now, pc, k, rx, active, wire, hist>>

PC == {"idle", "receive", "walk", "stream", "pass", "destroy", "dead"}

(***************************************************************************)
(* The application has control between two calls of loop() and inside any  *)
(* callback; a callback must not re-enter loop() or destroy its operation. *)
(***************************************************************************)
AppTurn == pc = "idle" \/ active # {}

NoSource == [op |-> None, id |-> 0]
NoDelivery ==
  [op |-> None, src |-> NoSource, gen |-> 0, any |-> FALSE, name |-> 0]
FreshCell(name) == [name |-> name, status |-> "NotStarted", src |-> NoSource]

InitMode(o) == IF Kind[o] = "set" THEN "set" ELSE "get"

NewOperation(o) ==
  [status |-> "NotStarted", completed |-> FALSE, mode |-> InitMode(o),
   rooted |-> FALSE, cursor |-> 0, cells |-> << >>, offset |-> 0, batch |-> 0,
   batchLimit |-> 0, id |-> 0, sent |-> FALSE, attempts |-> 0, sentAt |-> 0,
   startedAt |-> 0]

NoHistory ==
  [floor |-> 0, copies |-> 0, used |-> 0, ends |-> 0, taken |-> 0,
   waited |-> 0, aged |-> 0]

Pending(o) == op[o].status = "Pending"

Least(a, b) == IF a <= b THEN a ELSE b

Init ==
  /\ op = [o \in Op |-> NewOperation(o)]
  /\ slots = [s \in Slot |-> None]
  /\ begun = FALSE
  /\ nextID = 0
  /\ now = 0
  /\ pc = "idle"
  /\ k = 1
  /\ rx = NoDelivery
  /\ active = {}
  /\ wire = {}
  /\ hist = [o \in Op |-> NoHistory]

-----------------------------------------------------------------------------
(***************************************************************************)
(* Completion: finish() and remove().                                      *)
(***************************************************************************)
Without_KeepsSlot(o) == slots

Without(o) == [s \in Slot |-> IF slots[s] = o THEN None ELSE slots[s]]

Inherit_All(cells, s) ==
  [i \in 1..Len(cells) |-> [cells[i] EXCEPT !.status = s]]

\* Cells still pending inherit the status the operation ends with.
Inherit(cells, s) ==
  [i \in 1..Len(cells) |->
     IF cells[i].status = "Pending" THEN [cells[i] EXCEPT !.status = s]
                                    ELSE cells[i]]

Ended(r, s) ==
  [r EXCEPT !.status = s, !.completed = TRUE, !.cells = Inherit(@, s)]

\* Operation o, whose fields have become r, ends with status s, and the
\* completion handler takes control.
Finish(o, r, s) ==
  /\ op' = [op EXCEPT ![o] = Ended(r, s)]
  /\ slots' = Without(o)
  /\ active' = active \cup {o}
  /\ hist' = [hist EXCEPT ![o].ends = @ + 1]

\* Operation o goes on, its fields becoming r: no callback runs.
Continue(o, r) ==
  /\ op' = [op EXCEPT ![o] = r]
  /\ UNCHANGED <<slots, active, hist>>

(***************************************************************************)
(* The application's calls.                                                *)
(***************************************************************************)
\* SNMPClient::begin(); a transport that fails to open changes nothing.
Begin ==
  /\ pc = "idle"
  /\ begun' = TRUE
  /\ UNCHANGED <<op, slots, nextID, now, pc, k, rx, active, wire, hist>>

\* addOID() or addValue(): add() refuses a pending operation, a full array
\* and an OID already there, so the cells' OIDs are distinct positions.
AddOID(o) ==
  /\ AppTurn
  /\ ~Walking(o)
  /\ op[o].status \notin {"Pending", "Destroyed"}
  /\ Len(op[o].cells) < Capacity[o]
  /\ op' = [op EXCEPT ![o].cells = Append(@, FreshCell(Len(@) + 1))]
  /\ UNCHANGED <<slots, begun, nextID, now, pc, k, rx, active, wire, hist>>

\* SNMPWalk::configure(), by setRoot(): the root is parsed through cell 1,
\* which loses whatever an earlier run had collected there.
Configure(o) ==
  /\ AppTurn
  /\ Walking(o)
  /\ op[o].status \notin {"Pending", "Destroyed"}
  /\ op' = [op EXCEPT ![o].rooted = TRUE,
                      ![o].cells = [i \in 1..Len(@) |->
                         IF i = 1 THEN FreshCell(0) ELSE @[i]]]
  /\ UNCHANGED <<slots, begun, nextID, now, pc, k, rx, active, wire, hist>>

Emptied_Stale(o, cells) == IF Walking(o) THEN << >> ELSE cells

\* An accepted start invalidates old results: a walk forgets them, a query
\* clears every value, a SET keeps the values it has to send.
Emptied(o, cells) ==
  IF Walking(o) THEN << >>
  ELSE [i \in 1..Len(cells) |->
          [cells[i] EXCEPT !.status = "Pending",
                           !.src = IF Kind[o] = "set" THEN @ ELSE NoSource]]

\* The fields of o after schedule() accepts it.
Scheduled(o, r) ==
  LET cells == Emptied(o, r.cells)
  IN [r EXCEPT !.status = "Pending", !.completed = FALSE,
               !.mode = IF ~Walking(o) THEN @
                        ELSE IF Version[o] = "v1" THEN "next" ELSE "bulk",
               !.cursor = 0, !.cells = cells, !.offset = 0,
               !.batchLimit = Len(cells), !.id = 0, !.sent = FALSE,
               !.attempts = 0, !.startedAt = 0]

\* start(): every rejection leaves the operation as it was.
Start(o) ==
  /\ AppTurn
  /\ op[o].status \notin {"Pending", "Destroyed"}
  /\ begun
  /\ o \in Configured
  /\ IF Walking(o) THEN op[o].rooted ELSE op[o].cells # << >>
  /\ \E s \in Slot :
       /\ slots[s] = None
       /\ \A t \in 1..(s - 1) : slots[t] # None
       /\ slots' = [slots EXCEPT ![s] = o]
  /\ op' = [op EXCEPT ![o] = Scheduled(o, @)]
  /\ hist' = [hist EXCEPT ![o] = [NoHistory EXCEPT !.floor = nextID]]
  /\ UNCHANGED <<begun, nextID, now, pc, k, rx, active, wire>>

Cancel_Always(o) ==
  /\ AppTurn
  /\ op[o].status # "Destroyed"
  /\ Finish(o, op[o], "Cancelled")
  /\ UNCHANGED <<begun, nextID, now, pc, k, rx, wire>>

\* cancel(): no effect when not pending.
Cancel(o) ==
  /\ AppTurn
  /\ Pending(o)
  /\ Finish(o, op[o], "Cancelled")
  /\ UNCHANGED <<begun, nextID, now, pc, k, rx, wire>>

TakeCompleted_KeepsFlag(o) ==
  /\ AppTurn
  /\ op[o].completed
  /\ op[o].status # "Destroyed"
  /\ hist' = [hist EXCEPT ![o].taken = @ + 1]
  /\ UNCHANGED <<op, slots, begun, nextID, now, pc, k, rx, active, wire>>

\* takeCompleted() returning true.
TakeCompleted(o) ==
  /\ AppTurn
  /\ op[o].completed
  /\ op[o].status # "Destroyed"
  /\ op' = [op EXCEPT ![o].completed = FALSE]
  /\ hist' = [hist EXCEPT ![o].taken = @ + 1]
  /\ UNCHANGED <<slots, begun, nextID, now, pc, k, rx, active, wire>>

\* ~SNMPOperation(): unregisters the operation and tells nobody.
DestroyOperation(o) ==
  /\ AppTurn
  /\ o \notin active
  /\ op[o].status # "Destroyed"
  /\ op' = [op EXCEPT ![o].status = "Destroyed"]
  /\ slots' = Without(o)
  /\ UNCHANGED <<begun, nextID, now, pc, k, rx, active, wire, hist>>

\* A completion or notification handler returns.
Return ==
  /\ active # {}
  /\ pc # "stream"
  /\ active' = {}
  /\ UNCHANGED <<op, slots, begun, nextID, now, pc, k, rx, wire, hist>>

-----------------------------------------------------------------------------
(***************************************************************************)
(* loop(now): receive() one datagram, then a pass over the slots.          *)
(***************************************************************************)
Elapsed(since) == (now - since) % ClockModulus

\* loop() is called d ms after the previous call; before begin() it returns.
\* The true times of the history stop at the limits they are compared with.
Loop(d) ==
  /\ pc = "idle"
  /\ active = {}
  /\ begun
  /\ now' = (now + d) % ClockModulus
  /\ pc' = "receive"
  /\ hist' = [o \in Op |->
       [hist[o] EXCEPT
          !.waited = IF Pending(o) /\ op[o].sent
                     THEN Least(@ + d, TimeoutMs) ELSE 0,
          !.aged = IF Pending(o) /\ op[o].id # 0
                   THEN Least(@ + d, WalkDeadline) ELSE 0]]
  /\ UNCHANGED <<op, slots, begun, nextID, k, rx, active, wire>>

(***************************************************************************)
(* Datagrams.  A reply carries the ID of the request it answers and comes  *)
(* from the endpoint and community of a device.  Besides the answers to    *)
(* what was sent, another endpoint may use any ID for its own traffic.     *)
(***************************************************************************)
Answers == {[id |-> q.id, from |-> DeviceOf[q.op], to |-> q.op] : q \in wire}
Strays == {m \in [id : 1..nextID, from : Device, to : {None}] :
             \A q \in wire : q.id = m.id => DeviceOf[q.op] # m.from}

Matches_AnyPeer(s, m) ==
  slots[s] # None /\ op[slots[s]].sent /\ op[slots[s]].id = m.id

Matches(s, m) ==
  /\ slots[s] # None
  /\ LET o == slots[s] IN op[o].sent /\ op[o].id = m.id /\ DeviceOf[o] = m.from

\* Reply m reaches operation o, the first slot whose request it matches.
Reaches(o, m) ==
  \E s \in Slot : /\ slots[s] = o
                  /\ Matches(s, m)
                  /\ \A t \in 1..(s - 1) : ~Matches(t, m)

Source(m) == [op |-> m.to, id |-> m.id]

Resend_KeepsID(r) == [r EXCEPT !.attempts = 0]

\* The next pass sends a new request, with a new ID and all its attempts.
Resend(r) == [r EXCEPT !.sent = FALSE, !.attempts = 0]

\* Nothing arrived, or what arrived is discarded: no datagram, one that does
\* not fit or parse, or a response that matches no slot.
ReceiveNothing ==
  /\ UNCHANGED <<op, slots, active, hist>>

\* Not a response: notify() runs the notification handler.
ReceiveNotification ==
  /\ active' = {None}
  /\ UNCHANGED <<op, slots, hist>>

\* An error-status outside 0..18 or a negative error-index.
ReplyInvalidError(o) == Finish(o, op[o], "ProtocolError")

\* SNMPv1 noSuchName for a GET: ask for each object on its own; alone, the
\* object is missing.
ReplyNoSuchName(o) ==
  /\ op[o].mode = "get" /\ Version[o] = "v1" /\ ~Walking(o)
  /\ IF op[o].batch > 1
     THEN Continue(o, Resend([op[o] EXCEPT !.batchLimit = 1]))
     ELSE LET i == op[o].offset + 1
              r == [op[o] EXCEPT !.cells[i].status = "Missing", !.offset = i]
              n == Len(r.cells)
          IN IF i = n
             THEN Finish(o, r, IF n = 1 THEN "Missing" ELSE "Partial")
             ELSE Continue(o, Resend(r))

ReplyTooBig_KeepsLimit(o) ==
  op[o].batch > 1 /\ op[o].mode # "set" /\ Continue(o, Resend(op[o]))

\* tooBig for a read of several bindings: halve the batch.
ReplyTooBig(o) ==
  /\ op[o].batch > 1
  /\ op[o].mode # "set"
  /\ Continue(o, Resend([op[o] EXCEPT !.batchLimit = op[o].batch \div 2]))

\* SNMPv1 noSuchName is the end of a walk.
ReplyEndOfWalk(o) ==
  /\ Walking(o) /\ Version[o] = "v1"
  /\ Finish(o, op[o], "Success")

\* tooBig for GETBULK: fall back to GETNEXT.
ReplyBulkTooBig(o) ==
  /\ Walking(o) /\ op[o].mode = "bulk"
  /\ Continue(o, Resend([op[o] EXCEPT !.mode = "next"]))

\* Any other error-status e ends the operation.
ReplyError(o, e) ==
  /\ CASE e = "tooBig" ->
            /\ op[o].batch <= 1 \/ op[o].mode = "set"
            /\ op[o].mode # "bulk"
       [] e = "noSuchName" -> Version[o] = "v2c" \/ op[o].mode = "set"
       [] OTHER -> TRUE
  /\ Finish(o, op[o],
            IF e = "tooBig" THEN "CapacityExceeded" ELSE "ProtocolError")

\* A binding list that is not exactly the OIDs of the batch, in order.
ReplyWrongBindings(o) ==
  /\ ~Walking(o)
  /\ Finish(o, op[o], "ProtocolError")

\* Cell c filled by copyValue() with outcome s from source src; a type
\* mismatch keeps the value, every other failure leaves an empty one.
Filled(c, s, src) ==
  [c EXCEPT !.status = s,
            !.src = IF s \in {"Success", "TypeMismatch"} THEN src ELSE NoSource]

Summary_LastOnly(cells) ==
  IF cells[Len(cells)].status = "Success" THEN "Success" ELSE "Partial"

\* The status of a query or SET whose last batch has been committed.
Summary(cells) ==
  IF \A i \in 1..Len(cells) : cells[i].status = "Success" THEN "Success"
  ELSE IF Len(cells) = 1 THEN cells[1].status ELSE "Partial"

\* The complete, ordered list: the whole batch is committed at once.
ReplyBindings(o, m) ==
  /\ ~Walking(o)
  /\ \E outcome \in [1..op[o].batch -> CellOutcomes] :
       LET first == op[o].offset
           last == first + op[o].batch
           cells == [i \in 1..Len(op[o].cells) |->
                       IF first < i /\ i <= last
                       THEN Filled(op[o].cells[i], outcome[i - first], Source(m))
                       ELSE op[o].cells[i]]
           r == Resend([op[o] EXCEPT !.cells = cells, !.offset = last])
       IN IF last = Len(cells) THEN Finish(o, r, Summary(cells))
                               ELSE Continue(o, r)

\* A successful walk reply: its bindings are taken one by one, see below.
ReplyWalk(o, m) ==
  /\ Walking(o)
  /\ rx' = [NoDelivery EXCEPT !.op = o, !.src = Source(m), !.gen = op[o].id]
  /\ pc' = "walk"

ToPass == pc' = "pass" /\ k' = 1

ReceiveReply(o, m) ==
  /\ Reaches(o, m)
  /\ \/ /\ \/ ReplyInvalidError(o)
           \/ ReplyNoSuchName(o)
           \/ ReplyTooBig(o)
           \/ ReplyEndOfWalk(o)
           \/ ReplyBulkTooBig(o)
           \/ \E e \in {"tooBig", "noSuchName", "other"} : ReplyError(o, e)
           \/ ReplyWrongBindings(o)
           \/ ReplyBindings(o, m)
        /\ ToPass
        /\ UNCHANGED rx
     \/ /\ ReplyWalk(o, m)
        /\ UNCHANGED <<op, slots, active, hist, k>>

Receive ==
  /\ pc = "receive"
  /\ \/ ReceiveNothing /\ ToPass /\ UNCHANGED rx
     \/ ReceiveNotification /\ ToPass /\ UNCHANGED rx
     \/ \E m \in Answers \cup Strays, o \in Op : ReceiveReply(o, m)
  /\ UNCHANGED <<begun, nextID, now, wire>>

(***************************************************************************)
(* The bindings of a walk reply, one per step.  The list is whatever the   *)
(* agent chose, so each step takes one more binding or the end of it.      *)
(***************************************************************************)
DeliveryEnds == ToPass /\ rx' = NoDelivery

WalkEndOfMib ==
  /\ Finish(rx.op, op[rx.op], "Success")
  /\ DeliveryEnds

Follows_Root(name) == 0 < name

\* compareOID(): the OID comes after the last one delivered.
Follows(name) == op[rx.op].cursor < name

\* The agent repeats itself or goes back: the walk would never end.
WalkNotIncreasing(name) ==
  /\ ~Follows(name)
  /\ Finish(rx.op, op[rx.op], "ProtocolError")
  /\ DeliveryEnds

\* The first OID outside the subtree completes the walk.
WalkLeavesSubtree(name) ==
  /\ Follows(name)
  /\ name > Rows
  /\ Finish(rx.op, op[rx.op], "Success")
  /\ DeliveryEnds

\* Collecting walk: the value is appended, unless every slot is used.
WalkCollect(name) ==
  LET o == rx.op
      full == Len(op[o].cells) = Capacity[o]
  IN /\ Kind[o] = "walk" /\ Follows(name) /\ name <= Rows
     /\ \/ /\ full
           /\ Finish(o, op[o], "CapacityExceeded")
           /\ DeliveryEnds
        \/ /\ ~full
           /\ \E s \in CellOutcomes :
                Continue(o, [op[o] EXCEPT
                  !.cells = Append(@, Filled(FreshCell(name), s, rx.src)),
                  !.cursor = name])
           /\ rx' = [rx EXCEPT !.any = TRUE]
           /\ UNCHANGED <<pc, k>>

\* Streaming walk: the value is lent to the callback, which takes control.
WalkStream(name) ==
  /\ Kind[rx.op] = "stream" /\ Follows(name) /\ name <= Rows
  /\ rx' = [rx EXCEPT !.any = TRUE, !.name = name]
  /\ pc' = "stream"
  /\ active' = {rx.op}
  /\ UNCHANGED <<op, slots, hist, k>>

\* The end of the list.  A list with no value is legal for GETBULK only.
WalkEndOfList ==
  LET o == rx.op
      r == op[o]
  IN /\ IF rx.any THEN Continue(o, Resend(r))
        ELSE IF r.mode = "bulk"
             THEN Continue(o, Resend([r EXCEPT !.mode = "next"]))
             ELSE Finish(o, r, "ProtocolError")
     /\ DeliveryEnds

WalkBinding ==
  /\ pc = "walk"
  /\ \/ WalkEndOfMib
     \/ \E name \in 0..(Rows + 1) :
          \/ WalkNotIncreasing(name) \/ WalkLeavesSubtree(name)
          \/ WalkCollect(name) \/ WalkStream(name)
     \/ WalkEndOfList
  /\ UNCHANGED <<begun, nextID, now, wire>>

SameRun_AnyRun == Pending(rx.op)

\* The run whose reply is being delivered is still the walk's current one.
SameRun == Pending(rx.op) /\ op[rx.op].id = rx.gen

\* The stream callback returns true.  The loop goes on only if the callback
\* did not end, or end and restart, the walk.
StreamContinue ==
  /\ pc = "stream"
  /\ active' = {}
  /\ IF SameRun
     THEN /\ op' = [op EXCEPT ![rx.op].cursor = rx.name]
          /\ pc' = "walk"
          /\ UNCHANGED <<k, rx>>
     ELSE DeliveryEnds /\ UNCHANGED op
  /\ UNCHANGED <<slots, begun, nextID, now, wire, hist>>

\* The stream callback returns false: finish() is called whatever the
\* callback did to the walk before.
StreamStop ==
  /\ pc = "stream"
  /\ SameRun \/ StopAfterCancel
  /\ Finish(rx.op, op[rx.op], "CapacityExceeded")
  /\ DeliveryEnds
  /\ UNCHANGED <<begun, nextID, now, wire>>

-----------------------------------------------------------------------------
(***************************************************************************)
(* send().  A batch is as much of the list as fits and the limit allows.   *)
(***************************************************************************)
BatchSize(o, r) ==
  IF Walking(o) THEN Least(Fit[o], 1)
  ELSE Least(Fit[o], Least(r.batchLimit, Len(r.cells) - r.offset))

Request(o, r) ==
  [id |-> r.id, op |-> o, mode |-> r.mode, first |-> r.offset + 1,
   last |-> r.offset + r.batch, cursor |-> r.cursor]

Unsendable_Wraps(o, r) ==
  r.batch = 0 \/ (r.mode = "set" /\ r.batch # Len(r.cells))

\* A SET that would have to be split, nothing that fits, or no ID left.
Unsendable(o, r) ==
  \/ r.batch = 0
  \/ r.mode = "set" /\ r.batch # Len(r.cells)
  \/ ~r.sent /\ nextID = MaxID

\* A new request gets the next ID; a retransmission keeps its own.
Numbered(r) == IF r.sent THEN r ELSE [r EXCEPT !.id = nextID + 1]

\* The history h of a run after one more transmission, of a new request or
\* of the last one again.
Counted(h, new) ==
  [h EXCEPT !.copies = IF new THEN 1 ELSE h.copies + 1,
            !.used = IF new THEN h.used + 1 ELSE h.used,
            !.waited = 0]

\* Operation o, whose fields have become r0, is transmitted.
Send(o, r0) ==
  LET r == [r0 EXCEPT !.batch = BatchSize(o, r0)]
      q == Numbered(r)
      new == ~r0.sent
  IN \/ /\ Unsendable(o, r)
        /\ Finish(o, r, "CapacityExceeded")
        /\ UNCHANGED <<nextID, wire>>
     \/ /\ ~Unsendable(o, r)
        /\ nextID' = IF new THEN q.id ELSE nextID
        /\ \/ /\ Finish(o, q, "TransportError")
              /\ UNCHANGED wire
           \/ /\ op' = [op EXCEPT ![o] = [q EXCEPT !.sent = TRUE,
                                                   !.sentAt = now]]
              /\ wire' = wire \cup {Request(o, q)}
              /\ hist' = [hist EXCEPT ![o] = Counted(@, new)]
              /\ UNCHANGED <<slots, active>>

(***************************************************************************)
(* The pass: what loop() does for the operation o in slot k.               *)
(***************************************************************************)
Overdue(o) == /\ Walking(o)
              /\ op[o].id # 0
              /\ Elapsed(op[o].startedAt) >= WalkDeadline

Expired_Sum(o) ==
  op[o].sent /\ now >= (op[o].sentAt + TimeoutMs) % ClockModulus

Expired(o) == op[o].sent /\ Elapsed(op[o].sentAt) >= TimeoutMs

MayRetry_AlsoSet(o) == op[o].attempts < Retries

MayRetry(o) == op[o].mode # "set" /\ op[o].attempts < Retries

\* The 60 s deadline of a walk, counted from its first transmission.
PassDeadline(o) ==
  /\ Overdue(o)
  /\ Finish(o, op[o], "Timeout")
  /\ UNCHANGED <<nextID, wire>>

PassSend_RestartsDeadline(o) ==
  /\ ~Overdue(o) /\ ~op[o].sent
  /\ Send(o, [op[o] EXCEPT !.startedAt = now])

PassSend(o) ==
  /\ ~Overdue(o) /\ ~op[o].sent
  /\ Send(o, IF op[o].id = 0 THEN [op[o] EXCEPT !.startedAt = now] ELSE op[o])

PassRetry(o) ==
  /\ ~Overdue(o) /\ Expired(o) /\ MayRetry(o)
  /\ Send(o, [op[o] EXCEPT !.attempts = @ + 1])

\* A lost GETBULK reply may have been too large: go on with GETNEXT.
PassFallBack(o) ==
  /\ ~Overdue(o) /\ Expired(o) /\ ~MayRetry(o)
  /\ Walking(o) /\ op[o].mode = "bulk"
  /\ Continue(o, Resend([op[o] EXCEPT !.mode = "next"]))
  /\ UNCHANGED <<nextID, wire>>

PassHalve_StaysSent(o) ==
  /\ ~Overdue(o) /\ Expired(o) /\ ~MayRetry(o)
  /\ op[o].mode = "get" /\ op[o].batch > 1
  /\ Continue(o, [op[o] EXCEPT !.batchLimit = op[o].batch \div 2])
  /\ UNCHANGED <<nextID, wire>>

\* A lost reply to a batch: halve it.
PassHalve(o) ==
  /\ ~Overdue(o) /\ Expired(o) /\ ~MayRetry(o)
  /\ op[o].mode = "get" /\ op[o].batch > 1
  /\ Continue(o, Resend([op[o] EXCEPT !.batchLimit = op[o].batch \div 2]))
  /\ UNCHANGED <<nextID, wire>>

PassGiveUp_Waits(o) ==
  /\ ~Overdue(o) /\ Expired(o) /\ ~MayRetry(o)
  /\ op[o].mode # "bulk" /\ ~(op[o].mode = "get" /\ op[o].batch > 1)
  /\ UNCHANGED <<op, slots, active, hist, nextID, wire>>

PassGiveUp(o) ==
  /\ ~Overdue(o) /\ Expired(o) /\ ~MayRetry(o)
  /\ op[o].mode # "bulk" /\ ~(op[o].mode = "get" /\ op[o].batch > 1)
  /\ Finish(o, op[o], "Timeout")
  /\ UNCHANGED <<nextID, wire>>

PassWait(o) ==
  /\ ~Overdue(o) /\ op[o].sent /\ ~Expired(o)
  /\ Continue(o, op[o])
  /\ UNCHANGED <<nextID, wire>>

PassSlot(o) ==
  \/ PassDeadline(o) \/ PassSend(o) \/ PassRetry(o) \/ PassFallBack(o)
  \/ PassHalve(o) \/ PassGiveUp(o) \/ PassWait(o)

PassEmpty ==
  /\ slots[k] = None
  /\ UNCHANGED <<op, slots, active, nextID, wire, hist>>

Pass ==
  /\ pc = "pass"
  /\ active = {}
  /\ k <= MaxPending
  /\ PassEmpty \/ \E o \in Op : slots[k] = o /\ PassSlot(o)
  /\ k' = k + 1
  /\ UNCHANGED <<begun, now, pc, rx>>

PassDone ==
  /\ pc = "pass"
  /\ active = {}
  /\ k > MaxPending
  /\ pc' = "idle"
  /\ k' = 1
  /\ UNCHANGED <<op, slots, begun, nextID, now, rx, active, wire, hist>>

(***************************************************************************)
(* ~SNMPClient(): no start is accepted any more, then every slot is ended. *)
(***************************************************************************)
DestroyClient_StaysBegun ==
  /\ pc = "idle"
  /\ active = {}
  /\ pc' = "destroy"
  /\ UNCHANGED <<op, slots, begun, nextID, now, k, rx, active, wire, hist>>

DestroyClient ==
  /\ pc = "idle"
  /\ active = {}
  /\ begun' = FALSE
  /\ pc' = "destroy"
  /\ UNCHANGED <<op, slots, nextID, now, k, rx, active, wire, hist>>

DestroySlot ==
  /\ pc = "destroy"
  /\ active = {}
  /\ k <= MaxPending
  /\ \/ slots[k] = None /\ UNCHANGED <<op, slots, active, hist>>
     \/ \E o \in Op : slots[k] = o /\ Finish(o, op[o], "Cancelled")
  /\ k' = k + 1
  /\ UNCHANGED <<begun, nextID, now, pc, rx, wire>>

Destroyed ==
  /\ pc = "destroy"
  /\ active = {}
  /\ k > MaxPending
  /\ pc' = "dead"
  /\ UNCHANGED <<op, slots, begun, nextID, now, k, rx, active, wire, hist>>

\* Nothing is left to do.
Dead == pc = "dead" /\ UNCHANGED vars

-----------------------------------------------------------------------------
Application ==
  \/ Begin
  \/ DestroyClient
  \/ \E o \in Op : \/ AddOID(o) \/ Configure(o) \/ Start(o) \/ Cancel(o)
                   \/ TakeCompleted(o) \/ DestroyOperation(o)

Call == \E d \in 0..MaxStall : Loop(d)

\* What happens by itself once loop() or the destructor has been called.
Internal ==
  \/ Return \/ Receive \/ WalkBinding \/ StreamContinue \/ StreamStop
  \/ Pass \/ PassDone \/ DestroySlot \/ Destroyed

Next == Application \/ Call \/ Internal \/ Dead

Spec == Init /\ [][Next]_vars

\* The sketch's main loop calls loop() for ever and its clock advances;
\* callbacks return.
FairSpec ==
  /\ Spec
  /\ WF_vars(Internal)
  /\ SF_vars(\E d \in 1..MaxStall : Loop(d))
=============================================================================
