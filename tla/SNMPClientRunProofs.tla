-------------------------- MODULE SNMPClientRunProofs --------------------------
(***************************************************************************)
(* Theorems about the runs of SNMPClient: how they end, what is sent for   *)
(* them, and that the client implements the contract of its header.        *)
(*                                                                         *)
(* The proofs share one lemma, StepForms: whatever action the client       *)
(* takes, what it does to the operations is one of the few forms that Step *)
(* lists.  Each invariant is then proved form by form.                     *)
(***************************************************************************)
EXTENDS SNMPClientProofs, FiniteSetTheorems

USE DEF Slot, Device, Terminal, CellStatus, OpStatus, Origin, Mode, Tick

(***************************************************************************)
(* The invariants about control.                                           *)
(***************************************************************************)
\* What is delivered, and to whom, at each place of loop() and of the
\* destructor.  Callbacks run at "stream", and may end or restart the walk
\* whose reply is being delivered; a restarted one has sent nothing yet.
Control ==
  /\ pc = "idle" => k = 1
  /\ pc \in {"receive", "walk"} => active = {}
  /\ pc \in {"walk", "stream"} => Walking(rx.op) /\ rx.gen # 0
  /\ pc = "walk" =>
       Pending(rx.op) /\ op[rx.op].sent /\ op[rx.op].id = rx.gen
  /\ pc = "stream" =>
       /\ Kind[rx.op] = "stream"
       /\ Pending(rx.op) => IF op[rx.op].id = rx.gen THEN op[rx.op].sent
                            ELSE op[rx.op].id = 0 /\ ~op[rx.op].sent
  /\ pc = "destroy" => ~begun /\ \A s \in Slot : s < k => slots[s] = None
  /\ pc = "dead" => ~begun /\ \A s \in Slot : slots[s] = None

\* The batch an operation waits for is the one send() would choose again.
Batches ==
  \A o \in Op : Pending(o) /\ op[o].sent =>
    op[o].batch = BatchSize(o, op[o]) /\ op[o].batch # 0

\* A SET operation stays in mode "set", and a walk that runs is in one of
\* its two modes, of which SNMPv1 has but one.
Modes ==
  \A o \in Op :
    /\ Kind[o] = "set" <=> op[o].mode = "set"
    /\ ~Walking(o) => op[o].mode \in {"get", "set"}
    /\ Pending(o) /\ Walking(o) => op[o].mode \in {"next", "bulk"}
    /\ Pending(o) /\ op[o].mode = "bulk" => Version[o] = "v2c"

RunInv == IInv /\ Control /\ Batches /\ Modes /\ BatchesInOrder

-----------------------------------------------------------------------------
(***************************************************************************)
(* What one step does to an operation.                                     *)
(***************************************************************************)
Delivering == pc \in {"walk", "stream"}

\* Only operation o is concerned.
Others(o) == \A p \in Op \ {o} : op'[p] = op[p] /\ hist'[p] = hist[p]

\* Nothing is delivered, or what was being delivered goes on, or delivery
\* (to o) is over and the pass begins.
Passage(o) ==
  \/ UNCHANGED <<pc, rx>>
  \/ pc' = "pass" /\ (Delivering => rx.op = o)

\* The application's calls that neither begin nor end a run by finish().
Edits(o) ==
  /\ AddOID(o) \/ Configure(o) \/ TakeCompleted(o) \/ DestroyOperation(o)
  /\ UNCHANGED <<nextID, wire, pc, rx>>

\* The cells of the batch, up to the last, get their statuses; m is the reply.
Commits(o, m, last) ==
  LET old == op[o].cells
      new == op'[o].cells
  IN /\ pc = "receive" /\ Reaches(o, m) /\ ~Walking(o)
     /\ op[o].offset < last /\ last = op[o].offset + op[o].batch
     /\ Len(new) = Len(old)
     /\ \A i \in 1..Len(old) :
          IF op[o].offset < i /\ i <= last
          THEN /\ new[i].status \in Terminal \ {"Partial", "Timeout"}
               /\ new[i].src \in {NoSource, Source(m), old[i].src}
               /\ new[i].name = old[i].name
          ELSE new[i] = old[i]

\* The pass gives the operation up.
TimedOut(o) == Overdue(o) \/ (Expired(o) /\ ~MayRetry(o))

\* A run ends, with the cells it has or with its last batch.
Ends(o) ==
  /\ Pending(o) \/ (pc = "stream" /\ StopAfterCancel)
  /\ op'[o].completed = TRUE /\ op'[o].mode = op[o].mode
  /\ hist'[o] = [hist[o] EXCEPT !.ends = @ + 1]
  /\ \/ /\ op'[o].status \in Terminal \ {"Partial"}
        /\ op'[o].status = "Success" => Walking(o)
        /\ op'[o].status = "Timeout" => TimedOut(o)
        /\ op'[o].cells = Inherit(op[o].cells, op'[o].status)
     \/ /\ op'[o].status \in Terminal
        /\ op'[o].status = Summary(op'[o].cells)
        /\ \E m \in Answers \cup Strays : Commits(o, m, Len(op[o].cells))
  /\ wire' = wire
  /\ nextID' \in {nextID, nextID + 1}
  /\ Passage(o)

\* A run goes on with another request: for a smaller batch, for the next
\* batch, by GETNEXT instead of GETBULK, or for the next rows of a walk.
Reopens(o) ==
  LET r == op[o]
      q == op'[o]
  IN /\ Pending(o) /\ q.status = "Pending" /\ q.completed = r.completed
     /\ r.sent /\ ~q.sent /\ q.attempts = 0 /\ q.id = r.id
     /\ q.cursor = r.cursor /\ q.startedAt = r.startedAt
     /\ hist'[o] = hist[o]
     /\ \/ /\ r.mode = "get" /\ q.mode = "get"
           /\ q.batchLimit < r.batch
           /\ q.cells = r.cells /\ q.offset = r.offset
        \/ /\ \E m \in Answers \cup Strays : Commits(o, m, q.offset)
           /\ q.offset < Len(r.cells)
           /\ q.mode = r.mode /\ q.batchLimit = r.batchLimit
        \/ /\ r.mode = "bulk" /\ q.mode = "next" /\ Walking(o)
           /\ q.cells = r.cells /\ q.offset = r.offset
           /\ q.batchLimit = r.batchLimit
        \/ /\ pc = "walk" /\ rx.op = o /\ rx.any
           /\ q.mode = r.mode /\ q.cells = r.cells /\ q.offset = r.offset
           /\ q.batchLimit = r.batchLimit
     /\ UNCHANGED <<nextID, wire>>
     /\ Passage(o)

\* A request is sent, for the first time or again.
Transmits(o) ==
  LET r == op[o]
      q == op'[o]
  IN /\ pc = "pass"
     /\ Pending(o) /\ q.status = "Pending" /\ q.completed = r.completed
     /\ q.sent /\ q.sentAt = now
     /\ q.mode = r.mode /\ q.cursor = r.cursor /\ q.cells = r.cells
     /\ q.offset = r.offset /\ q.batchLimit = r.batchLimit
     /\ q.batch = BatchSize(o, r) /\ q.batch # 0
     /\ r.mode = "set" => q.batch = Len(r.cells)
     /\ wire' = wire \cup {Request(o, q)}
     /\ hist'[o] = Counted(hist[o], ~r.sent)
     /\ \/ /\ ~r.sent /\ nextID' = nextID + 1 /\ q.id = nextID + 1
           /\ q.attempts = r.attempts
           /\ q.startedAt = IF r.id = 0 THEN now ELSE r.startedAt
        \/ /\ r.sent /\ nextID' = nextID /\ q.id = r.id
           /\ Expired(o) /\ r.mode # "set"
           /\ q.attempts = r.attempts + 1 /\ r.attempts < Retries
           /\ q.startedAt = r.startedAt
     /\ UNCHANGED <<pc, rx>>

\* A row is taken from a walk's reply: collected, or streamed before.
Advances(o) ==
  LET r == op[o]
      q == op'[o]
  IN /\ Delivering /\ pc' = "walk" /\ o = rx.op
     /\ Pending(o) /\ r.id = rx.gen
     /\ q.status = "Pending" /\ q.completed = r.completed /\ q.sent = r.sent
     /\ q.mode = r.mode /\ q.id = r.id /\ q.offset = r.offset
     /\ q.batch = r.batch /\ q.batchLimit = r.batchLimit
     /\ q.attempts = r.attempts /\ q.sentAt = r.sentAt
     /\ q.startedAt = r.startedAt
     /\ hist'[o] = hist[o]
     /\ \/ /\ pc = "walk" /\ Kind[o] = "walk"
           /\ rx' = [rx EXCEPT !.any = TRUE]
           /\ r.cursor < q.cursor /\ q.cursor <= Rows
           /\ \E s \in CellOutcomes :
                q.cells = Append(r.cells,
                                 Filled(FreshCell(q.cursor), s, rx.src))
        \/ /\ pc = "stream" /\ rx' = rx
           /\ q.cursor = rx.name /\ q.cells = r.cells
     /\ UNCHANGED <<nextID, wire>>

\* No operation is concerned: only the place in the program moves on.
Rests ==
  /\ UNCHANGED <<op, hist, nextID, wire>>
  /\ \/ UNCHANGED <<pc, rx>>
     \/ ~Delivering /\ pc' \notin {"walk", "stream"}
     \/ /\ pc = "receive" /\ pc' = "walk"
        /\ \E m \in Answers \cup Strays, o \in Op :
             /\ Reaches(o, m)
             /\ rx' = [NoDelivery EXCEPT !.op = o, !.src = Source(m),
                                         !.gen = op[o].id]
     \/ /\ pc = "walk" /\ pc' = "stream"
        /\ \E name \in 0..Rows :
             /\ op[rx.op].cursor < name
             /\ rx' = [rx EXCEPT !.any = TRUE, !.name = name]
     \/ pc = "stream" /\ ~SameRun /\ pc' = "pass"

Step ==
  \/ Rests
  \/ \E d \in 0..MaxStall : Loop(d)
  \/ \E o \in Op :
       /\ Others(o)
       /\ \/ Edits(o) \/ Start(o) \/ Ends(o) \/ Reopens(o)
          \/ Transmits(o) \/ Advances(o)

-----------------------------------------------------------------------------
(***************************************************************************)
(* Control.                                                                *)
(***************************************************************************)
\* What finish() does to the fields of operations and to their histories.
LEMMA FinishEffect ==
  ASSUME OpInv, NEW o \in Op, NEW r \in OperationState, NEW s \in Terminal,
         Finish(o, r, s)
  PROVE  /\ Others(o)
         /\ op'[o].status = s /\ op'[o].completed = TRUE
         /\ op'[o].cells = Inherit(r.cells, s) /\ op'[o].mode = r.mode
         /\ hist'[o] = [hist[o] EXCEPT !.ends = @ + 1]
<1>1. op' = [op EXCEPT ![o] = Ended(r, s)]
      /\ hist' = [hist EXCEPT ![o].ends = @ + 1]
  BY DEF Finish
<1>2. op \in [Op -> OperationState] /\ hist \in [Op -> History]
  BY DEF OpInv
<1>3. op'[o] = Ended(r, s) /\ Others(o)
  BY <1>1, <1>2 DEF Others
<1>4. hist'[o] = [hist[o] EXCEPT !.ends = @ + 1]
  BY <1>1, <1>2
<1>5. /\ Ended(r, s).status = s /\ Ended(r, s).completed = TRUE
      /\ Ended(r, s).mode = r.mode
      /\ Ended(r, s).cells = Inherit(r.cells, s)
  BY DEF Ended, OperationState
<1>6. QED
  BY <1>3, <1>4, <1>5

LEMMA ContinueEffect ==
  ASSUME OpInv, NEW o \in Op, NEW r, Continue(o, r)
  PROVE  /\ Others(o) /\ op'[o] = r /\ hist' = hist
         /\ UNCHANGED <<slots, active>>
BY DEF OpInv, Continue, Others

\* A call of the application leaves the client where it is.
LEMMA CallControl ==
  ASSUME Control, AppTurn, UNCHANGED <<pc, k, rx, begun>>,
         begun \/ \A s \in Slot : slots[s] = None => slots'[s] = None,
         pc = "stream" /\ op'[rx.op].status = "Pending" =>
           IF op'[rx.op].id = rx.gen THEN op'[rx.op].sent
           ELSE op'[rx.op].id = 0 /\ ~op'[rx.op].sent
  PROVE  Control'
<1>1. pc \notin {"receive", "walk"}
  BY DEF Control, AppTurn
<1>2. pc' = pc /\ k' = k /\ rx' = rx /\ begun' = begun
  OBVIOUS
<1>3. pc \in {"destroy", "dead"} => ~begun
  BY DEF Control
<1>4. /\ pc = "destroy" => \A s \in Slot : s < k => slots'[s] = None
      /\ pc = "dead" => \A s \in Slot : slots'[s] = None
  BY <1>3 DEF Control
<1>5. QED
  BY <1>1, <1>2, <1>3, <1>4 DEF Control, Pending

\* Releasing a slot, as remove() does.
LEMMA WithoutReleases ==
  ASSUME NEW o, slots' = Without(o)
  PROVE  \A s \in Slot : slots[s] = None => slots'[s] = None
BY DEF Without

LEMMA ApplicationControl ==
  ASSUME IInv, Control, NEW o \in Op,
         \/ AddOID(o) \/ Configure(o) \/ Start(o) \/ Cancel(o)
         \/ TakeCompleted(o) \/ DestroyOperation(o)
  PROVE  Control'
<1>1. op \in [Op -> OperationState] /\ OpInv /\ EnvInv
  BY Parts DEF OpInv
<1>2. AppTurn /\ UNCHANGED <<pc, k, rx, begun>>
  BY DEF AddOID, Configure, Start, Cancel, TakeCompleted, DestroyOperation
<1>3. pc = "stream" => rx.op \in Op
  BY <1>1 DEF EnvInv
<1>4. pc = "stream" /\ op[rx.op].status = "Pending" =>
        IF op[rx.op].id = rx.gen THEN op[rx.op].sent
        ELSE op[rx.op].id = 0 /\ ~op[rx.op].sent
  BY DEF Control, Pending
<1>5. CASE AddOID(o) \/ Configure(o)
  <2>1. op'[o].status = op[o].status /\ op[o].status # "Pending"
    BY <1>1, <1>5 DEF AddOID, Configure, OperationState
  <2>2. \A p \in Op \ {o} : op'[p] = op[p]
    BY <1>1, <1>5 DEF AddOID, Configure
  <2>3. slots' = slots
    BY <1>5 DEF AddOID, Configure
  <2>4. QED
    BY <1>2, <1>3, <1>4, <2>1, <2>2, <2>3, CallControl
<1>6. CASE TakeCompleted(o)
  <2>1. /\ op'[o].status = op[o].status /\ op'[o].id = op[o].id
        /\ op'[o].sent = op[o].sent
    BY <1>1, <1>6 DEF TakeCompleted, OperationState
  <2>2. \A p \in Op \ {o} : op'[p] = op[p]
    BY <1>1, <1>6 DEF TakeCompleted
  <2>3. slots' = slots
    BY <1>6 DEF TakeCompleted
  <2>4. QED
    BY <1>2, <1>3, <1>4, <2>1, <2>2, <2>3, CallControl
<1>7. CASE Start(o)
  <2>1. op'[o] = Scheduled(o, op[o]) /\ \A p \in Op \ {o} : op'[p] = op[p]
    BY <1>1, <1>7 DEF Start
  <2>2. Scheduled(o, op[o]).id = 0 /\ Scheduled(o, op[o]).sent = FALSE
    BY <1>1 DEF Scheduled, OperationState
  <2>3. begun
    BY <1>7 DEF Start
  <2>4. pc = "stream" => rx.gen # 0
    BY DEF Control
  <2>5. QED
    BY <1>2, <1>3, <1>4, <2>1, <2>2, <2>3, <2>4, CallControl
<1>8. CASE Cancel(o)
  <2>1. Finish(o, op[o], "Cancelled")
    BY <1>8 DEF Cancel
  <2>2. op'[o].status = "Cancelled" /\ Others(o)
    BY <1>1, <2>1, FinishEffect
  <2>3. \A s \in Slot : slots[s] = None => slots'[s] = None
    BY <2>1, WithoutReleases DEF Finish
  <2>4. QED
    BY <1>2, <1>3, <1>4, <2>2, <2>3, CallControl DEF Others
<1>9. CASE DestroyOperation(o)
  <2>1. op'[o].status = "Destroyed" /\ \A p \in Op \ {o} : op'[p] = op[p]
    BY <1>1, <1>9 DEF DestroyOperation, OperationState
  <2>2. \A s \in Slot : slots[s] = None => slots'[s] = None
    BY <1>9, WithoutReleases DEF DestroyOperation
  <2>3. QED
    BY <1>2, <1>3, <1>4, <2>1, <2>2, CallControl
<1>10. QED
  BY <1>5, <1>6, <1>7, <1>8, <1>9

LEMMA ReceiveControl ==
  ASSUME IInv, Control, Receive
  PROVE  Control'
<1>1. OpInv
  BY Parts
<1>2. CASE pc' = "pass"
  BY <1>2 DEF Control
<1>3. ASSUME NEW m \in Answers \cup Strays, NEW o \in Op, Reaches(o, m),
             ReplyWalk(o, m), UNCHANGED <<op, slots, active, hist, k>>
      PROVE  Control'
  <2>1. Pending(o) /\ op[o].sent
    BY <1>1, <1>3, ReachedIsWaiting
  <2>2. op[o].id # 0
    BY <1>1, <2>1 DEF OpInv, Frame, Framed, Pending
  <2>3. rx'.op = o /\ rx'.gen = op[o].id /\ Walking(o) /\ pc' = "walk"
    BY <1>3 DEF ReplyWalk, NoDelivery
  <2>4. active' = {} /\ op' = op
    BY <1>3 DEF Receive, Control
  <2>5. QED
    BY <2>1, <2>2, <2>3, <2>4 DEF Control, Pending
<1>4. QED
  BY <1>2, <1>3 DEF Receive, ReceiveReply, ToPass

LEMMA WalkControl ==
  ASSUME IInv, Control, WalkBinding \/ StreamContinue \/ StreamStop
  PROVE  Control'
<1> DEFINE o == rx.op
<1>1. OpInv /\ EnvInv /\ o \in Op /\ op[o] \in OperationState
  <2>1. OpInv /\ EnvInv
    BY Parts
  <2>2. o \in Op
    BY <2>1 DEF EnvInv, WalkBinding, StreamContinue, StreamStop
  <2>3. QED
    BY <2>1, <2>2 DEF OpInv
<1>2. CASE pc' = "pass"
  BY <1>2 DEF Control
<1>3. ASSUME NEW name \in 0..(Rows + 1), WalkBinding, WalkCollect(name),
             UNCHANGED pc
      PROVE  Control'
  <2>1. pc = "walk" /\ active = {} /\ pc' = "walk"
    BY <1>3 DEF WalkBinding, Control
  <2>2. PICK c : Continue(o, [op[o] EXCEPT !.cells = c, !.cursor = name])
    <3>1. PICK s \in CellOutcomes :
            Continue(o, [op[o] EXCEPT
                    !.cells = Append(@, Filled(FreshCell(name), s, rx.src)),
                    !.cursor = name])
      BY <1>3, <2>1 DEF WalkCollect, DeliveryEnds, ToPass
    <3> DEFINE c == Append(op[o].cells, Filled(FreshCell(name), s, rx.src))
    <3>2. Continue(o, [op[o] EXCEPT !.cells = c, !.cursor = name])
      BY <3>1
    <3> HIDE DEF c
    <3>3. QED
      BY <3>2
  <2>3. rx' = [rx EXCEPT !.any = TRUE]
    BY <1>3, <2>1 DEF WalkCollect, DeliveryEnds, ToPass
  <2>4. rx'.op = rx.op /\ rx'.gen = rx.gen
    BY <2>3, <1>1 DEF EnvInv, Delivery
  <2>5. op'[o] = [op[o] EXCEPT !.cells = c, !.cursor = name]
         /\ active' = active
    BY <1>1, <2>2, ContinueEffect
  <2>6. /\ op'[o].status = op[o].status /\ op'[o].id = op[o].id
        /\ op'[o].sent = op[o].sent /\ active' = active
    BY <1>1, <2>5 DEF OperationState
  <2>7. QED
    BY <2>1, <2>4, <2>6 DEF Control, Pending
<1>4. ASSUME NEW name \in 0..(Rows + 1), WalkBinding, WalkStream(name)
      PROVE  Control'
  <2>1. pc = "walk" /\ pc' = "stream" /\ op' = op /\ Kind[o] = "stream"
    BY <1>4 DEF WalkBinding, WalkStream
  <2>2. rx'.op = rx.op /\ rx'.gen = rx.gen
    BY <1>4, <1>1 DEF EnvInv, Delivery, WalkStream
  <2>3. QED
    BY <2>1, <2>2 DEF Control, Pending
<1>5. CASE StreamContinue /\ SameRun
  <2>1. /\ pc = "stream" /\ pc' = "walk" /\ rx' = rx /\ active' = {}
        /\ op' = [op EXCEPT ![o].cursor = rx.name]
    BY <1>5 DEF StreamContinue
  <2>2. /\ op'[o].status = op[o].status /\ op'[o].id = op[o].id
        /\ op'[o].sent = op[o].sent
    BY <1>1, <2>1 DEF OpInv, OperationState
  <2>3. QED
    BY <1>5, <2>1, <2>2 DEF Control, SameRun, Pending
<1>6. CASE WalkBinding
  BY <1>2, <1>3, <1>4, <1>6
     DEF WalkBinding, WalkEndOfMib, WalkNotIncreasing, WalkLeavesSubtree,
         WalkEndOfList, DeliveryEnds, ToPass, WalkCollect
<1>7. CASE StreamContinue \/ StreamStop
  BY <1>2, <1>5, <1>7 DEF StreamContinue, StreamStop, DeliveryEnds, ToPass
<1>8. QED
  BY <1>6, <1>7

LEMMA ControlNext == IInv /\ Control /\ [Next]_vars => Control'
<1> SUFFICES ASSUME IInv, Control, [Next]_vars PROVE Control'
  OBVIOUS
<1>1. OpInv /\ EnvInv
  BY Parts
<1>2. CASE Begin
  BY <1>2 DEF Begin, Control, Pending
<1>3. CASE DestroyClient
  <2>1. k' = 1 /\ begun' = FALSE /\ pc' = "destroy"
    BY <1>3 DEF DestroyClient, Control
  <2>2. \A s \in Slot : ~(s < 1)
    BY Constants
  <2>3. QED
    BY <2>1, <2>2 DEF Control
<1>4. CASE Call
  BY <1>4 DEF Call, Loop, Control
<1>5. CASE Return
  <2>1. pc \notin {"receive", "walk", "stream"} /\ UNCHANGED <<pc, k, begun, slots>>
    BY <1>5 DEF Return, Control
  <2>2. QED
    BY <2>1 DEF Control
<1>6. CASE Pass
  BY <1>6 DEF Pass, Control
<1>7. CASE PassDone
  BY <1>7 DEF PassDone, Control
<1>8. CASE DestroySlot
  <2>1. pc = "destroy" /\ pc' = pc /\ begun' = begun /\ k' = k + 1
    BY <1>8 DEF DestroySlot
  <2>2. slots'[k] = None /\ \A s \in Slot : slots[s] = None => slots'[s] = None
    <3>1. k \in Slot
      BY <1>1, <1>8 DEF DestroySlot, EnvInv
    <3>2. CASE slots[k] = None /\ slots' = slots
      BY <3>2
    <3>3. ASSUME NEW o \in Op, slots[k] = o, Finish(o, op[o], "Cancelled")
          PROVE  slots'[k] = None
                 /\ \A s \in Slot : slots[s] = None => slots'[s] = None
      BY <3>1, <3>3 DEF Finish, Without
    <3>4. QED
      BY <1>8, <3>2, <3>3 DEF DestroySlot
  <2>3. k \in Nat /\ Slot \subseteq Nat
    BY <1>1, Constants DEF EnvInv
  <2>4. \A s \in Slot : s < k + 1 => s < k \/ s = k
    BY <2>3
  <2>5. QED
    BY <2>1, <2>2, <2>4 DEF Control
<1>9. CASE Destroyed
  <2>1. \A s \in Slot : s < k
    BY <1>1, <1>9, Constants DEF Destroyed, EnvInv
  <2>2. QED
    BY <1>9, <2>1 DEF Destroyed, Control
<1>10. CASE Dead \/ UNCHANGED vars
  BY <1>10 DEF Dead, vars, Control, Pending
<1>11. QED
  BY <1>2, <1>3, <1>4, <1>5, <1>6, <1>7, <1>8, <1>9, <1>10,
     ApplicationControl, ReceiveControl, WalkControl
     DEF Next, Application, Internal

-----------------------------------------------------------------------------
(***************************************************************************)
(* The forms of a step.                                                    *)
(***************************************************************************)
\* finish() with the cells the operation has.
LEMMA EndForm ==
  ASSUME OpInv, NEW o \in Op, NEW r \in OperationState,
         r.cells = op[o].cells, r.mode = op[o].mode,
         NEW s \in Terminal \ {"Partial"},
         s = "Success" => Walking(o), s = "Timeout" => TimedOut(o),
         Pending(o) \/ (pc = "stream" /\ StopAfterCancel),
         Finish(o, r, s), wire' = wire, nextID' \in {nextID, nextID + 1},
         Passage(o)
  PROVE  Others(o) /\ Ends(o)
<1>1. /\ Others(o)
      /\ op'[o].status = s /\ op'[o].completed = TRUE
      /\ op'[o].cells = Inherit(r.cells, s) /\ op'[o].mode = r.mode
      /\ hist'[o] = [hist[o] EXCEPT !.ends = @ + 1]
  BY FinishEffect
<1>2. QED
  BY <1>1 DEF Ends

\* What is known of an operation that a reply reaches.
LEMMA ReachedFacts ==
  ASSUME RunInv, NEW o \in Op, NEW m, Reaches(o, m)
  PROVE  /\ Pending(o) /\ op[o].sent /\ op[o].id # 0 /\ op[o].id = m.id
         /\ op[o].batch \in Nat \ {0} /\ op[o].offset \in Nat
         /\ op[o].batch <= op[o].batchLimit \/ Walking(o)
         /\ Walking(o) => op[o].batch = 1 /\ op[o].mode \in {"next", "bulk"}
         /\ ~Walking(o) => /\ op[o].offset + op[o].batch <= Len(op[o].cells)
                           /\ op[o].mode \in {"get", "set"}
<1>1. OpInv
  BY Parts DEF RunInv
<1>2. Pending(o) /\ op[o].sent /\ op[o] \in OperationState
  BY <1>1, ReachedIsWaiting DEF OpInv
<1>3. Framed(o, op[o])
  BY <1>1 DEF OpInv, Frame
<1>4. op[o].batch = BatchSize(o, op[o]) /\ op[o].batch # 0
  BY <1>2 DEF RunInv, Batches
<1>5. /\ op[o].batch \in Nat /\ op[o].offset \in Nat
      /\ op[o].batchLimit \in Nat /\ Len(op[o].cells) \in Nat /\ Fit[o] \in Nat
  <2>1. /\ op[o].batch \in Nat /\ op[o].offset \in Nat
        /\ op[o].batchLimit \in Nat /\ op[o].cells \in Seq(Cell)
    BY <1>2 DEF OperationState
  <2>2. Fit[o] \in Nat
    BY Constants
  <2>3. QED
    BY <2>1, <2>2
<1>6. op[o].batch <= op[o].batchLimit \/ Walking(o)
  <2>1. ~Walking(o) =>
          op[o].batch = Least(Fit[o], Least(op[o].batchLimit,
                                            Len(op[o].cells) - op[o].offset))
    BY <1>4 DEF BatchSize
  <2>2. \A a, b, c \in Int : Least(a, Least(b, c)) <= b
    BY DEF Least
  <2>3. Len(op[o].cells) - op[o].offset \in Int
    BY <1>5
  <2>4. QED
    BY <1>5, <2>1, <2>2, <2>3
<1>7. Walking(o) => op[o].batch = 1
  BY <1>4, <1>5 DEF BatchSize, Least
<1>8. op[o].id = m.id
  BY DEF Reaches, Matches
<1>9. IF Walking(o) THEN op[o].mode \in {"next", "bulk"}
      ELSE op[o].mode \in {"get", "set"}
  BY <1>2 DEF RunInv, Modes
<1>10. QED
  BY <1>2, <1>3, <1>4, <1>5, <1>6, <1>7, <1>8, <1>9 DEF Framed, Pending

\* A batch that has been committed in full leaves no cell pending, so that
\* finish() changes none of them.
LEMMA NothingToInherit ==
  ASSUME NEW c, c \in Seq(Cell), NEW s,
         \A i \in 1..Len(c) : c[i].status # "Pending"
  PROVE  Inherit(c, s) = c
BY DEF Inherit

LEMMA FilledFields ==
  ASSUME NEW c \in Cell, NEW s \in CellOutcomes, NEW src \in Origin
  PROVE  LET d == Filled(c, s, src)
         IN /\ d \in Cell /\ d.status = s
            /\ d.status \in Terminal \ {"Partial", "Timeout"}
            /\ d.src \in {NoSource, src} /\ d.name = c.name
<1>1. NoSource \in Origin
  BY Constants DEF NoSource
<1>2. s \in CellStatus /\ s \in Terminal \ {"Partial", "Timeout"}
  BY Constants
<1>3. QED
  BY <1>1, <1>2 DEF Filled, Cell

\* The cells before the batch have their statuses; so have, after a commit,
\* those of the batch.
LEMMA CommittedCells ==
  ASSUME RunInv, NEW o \in Op, Pending(o), ~Walking(o), NEW c \in Seq(Cell),
         Len(c) = Len(op[o].cells),
         \A i \in 1..Len(c) :
           IF op[o].offset < i THEN c[i].status \in Terminal
                               ELSE c[i] = op[o].cells[i]
  PROVE  \A i \in 1..Len(c) : c[i].status # "Pending"
<1>1. op[o] \in OperationState
  BY DEF RunInv, IInv, TypeOK
<1>2. op[o].offset \in Nat
  BY <1>1 DEF OperationState
<1>3. \A i \in 1..Len(op[o].cells) :
        (op[o].cells[i].status = "Pending") <=> (i > op[o].offset)
  BY DEF RunInv, BatchesInOrder
<1>4. QED
  BY <1>2, <1>3

LEMMA BindingsForm ==
  ASSUME RunInv, NEW o \in Op, NEW m \in Answers \cup Strays,
         pc = "receive", Reaches(o, m), ReplyBindings(o, m),
         pc' = "pass", UNCHANGED <<nextID, wire>>
  PROVE  Others(o) /\ (Ends(o) \/ Reopens(o))
<1>1. OpInv /\ EnvInv
  BY Parts DEF RunInv
<1>2. op[o] \in OperationState /\ ~Walking(o) /\ Source(m) \in Origin
  BY <1>1, MessageType DEF OpInv, ReplyBindings
<1>3. op[o].cells \in Seq(Cell)
  BY <1>2 DEF OperationState
<1> DEFINE old == op[o].cells
           first == op[o].offset
           last == first + op[o].batch
           n == Len(old)
<1>4. /\ Pending(o) /\ op[o].sent /\ op[o].batch \in Nat \ {0}
      /\ first \in Nat /\ last <= n /\ n \in Nat /\ first < last
      /\ last \in Nat
  BY <1>2, <1>3, ReachedFacts
<1>5. PICK outcome \in [1..op[o].batch -> CellOutcomes] :
        LET cells == [i \in 1..n |->
                        IF first < i /\ i <= last
                        THEN Filled(old[i], outcome[i - first], Source(m))
                        ELSE old[i]]
            r == Resend([op[o] EXCEPT !.cells = cells, !.offset = last])
        IN IF last = Len(cells) THEN Finish(o, r, Summary(cells))
                                ELSE Continue(o, r)
  BY DEF ReplyBindings
<1> DEFINE e(i) == IF first < i /\ i <= last
                   THEN Filled(old[i], outcome[i - first], Source(m))
                   ELSE old[i]
           c == [i \in 1..n |-> e(i)]
           q == [op[o] EXCEPT !.cells = c, !.offset = last]
<1>6. IF last = Len(c) THEN Finish(o, Resend(q), Summary(c))
                       ELSE Continue(o, Resend(q))
  BY <1>5
<1>7. ASSUME NEW i \in 1..n
      PROVE  /\ e(i) \in Cell
             /\ IF first < i /\ i <= last
                THEN /\ e(i).status \in Terminal \ {"Partial", "Timeout"}
                     /\ e(i).src \in {NoSource, Source(m), old[i].src}
                     /\ e(i).name = old[i].name
                ELSE e(i) = old[i]
  <2>1. old[i] \in Cell
    BY <1>3
  <2>2. CASE first < i /\ i <= last
    <3>1. outcome[i - first] \in CellOutcomes
      BY <2>2, <1>4
    <3>2. QED
      BY <3>1, <2>1, <2>2, <1>2, FilledFields
  <2>3. QED
    BY <2>1, <2>2
<1> HIDE DEF e
<1>8. c \in Seq(Cell) /\ Len(c) = n /\ \A i \in 1..n : c[i] = e(i)
  BY <1>4, <1>7
<1> HIDE DEF c
<1>9. \A i \in 1..n :
        IF first < i /\ i <= last
        THEN /\ c[i].status \in Terminal \ {"Partial", "Timeout"}
             /\ c[i].src \in {NoSource, Source(m), old[i].src}
             /\ c[i].name = old[i].name
        ELSE c[i] = old[i]
  BY <1>7, <1>8
<1> DEFINE l == last
<1>10. l \in Nat /\ q = [op[o] EXCEPT !.cells = c, !.offset = l]
  BY <1>4
<1> HIDE DEF l, q
<1>11. /\ q \in OperationState /\ q.cells = c /\ q.offset = l
       /\ q.status = op[o].status /\ q.completed = op[o].completed
       /\ q.mode = op[o].mode /\ q.cursor = op[o].cursor
       /\ q.batchLimit = op[o].batchLimit /\ q.id = op[o].id
       /\ q.startedAt = op[o].startedAt
  BY <1>2, <1>8, <1>10 DEF OperationState
<1> DEFINE x == Resend(q)
<1>12. /\ x \in OperationState /\ x.cells = c /\ x.offset = l
       /\ x.status = op[o].status /\ x.completed = op[o].completed
       /\ x.mode = op[o].mode /\ x.cursor = op[o].cursor
       /\ x.batchLimit = op[o].batchLimit /\ x.id = op[o].id
       /\ x.startedAt = op[o].startedAt /\ x.sent = FALSE /\ x.attempts = 0
  <2>1. x \in OperationState
    BY <1>11, ResendType
  <2>2. QED
    BY <2>1, <1>11 DEF Resend, OperationState
<1> HIDE DEF x
<1>13. Passage(o)
  BY DEF Passage, Delivering
<1>14. op'[o].cells = c => Commits(o, m, last)
  BY <1>2, <1>4, <1>8, <1>9 DEF Commits
<1>15. CASE last = n
  <2>1. Finish(o, x, Summary(c))
    BY <1>6, <1>8, <1>15 DEF x
  <2>2. \A i \in 1..Len(c) : c[i].status # "Pending"
    BY <1>2, <1>4, <1>8, <1>9, <1>15, CommittedCells
  <2>3. Inherit(c, Summary(c)) = c
    BY <1>8, <2>2, NothingToInherit
  <2>4. Summary(c) \in Terminal
    <3>1. CASE n = 1
      <4>1. c[1].status \in Terminal
        BY <3>1, <1>4, <1>9, <1>15
      <4>2. QED
        BY <4>1 DEF Summary
    <3>2. CASE n # 1
      BY <3>2, <1>8 DEF Summary
    <3>3. QED
      BY <3>1, <3>2
  <2>5. /\ Others(o)
        /\ op'[o].status = Summary(c) /\ op'[o].completed = TRUE
        /\ op'[o].cells = c /\ op'[o].mode = op[o].mode
        /\ hist'[o] = [hist[o] EXCEPT !.ends = @ + 1]
    <3> DEFINE t == Summary(c)
    <3>1. Finish(o, x, t) /\ t \in Terminal /\ Inherit(c, t) = c
      BY <2>1, <2>3, <2>4
    <3> HIDE DEF t
    <3>2. /\ Others(o)
          /\ op'[o].status = t /\ op'[o].completed = TRUE
          /\ op'[o].cells = Inherit(x.cells, t) /\ op'[o].mode = x.mode
          /\ hist'[o] = [hist[o] EXCEPT !.ends = @ + 1]
      BY <1>1, <1>12, <3>1, FinishEffect
    <3>3. QED
      BY <1>12, <3>1, <3>2 DEF t
  <2>6. QED
    BY <1>4, <1>13, <1>14, <1>15, <2>4, <2>5 DEF Ends
<1>16. CASE last # n
  <2>1. Continue(o, x)
    BY <1>6, <1>8, <1>16 DEF x
  <2>2. Others(o) /\ op'[o] = x /\ hist' = hist
    BY <1>1, <2>1, ContinueEffect
  <2>3. x.offset < n /\ x.offset = last
    BY <1>4, <1>12, <1>16 DEF l
  <2>4. Commits(o, m, x.offset)
    BY <1>12, <1>14, <2>2, <2>3
  <2>5. QED
    BY <1>4, <1>12, <1>13, <2>2, <2>3, <2>4 DEF Reopens, Pending
<1>17. QED
  BY <1>15, <1>16

\* A request that is to be sent again after a change of mode or batch limit,
\* or for the next rows of a walk.
LEMMA ReopenForm ==
  ASSUME RunInv, NEW o \in Op, Pending(o), op[o].sent,
         NEW r \in OperationState,
         \E b \in Nat, md \in Mode :
           /\ r = [op[o] EXCEPT !.batchLimit = b, !.mode = md]
           /\ \/ op[o].mode = "get" /\ md = "get" /\ b < op[o].batch
              \/ op[o].mode = "bulk" /\ md = "next" /\ Walking(o)
                 /\ b = op[o].batchLimit
              \/ pc = "walk" /\ rx.op = o /\ rx.any /\ md = op[o].mode
                 /\ b = op[o].batchLimit,
         Continue(o, Resend(r)), UNCHANGED <<nextID, wire>>, Passage(o)
  PROVE  Others(o) /\ Reopens(o)
<1>1. OpInv /\ op[o] \in OperationState
  BY Parts DEF RunInv, OpInv
<1>2. PICK b \in Nat, md \in Mode :
        /\ r = [op[o] EXCEPT !.batchLimit = b, !.mode = md]
        /\ \/ op[o].mode = "get" /\ md = "get" /\ b < op[o].batch
           \/ op[o].mode = "bulk" /\ md = "next" /\ Walking(o)
              /\ b = op[o].batchLimit
           \/ pc = "walk" /\ rx.op = o /\ rx.any /\ md = op[o].mode
              /\ b = op[o].batchLimit
  OBVIOUS
<1> DEFINE x == Resend(r)
<1>3. /\ r.status = op[o].status /\ r.completed = op[o].completed
      /\ r.mode = md /\ r.cursor = op[o].cursor /\ r.cells = op[o].cells
      /\ r.offset = op[o].offset /\ r.batchLimit = b
      /\ r.id = op[o].id /\ r.startedAt = op[o].startedAt
  BY <1>1, <1>2 DEF OperationState
<1>4. /\ x.status = op[o].status /\ x.completed = op[o].completed
      /\ x.mode = md /\ x.cursor = op[o].cursor /\ x.cells = op[o].cells
      /\ x.offset = op[o].offset /\ x.batchLimit = b
      /\ x.id = op[o].id /\ x.startedAt = op[o].startedAt
      /\ x.sent = FALSE /\ x.attempts = 0
  BY <1>3 DEF Resend, OperationState
<1>5. Others(o) /\ op'[o] = x /\ hist' = hist
  BY <1>1, ContinueEffect
<1> HIDE DEF x
<1>6. QED
  BY <1>2, <1>4, <1>5 DEF Reopens, Pending

LEMMA NarrowForm ==
  ASSUME RunInv, NEW o \in Op, Pending(o), op[o].sent, op[o].mode = "get",
         NEW b \in Nat, b < op[o].batch,
         Continue(o, Resend([op[o] EXCEPT !.batchLimit = b])),
         UNCHANGED <<nextID, wire>>, Passage(o)
  PROVE  Others(o) /\ Reopens(o)
<1>1. op[o] \in OperationState
  BY DEF RunInv, IInv, TypeOK
<1> DEFINE r == [op[o] EXCEPT !.batchLimit = b]
<1>2. r = [op[o] EXCEPT !.batchLimit = b, !.mode = "get"]
  BY <1>1 DEF OperationState
<1>3. r \in OperationState
  BY <1>1 DEF OperationState
<1>4. Continue(o, Resend(r))
  OBVIOUS
<1> HIDE DEF r
<1>5. QED
  BY <1>2, <1>3, <1>4, ReopenForm

LEMMA FallBackForm ==
  ASSUME RunInv, NEW o \in Op, Pending(o), op[o].sent, op[o].mode = "bulk",
         Walking(o), Continue(o, Resend([op[o] EXCEPT !.mode = "next"])),
         UNCHANGED <<nextID, wire>>, Passage(o)
  PROVE  Others(o) /\ Reopens(o)
<1>1. op[o] \in OperationState
  BY DEF RunInv, IInv, TypeOK
<1> DEFINE r == [op[o] EXCEPT !.mode = "next"]
           b == op[o].batchLimit
<1>2. r = [op[o] EXCEPT !.batchLimit = b, !.mode = "next"] /\ b \in Nat
  BY <1>1 DEF OperationState
<1>3. r \in OperationState
  BY <1>1 DEF OperationState
<1>4. Continue(o, Resend(r))
  OBVIOUS
<1> HIDE DEF r
<1>5. QED
  BY <1>2, <1>3, <1>4, ReopenForm

LEMMA NextRowsForm ==
  ASSUME RunInv, NEW o \in Op, Pending(o), op[o].sent,
         pc = "walk", rx.op = o, rx.any, Continue(o, Resend(op[o])),
         UNCHANGED <<nextID, wire>>, Passage(o)
  PROVE  Others(o) /\ Reopens(o)
<1>1. op[o] \in OperationState
  BY DEF RunInv, IInv, TypeOK
<1> DEFINE b == op[o].batchLimit
           md == op[o].mode
<1>2. op[o] = [op[o] EXCEPT !.batchLimit = b, !.mode = md] /\ b \in Nat
      /\ md \in Mode
  BY <1>1 DEF OperationState
<1> HIDE DEF b, md
<1>3. QED
  BY <1>1, <1>2, ReopenForm DEF b, md

LEMMA NoSuchNameForm ==
  ASSUME RunInv, NEW o \in Op, NEW m \in Answers \cup Strays,
         pc = "receive", Reaches(o, m), ReplyNoSuchName(o),
         pc' = "pass", UNCHANGED <<nextID, wire>>
  PROVE  Others(o) /\ (Ends(o) \/ Reopens(o))
<1>1. OpInv /\ op[o] \in OperationState /\ op[o].mode = "get" /\ ~Walking(o)
  BY Parts DEF RunInv, OpInv, ReplyNoSuchName
<1>2. op[o].cells \in Seq(Cell)
  BY <1>1 DEF OperationState
<1> DEFINE old == op[o].cells
           n == Len(old)
           first == op[o].offset
<1>3. /\ Pending(o) /\ op[o].sent /\ op[o].batch \in Nat \ {0}
      /\ first \in Nat /\ n \in Nat /\ first + op[o].batch <= n
  BY <1>1, <1>2, ReachedFacts
<1>4. Passage(o)
  BY DEF Passage, Delivering
<1>5. CASE op[o].batch > 1
  <2>1. Continue(o, Resend([op[o] EXCEPT !.batchLimit = 1]))
    BY <1>5 DEF ReplyNoSuchName
  <2>2. QED
    BY <2>1, <1>1, <1>3, <1>4, <1>5, NarrowForm
<1>6. CASE ~(op[o].batch > 1)
  <2> DEFINE j == first + 1
             c == [old EXCEPT ![j] = [@ EXCEPT !.status = "Missing"]]
             r == [op[o] EXCEPT !.cells = c, !.offset = j]
  <2>1. op[o].batch = 1
    BY <1>3, <1>6
  <2>2. j \in 1..n /\ j \in Nat /\ old[j] \in Cell
    BY <1>2, <1>3, <2>1
  <2>3. IF j = Len(r.cells)
        THEN Finish(o, r, IF Len(r.cells) = 1 THEN "Missing" ELSE "Partial")
        ELSE Continue(o, Resend(r))
    BY <1>6 DEF ReplyNoSuchName
  <2> DEFINE x == [old[j] EXCEPT !.status = "Missing"]
  <2>4. x \in Cell /\ x.status = "Missing" /\ x.src = old[j].src
        /\ x.name = old[j].name
    BY <2>2 DEF Cell
  <2> HIDE DEF x
  <2>5. c = [old EXCEPT ![j] = x]
    BY DEF x
  <2>6. c \in Seq(Cell) /\ Len(c) = n
        /\ \A i \in 1..n : c[i] = IF i = j THEN x ELSE old[i]
    BY <1>2, <2>2, <2>4, <2>5
  <2> HIDE DEF c
  <2>7. \A i \in 1..n : first < i /\ i <= j => i = j
    BY <1>3
  <2>8. \A i \in 1..n :
          IF first < i /\ i <= j
          THEN /\ c[i].status \in Terminal \ {"Partial", "Timeout"}
               /\ c[i].src \in {NoSource, Source(m), old[i].src}
               /\ c[i].name = old[i].name
          ELSE c[i] = old[i]
    BY <1>3, <2>4, <2>6, <2>7
  <2>9. op'[o].cells = c => Commits(o, m, j)
    BY <1>1, <1>3, <2>1, <2>6, <2>8 DEF Commits
  <2> DEFINE l == j
  <2>10. r = [op[o] EXCEPT !.cells = c, !.offset = l] /\ l \in Nat
    BY <2>2
  <2> HIDE DEF l, r
  <2>11. /\ r \in OperationState /\ r.cells = c /\ r.offset = l
         /\ r.status = op[o].status /\ r.completed = op[o].completed
         /\ r.mode = op[o].mode /\ r.cursor = op[o].cursor
         /\ r.batchLimit = op[o].batchLimit /\ r.id = op[o].id
         /\ r.startedAt = op[o].startedAt
    BY <1>1, <2>6, <2>10 DEF OperationState
  <2>12. CASE j = n
    <3> DEFINE s == IF n = 1 THEN "Missing" ELSE "Partial"
    <3>1. Finish(o, r, s)
      BY <2>3, <2>6, <2>11, <2>12
    <3>2. \A i \in 1..Len(c) : c[i].status # "Pending"
      BY <1>1, <1>3, <2>6, <2>8, <2>12, CommittedCells
    <3>3. Inherit(c, s) = c
      BY <2>6, <3>2, NothingToInherit
    <3>4. Summary(c) = s
      <4>1. c[n].status = "Missing" /\ n \in 1..n
        BY <2>2, <2>4, <2>6, <2>12
      <4>2. QED
        BY <4>1, <2>6 DEF Summary
    <3>5. s \in Terminal
      OBVIOUS
    <3>6. /\ Others(o)
          /\ op'[o].status = s /\ op'[o].completed = TRUE
          /\ op'[o].cells = c /\ op'[o].mode = op[o].mode
          /\ hist'[o] = [hist[o] EXCEPT !.ends = @ + 1]
      BY <1>1, <2>11, <3>1, <3>3, <3>5, FinishEffect
    <3>7. QED
      BY <1>3, <1>4, <2>9, <2>12, <3>4, <3>5, <3>6 DEF Ends
  <2>13. CASE j # n
    <3> DEFINE y == Resend(r)
    <3>1. Continue(o, y)
      BY <2>3, <2>6, <2>11, <2>13
    <3>2. /\ y.cells = c /\ y.offset = l
          /\ y.status = op[o].status /\ y.completed = op[o].completed
          /\ y.mode = op[o].mode /\ y.cursor = op[o].cursor
          /\ y.batchLimit = op[o].batchLimit /\ y.id = op[o].id
          /\ y.startedAt = op[o].startedAt /\ y.sent = FALSE
          /\ y.attempts = 0
      BY <2>11 DEF Resend, OperationState
    <3> HIDE DEF y
    <3>3. Others(o) /\ op'[o] = y /\ hist' = hist
      BY <1>1, <3>1, ContinueEffect
    <3>4. Commits(o, m, y.offset) /\ y.offset < n
      BY <2>2, <2>9, <2>13, <3>2, <3>3 DEF l
    <3>5. QED
      BY <1>3, <1>4, <3>2, <3>3, <3>4 DEF Reopens, Pending
  <2>14. QED
    BY <2>12, <2>13
<1>7. QED
  BY <1>5, <1>6

\* The effect of a rejected or final reply.
LEMMA ReplyEndsForm ==
  ASSUME RunInv, NEW o \in Op, Pending(o),
         NEW s \in Terminal \ {"Partial"},
         s = "Success" => Walking(o), s = "Timeout" => TimedOut(o),
         Finish(o, op[o], s), UNCHANGED <<nextID, wire>>, Passage(o)
  PROVE  Others(o) /\ Ends(o)
<1>1. OpInv /\ op[o] \in OperationState
  BY Parts DEF RunInv, OpInv
<1>2. QED
  BY <1>1, EndForm

LEMMA ReceiveForm ==
  ASSUME RunInv, Receive
  PROVE  Step
<1>1. pc = "receive" /\ UNCHANGED <<nextID, wire>> /\ ~Delivering
  BY DEF Receive, Delivering
<1>2. CASE (ReceiveNothing \/ ReceiveNotification) /\ ToPass /\ UNCHANGED rx
  BY <1>1, <1>2
     DEF ReceiveNothing, ReceiveNotification, ToPass, Step, Rests
<1>3. ASSUME NEW m \in Answers \cup Strays, NEW o \in Op, ReceiveReply(o, m)
      PROVE  Step
  <2>1. Reaches(o, m)
    BY <1>3 DEF ReceiveReply
  <2>2. /\ Pending(o) /\ op[o].sent /\ op[o].batch \in Nat \ {0}
        /\ Walking(o) => op[o].batch = 1
        /\ ~Walking(o) => op[o].mode \in {"get", "set"}
        /\ op[o].batch \div 2 \in Nat
        /\ op[o].batch > 1 => 1 < op[o].batch /\ op[o].batch \div 2 < op[o].batch
    <3>1. op[o].batch \in Nat \ {0}
      BY <2>1, ReachedFacts
    <3>2. op[o].batch \div 2 \in Nat
          /\ (op[o].batch > 1 => op[o].batch \div 2 < op[o].batch)
      BY <3>1
    <3>3. QED
      BY <2>1, <3>1, <3>2, ReachedFacts
  <2>3. CASE ReplyWalk(o, m) /\ UNCHANGED <<op, slots, active, hist, k>>
    BY <1>1, <2>1, <2>3 DEF ReplyWalk, Step, Rests
  <2>4. ASSUME \/ ReplyInvalidError(o) \/ ReplyNoSuchName(o) \/ ReplyTooBig(o)
               \/ ReplyEndOfWalk(o) \/ ReplyBulkTooBig(o)
               \/ \E e \in {"tooBig", "noSuchName", "other"} : ReplyError(o, e)
               \/ ReplyWrongBindings(o) \/ ReplyBindings(o, m),
               ToPass
        PROVE  Others(o) /\ (Ends(o) \/ Reopens(o))
    <3>1. pc' = "pass" /\ Passage(o)
      BY <1>1, <2>4 DEF ToPass, Passage
    <3>2. ASSUME NEW s \in Terminal \ {"Partial", "Timeout"},
                 s = "Success" => Walking(o), Finish(o, op[o], s)
          PROVE  Others(o) /\ Ends(o)
      BY <1>1, <2>2, <3>1, <3>2, ReplyEndsForm
    <3>3. CASE ReplyInvalidError(o)
      BY <3>2, <3>3 DEF ReplyInvalidError
    <3>4. CASE ReplyNoSuchName(o)
      BY <1>1, <2>1, <3>1, <3>4, NoSuchNameForm
    <3>5. CASE ReplyTooBig(o)
      <4>1. op[o].mode = "get" /\ op[o].batch > 1
            /\ Continue(o, Resend([op[o] EXCEPT
                                     !.batchLimit = op[o].batch \div 2]))
        BY <2>2, <3>5 DEF ReplyTooBig
      <4>2. QED
        BY <1>1, <2>2, <3>1, <4>1, NarrowForm
    <3>6. CASE ReplyEndOfWalk(o)
      BY <3>2, <3>6 DEF ReplyEndOfWalk
    <3>7. CASE ReplyBulkTooBig(o)
      BY <1>1, <2>2, <3>1, <3>7, FallBackForm DEF ReplyBulkTooBig
    <3>8. ASSUME NEW e \in {"tooBig", "noSuchName", "other"}, ReplyError(o, e)
          PROVE  Others(o) /\ Ends(o)
      BY <3>2, <3>8 DEF ReplyError
    <3>9. CASE ReplyWrongBindings(o)
      BY <3>2, <3>9 DEF ReplyWrongBindings
    <3>10. CASE ReplyBindings(o, m)
      BY <1>1, <2>1, <3>1, <3>10, BindingsForm
    <3>11. QED
      BY <2>4, <3>3, <3>4, <3>5, <3>6, <3>7, <3>8, <3>9, <3>10
  <2>5. QED
    BY <1>3, <2>3, <2>4 DEF ReceiveReply, Step
<1>4. QED
  BY <1>2, <1>3 DEF Receive

LEMMA CollectForm ==
  ASSUME RunInv, WalkBinding, NEW name \in 0..(Rows + 1), WalkCollect(name)
  PROVE  Step
<1> DEFINE o == rx.op
           r == op[o]
<1>1. /\ OpInv /\ EnvInv /\ o \in Op /\ r \in OperationState
      /\ pc = "walk" /\ UNCHANGED <<nextID, wire>>
  <2>1. OpInv /\ EnvInv
    BY Parts DEF RunInv
  <2>2. QED
    BY <2>1 DEF WalkBinding, OpInv, EnvInv
<1>2. Pending(o) /\ r.id = rx.gen
  BY <1>1 DEF RunInv, Control
<1>3. CASE Finish(o, r, "CapacityExceeded") /\ DeliveryEnds
  <2>1. Passage(o)
    BY <1>3 DEF Passage, DeliveryEnds, ToPass
  <2>2. QED
    BY <1>1, <1>2, <1>3, <2>1, ReplyEndsForm DEF Step
<1>4. ASSUME NEW s \in CellOutcomes,
             Continue(o, [r EXCEPT
               !.cells = Append(@, Filled(FreshCell(name), s, rx.src)),
               !.cursor = name]),
             rx' = [rx EXCEPT !.any = TRUE], UNCHANGED <<pc, k>>
      PROVE  Step
  <2> DEFINE c == Append(r.cells, Filled(FreshCell(name), s, rx.src))
             x == [r EXCEPT !.cells = c, !.cursor = name]
  <2>1. Continue(o, x)
    BY <1>4
  <2> HIDE DEF c
  <2>2. /\ x.status = r.status /\ x.completed = r.completed /\ x.sent = r.sent
        /\ x.mode = r.mode /\ x.id = r.id /\ x.offset = r.offset
        /\ x.batch = r.batch /\ x.batchLimit = r.batchLimit
        /\ x.attempts = r.attempts /\ x.sentAt = r.sentAt
        /\ x.startedAt = r.startedAt /\ x.cursor = name /\ x.cells = c
    BY <1>1 DEF OperationState
  <2> HIDE DEF x
  <2>3. Others(o) /\ op'[o] = x /\ hist' = hist
    BY <1>1, <2>1, ContinueEffect
  <2>4. Kind[o] = "walk" /\ r.cursor < name /\ name <= Rows
    BY DEF WalkCollect, Follows
  <2>5. x.cells = Append(r.cells, Filled(FreshCell(x.cursor), s, rx.src))
    BY <2>2 DEF c
  <2>6. Advances(o)
    BY <1>1, <1>2, <1>4, <2>2, <2>3, <2>4, <2>5
       DEF Advances, Pending, Delivering
  <2>7. QED
    BY <1>1, <2>3, <2>6 DEF Step
<1>5. QED
  BY <1>3, <1>4 DEF WalkCollect

LEMMA WalkForm ==
  ASSUME RunInv, WalkBinding
  PROVE  Step
<1> DEFINE o == rx.op
<1>1. /\ OpInv /\ EnvInv /\ o \in Op /\ op[o] \in OperationState
      /\ pc = "walk" /\ UNCHANGED <<nextID, wire>>
  <2>1. OpInv /\ EnvInv
    BY Parts DEF RunInv
  <2>2. QED
    BY <2>1 DEF WalkBinding, OpInv, EnvInv
<1>2. Pending(o) /\ op[o].sent /\ Walking(o)
  BY <1>1 DEF RunInv, Control
<1>3. ASSUME NEW s \in Terminal \ {"Partial", "Timeout"},
             Finish(o, op[o], s), DeliveryEnds
      PROVE  Step
  <2>1. Passage(o)
    BY <1>3 DEF Passage, DeliveryEnds, ToPass
  <2>2. QED
    BY <1>1, <1>2, <1>3, <2>1, ReplyEndsForm DEF Step
<1>4. CASE WalkEndOfMib
  BY <1>3, <1>4 DEF WalkEndOfMib
<1>5. ASSUME NEW name \in 0..(Rows + 1),
             \/ WalkNotIncreasing(name) \/ WalkLeavesSubtree(name)
             \/ WalkCollect(name) \/ WalkStream(name)
      PROVE  Step
  <2>1. CASE WalkNotIncreasing(name)
    BY <1>3, <2>1 DEF WalkNotIncreasing
  <2>2. CASE WalkLeavesSubtree(name)
    BY <1>3, <2>2 DEF WalkLeavesSubtree
  <2>3. CASE WalkCollect(name)
    BY <2>3, CollectForm
  <2>4. CASE WalkStream(name)
    <3>1. name \in 0..Rows /\ op[o].cursor < name
      BY <2>4, Constants DEF WalkStream, Follows
    <3>2. /\ UNCHANGED <<op, hist, nextID, wire>>
          /\ pc = "walk" /\ pc' = "stream"
          /\ rx' = [rx EXCEPT !.any = TRUE, !.name = name]
      BY <1>1, <2>4 DEF WalkStream
    <3>3. QED
      BY <3>1, <3>2 DEF Step, Rests
  <2>5. QED
    BY <1>5, <2>1, <2>2, <2>3, <2>4
<1>6. CASE WalkEndOfList
  <2>1. DeliveryEnds /\ Passage(o)
    BY <1>6 DEF WalkEndOfList, Passage, DeliveryEnds, ToPass
  <2>2. CASE rx.any
    <3>1. Continue(o, Resend(op[o]))
      BY <1>6, <2>2 DEF WalkEndOfList
    <3>2. QED
      BY <1>1, <1>2, <2>1, <2>2, <3>1, NextRowsForm DEF Step
  <2>3. CASE ~rx.any /\ op[o].mode = "bulk"
    <3>1. Continue(o, Resend([op[o] EXCEPT !.mode = "next"]))
      BY <1>6, <2>3 DEF WalkEndOfList
    <3>2. QED
      BY <1>1, <1>2, <2>1, <2>3, <3>1, FallBackForm DEF Step
  <2>4. CASE ~rx.any /\ op[o].mode # "bulk"
    BY <1>3, <1>6, <2>1, <2>4 DEF WalkEndOfList
  <2>5. QED
    BY <2>2, <2>3, <2>4
<1>7. QED
  BY <1>4, <1>5, <1>6 DEF WalkBinding

LEMMA StreamContinueForm ==
  ASSUME RunInv, StreamContinue
  PROVE  Step
<1> DEFINE o == rx.op
           r == op[o]
<1>1. /\ OpInv /\ o \in Op /\ r \in OperationState
      /\ pc = "stream" /\ UNCHANGED <<nextID, wire, hist>>
  <2>1. OpInv /\ EnvInv
    BY Parts DEF RunInv
  <2>2. QED
    BY <2>1 DEF StreamContinue, OpInv, EnvInv
<1>2. CASE SameRun
  <2>1. /\ op' = [op EXCEPT ![o].cursor = rx.name]
        /\ pc' = "walk" /\ rx' = rx
    BY <1>2 DEF StreamContinue
  <2> DEFINE x == [r EXCEPT !.cursor = rx.name]
  <2>2. op'[o] = x /\ Others(o)
    BY <1>1, <2>1 DEF OpInv, Others
  <2>3. /\ x.status = r.status /\ x.completed = r.completed /\ x.sent = r.sent
        /\ x.mode = r.mode /\ x.id = r.id /\ x.offset = r.offset
        /\ x.batch = r.batch /\ x.batchLimit = r.batchLimit
        /\ x.attempts = r.attempts /\ x.sentAt = r.sentAt
        /\ x.startedAt = r.startedAt /\ x.cursor = rx.name
        /\ x.cells = r.cells
    BY <1>1 DEF OperationState
  <2> HIDE DEF x
  <2>4. Pending(o) /\ r.id = rx.gen
    BY <1>2 DEF SameRun
  <2>5. Advances(o)
    BY <1>1, <2>1, <2>2, <2>3, <2>4 DEF Advances, Pending, Delivering
  <2>6. QED
    BY <1>1, <2>2, <2>5 DEF Step
<1>3. CASE ~SameRun
  BY <1>1, <1>3 DEF StreamContinue, DeliveryEnds, ToPass, Step, Rests
<1>4. QED
  BY <1>2, <1>3

LEMMA StreamStopForm ==
  ASSUME RunInv, StreamStop
  PROVE  Step
<1> DEFINE o == rx.op
<1>1. /\ OpInv /\ o \in Op /\ op[o] \in OperationState
      /\ pc = "stream" /\ UNCHANGED <<nextID, wire>>
  <2>1. OpInv /\ EnvInv
    BY Parts DEF RunInv
  <2>2. QED
    BY <2>1 DEF StreamStop, OpInv, EnvInv
<1>2. Finish(o, op[o], "CapacityExceeded") /\ (Pending(o) \/ StopAfterCancel)
  BY DEF StreamStop, SameRun
<1>3. Passage(o)
  BY DEF StreamStop, DeliveryEnds, ToPass, Passage
<1>4. Others(o) /\ Ends(o)
  BY <1>1, <1>2, <1>3, EndForm
<1>5. QED
  BY <1>1, <1>4 DEF Step

\* send(), of a request for the first time or again.
LEMMA SendForm ==
  ASSUME RunInv, pc = "pass", NEW o \in Op, Pending(o),
         NEW r0 \in OperationState, NEW t, NEW a,
         r0 = [op[o] EXCEPT !.startedAt = t, !.attempts = a],
         IF op[o].sent
         THEN /\ Expired(o) /\ op[o].mode # "set"
              /\ a = op[o].attempts + 1 /\ op[o].attempts < Retries
              /\ t = op[o].startedAt
         ELSE /\ a = op[o].attempts
              /\ t = IF op[o].id = 0 THEN now ELSE op[o].startedAt,
         Send(o, r0), UNCHANGED <<pc, rx>>
  PROVE  Others(o) /\ (Ends(o) \/ Transmits(o))
<1>1. OpInv /\ EnvInv /\ op[o] \in OperationState
  BY Parts DEF RunInv, OpInv
<1>2. /\ r0.status = "Pending" /\ r0.completed = op[o].completed
      /\ r0.mode = op[o].mode /\ r0.cursor = op[o].cursor
      /\ r0.cells = op[o].cells /\ r0.offset = op[o].offset
      /\ r0.batchLimit = op[o].batchLimit /\ r0.id = op[o].id
      /\ r0.sent = op[o].sent /\ r0.startedAt = t /\ r0.attempts = a
  BY <1>1 DEF OperationState, Pending
<1>3. BatchSize(o, r0) = BatchSize(o, op[o])
  BY <1>2 DEF BatchSize
<1> DEFINE b == BatchSize(o, op[o])
           r == [r0 EXCEPT !.batch = b]
           q == Numbered(r)
<1>4. b \in Nat
  <2>1. Framed(o, op[o])
    BY <1>1 DEF OpInv, Frame
  <2>2. ~Walking(o) => op[o].offset < Len(op[o].cells)
    BY <2>1 DEF Framed, Pending
  <2>3. QED
    BY <1>1, <2>2, BatchSizeType
<1>5. Passage(o)
  BY DEF Passage
<1>6. /\ \/ /\ Unsendable(o, r)
            /\ Finish(o, r, "CapacityExceeded")
            /\ UNCHANGED <<nextID, wire>>
         \/ /\ ~Unsendable(o, r)
            /\ nextID' = IF ~r0.sent THEN q.id ELSE nextID
            /\ \/ Finish(o, q, "TransportError") /\ UNCHANGED wire
               \/ /\ op' = [op EXCEPT ![o] = [q EXCEPT !.sent = TRUE,
                                                       !.sentAt = now]]
                  /\ wire' = wire \cup {Request(o, q)}
                  /\ hist' = [hist EXCEPT ![o] = Counted(hist[o], ~r0.sent)]
  BY <1>3 DEF Send
<1> HIDE DEF b
<1>7. /\ r \in OperationState /\ r.status = "Pending"
      /\ r.completed = op[o].completed
      /\ r.mode = op[o].mode /\ r.cursor = op[o].cursor
      /\ r.cells = op[o].cells /\ r.offset = op[o].offset
      /\ r.batchLimit = op[o].batchLimit /\ r.id = op[o].id
      /\ r.sent = op[o].sent /\ r.startedAt = t /\ r.attempts = a
      /\ r.batch = b
  BY <1>2, <1>4 DEF OperationState
<1> HIDE DEF r
<1>8. CASE /\ Unsendable(o, r)
           /\ Finish(o, r, "CapacityExceeded")
           /\ UNCHANGED <<nextID, wire>>
  BY <1>1, <1>5, <1>7, <1>8, EndForm
<1>9. CASE /\ ~Unsendable(o, r)
           /\ nextID' = IF ~r0.sent THEN q.id ELSE nextID
  <2>1. nextID \in 0..MaxID /\ MaxID \in Nat
    BY <1>1, Constants DEF EnvInv
  <2> DEFINE i == IF r.sent THEN r.id ELSE nextID + 1
  <2>2. i \in 0..MaxID
    <3>1. CASE r.sent
      BY <1>7, <3>1 DEF OperationState
    <3>2. CASE ~r.sent
      BY <1>9, <2>1, <3>2 DEF Unsendable
    <3>3. QED
      BY <3>1, <3>2
  <2>3. q = [r EXCEPT !.id = i]
    BY <1>7 DEF Numbered, OperationState
  <2>4. nextID' = IF op[o].sent THEN nextID ELSE nextID + 1
    <3>1. ~r.sent => q.id = nextID + 1
      BY <1>7 DEF Numbered, OperationState
    <3>2. QED
      BY <1>2, <1>7, <1>9, <3>1
  <2> HIDE DEF i, q
  <2>5. /\ q \in OperationState /\ q.status = "Pending"
        /\ q.completed = op[o].completed
        /\ q.mode = op[o].mode /\ q.cursor = op[o].cursor
        /\ q.cells = op[o].cells /\ q.offset = op[o].offset
        /\ q.batchLimit = op[o].batchLimit /\ q.id = i
        /\ q.startedAt = t /\ q.attempts = a /\ q.batch = b
    BY <1>7, <2>2, <2>3 DEF OperationState
  <2>6. CASE Finish(o, q, "TransportError") /\ UNCHANGED wire
    BY <1>1, <1>5, <2>1, <2>4, <2>5, <2>6, EndForm
  <2>7. CASE /\ op' = [op EXCEPT ![o] = [q EXCEPT !.sent = TRUE,
                                                  !.sentAt = now]]
             /\ wire' = wire \cup {Request(o, q)}
             /\ hist' = [hist EXCEPT ![o] = Counted(hist[o], ~r0.sent)]
    <3> DEFINE x == [q EXCEPT !.sent = TRUE, !.sentAt = now]
    <3>1. /\ x.status = "Pending" /\ x.completed = op[o].completed
          /\ x.mode = op[o].mode /\ x.cursor = op[o].cursor
          /\ x.cells = op[o].cells /\ x.offset = op[o].offset
          /\ x.batchLimit = op[o].batchLimit /\ x.id = i
          /\ x.startedAt = t /\ x.attempts = a /\ x.batch = b
          /\ x.sent = TRUE /\ x.sentAt = now
      BY <2>5 DEF OperationState
    <3>2. op' = [op EXCEPT ![o] = x]
      BY <2>7
    <3> HIDE DEF x
    <3>3. op'[o] = x /\ Others(o) /\ hist'[o] = Counted(hist[o], ~op[o].sent)
      BY <1>1, <1>2, <2>7, <3>2 DEF OpInv, Others
    <3>4. Request(o, q) = Request(o, x)
      BY <2>5, <3>1 DEF Request
    <3>5. b # 0 /\ (op[o].mode = "set" => b = Len(op[o].cells))
      BY <1>7, <1>9 DEF Unsendable
    <3>6. i = IF op[o].sent THEN op[o].id ELSE nextID + 1
      BY <1>7 DEF i
    <3>7. Transmits(o)
      BY <2>4, <2>7, <3>1, <3>3, <3>4, <3>5, <3>6 DEF Transmits, b
    <3>8. QED
      BY <3>3, <3>7
  <2>8. QED
    BY <1>6, <1>9, <2>6, <2>7
<1>10. QED
  BY <1>6, <1>8, <1>9

LEMMA PassForm ==
  ASSUME RunInv, Pass
  PROVE  Step
<1>1. /\ OpInv /\ EnvInv /\ pc = "pass" /\ UNCHANGED <<pc, rx>>
      /\ Delivering = FALSE
  BY Parts DEF RunInv, Pass, Delivering
<1>2. CASE PassEmpty
  BY <1>1, <1>2 DEF PassEmpty, Step, Rests
<1>3. ASSUME NEW o \in Op, slots[k] = o, PassSlot(o)
      PROVE  Step
  <2>1. Pending(o) /\ op[o] \in OperationState /\ Passage(o)
    <3>1. k \in Slot
      BY <1>1, Constants DEF Pass, EnvInv
    <3>2. Pending(o)
      BY <1>1, <1>3, <3>1, Constants DEF OpInv, SlotAgreement
    <3>3. QED
      BY <1>1, <3>2 DEF OpInv, Passage
  <2>2. CASE PassDeadline(o)
    <3>1. /\ Finish(o, op[o], "Timeout") /\ UNCHANGED <<nextID, wire>>
          /\ TimedOut(o)
      BY <2>2 DEF PassDeadline, TimedOut
    <3>2. QED
      BY <2>1, <3>1, ReplyEndsForm DEF Step
  <2>3. CASE PassSend(o)
    <3> DEFINE t == IF op[o].id = 0 THEN now ELSE op[o].startedAt
               a == op[o].attempts
               r == [op[o] EXCEPT !.startedAt = t, !.attempts = a]
    <3>1. t \in Tick /\ a \in 0..Retries
      BY <1>1, <2>1 DEF EnvInv, OperationState
    <3>2. r = IF op[o].id = 0 THEN [op[o] EXCEPT !.startedAt = now] ELSE op[o]
      BY <2>1 DEF OperationState
    <3>3. Send(o, r) /\ ~op[o].sent
      BY <2>3, <3>2 DEF PassSend
    <3> HIDE DEF t, a
    <3>4. r \in OperationState
      BY <2>1, <3>1 DEF OperationState
    <3> HIDE DEF r
    <3>5. Others(o) /\ (Ends(o) \/ Transmits(o))
      BY <1>1, <2>1, <3>3, <3>4, SendForm DEF r, t, a
    <3>6. QED
      BY <3>5 DEF Step
  <2>4. CASE PassRetry(o)
    <3> DEFINE t == op[o].startedAt
               a == op[o].attempts + 1
               r == [op[o] EXCEPT !.startedAt = t, !.attempts = a]
    <3>1. /\ Expired(o) /\ op[o].mode # "set" /\ op[o].attempts < Retries
          /\ op[o].sent /\ Send(o, [op[o] EXCEPT !.attempts = @ + 1])
      BY <2>4 DEF PassRetry, MayRetry, Expired
    <3>2. t \in Tick /\ a \in 0..Retries
      <4>1. op[o].attempts \in 0..Retries /\ t \in Tick
        BY <2>1 DEF OperationState
      <4>2. QED
        BY <3>1, <4>1, Constants
    <3>3. r = [op[o] EXCEPT !.attempts = @ + 1]
      BY <2>1 DEF OperationState
    <3> HIDE DEF t, a
    <3>4. r \in OperationState
      BY <2>1, <3>2 DEF OperationState
    <3> HIDE DEF r
    <3>5. Others(o) /\ (Ends(o) \/ Transmits(o))
      BY <1>1, <2>1, <3>1, <3>3, <3>4, SendForm DEF r, t, a
    <3>6. QED
      BY <3>5 DEF Step
  <2>5. CASE PassFallBack(o)
    <3>1. /\ op[o].sent /\ op[o].mode = "bulk" /\ Walking(o)
          /\ Continue(o, Resend([op[o] EXCEPT !.mode = "next"]))
          /\ UNCHANGED <<nextID, wire>>
      BY <2>5 DEF PassFallBack, Expired
    <3>2. QED
      BY <2>1, <3>1, FallBackForm DEF Step
  <2>6. CASE PassHalve(o)
    <3> DEFINE b == op[o].batch \div 2
    <3>1. /\ op[o].sent /\ op[o].mode = "get" /\ op[o].batch > 1
          /\ Continue(o, Resend([op[o] EXCEPT !.batchLimit = b]))
          /\ UNCHANGED <<nextID, wire>>
      BY <2>6 DEF PassHalve, Expired
    <3>2. b \in Nat /\ b < op[o].batch
      <4>1. op[o].batch \in Nat
        BY <2>1 DEF OperationState
      <4>2. QED
        BY <3>1, <4>1
    <3> HIDE DEF b
    <3>3. QED
      BY <2>1, <3>1, <3>2, NarrowForm DEF Step
  <2>7. CASE PassGiveUp(o)
    <3>1. /\ Finish(o, op[o], "Timeout") /\ UNCHANGED <<nextID, wire>>
          /\ TimedOut(o)
      BY <2>7 DEF PassGiveUp, TimedOut
    <3>2. QED
      BY <2>1, <3>1, ReplyEndsForm DEF Step
  <2>8. CASE PassWait(o)
    <3>1. op' = op /\ hist' = hist /\ UNCHANGED <<nextID, wire>>
      BY <1>1, <2>8 DEF PassWait, Continue, OpInv
    <3>2. QED
      BY <1>1, <3>1 DEF Step, Rests
  <2>9. QED
    BY <1>3, <2>2, <2>3, <2>4, <2>5, <2>6, <2>7, <2>8 DEF PassSlot
<1>4. QED
  BY <1>2, <1>3 DEF Pass

LEMMA CallForm ==
  ASSUME RunInv, NEW o \in Op,
         \/ AddOID(o) \/ Configure(o) \/ Start(o) \/ Cancel(o)
         \/ TakeCompleted(o) \/ DestroyOperation(o)
  PROVE  Step
<1>1. /\ op \in [Op -> OperationState] /\ hist \in [Op -> History] /\ OpInv
      /\ op[o] \in OperationState
  BY Parts DEF RunInv, OpInv
<1>2. CASE AddOID(o) \/ Configure(o) \/ TakeCompleted(o) \/ DestroyOperation(o)
  <2>1. Others(o)
    BY <1>1, <1>2
       DEF Others, AddOID, Configure, TakeCompleted, DestroyOperation
  <2>2. UNCHANGED <<nextID, wire, pc, rx>>
    BY <1>2 DEF AddOID, Configure, TakeCompleted, DestroyOperation
  <2>3. QED
    BY <1>2, <2>1, <2>2 DEF Step, Edits
<1>3. CASE Start(o)
  <2>1. Others(o)
    BY <1>1, <1>3 DEF Others, Start
  <2>2. QED
    BY <1>3, <2>1 DEF Step
<1>4. CASE Cancel(o)
  <2>1. /\ Pending(o) /\ Finish(o, op[o], "Cancelled")
        /\ UNCHANGED <<nextID, wire, pc, rx>>
    BY <1>4 DEF Cancel
  <2>2. Passage(o)
    BY <2>1 DEF Passage
  <2>3. QED
    BY <2>1, <2>2, ReplyEndsForm DEF Step
<1>5. QED
  BY <1>2, <1>3, <1>4

\* Every step of the client and of its application has one of the forms.
LEMMA StepForms == RunInv /\ [Next]_vars => Step
<1> SUFFICES ASSUME RunInv, [Next]_vars PROVE Step
  OBVIOUS
<1>1. OpInv /\ EnvInv
  BY Parts DEF RunInv
<1>2. CASE Begin \/ DestroyClient \/ Return \/ PassDone \/ Destroyed \/ Dead
           \/ UNCHANGED vars
  BY <1>2 DEF Begin, DestroyClient, Return, PassDone, Destroyed, Dead, vars,
              Step, Rests, Delivering
<1>3. CASE DestroySlot
  <2>1. UNCHANGED <<nextID, wire, pc, rx>>
    BY <1>3 DEF DestroySlot
  <2>2. CASE UNCHANGED <<op, hist>>
    BY <2>1, <2>2 DEF Step, Rests
  <2>3. ASSUME NEW o \in Op, slots[k] = o, Finish(o, op[o], "Cancelled")
        PROVE  Step
    <3>1. k \in Slot
      BY <1>1, <1>3 DEF DestroySlot, EnvInv
    <3>2. Pending(o) /\ Passage(o)
      BY <1>1, <2>1, <2>3, <3>1, Constants DEF OpInv, SlotAgreement, Passage
    <3>3. QED
      BY <2>1, <2>3, <3>2, ReplyEndsForm DEF Step
  <2>4. QED
    BY <1>3, <2>2, <2>3 DEF DestroySlot
<1>4. CASE Call
  BY <1>4 DEF Call, Step
<1>5. QED
  BY <1>2, <1>3, <1>4, CallForm, ReceiveForm, WalkForm, StreamContinueForm,
     StreamStopForm, PassForm DEF Next, Application, Internal

-----------------------------------------------------------------------------
(***************************************************************************)
(* The invariant of a run.                                                 *)
(***************************************************************************)
\* A step seen from one operation: it has one of the forms, or the fields of
\* the operation stay and so does its history, but for the times loop() adds.
LEMMA FormsOf ==
  ASSUME OpInv, Step, NEW o \in Op
  PROVE  \/ /\ op'[o] = op[o]
            /\ hist'[o].floor = hist[o].floor
            /\ hist'[o].copies = hist[o].copies
            /\ hist'[o].used = hist[o].used
            /\ hist'[o].ends = hist[o].ends
            /\ hist'[o].taken = hist[o].taken
         \/ Edits(o) \/ Start(o) \/ Ends(o) \/ Reopens(o)
         \/ Transmits(o) \/ Advances(o)
<1>1. hist \in [Op -> History]
  BY DEF OpInv
<1>2. CASE Rests
  BY <1>2 DEF Rests
<1>3. ASSUME NEW d \in 0..MaxStall, Loop(d)
      PROVE  /\ op'[o] = op[o]
             /\ hist'[o].floor = hist[o].floor
             /\ hist'[o].copies = hist[o].copies
             /\ hist'[o].used = hist[o].used
             /\ hist'[o].ends = hist[o].ends
             /\ hist'[o].taken = hist[o].taken
  <2> DEFINE w == IF Pending(o) /\ op[o].sent
                  THEN Least(hist[o].waited + d, TimeoutMs) ELSE 0
             g == IF Pending(o) /\ op[o].id # 0
                  THEN Least(hist[o].aged + d, WalkDeadline) ELSE 0
  <2>1. hist'[o] = [hist[o] EXCEPT !.waited = w, !.aged = g]
    BY <1>3 DEF Loop
  <2>2. op' = op
    BY <1>3 DEF Loop
  <2> HIDE DEF w, g
  <2>3. QED
    BY <1>1, <2>1, <2>2 DEF History
<1>4. ASSUME NEW p \in Op, Others(p), p # o
      PROVE  op'[o] = op[o] /\ hist'[o] = hist[o]
  BY <1>4 DEF Others
<1>5. QED
  BY <1>2, <1>3, <1>4 DEF Step

\* The application's edits leave a pending operation as it is, but for the
\* completion flag.
LEMMA EditFields ==
  ASSUME OpInv, NEW o \in Op, Edits(o)
  PROVE  LET r == op[o]
             q == op'[o]
         IN /\ q.mode = r.mode
            /\ q.status \in {r.status, "Destroyed"}
            /\ q.status = "Pending" =>
                 /\ q.cells = r.cells /\ q.offset = r.offset
                 /\ q.batch = r.batch /\ q.batchLimit = r.batchLimit
                 /\ q.id = r.id /\ q.sent = r.sent /\ q.cursor = r.cursor
                 /\ q.attempts = r.attempts /\ TakeCompleted(o)
<1>1. op \in [Op -> OperationState] /\ op[o] \in OperationState
  BY DEF OpInv
<1>2. CASE AddOID(o) \/ Configure(o)
  <2>1. PICK rt, c : op'[o] = [op[o] EXCEPT !.rooted = rt, !.cells = c]
    <3>1. CASE AddOID(o)
      <4> DEFINE rt == op[o].rooted
                 c == Append(op[o].cells, FreshCell(Len(op[o].cells) + 1))
      <4>1. op'[o] = [op[o] EXCEPT !.cells = c]
        BY <1>1, <3>1 DEF AddOID
      <4> HIDE DEF c
      <4>2. op'[o] = [op[o] EXCEPT !.rooted = rt, !.cells = c]
        BY <1>1, <4>1 DEF OperationState
      <4>3. QED
        BY <4>2
    <3>2. CASE Configure(o)
      <4> DEFINE c == [i \in 1..Len(op[o].cells) |->
                         IF i = 1 THEN FreshCell(0) ELSE op[o].cells[i]]
      <4>1. op'[o] = [op[o] EXCEPT !.rooted = TRUE, !.cells = c]
        BY <1>1, <3>2 DEF Configure
      <4> HIDE DEF c
      <4>2. QED
        BY <4>1
    <3>3. QED
      BY <1>2, <3>1, <3>2
  <2>2. op[o].status # "Pending"
    BY <1>2 DEF AddOID, Configure
  <2>3. QED
    BY <1>1, <2>1, <2>2 DEF OperationState
<1>3. CASE TakeCompleted(o)
  <2>1. op'[o] = [op[o] EXCEPT !.completed = FALSE]
    BY <1>1, <1>3 DEF TakeCompleted
  <2>2. QED
    BY <1>1, <1>3, <2>1 DEF OperationState
<1>4. CASE DestroyOperation(o)
  <2>1. op'[o] = [op[o] EXCEPT !.status = "Destroyed"]
    BY <1>1, <1>4 DEF DestroyOperation
  <2>2. QED
    BY <1>1, <2>1 DEF OperationState
<1>5. QED
  BY <1>2, <1>3, <1>4 DEF Edits

\* What an accepted start sets.
LEMMA StartFields ==
  ASSUME OpInv, NEW o \in Op, Start(o)
  PROVE  LET r == op[o]
             q == op'[o]
             n == Len(q.cells)
         IN /\ q.status = "Pending" /\ q.completed = FALSE /\ r.status # "Pending"
            /\ q.mode = IF ~Walking(o) THEN r.mode
                        ELSE IF Version[o] = "v1" THEN "next" ELSE "bulk"
            /\ q.cursor = 0 /\ q.offset = 0 /\ q.id = 0 /\ q.sent = FALSE
            /\ q.attempts = 0 /\ q.startedAt = 0
            /\ q.cells = Emptied(o, r.cells) /\ q.batchLimit = n
            /\ n \in Nat
            /\ IF Walking(o) THEN q.cells = << >> ELSE n > 0 /\ n = Len(r.cells)
            /\ \A i \in 1..n :
                 /\ q.cells[i].status = "Pending"
                 /\ q.cells[i].src =
                      IF Kind[o] = "set" THEN r.cells[i].src ELSE NoSource
            /\ hist'[o] = [NoHistory EXCEPT !.floor = nextID]
<1>1. op \in [Op -> OperationState] /\ op[o] \in OperationState
      /\ hist \in [Op -> History]
  BY DEF OpInv
<1>2. op[o].cells \in Seq(Cell)
  BY <1>1 DEF OperationState
<1> DEFINE r == op[o]
           c == Emptied(o, r.cells)
           m == IF ~Walking(o) THEN r.mode
                ELSE IF Version[o] = "v1" THEN "next" ELSE "bulk"
           n == Len(c)
<1>3. op'[o] = [r EXCEPT !.status = "Pending", !.completed = FALSE, !.mode = m,
                         !.cursor = 0, !.cells = c, !.offset = 0,
                         !.batchLimit = n, !.id = 0, !.sent = FALSE,
                         !.attempts = 0, !.startedAt = 0]
  BY <1>1 DEF Start, Scheduled
<1>4. IF Walking(o) THEN c = << >> ELSE n > 0 /\ n = Len(r.cells)
  BY <1>2 DEF Start, Emptied
<1>5. n \in Nat
  BY <1>2, <1>4
<1>6. \A i \in 1..n :
        /\ c[i].status = "Pending"
        /\ c[i].src = IF Kind[o] = "set" THEN r.cells[i].src ELSE NoSource
  <2>1. CASE Walking(o)
    BY <1>4, <2>1
  <2>2. CASE ~Walking(o)
    <3>1. \A i \in 1..Len(r.cells) : r.cells[i] \in Cell
      BY <1>2
    <3>2. QED
      BY <1>4, <2>2, <3>1 DEF Emptied, Cell
  <2>3. QED
    BY <2>1, <2>2
<1>7. hist'[o] = [NoHistory EXCEPT !.floor = nextID] /\ r.status # "Pending"
  BY <1>1 DEF Start
<1> HIDE DEF c, m, n
<1>8. /\ op'[o].status = "Pending" /\ op'[o].completed = FALSE
      /\ op'[o].mode = m /\ op'[o].cursor = 0 /\ op'[o].cells = c
      /\ op'[o].offset = 0 /\ op'[o].batchLimit = n /\ op'[o].id = 0
      /\ op'[o].sent = FALSE /\ op'[o].attempts = 0 /\ op'[o].startedAt = 0
  BY <1>1, <1>3 DEF OperationState
<1>9. QED
  BY <1>4, <1>5, <1>6, <1>7, <1>8 DEF c, m, n

\* The batch that send() would choose depends on these fields only.
LEMMA SameBatchSize ==
  ASSUME NEW o, NEW r, NEW q,
         \/ Walking(o)
         \/ /\ q.batchLimit = r.batchLimit /\ q.cells = r.cells
            /\ q.offset = r.offset
  PROVE  BatchSize(o, q) = BatchSize(o, r)
BY DEF BatchSize

LEMMA BatchesNext == RunInv /\ Step => Batches'
<1> SUFFICES ASSUME RunInv, Step, NEW o \in Op,
                    op'[o].status = "Pending", op'[o].sent
             PROVE  op'[o].batch = BatchSize(o, op'[o]) /\ op'[o].batch # 0
  BY DEF Batches, Pending
<1>1. OpInv
  BY Parts DEF RunInv
<1>2. Pending(o) /\ op[o].sent =>
        op[o].batch = BatchSize(o, op[o]) /\ op[o].batch # 0
  BY DEF RunInv, Batches
<1>3. CASE op'[o] = op[o]
  BY <1>2, <1>3 DEF Pending
<1>4. CASE Edits(o)
  <2>1. /\ op'[o].batch = op[o].batch /\ op'[o].sent = op[o].sent /\ Pending(o)
        /\ op'[o].batchLimit = op[o].batchLimit
        /\ op'[o].cells = op[o].cells /\ op'[o].offset = op[o].offset
    BY <1>1, <1>4, EditFields DEF Pending
  <2>2. QED
    BY <1>2, <2>1, SameBatchSize
<1>5. CASE Start(o)
  BY <1>1, <1>5, StartFields
<1>6. CASE Ends(o)
  BY <1>6 DEF Ends
<1>7. CASE Reopens(o)
  BY <1>7 DEF Reopens
<1>8. CASE Transmits(o)
  <2>1. BatchSize(o, op'[o]) = BatchSize(o, op[o])
    BY <1>8, SameBatchSize DEF Transmits
  <2>2. QED
    BY <1>8, <2>1 DEF Transmits
<1>9. CASE Advances(o)
  <2>1. Walking(o) /\ Pending(o) /\ op'[o].batch = op[o].batch
        /\ op'[o].sent = op[o].sent
    BY <1>9 DEF Advances, Delivering, RunInv, Control
  <2>2. QED
    BY <1>2, <2>1, SameBatchSize
<1>10. QED
  BY <1>1, <1>3, <1>4, <1>5, <1>6, <1>7, <1>8, <1>9, FormsOf

LEMMA ModesNext == RunInv /\ Step => Modes'
<1> DEFINE OK(o, r) ==
      /\ Kind[o] = "set" <=> r.mode = "set"
      /\ ~Walking(o) => r.mode \in {"get", "set"}
      /\ r.status = "Pending" /\ Walking(o) => r.mode \in {"next", "bulk"}
      /\ r.status = "Pending" /\ r.mode = "bulk" => Version[o] = "v2c"
<1> SUFFICES ASSUME RunInv, Step, NEW o \in Op PROVE OK(o, op'[o])
  BY DEF Modes, Pending
<1>1. OpInv
  BY Parts DEF RunInv
<1>2. OK(o, op[o]) /\ op[o].mode \in Mode
  BY <1>1 DEF RunInv, Modes, Pending, OpInv, OperationState
<1>3. CASE op'[o] = op[o]
  BY <1>2, <1>3
<1>4. CASE Edits(o)
  BY <1>1, <1>2, <1>4, EditFields
<1>5. CASE Start(o)
  <2>1. op'[o].mode = IF ~Walking(o) THEN op[o].mode
                      ELSE IF Version[o] = "v1" THEN "next" ELSE "bulk"
    BY <1>1, <1>5, StartFields
  <2>2. QED
    BY <1>2, <2>1, Constants DEF Walking
<1>6. CASE Ends(o)
  BY <1>2, <1>6 DEF Ends
<1>7. CASE Reopens(o)
  BY <1>2, <1>7 DEF Reopens, Pending
<1>8. CASE Transmits(o)
  BY <1>2, <1>8 DEF Transmits, Pending
<1>9. CASE Advances(o)
  BY <1>2, <1>9 DEF Advances, Pending
<1>10. QED
  BY <1>1, <1>3, <1>4, <1>5, <1>6, <1>7, <1>8, <1>9, FormsOf

LEMMA BatchesInOrderNext == RunInv /\ Step => BatchesInOrder'
<1> DEFINE OK(r) ==
      /\ r.offset < Len(r.cells)
      /\ \A i \in 1..Len(r.cells) :
           (r.cells[i].status = "Pending") <=> (i > r.offset)
<1> SUFFICES ASSUME RunInv, Step, NEW o \in Op,
                    op'[o].status = "Pending", ~Walking(o)
             PROVE  OK(op'[o])
  BY DEF BatchesInOrder, Pending
<1>1. OpInv
  BY Parts DEF RunInv
<1>2. Pending(o) => OK(op[o]) /\ op[o].offset \in Nat
  BY <1>1 DEF RunInv, BatchesInOrder, OpInv, OperationState
<1>3. CASE op'[o] = op[o]
  BY <1>2, <1>3 DEF Pending
<1>4. CASE Edits(o)
  <2>1. /\ Pending(o) /\ op'[o].cells = op[o].cells
        /\ op'[o].offset = op[o].offset
    BY <1>1, <1>4, EditFields DEF Pending
  <2>2. QED
    BY <1>2, <2>1
<1>5. CASE Start(o)
  <2> DEFINE c == op'[o].cells
  <2>1. /\ op'[o].offset = 0 /\ Len(c) \in Nat /\ Len(c) > 0
        /\ \A i \in 1..Len(c) : c[i].status = "Pending"
    BY <1>1, <1>5, StartFields
  <2>2. \A i \in 1..Len(c) : i > 0
    BY <2>1
  <2>3. QED
    BY <2>1, <2>2
<1>6. CASE Ends(o)
  BY <1>6 DEF Ends
<1>7. CASE Reopens(o)
  <2>1. CASE op'[o].cells = op[o].cells /\ op'[o].offset = op[o].offset
    BY <1>2, <1>7, <2>1 DEF Reopens
  <2>2. ASSUME NEW m, Commits(o, m, op'[o].offset),
               op'[o].offset < Len(op[o].cells)
        PROVE  OK(op'[o])
    <3> DEFINE old == op[o].cells
               new == op'[o].cells
               last == op'[o].offset
    <3>1. /\ op[o].offset < last /\ Len(new) = Len(old)
          /\ \A i \in 1..Len(old) :
               IF op[o].offset < i /\ i <= last
               THEN new[i].status # "Pending" ELSE new[i] = old[i]
      BY <2>2 DEF Commits
    <3>2. OK(op[o]) /\ op[o].offset \in Nat /\ last \in Nat
      <4>1. op[o].batch \in Nat
        BY <1>1 DEF OpInv, OperationState
      <4>2. last = op[o].offset + op[o].batch
        BY <2>2 DEF Commits
      <4>3. QED
        BY <1>2, <1>7, <4>1, <4>2 DEF Reopens
    <3>3. QED
      BY <2>2, <3>1, <3>2
  <2>3. QED
    BY <1>7, <2>1, <2>2 DEF Reopens
<1>8. CASE Transmits(o)
  BY <1>2, <1>8 DEF Transmits
<1>9. CASE Advances(o)
  BY <1>9 DEF Advances, Delivering, RunInv, Control
<1>10. QED
  BY <1>1, <1>3, <1>4, <1>5, <1>6, <1>7, <1>8, <1>9, FormsOf

LEMMA RunInit == Init => RunInv
<1> SUFFICES ASSUME Init PROVE RunInv
  OBVIOUS
<1>1. IInv
  BY InitHolds
<1>2. \A o \in Op : /\ op[o].status = "NotStarted" /\ op[o].sent = FALSE
                    /\ op[o].mode = IF Kind[o] = "set" THEN "set" ELSE "get"
  BY DEF Init, NewOperation, InitMode
<1>3. Control
  BY DEF Init, Control
<1>4. Batches /\ Modes /\ BatchesInOrder
  BY <1>2 DEF Batches, Modes, BatchesInOrder, Pending
<1>5. QED
  BY <1>1, <1>3, <1>4 DEF RunInv

\* Every step preserves the invariant of a run and has one of the forms.
LEMMA RunNext == RunInv /\ [Next]_vars => RunInv' /\ Step
<1> SUFFICES ASSUME RunInv, [Next]_vars PROVE RunInv' /\ Step
  OBVIOUS
<1>1. IInv' /\ Control' /\ Step
  BY NextStep, ControlNext, StepForms DEF RunInv
<1>2. QED
  BY <1>1, BatchesNext, ModesNext, BatchesInOrderNext DEF RunInv

LEMMA RunHolds == Spec => []RunInv
BY RunInit, RunNext, PTL DEF Spec

\* When the destructor has emptied the scheduler's table, no operation is
\* pending: a completion handler that tries to start one meanwhile is
\* refused, begun_ having been reset first (~SNMPClient()).
THEOREM DestructorLeavesNothing == Spec => []DestructorDrains
<1>1. RunInv => DestructorDrains
  <2> SUFFICES ASSUME RunInv, pc = "dead", NEW o \in Op PROVE ~Pending(o)
    BY DEF DestructorDrains
  <2>1. \A s \in Slot : slots[s] = None
    BY DEF RunInv, Control
  <2>2. Pending(o) => \E s \in Slot : slots[s] = o
    BY DEF RunInv, IInv, SlotAgreement
  <2>3. QED
    BY <2>1, <2>2, Constants
<1>2. QED
  BY <1>1, RunHolds, PTL

\* The cells of a query or SET get their statuses batch by batch: those
\* before offset_ have theirs, the others wait (receive(), commit of a batch).
THEOREM BatchesStayInOrder == Spec => []BatchesInOrder
<1>1. RunInv => BatchesInOrder
  BY DEF RunInv
<1>2. QED
  BY <1>1, RunHolds, PTL

-----------------------------------------------------------------------------
(***************************************************************************)
(* Runs end once and are observed once.  This is so unless a stream        *)
(* callback may cancel its walk and then return false.                     *)
(***************************************************************************)
\* A run that is in progress has neither ended nor been observed.
Endings ==
  \A o \in Op :
    /\ hist[o].ends <= 1 /\ hist[o].taken <= 1
    /\ Pending(o) => /\ ~op[o].completed
                     /\ hist[o].ends = 0 /\ hist[o].taken = 0
    /\ op[o].completed => hist[o].taken = 0

\* What the application's edits do to the history and the completion flag.
LEMMA EditHistory ==
  ASSUME OpInv, NEW o \in Op, Edits(o)
  PROVE  /\ hist'[o].ends = hist[o].ends
         /\ hist'[o].copies = hist[o].copies
         /\ hist'[o].used = hist[o].used
         /\ hist'[o].floor = hist[o].floor
         /\ \/ hist' = hist /\ op'[o].completed = op[o].completed
            \/ /\ hist'[o].taken = hist[o].taken + 1
               /\ op[o].completed /\ op'[o].completed = FALSE
<1>1. /\ op \in [Op -> OperationState] /\ op[o] \in OperationState
      /\ hist \in [Op -> History] /\ hist[o] \in History
  BY DEF OpInv
<1>2. CASE AddOID(o) \/ Configure(o)
  <2>1. hist' = hist
    BY <1>2 DEF AddOID, Configure
  <2>2. op'[o].completed = op[o].completed
    BY <1>1, <1>2 DEF AddOID, Configure, OperationState
  <2>3. QED
    BY <2>1, <2>2
<1>3. CASE TakeCompleted(o)
  <2>1. hist'[o] = [hist[o] EXCEPT !.taken = @ + 1]
    BY <1>1, <1>3 DEF TakeCompleted
  <2>2. op'[o].completed = FALSE /\ op[o].completed
    BY <1>1, <1>3 DEF TakeCompleted, OperationState
  <2>3. QED
    BY <1>1, <2>1, <2>2 DEF History
<1>4. CASE DestroyOperation(o)
  <2>1. hist' = hist
    BY <1>4 DEF DestroyOperation
  <2>2. op'[o].completed = op[o].completed
    BY <1>1, <1>4 DEF DestroyOperation, OperationState
  <2>3. QED
    BY <2>1, <2>2
<1>5. QED
  BY <1>2, <1>3, <1>4 DEF Edits

LEMMA EndingsInit == Init => Endings
<1> SUFFICES ASSUME Init PROVE Endings
  OBVIOUS
<1>1. \A o \in Op : op[o].completed = FALSE /\ op[o].status = "NotStarted"
  BY DEF Init, NewOperation
<1>2. \A o \in Op : hist[o].ends = 0 /\ hist[o].taken = 0
  BY DEF Init, NoHistory
<1>3. QED
  BY <1>1, <1>2 DEF Endings, Pending

LEMMA EndingsNext ==
  ASSUME StopAfterCancel = FALSE, RunInv, Endings, Step
  PROVE  Endings'
<1> DEFINE OK(r, h) ==
      /\ h.ends <= 1 /\ h.taken <= 1
      /\ r.status = "Pending" => ~r.completed /\ h.ends = 0 /\ h.taken = 0
      /\ r.completed => h.taken = 0
<1> SUFFICES ASSUME NEW o \in Op PROVE OK(op'[o], hist'[o])
  BY DEF Endings, Pending
<1>1. OpInv /\ hist[o] \in History /\ OK(op[o], hist[o])
  BY Parts DEF RunInv, Endings, OpInv, Pending
<1>2. CASE op'[o] = op[o] /\ hist'[o].ends = hist[o].ends
           /\ hist'[o].taken = hist[o].taken
  BY <1>1, <1>2
<1>3. CASE Edits(o)
  <2>1. op'[o].status \in {op[o].status, "Destroyed"}
    BY <1>1, <1>3, EditFields
  <2>2. /\ hist'[o].ends = hist[o].ends
        /\ \/ hist'[o].taken = hist[o].taken
              /\ op'[o].completed = op[o].completed
           \/ /\ hist'[o].taken = hist[o].taken + 1
              /\ op[o].completed /\ op'[o].completed = FALSE
    BY <1>1, <1>3, EditHistory
  <2>3. op[o].completed => op[o].status # "Pending" /\ hist[o].taken = 0
    BY <1>1
  <2>4. QED
    BY <1>1, <2>1, <2>2, <2>3
<1>4. CASE Start(o)
  <2>1. op'[o].completed = FALSE
        /\ hist'[o] = [NoHistory EXCEPT !.floor = nextID]
    BY <1>1, <1>4, StartFields
  <2>2. QED
    BY <2>1 DEF NoHistory
<1>5. CASE Ends(o)
  <2>1. /\ op[o].status = "Pending" /\ op'[o].status # "Pending"
        /\ hist'[o] = [hist[o] EXCEPT !.ends = @ + 1]
    BY <1>5 DEF Ends, Pending
  <2>2. hist'[o].ends = hist[o].ends + 1 /\ hist'[o].taken = hist[o].taken
    BY <1>1, <2>1 DEF History
  <2>3. hist[o].ends = 0 /\ hist[o].taken = 0
    BY <1>1, <2>1
  <2>4. QED
    BY <2>1, <2>2, <2>3
<1>6. CASE Reopens(o)
  BY <1>1, <1>6 DEF Reopens, Pending
<1>7. CASE Transmits(o)
  <2>1. op[o].status = "Pending" /\ op'[o].completed = op[o].completed
        /\ hist'[o] = Counted(hist[o], ~op[o].sent)
    BY <1>7 DEF Transmits, Pending
  <2>2. hist'[o].ends = hist[o].ends /\ hist'[o].taken = hist[o].taken
    BY <1>1, <2>1 DEF Counted, History
  <2>3. QED
    BY <1>1, <2>1, <2>2
<1>8. CASE Advances(o)
  BY <1>1, <1>8 DEF Advances, Pending
<1>9. QED
  BY <1>1, <1>2, <1>3, <1>4, <1>5, <1>6, <1>7, <1>8, FormsOf

LEMMA EndingsHold == ASSUME StopAfterCancel = FALSE PROVE Spec => []Endings
<1>1. Init => RunInv /\ Endings
  BY RunInit, EndingsInit
<1>2. RunInv /\ Endings /\ [Next]_vars => (RunInv /\ Endings)'
  BY RunNext, EndingsNext
<1>3. QED
  BY <1>1, <1>2, PTL DEF Spec

\* A run ends once: none of reply, timeout, send failure, cancel() and
\* destructor calls finish() for a run that is over.
THEOREM RunsEndOnce == ASSUME StopAfterCancel = FALSE PROVE Spec => []EndsOnce
<1>1. Endings => EndsOnce
  BY DEF Endings, EndsOnce
<1>2. QED
  BY <1>1, EndingsHold, PTL

\* takeCompleted() returns true at most once for each run.
THEOREM RunsTakenOnce ==
  ASSUME StopAfterCancel = FALSE PROVE Spec => []TakenOnce
<1>1. Endings => TakenOnce
  BY DEF Endings, TakenOnce
<1>2. QED
  BY <1>1, EndingsHold, PTL

-----------------------------------------------------------------------------
(***************************************************************************)
(* Transmissions.                                                          *)
(***************************************************************************)
\* attempts_ counts the transmissions of the request that is awaited, after
\* the first; a SET is at its only request, or has not sent it.
Transmissions ==
  \A o \in Op : Pending(o) =>
    /\ hist[o].copies <= 1 + Retries
    /\ IF op[o].sent THEN hist[o].copies = op[o].attempts + 1
                     ELSE op[o].attempts = 0
    /\ Kind[o] = "set" =>
         /\ op[o].offset = 0 /\ op[o].attempts = 0
         /\ IF op[o].sent
            THEN hist[o].used = 1 /\ op[o].batch = Len(op[o].cells)
            ELSE hist[o].used = 0

\* What a transmission adds to the history.
LEMMA CountedFields ==
  ASSUME NEW h \in History, NEW new \in BOOLEAN
  PROVE  /\ Counted(h, new).copies = IF new THEN 1 ELSE h.copies + 1
         /\ Counted(h, new).used = IF new THEN h.used + 1 ELSE h.used
         /\ Counted(h, new).floor = h.floor
         /\ Counted(h, new).waited = 0
         /\ Counted(h, new).aged = h.aged
<1> DEFINE c == IF new THEN 1 ELSE h.copies + 1
           u == IF new THEN h.used + 1 ELSE h.used
<1>1. Counted(h, new) = [h EXCEPT !.copies = c, !.used = u, !.waited = 0]
  BY DEF Counted
<1> HIDE DEF c, u
<1>2. QED
  BY <1>1 DEF History, c, u

LEMMA TransmissionsNext ==
  ASSUME RunInv, Transmissions, Step
  PROVE  Transmissions'
<1> DEFINE OK(o, r, h) ==
      /\ h.copies <= 1 + Retries
      /\ IF r.sent THEN h.copies = r.attempts + 1 ELSE r.attempts = 0
      /\ Kind[o] = "set" =>
           /\ r.offset = 0 /\ r.attempts = 0
           /\ IF r.sent THEN h.used = 1 /\ r.batch = Len(r.cells)
                        ELSE h.used = 0
<1> SUFFICES ASSUME NEW o \in Op, op'[o].status = "Pending"
             PROVE  OK(o, op'[o], hist'[o])
  BY DEF Transmissions, Pending
<1>1. /\ OpInv /\ hist[o] \in History /\ op[o] \in OperationState
      /\ Pending(o) => OK(o, op[o], hist[o])
      /\ Kind[o] = "set" <=> op[o].mode = "set"
  BY Parts DEF RunInv, Transmissions, OpInv, Pending, Modes
<1>2. CASE op'[o] = op[o] /\ hist'[o].copies = hist[o].copies
           /\ hist'[o].used = hist[o].used
  BY <1>1, <1>2 DEF Pending
<1>3. CASE Edits(o)
  <2>1. /\ Pending(o) /\ op'[o].cells = op[o].cells
        /\ op'[o].offset = op[o].offset /\ op'[o].batch = op[o].batch
        /\ op'[o].attempts = op[o].attempts /\ op'[o].sent = op[o].sent
    BY <1>1, <1>3, EditFields DEF Pending
  <2>2. hist'[o].copies = hist[o].copies /\ hist'[o].used = hist[o].used
    BY <1>1, <1>3, EditHistory
  <2>3. QED
    BY <1>1, <2>1, <2>2
<1>4. CASE Start(o)
  <2>1. /\ op'[o].sent = FALSE /\ op'[o].attempts = 0 /\ op'[o].offset = 0
        /\ hist'[o] = [NoHistory EXCEPT !.floor = nextID]
    BY <1>1, <1>4, StartFields
  <2>2. hist'[o].copies = 0 /\ hist'[o].used = 0
    BY <2>1 DEF NoHistory
  <2>3. QED
    BY <2>1, <2>2, Constants
<1>5. CASE Ends(o)
  BY <1>5 DEF Ends
<1>6. CASE Reopens(o)
  <2>1. /\ OK(o, op[o], hist[o]) /\ op[o].sent /\ op'[o].sent = FALSE
        /\ op'[o].attempts = 0 /\ hist'[o] = hist[o]
    BY <1>1, <1>6 DEF Reopens
  <2>2. Kind[o] # "set"
    <3>1. SUFFICES ASSUME Kind[o] = "set" PROVE FALSE
      OBVIOUS
    <3>2. /\ op[o].mode = "set" /\ ~Walking(o) /\ op[o].offset = 0
          /\ op[o].batch = Len(op[o].cells)
      BY <1>1, <2>1, <3>1 DEF Walking
    <3>3. PICK m : /\ Commits(o, m, op'[o].offset)
                   /\ op'[o].offset < Len(op[o].cells)
      <4>1. ~(pc = "walk" /\ rx.op = o)
        BY <3>2 DEF RunInv, Control
      <4>2. QED
        BY <1>6, <3>2, <4>1 DEF Reopens
    <3>4. op'[o].offset = 0 + Len(op[o].cells) /\ Len(op[o].cells) \in Nat
      BY <1>1, <3>2, <3>3 DEF Commits, OperationState
    <3>5. QED
      BY <3>3, <3>4
  <2>3. QED
    BY <2>1, <2>2
<1>7. CASE Transmits(o)
  <2> DEFINE new == ~op[o].sent
  <2>1. /\ Pending(o) /\ op'[o].sent /\ op'[o].offset = op[o].offset
        /\ op'[o].cells = op[o].cells
        /\ hist'[o] = Counted(hist[o], new)
        /\ op[o].mode = "set" => op'[o].batch = Len(op[o].cells)
        /\ IF new THEN op'[o].attempts = op[o].attempts
           ELSE /\ op[o].mode # "set" /\ op[o].attempts < Retries
                /\ op'[o].attempts = op[o].attempts + 1
    BY <1>7 DEF Transmits
  <2>2. /\ hist'[o].copies = IF new THEN 1 ELSE hist[o].copies + 1
        /\ hist'[o].used = IF new THEN hist[o].used + 1 ELSE hist[o].used
    BY <1>1, <2>1, CountedFields
  <2>3. op[o].attempts \in Nat /\ Retries \in Nat /\ hist[o].copies \in Nat
    <3>1. op[o].attempts \in 0..Retries /\ hist[o].copies \in Nat
      BY <1>1 DEF OperationState, History
    <3>2. QED
      BY <3>1, Constants
  <2>4. QED
    BY <1>1, <2>1, <2>2, <2>3
<1>8. CASE Advances(o)
  <2>1. /\ Pending(o) /\ op'[o].sent = op[o].sent
        /\ op'[o].attempts = op[o].attempts /\ hist'[o] = hist[o]
        /\ Walking(o)
    BY <1>8 DEF Advances, Delivering, RunInv, Control
  <2>2. Kind[o] # "set"
    BY <2>1 DEF Walking
  <2>3. QED
    BY <1>1, <2>1, <2>2
<1>9. QED
  BY <1>1, <1>2, <1>3, <1>4, <1>5, <1>6, <1>7, <1>8, FormsOf

LEMMA TransmissionsHold == Spec => []Transmissions
<1>1. Init => Transmissions
  BY DEF Init, NewOperation, Transmissions, Pending
<1>2. RunInv /\ Transmissions /\ [Next]_vars => Transmissions'
  BY RunNext, TransmissionsNext
<1>3. QED
  BY <1>1, <1>2, RunHolds, PTL DEF Spec

\* A read is transmitted at most 1 + retries times under one ID, a SET once
\* in a run and with all its values (retries in loop(), send()).
THEOREM RetransmissionsBounded == Spec => []Retransmissions
<1>1. RunInv /\ Transmissions => Retransmissions
  <2> SUFFICES ASSUME RunInv, Transmissions, NEW o \in Op, Pending(o)
               PROVE  /\ hist[o].copies <= 1 + Retries
                      /\ Kind[o] = "set" =>
                           /\ hist[o].copies * hist[o].used <= 1
                           /\ op[o].sent => op[o].batch = Len(op[o].cells)
    BY DEF Retransmissions
  <2>1. hist[o].copies \in Nat /\ hist[o].used \in Nat
    BY DEF RunInv, IInv, TypeOK, History
  <2>2. CASE hist[o].used = 0
    BY <2>1, <2>2 DEF Transmissions
  <2>3. CASE hist[o].used # 0 /\ Kind[o] = "set"
    <3>1. hist[o].used = 1 /\ op[o].sent /\ hist[o].copies = 0 + 1
          /\ op[o].batch = Len(op[o].cells)
      BY <2>3 DEF Transmissions
    <3>2. QED
      BY <3>1, Constants
  <2>4. QED
    BY <2>2, <2>3 DEF Transmissions
<1>2. QED
  BY <1>1, RunHolds, TransmissionsHold, PTL

\* A walk begins at its root: no reply to an earlier run and no callback of
\* one moves the cursor of a run that has sent nothing (receive()).
THEOREM WalksStartAtRoot == Spec => []RunStartsAtRoot
<1>1. Init => RunStartsAtRoot
  BY DEF Init, NewOperation, RunStartsAtRoot, Pending
<1>2. ASSUME RunInv, RunStartsAtRoot, Step PROVE RunStartsAtRoot'
  <2> SUFFICES ASSUME NEW o \in Op, op'[o].status = "Pending", op'[o].id = 0
               PROVE  op'[o].cursor = 0
    BY DEF RunStartsAtRoot, Pending
  <2>1. OpInv /\ EnvInv /\ nextID \in Nat
    <3>1. OpInv /\ EnvInv
      BY <1>2, Parts DEF RunInv
    <3>2. nextID \in 0..MaxID
      BY <3>1 DEF EnvInv
    <3>3. QED
      BY <3>1, <3>2
  <2>2. Pending(o) /\ op[o].id = 0 => op[o].cursor = 0
    BY <1>2 DEF RunStartsAtRoot
  <2>3. CASE op'[o] = op[o]
    BY <2>2, <2>3 DEF Pending
  <2>4. CASE Edits(o)
    BY <2>1, <2>2, <2>4, EditFields DEF Pending
  <2>5. CASE Start(o)
    BY <2>1, <2>5, StartFields
  <2>6. CASE Ends(o)
    BY <2>6 DEF Ends
  <2>7. CASE Reopens(o)
    BY <2>2, <2>7 DEF Reopens
  <2>8. CASE Transmits(o)
    BY <2>1, <2>2, <2>8 DEF Transmits
  <2>9. CASE Advances(o)
    BY <1>2, <2>9 DEF Advances, Delivering, RunInv, Control
  <2>10. QED
    BY <1>2, <2>1, <2>3, <2>4, <2>5, <2>6, <2>7, <2>8, <2>9, FormsOf
<1>3. RunInv /\ RunStartsAtRoot /\ [Next]_vars => RunStartsAtRoot'
  BY <1>2, RunNext
<1>4. QED
  BY <1>1, <1>3, RunHolds, PTL DEF Spec

-----------------------------------------------------------------------------
(***************************************************************************)
(* The identity of requests.                                               *)
(***************************************************************************)
\* The request that operation o awaits is on the wire as it would be sent
\* again; while its reply is delivered, at least its ID and operation are.
Identities ==
  /\ \A q \in wire : q.id <= nextID
  /\ RequestIdentity
  /\ \A o \in Op : Pending(o) =>
       /\ op[o].id <= nextID
       /\ op[o].id # 0 => \E q \in wire : q.id = op[o].id /\ q.op = o
       /\ op[o].sent /\ ~(Delivering /\ rx.op = o) =>
            Request(o, op[o]) \in wire

\* Requests stay on the wire and IDs only grow; both change by a send only.
LEMMA WireGrows ==
  ASSUME RunInv, Step
  PROVE  /\ wire \subseteq wire'
         /\ nextID \in Nat /\ nextID' \in {nextID, nextID + 1}
         /\ wire' = wire \/ \E o \in Op : Transmits(o)
<1>1. EnvInv
  BY Parts DEF RunInv
<1>2. nextID \in 0..MaxID
  BY <1>1 DEF EnvInv
<1>3. CASE UNCHANGED <<nextID, wire>>
  BY <1>2, <1>3
<1>4. ASSUME NEW o \in Op, Transmits(o)
      PROVE  wire \subseteq wire' /\ nextID' \in {nextID, nextID + 1}
  BY <1>4 DEF Transmits
<1>5. ASSUME NEW o \in Op, Ends(o)
      PROVE  wire' = wire /\ nextID' \in {nextID, nextID + 1}
  BY <1>5 DEF Ends
<1>6. CASE Rests \/ \E d \in 0..MaxStall : Loop(d)
  BY <1>3, <1>6 DEF Rests, Loop
<1>7. ASSUME NEW o \in Op, Edits(o) \/ Start(o) \/ Reopens(o) \/ Advances(o)
      PROVE  UNCHANGED <<nextID, wire>>
  BY <1>7 DEF Edits, Start, Reopens, Advances
<1>8. QED
  BY <1>2, <1>3, <1>4, <1>5, <1>6, <1>7 DEF Step

\* The reply that is being delivered to a walk goes on being delivered to it,
\* until the walk asks for more, ends, or has been restarted.
LEMMA StillDelivered ==
  ASSUME RunInv, Step, NEW p \in Op, op'[p] = op[p], Pending(p), op[p].sent,
         Delivering, rx.op = p
  PROVE  Delivering' /\ rx'.op = p
<1>1. /\ OpInv /\ rx \in Delivery
      /\ pc = "stream" => SameRun
  BY Parts DEF RunInv, EnvInv, Control, SameRun
<1>2. pc \in {"walk", "stream"}
  BY DEF Delivering
<1>3. CASE UNCHANGED <<pc, rx>>
  BY <1>3 DEF Delivering
<1>4. CASE Rests
  <2>1. CASE pc = "walk" /\ pc' = "stream"
             /\ \E name \in 0..Rows :
                  rx' = [rx EXCEPT !.any = TRUE, !.name = name]
    BY <1>1, <2>1 DEF Delivering, Delivery
  <2>2. QED
    BY <1>1, <1>2, <1>3, <1>4, <2>1 DEF Rests, Delivering
<1>5. ASSUME NEW d \in 0..MaxStall, Loop(d) PROVE FALSE
  BY <1>2, <1>5 DEF Loop
<1>6. ASSUME NEW o \in Op, Edits(o) \/ Start(o) PROVE UNCHANGED <<pc, rx>>
  BY <1>6 DEF Edits, Start
<1>7. ASSUME NEW o \in Op, Transmits(o) PROVE FALSE
  BY <1>2, <1>7 DEF Transmits
<1>8. ASSUME NEW o \in Op, Ends(o) \/ Reopens(o) PROVE UNCHANGED <<pc, rx>>
  <2>1. CASE o = p
    BY <1>8, <2>1 DEF Ends, Reopens, Pending
  <2>2. CASE o # p
    BY <1>8, <2>2 DEF Ends, Reopens, Passage
  <2>3. QED
    BY <2>1, <2>2
<1>9. ASSUME NEW o \in Op, Advances(o) PROVE Delivering' /\ rx'.op = p
  <2>1. pc' = "walk" /\ (rx' = rx \/ rx' = [rx EXCEPT !.any = TRUE])
    BY <1>9 DEF Advances
  <2>2. QED
    BY <1>1, <2>1 DEF Delivering, Delivery
<1>10. QED
  BY <1>3, <1>4, <1>5, <1>6, <1>7, <1>8, <1>9 DEF Step

\* A transmission puts the request that is awaited on the wire; sent again,
\* it is the request that was there.
LEMMA TransmittedRequest ==
  ASSUME RunInv, Identities, NEW o \in Op, Transmits(o)
  PROVE  /\ Request(o, op'[o]) \in wire'
         /\ IF op[o].sent THEN wire' = wire
                          ELSE Request(o, op'[o]).id = nextID + 1
<1>1. Request(o, op'[o]) \in wire'
  BY DEF Transmits
<1>2. CASE op[o].sent
  <2>1. Pending(o) /\ ~Delivering /\ op'[o].id = op[o].id
    BY <1>2 DEF Transmits, Delivering
  <2>2. op'[o].batch = op[o].batch
    BY <1>2, <2>1 DEF Transmits, RunInv, Batches
  <2>3. Request(o, op'[o]) = Request(o, op[o])
    BY <2>1, <2>2 DEF Transmits, Request
  <2>4. Request(o, op[o]) \in wire
    BY <1>2, <2>1 DEF Identities
  <2>5. QED
    BY <1>1, <1>2, <2>3, <2>4 DEF Transmits
<1>3. CASE ~op[o].sent
  BY <1>1, <1>3 DEF Transmits, Request
<1>4. QED
  BY <1>2, <1>3

LEMMA IdentitiesNext ==
  ASSUME RunInv, Identities, Step
  PROVE  Identities'
<1>1. /\ OpInv /\ EnvInv /\ wire \subseteq wire' /\ nextID \in Nat
      /\ nextID' \in {nextID, nextID + 1}
      /\ wire' = wire \/ \E o \in Op : Transmits(o)
  BY Parts, WireGrows DEF RunInv
<1>2. \A q \in wire : q.id \in Nat /\ q.id <= nextID
  BY <1>1 DEF Identities, EnvInv, Datagram
<1>3. /\ \A q \in wire' : q.id <= nextID'
      /\ RequestIdentity'
  <2>1. CASE wire' = wire
    BY <1>1, <1>2, <2>1 DEF Identities, RequestIdentity
  <2>2. ASSUME NEW o \in Op, Transmits(o), ~op[o].sent
        PROVE  /\ \A q \in wire' : q.id <= nextID'
               /\ RequestIdentity'
    <3>1. /\ wire' = wire \cup {Request(o, op'[o])}
          /\ Request(o, op'[o]).id = nextID + 1 /\ nextID' = nextID + 1
      BY <2>2, TransmittedRequest DEF Transmits
    <3>2. \A q \in wire : q.id <= nextID + 1 /\ q.id # nextID + 1
      BY <1>1, <1>2
    <3>3. QED
      BY <1>1, <3>1, <3>2 DEF Identities, RequestIdentity
  <2>3. QED
    BY <1>1, <2>1, <2>2, TransmittedRequest
<1>4. ASSUME NEW o \in Op, op'[o].status = "Pending"
      PROVE  /\ op'[o].id <= nextID'
             /\ op'[o].id # 0 => \E q \in wire' : q.id = op'[o].id /\ q.op = o
             /\ op'[o].sent /\ ~(Delivering' /\ rx'.op = o) =>
                  Request(o, op'[o]) \in wire'
  <2>1. Pending(o) =>
          /\ op[o].id \in Nat /\ op[o].id <= nextID /\ op[o].id <= nextID'
          /\ op[o].id # 0 => \E q \in wire : q.id = op[o].id /\ q.op = o
          /\ op[o].sent /\ ~(Delivering /\ rx.op = o) =>
               Request(o, op[o]) \in wire
    <3>1. op[o].id \in 0..MaxID
      BY <1>1 DEF OpInv, OperationState
    <3>2. Pending(o) => op[o].id <= nextID
      BY DEF Identities
    <3>3. QED
      BY <1>1, <3>1, <3>2 DEF Identities
  <2>2. CASE op'[o] = op[o]
    <3>1. Pending(o)
      BY <1>4, <2>2 DEF Pending
    <3>2. Delivering /\ rx.op = o /\ op[o].sent => Delivering' /\ rx'.op = o
      BY <2>2, <3>1, StillDelivered
    <3>3. QED
      BY <1>1, <2>1, <2>2, <3>1, <3>2
  <2>3. CASE Edits(o)
    <3>1. /\ Pending(o) /\ op'[o].id = op[o].id /\ op'[o].sent = op[o].sent
          /\ op'[o].offset = op[o].offset /\ op'[o].batch = op[o].batch
          /\ op'[o].cursor = op[o].cursor /\ op'[o].mode = op[o].mode
      BY <1>1, <1>4, <2>3, EditFields DEF Pending
    <3>2. Request(o, op'[o]) = Request(o, op[o])
      BY <3>1 DEF Request
    <3>3. Delivering' = Delivering /\ rx' = rx
      BY <2>3 DEF Edits, Delivering
    <3>4. QED
      BY <1>1, <2>1, <3>1, <3>2, <3>3
  <2>4. CASE Start(o)
    <3>1. op'[o].id = 0 /\ ~op'[o].sent
      BY <1>1, <2>4, StartFields
    <3>2. nextID' >= 0
      BY <1>1
    <3>3. QED
      BY <3>1, <3>2
  <2>5. CASE Ends(o)
    BY <1>4, <2>5 DEF Ends
  <2>6. CASE Reopens(o)
    BY <1>1, <2>1, <2>6 DEF Reopens
  <2>7. CASE Transmits(o)
    <3>1. Request(o, op'[o]) \in wire'
      BY <2>7, TransmittedRequest
    <3>2. Request(o, op'[o]).id = op'[o].id /\ Request(o, op'[o]).op = o
      BY DEF Request
    <3>3. op'[o].id <= nextID'
      BY <1>1, <2>1, <2>7 DEF Transmits
    <3>4. QED
      BY <3>1, <3>2, <3>3
  <2>8. CASE Advances(o)
    <3>1. rx'.op = o /\ Delivering' /\ op'[o].id = op[o].id /\ Pending(o)
      <4>1. rx \in Delivery
        BY <1>1 DEF EnvInv
      <4>2. /\ pc' = "walk" /\ op'[o].id = op[o].id /\ Pending(o) /\ rx.op = o
            /\ rx' = rx \/ rx' = [rx EXCEPT !.any = TRUE]
        BY <2>8 DEF Advances
      <4>3. QED
        BY <4>1, <4>2 DEF Delivery, Delivering
    <3>2. QED
      BY <1>1, <2>1, <3>1
  <2>9. QED
    BY <1>1, <2>2, <2>3, <2>4, <2>5, <2>6, <2>7, <2>8, FormsOf
<1>5. QED
  BY <1>3, <1>4 DEF Identities, Pending

LEMMA IdentitiesInit == Init => Identities
<1> SUFFICES ASSUME Init PROVE Identities
  OBVIOUS
<1>1. wire = {} /\ \A o \in Op : op[o].status = "NotStarted"
  BY DEF Init, NewOperation
<1>2. QED
  BY <1>1 DEF Identities, RequestIdentity, Pending

LEMMA IdentitiesHold == Spec => []Identities
<1>1. RunInv /\ Identities /\ [Next]_vars => Identities'
  BY RunNext, IdentitiesNext
<1>2. QED
  BY <1>1, IdentitiesInit, RunHolds, PTL DEF Spec

\* One request ID names one request for as long as the client lives: only a
\* retransmission repeats an ID, and it repeats the whole request (send()).
THEOREM RequestsIdentified == Spec => []RequestIdentity
<1>1. Identities => RequestIdentity
  BY DEF Identities
<1>2. QED
  BY <1>1, IdentitiesHold, PTL

-----------------------------------------------------------------------------
(***************************************************************************)
(* The requests of a run are paid for by its progress.                     *)
(***************************************************************************)
\* The progress that the fields r of operation o stand for.
Progress(o, r) ==
  IF Walking(o)
  THEN r.cursor + (IF r.mode = "next" /\ Version[o] = "v2c" THEN 1 ELSE 0)
  ELSE r.offset + Len(r.cells) - r.batchLimit

\* Once a row of the reply to a walk's request has been taken, that request
\* is paid for as well; the row lent to a callback will be the next one.
Budgets ==
  /\ \A o \in Op : Pending(o) =>
       /\ hist[o].used <= Progress(o, op[o]) + (IF op[o].sent THEN 1 ELSE 0)
       /\ pc = "walk" /\ rx.op = o /\ rx.any =>
            hist[o].used <= Progress(o, op[o])
  /\ pc = "stream" /\ SameRun => op[rx.op].cursor < rx.name

LEMMA ProgressType ==
  ASSUME NEW o \in Op, NEW r \in OperationState
  PROVE  Progress(o, r) \in Int
<1>1. r.cursor \in Int /\ r.offset \in Int /\ r.batchLimit \in Int
  BY Constants DEF OperationState
<1>2. Len(r.cells) \in Nat
  BY DEF OperationState
<1>3. QED
  BY <1>1, <1>2 DEF Progress

\* Unless a row of it is taken, a walk's reply is delivered as it was.
LEMMA StillWalking ==
  ASSUME RunInv, Step, NEW o \in Op, ~Advances(o),
         pc' = "walk", rx'.op = o, rx'.any
  PROVE  pc = "walk" /\ rx' = rx
<1>1. CASE Rests
  BY <1>1 DEF Rests, NoDelivery
<1>2. ASSUME NEW d \in 0..MaxStall, Loop(d) PROVE FALSE
  BY <1>2 DEF Loop
<1>3. ASSUME NEW p \in Op, Edits(p) \/ Start(p) PROVE pc' = pc /\ rx' = rx
  BY <1>3 DEF Edits, Start
<1>4. ASSUME NEW p \in Op, Ends(p) \/ Reopens(p) PROVE pc' = pc /\ rx' = rx
  BY <1>4 DEF Ends, Reopens, Passage
<1>5. ASSUME NEW p \in Op, Transmits(p) PROVE pc' = pc /\ rx' = rx
  BY <1>5 DEF Transmits
<1>6. ASSUME NEW p \in Op, Advances(p) PROVE FALSE
  <2>1. rx \in Delivery
    BY Parts DEF RunInv, EnvInv
  <2>2. p = rx.op /\ (rx' = rx \/ rx' = [rx EXCEPT !.any = TRUE])
    BY <1>6 DEF Advances
  <2>3. rx'.op = rx.op
    BY <2>1, <2>2 DEF Delivery
  <2>4. QED
    BY <1>6, <2>2, <2>3
<1>7. QED
  BY <1>1, <1>2, <1>3, <1>4, <1>5, <1>6 DEF Step

\* The row lent to a callback stays ahead of the cursor until it is taken.
LEMMA StillAhead ==
  ASSUME RunInv, Budgets, Step, pc' = "stream", SameRun'
  PROVE  op'[rx'.op].cursor < rx'.name
<1>1. /\ OpInv /\ rx \in Delivery
      /\ pc = "stream" => rx.op \in Op /\ rx.gen # 0
  BY Parts DEF RunInv, EnvInv, Control
<1>2. op'[rx'.op].status = "Pending" /\ op'[rx'.op].id = rx'.gen
  BY DEF SameRun, Pending
<1>3. CASE pc = "walk" /\ Rests
  <2>1. PICK name \in 0..Rows : /\ op[rx.op].cursor < name /\ op' = op
                                /\ rx' = [rx EXCEPT !.any = TRUE, !.name = name]
    BY <1>3 DEF Rests
  <2>2. rx'.op = rx.op /\ rx'.name = name
    BY <1>1, <2>1 DEF Delivery
  <2>3. QED
    BY <2>1, <2>2
<1>4. ASSUME ~(pc = "walk" /\ Rests) PROVE pc = "stream" /\ rx' = rx
  <2>1. CASE Rests
    BY <1>4, <2>1 DEF Rests, Delivering
  <2>2. ASSUME NEW d \in 0..MaxStall, Loop(d) PROVE FALSE
    BY <2>2 DEF Loop
  <2>3. ASSUME NEW p \in Op, Edits(p) \/ Start(p) \/ Transmits(p)
        PROVE  pc = "stream" /\ rx' = rx
    BY <2>3 DEF Edits, Start, Transmits
  <2>4. ASSUME NEW p \in Op, Ends(p) \/ Reopens(p)
        PROVE  pc = "stream" /\ rx' = rx
    BY <2>4 DEF Ends, Reopens, Passage
  <2>5. ASSUME NEW p \in Op, Advances(p) PROVE FALSE
    BY <2>5 DEF Advances
  <2>6. QED
    BY <2>1, <2>2, <2>3, <2>4, <2>5 DEF Step
<1>5. CASE pc = "stream" /\ rx' = rx
  <2> DEFINE p == rx.op
  <2>1. p \in Op /\ rx'.op = p /\ rx'.gen # 0 /\ rx'.gen = rx.gen
    BY <1>1, <1>5
  <2>2. Pending(p) /\ op[p].id = rx.gen /\ op'[p].cursor = op[p].cursor
    <3> HIDE DEF p
    <3>1. op'[p].status = "Pending" /\ op'[p].id = rx.gen /\ rx.gen # 0
      BY <1>2, <2>1
    <3>2. CASE op'[p] = op[p]
      BY <3>1, <3>2 DEF Pending
    <3>3. CASE Edits(p)
      BY <1>1, <2>1, <3>1, <3>3, EditFields DEF Pending
    <3>4. CASE Start(p)
      <4>1. op'[p].id = 0
        BY <1>1, <2>1, <3>4, StartFields
      <4>2. QED
        BY <3>1, <4>1
    <3>5. CASE Ends(p)
      BY <3>1, <3>5 DEF Ends
    <3>6. CASE Reopens(p)
      BY <3>1, <3>6 DEF Reopens
    <3>7. CASE Transmits(p)
      BY <1>5, <3>7 DEF Transmits
    <3>8. CASE Advances(p)
      BY <3>8 DEF Advances
    <3>9. QED
      BY <1>1, <2>1, <3>2, <3>3, <3>4, <3>5, <3>6, <3>7, <3>8, FormsOf
  <2>3. SameRun
    BY <2>2 DEF SameRun
  <2>4. QED
    BY <1>5, <2>2, <2>3 DEF Budgets
<1>6. QED
  BY <1>3, <1>4, <1>5

\* The batch that was sent is within the limit.
LEMMA BatchWithinLimit ==
  ASSUME RunInv, NEW o \in Op, Pending(o), op[o].sent, ~Walking(o)
  PROVE  op[o].batch <= op[o].batchLimit
<1>1. op[o] \in OperationState
  BY Parts DEF RunInv, OpInv
<1>2. /\ op[o].batchLimit \in Nat /\ op[o].offset \in Nat /\ Fit[o] \in Nat
      /\ Len(op[o].cells) \in Nat
  <2>1. op[o].batchLimit \in Nat /\ op[o].offset \in Nat
    BY <1>1 DEF OperationState
  <2>2. Len(op[o].cells) \in Nat
    BY <1>1 DEF OperationState
  <2>3. QED
    BY <2>1, <2>2, Constants
<1>3. op[o].batch = Least(Fit[o], Least(op[o].batchLimit,
                                        Len(op[o].cells) - op[o].offset))
  BY DEF RunInv, Batches, BatchSize
<1>4. QED
  BY <1>2, <1>3 DEF Least

\* A request that is given up for another one has been paid for.
LEMMA ReopenPays ==
  ASSUME RunInv, Budgets, NEW o \in Op, Reopens(o), op'[o] \in OperationState
  PROVE  /\ hist[o].used <= Progress(o, op'[o])
         /\ pc' # "walk" \/ UNCHANGED <<pc, rx>>
<1> DEFINE r == op[o]
           q == op'[o]
<1>1. r \in OperationState /\ hist[o].used \in Nat
  BY Parts DEF RunInv, OpInv, History
<1>2. Pending(o) /\ r.sent /\ ~q.sent /\ q.cursor = r.cursor
  BY DEF Reopens
<1>3. hist[o].used <= Progress(o, r) + 1
  BY <1>2 DEF Budgets
<1>4. Progress(o, r) \in Int /\ Progress(o, q) \in Int
  BY <1>1, ProgressType
<1>5. /\ r.cursor \in Int /\ r.offset \in Nat /\ r.batchLimit \in Nat
      /\ r.batch \in Nat /\ q.batchLimit \in Nat /\ q.offset \in Nat
  <2>1. r.cursor \in 0..Rows /\ r.offset \in Nat /\ r.batchLimit \in Nat
        /\ r.batch \in Nat
    BY <1>1 DEF OperationState
  <2>2. q.batchLimit \in Nat /\ q.offset \in Nat
    BY DEF OperationState
  <2>3. QED
    BY <2>1, <2>2, Constants
<1>6. Len(r.cells) \in Int /\ Len(q.cells) \in Int
  BY <1>1 DEF OperationState
<1>7. pc' # "walk" \/ UNCHANGED <<pc, rx>>
  BY DEF Reopens, Passage
<1>8. CASE /\ r.mode = "get" /\ q.batchLimit < r.batch
           /\ q.cells = r.cells /\ q.offset = r.offset
  <2>1. ~Walking(o)
    BY <1>2, <1>8 DEF RunInv, Modes
  <2>2. r.batch <= r.batchLimit
    BY <1>2, <2>1, BatchWithinLimit
  <2>3. Progress(o, r) + 1 <= Progress(o, q)
    BY <1>5, <1>6, <1>8, <2>1, <2>2 DEF Progress
  <2>4. QED
    BY <1>1, <1>3, <1>4, <1>7, <2>3
<1>9. CASE /\ \E m \in Answers \cup Strays : Commits(o, m, q.offset)
           /\ q.batchLimit = r.batchLimit
  <2>1. ~Walking(o) /\ r.offset < q.offset /\ Len(q.cells) = Len(r.cells)
    BY <1>9 DEF Commits
  <2>2. /\ Progress(o, r) = r.offset + Len(r.cells) - r.batchLimit
        /\ Progress(o, q) = q.offset + Len(r.cells) - r.batchLimit
    BY <1>9, <2>1 DEF Progress
  <2>3. Progress(o, r) + 1 <= Progress(o, q)
    BY <1>5, <1>6, <2>1, <2>2
  <2>4. QED
    BY <1>1, <1>3, <1>4, <1>7, <2>3
<1>10. CASE r.mode = "bulk" /\ q.mode = "next" /\ Walking(o)
  <2>1. Version[o] = "v2c"
    BY <1>2, <1>10 DEF RunInv, Modes
  <2>2. Progress(o, q) = Progress(o, r) + 1
    BY <1>2, <1>5, <1>10, <2>1 DEF Progress
  <2>3. QED
    BY <1>3, <1>7, <2>2
<1>11. CASE pc = "walk" /\ rx.op = o /\ rx.any /\ q.mode = r.mode
  <2>1. Walking(o)
    BY <1>11 DEF RunInv, Control
  <2>2. Progress(o, q) = Progress(o, r)
    BY <1>2, <1>11, <2>1 DEF Progress
  <2>3. QED
    BY <1>2, <1>7, <1>11, <2>2 DEF Budgets
<1>12. QED
  BY <1>8, <1>9, <1>10, <1>11 DEF Reopens

LEMMA BudgetsNext ==
  ASSUME RunInv, Budgets, [Next]_vars
  PROVE  Budgets'
<1>1. Step /\ OpInv /\ EnvInv /\ OpInv'
  BY RunNext, Parts DEF RunInv, IInv, OpInv, TypeOK
<1>2. pc' = "stream" /\ SameRun' => op'[rx'.op].cursor < rx'.name
  BY <1>1, StillAhead
<1>3. ASSUME NEW o \in Op, op'[o].status = "Pending"
      PROVE  /\ hist'[o].used <=
                  Progress(o, op'[o]) + (IF op'[o].sent THEN 1 ELSE 0)
             /\ pc' = "walk" /\ rx'.op = o /\ rx'.any =>
                  hist'[o].used <= Progress(o, op'[o])
  <2>1. /\ op[o] \in OperationState /\ op'[o] \in OperationState
        /\ hist[o] \in History
    BY <1>1 DEF OpInv
  <2>2. /\ Progress(o, op[o]) \in Int /\ Progress(o, op'[o]) \in Int
        /\ hist[o].used \in Nat
    BY <2>1, ProgressType DEF History
  <2>3. ~Advances(o) /\ pc' = "walk" /\ rx'.op = o /\ rx'.any =>
          pc = "walk" /\ rx.op = o /\ rx.any
    BY <1>1, StillWalking
  <2>4. Pending(o) =>
          /\ hist[o].used <= Progress(o, op[o]) + (IF op[o].sent THEN 1 ELSE 0)
          /\ pc = "walk" /\ rx.op = o /\ rx.any =>
               hist[o].used <= Progress(o, op[o])
    BY DEF Budgets
  <2>5. CASE op'[o] = op[o] /\ hist'[o].used = hist[o].used
    <3>1. Pending(o)
      BY <1>3, <2>5 DEF Pending
    <3>2. CASE ~Advances(o)
      BY <2>3, <2>4, <2>5, <3>1, <3>2
    <3>3. CASE Advances(o)
      <4>1. op'[o].cursor # op[o].cursor
        <5>1. pc = "stream" => op[o].cursor < rx.name
          BY <3>3 DEF Advances, Budgets, SameRun
        <5>2. op[o].cursor \in 0..Rows /\ op'[o].cursor \in 0..Rows /\ Rows \in Nat
          BY <2>1, Constants DEF OperationState
        <5>3. QED
          BY <3>3, <5>1, <5>2 DEF Advances
      <4>2. QED
        BY <2>5, <4>1
    <3>4. QED
      BY <3>2, <3>3
  <2>6. CASE Edits(o)
    <3>1. /\ Pending(o) /\ op'[o].sent = op[o].sent
          /\ Progress(o, op'[o]) = Progress(o, op[o])
      BY <1>1, <1>3, <2>6, EditFields DEF Pending, Progress
    <3>2. hist'[o].used = hist[o].used /\ pc' = pc /\ rx' = rx
      BY <1>1, <2>6, EditHistory DEF Edits
    <3>3. QED
      BY <2>4, <3>1, <3>2
  <2>7. CASE Start(o)
    <3>1. hist'[o].used = 0
      BY <1>1, <2>7, StartFields DEF NoHistory
    <3>2. pc' # "walk"
      BY <2>7 DEF Start, AppTurn, RunInv, Control
    <3>3. Progress(o, op'[o]) >= 0
      <4>1. /\ op'[o].cursor = 0 /\ op'[o].offset = 0
            /\ op'[o].batchLimit = Len(op'[o].cells) /\ Len(op'[o].cells) \in Nat
        BY <1>1, <2>7, StartFields
      <4>2. QED
        BY <4>1 DEF Progress
    <3>4. QED
      BY <2>2, <3>1, <3>2, <3>3
  <2>8. CASE Ends(o)
    BY <1>3, <2>8 DEF Ends
  <2>9. CASE Reopens(o)
    <3>1. /\ Pending(o) /\ hist'[o] = hist[o] /\ ~op'[o].sent
          /\ hist[o].used <= Progress(o, op'[o])
      BY <2>1, <2>9, ReopenPays DEF Reopens
    <3>2. QED
      BY <2>2, <3>1
  <2>10. CASE Transmits(o)
    <3>1. /\ Pending(o) /\ op'[o].sent /\ pc' # "walk"
          /\ Progress(o, op'[o]) = Progress(o, op[o])
      BY <2>10 DEF Transmits, Progress
    <3>2. hist'[o].used = IF ~op[o].sent THEN hist[o].used + 1 ELSE hist[o].used
      <4>1. op[o].sent \in BOOLEAN
        BY <2>1 DEF OperationState
      <4>2. hist'[o] = Counted(hist[o], ~op[o].sent)
        BY <2>10 DEF Transmits
      <4>3. QED
        BY <2>1, <4>1, <4>2, CountedFields
    <3>3. QED
      BY <2>2, <2>4, <3>1, <3>2
  <2>11. CASE Advances(o)
    <3>1. /\ Pending(o) /\ hist'[o] = hist[o] /\ op'[o].mode = op[o].mode
          /\ op'[o].sent = op[o].sent /\ Walking(o)
      BY <2>11 DEF Advances, Delivering, RunInv, Control
    <3>2. op[o].cursor < op'[o].cursor
      BY <2>11 DEF Advances, Delivering, Budgets, SameRun
    <3>3. op[o].cursor \in Int /\ op'[o].cursor \in Int
      <4>1. op[o].cursor \in 0..Rows /\ op'[o].cursor \in 0..Rows
        BY <2>1 DEF OperationState
      <4>2. QED
        BY <4>1, Constants
    <3>4. Progress(o, op[o]) + 1 <= Progress(o, op'[o])
      BY <3>1, <3>2, <3>3 DEF Progress
    <3>5. QED
      BY <2>2, <2>4, <3>1, <3>4
  <2>12. QED
    BY <1>1, <2>5, <2>6, <2>7, <2>8, <2>9, <2>10, <2>11, FormsOf
<1>4. QED
  BY <1>2, <1>3 DEF Budgets, Pending

LEMMA BudgetsHold == Spec => []Budgets
<1>1. Init => Budgets
  <2> SUFFICES ASSUME Init PROVE Budgets
    OBVIOUS
  <2>1. pc = "idle" /\ \A o \in Op : ~Pending(o)
    BY DEF Init, NewOperation, Pending
  <2>2. QED
    BY <2>1 DEF Budgets
<1>2. RunInv /\ Budgets /\ [Next]_vars => Budgets'
  BY BudgetsNext
<1>3. QED
  BY <1>1, <1>2, RunHolds, PTL DEF Spec

\* Whatever the agent and the network do, a run sends a new request only
\* against progress: cells settled, a smaller batch, rows walked, or the one
\* fallback from GETBULK to GETNEXT (receive(), loop(), send()).
THEOREM RequestsEarnProgress == Spec => []RequestBudget
<1>1. Budgets => RequestBudget
  BY DEF Budgets, RequestBudget, Progress
<1>2. QED
  BY <1>1, BudgetsHold, PTL

\* The requests of a run, in terms of what it asks for.
RequestsAreFew ==
  \A o \in Op : Pending(o) =>
    hist[o].used <= IF Walking(o) THEN Rows + 2 ELSE 2 * Len(op[o].cells) - 1

LEMMA FewRequests == RunInv /\ RequestBudget => RequestsAreFew
<1> SUFFICES ASSUME RunInv, RequestBudget, NEW o \in Op, Pending(o)
             PROVE  hist[o].used <= IF Walking(o) THEN Rows + 2
                                    ELSE 2 * Len(op[o].cells) - 1
  BY DEF RequestsAreFew
<1> DEFINE r == op[o]
           n == Len(r.cells)
           used == hist[o].used
<1>1. /\ r \in OperationState /\ hist[o] \in History
      /\ Framed(o, r) /\ r.status = "Pending"
  BY DEF RunInv, IInv, TypeOK, Frame, Pending
<1>2. /\ r.cursor \in 0..Rows /\ r.offset \in Nat /\ r.batchLimit \in Nat
      /\ n \in Nat /\ used \in Nat /\ Rows \in Nat
      /\ Fit[o] \in Nat
  <2>1. /\ r.cursor \in 0..Rows /\ r.offset \in Nat /\ r.batchLimit \in Nat
        /\ r.cells \in Seq(Cell)
    BY <1>1 DEF OperationState
  <2>2. used \in Nat
    BY <1>1 DEF History
  <2>3. Rows \in Nat /\ Fit[o] \in Nat
    BY Constants
  <2>4. QED
    BY <2>1, <2>2, <2>3
<1>3. CASE Walking(o)
  <2>1. used <= r.cursor
                + (IF r.mode = "next" /\ Version[o] = "v2c" THEN 1 ELSE 0)
                + (IF r.sent THEN 1 ELSE 0)
    BY <1>3 DEF RequestBudget
  <2> HIDE DEF r, used
  <2>2. used <= Rows + 2
    BY <1>2, <2>1
  <2>3. QED
    BY <1>3, <2>2 DEF used
<1>4. CASE ~Walking(o)
  <2>1. used <= r.offset + n - r.batchLimit + (IF r.sent THEN 1 ELSE 0)
    BY <1>4 DEF RequestBudget
  <2>2. r.offset < n
    BY <1>1, <1>4 DEF Framed
  <2>3. r.sent => Least(Fit[o], Least(r.batchLimit, n - r.offset)) # 0
    BY <1>1, <1>4 DEF RunInv, Batches, BatchSize, Pending
  <2> HIDE DEF r, n, used
  <2>4. r.sent => r.batchLimit # 0
    BY <1>2, <2>2, <2>3 DEF Least
  <2>5. used <= 2 * n - 1
    BY <1>2, <2>1, <2>2, <2>4
  <2>6. QED
    BY <1>4, <2>5 DEF used, n, r
<1>5. QED
  BY <1>3, <1>4

\* A query of n values makes at most 2n - 1 requests, each of which is sent at
\* most 1 + retries times, and a walk at most two more than there are rows:
\* however often batches are halved, split or refused (receive(), loop()).
THEOREM RequestsBounded == Spec => []RequestsAreFew
BY FewRequests, RunHolds, RequestsEarnProgress, PTL

-----------------------------------------------------------------------------
(***************************************************************************)
(* The client implements the contract of its header.  The contract sees    *)
(* the statuses, the completion flags and whether the client is open.      *)
(***************************************************************************)
Statuses == [o \in Op |-> op[o].status]

Notices == [o \in Op |-> op[o].completed]

\* Only begin() and the destructor of the client open and close it, and they
\* leave the operations alone.
LEMMA OpenChanges ==
  ASSUME [Next]_vars
  PROVE  begun' = begun \/ op' = op
<1>1. CASE UNCHANGED vars
  BY <1>1 DEF vars
<1>2. CASE Application
  <2>1. CASE Begin \/ DestroyClient
    BY <2>1 DEF Begin, DestroyClient
  <2>2. ASSUME NEW o \in Op, AddOID(o) \/ Configure(o) \/ Start(o) \/ Cancel(o)
        PROVE  begun' = begun
    BY <2>2 DEF AddOID, Configure, Start, Cancel
  <2>3. ASSUME NEW o \in Op, TakeCompleted(o) \/ DestroyOperation(o)
        PROVE  begun' = begun
    BY <2>3 DEF TakeCompleted, DestroyOperation
  <2>4. QED
    BY <1>2, <2>1, <2>2, <2>3 DEF Application
<1>3. CASE Call
  BY <1>3 DEF Call, Loop
<1>4. CASE Internal
  BY <1>4 DEF Internal, Return, Receive, WalkBinding, StreamContinue,
              StreamStop, Pass, PassDone, DestroySlot, Destroyed
<1>5. CASE Dead
  BY <1>5 DEF Dead, vars
<1>6. QED
  BY <1>1, <1>2, <1>3, <1>4, <1>5 DEF Next

\* While a slot is free, fewer operations are pending than there are slots:
\* each of them is in a slot of its own.
LEMMA SlotsBoundPending ==
  ASSUME IInv, NEW s \in Slot, slots[s] = None
  PROVE  Cardinality({o \in Op : Pending(o)}) < MaxPending
<1> DEFINE P == {o \in Op : Pending(o)}
           S == Slot \ {s}
           f == [t \in S |-> slots[t]]
           T == {f[t] : t \in S}
<1>1. IsFiniteSet(Slot) /\ Cardinality(Slot) = MaxPending
  BY Constants, FS_Interval
<1>2. IsFiniteSet(S) /\ Cardinality(S) = MaxPending - 1
  BY <1>1, FS_RemoveElement
<1>3. f \in Surjection(S, T)
  BY DEF Surjection
<1>4. IsFiniteSet(T) /\ Cardinality(T) <= Cardinality(S)
  BY <1>2, <1>3, FS_Surjection
<1>5. P \in SUBSET T
  <2>1. ASSUME NEW o \in Op, Pending(o) PROVE o \in T
    <3>1. PICK t \in Slot : slots[t] = o
      BY <2>1, Parts DEF OpInv, SlotAgreement
    <3>2. t \in S
      BY <3>1, Constants
    <3>3. QED
      BY <3>1, <3>2
  <2>2. QED
    BY <2>1
<1>6. Cardinality(P) <= Cardinality(T) /\ IsFiniteSet(P)
  BY <1>4, <1>5, FS_Subset
<1>7. /\ Cardinality(P) \in Nat /\ Cardinality(T) \in Nat
      /\ MaxPending \in Nat
  BY <1>4, <1>6, FS_CardinalityType, Constants
<1>8. QED
  BY <1>2, <1>4, <1>6, <1>7

\* What the contract sees when one operation changes.
LEMMA OneChanges ==
  ASSUME OpInv, OpInv', NEW o \in Op, Others(o)
  PROVE  /\ Statuses' = [Statuses EXCEPT ![o] = op'[o].status]
         /\ Notices' = [Notices EXCEPT ![o] = op'[o].completed]
BY DEF Others, Statuses, Notices

LEMMA ContractInit == Init => Contract!Init
<1> SUFFICES ASSUME Init PROVE Contract!Init
  OBVIOUS
<1>1. /\ \A o \in Op : op[o].status = "NotStarted" /\ op[o].completed = FALSE
      /\ begun = FALSE
  BY DEF Init, NewOperation
<1>2. QED
  BY <1>1 DEF Contract!Init

\* Counting means the same in the contract.
LEMMA SameCount == \A S : Contract!Cardinality(S) = Cardinality(S)
BY DEF Contract!Cardinality, Cardinality

\* An accepted start.
LEMMA StartAccepts ==
  ASSUME IInv, OpInv', NEW o \in Op, Others(o), Start(o), begun' = begun
  PROVE  Contract!Accept(o)
<1>1. OpInv
  BY Parts
<1>2. begun /\ op[o].status \notin {"Pending", "Destroyed"}
  BY DEF Start
<1>3. Contract!Cardinality(Contract!InProgress) < MaxPending
  <2>1. Contract!InProgress = {p \in Op : Pending(p)}
    BY DEF Contract!InProgress, Pending
  <2>2. PICK s \in Slot : slots[s] = None
    BY DEF Start
  <2>3. QED
    BY <2>1, <2>2, SlotsBoundPending, SameCount
<1>4. op'[o].status = "Pending" /\ op'[o].completed = FALSE
  BY <1>1, StartFields
<1>5. /\ Statuses' = [Statuses EXCEPT ![o] = "Pending"]
      /\ Notices' = [Notices EXCEPT ![o] = FALSE]
  BY <1>1, <1>4, OneChanges
<1>6. QED
  BY <1>2, <1>3, <1>5 DEF Contract!Accept, Statuses, Notices

\* The calls that neither begin a run nor end one by finish().
LEMMA EditRefines ==
  ASSUME OpInv, OpInv', NEW o \in Op, Others(o), Edits(o), begun' = begun
  PROVE  Contract!Next \/ UNCHANGED Contract!vars
<1>1. op \in [Op -> OperationState]
  BY DEF OpInv
<1>2. CASE AddOID(o) \/ Configure(o)
  <2>1. op'[o].status = op[o].status /\ op'[o].completed = op[o].completed
    BY <1>1, <1>2 DEF AddOID, Configure, OperationState
  <2>2. Statuses' = Statuses /\ Notices' = Notices
    BY <2>1 DEF Others, Statuses, Notices
  <2>3. QED
    BY <2>2 DEF Contract!vars, Statuses, Notices
<1>3. CASE TakeCompleted(o)
  <2>1. /\ op'[o].status = op[o].status /\ op'[o].completed = FALSE
        /\ op[o].completed /\ op[o].status # "Destroyed"
    BY <1>1, <1>3 DEF TakeCompleted, OperationState
  <2>2. Statuses' = Statuses
    BY <2>1 DEF Others, Statuses
  <2>3. Notices' = [Notices EXCEPT ![o] = FALSE]
    BY <2>1, OneChanges
  <2>4. Contract!Observe(o)
    BY <2>1, <2>2, <2>3 DEF Contract!Observe, Statuses, Notices
  <2>5. QED
    BY <2>4 DEF Contract!Next
<1>4. CASE DestroyOperation(o)
  <2>1. /\ op'[o].status = "Destroyed" /\ op'[o].completed = op[o].completed
        /\ op[o].status # "Destroyed"
    BY <1>1, <1>4 DEF DestroyOperation, OperationState
  <2>2. Notices' = Notices
    BY <2>1 DEF Others, Notices
  <2>3. Statuses' = [Statuses EXCEPT ![o] = "Destroyed"]
    BY <2>1, OneChanges
  <2>4. Contract!Destroy(o)
    BY <2>1, <2>2, <2>3 DEF Contract!Destroy, Statuses, Notices
  <2>5. QED
    BY <2>4 DEF Contract!Next
<1>5. QED
  BY <1>2, <1>3, <1>4 DEF Edits

LEMMA ContractNext ==
  ASSUME StopAfterCancel = FALSE, RunInv, [Next]_vars
  PROVE  [Contract!Next]_(Contract!vars)
<1>1. Step /\ IInv /\ OpInv /\ OpInv'
  BY RunNext, Parts DEF RunInv, IInv, OpInv, TypeOK
<1>2. CASE op' = op
  <2>1. Statuses' = Statuses /\ Notices' = Notices
    BY <1>2 DEF Statuses, Notices
  <2>2. begun \in BOOLEAN /\ begun' \in BOOLEAN
    BY RunNext DEF RunInv, IInv, TypeOK
  <2>3. CASE begun' = begun
    BY <2>1, <2>3 DEF Contract!vars, Statuses, Notices
  <2>4. CASE ~begun /\ begun' = TRUE
    BY <2>1, <2>4 DEF Contract!Next, Contract!Open, Statuses, Notices
  <2>5. CASE begun /\ begun' = FALSE
    BY <2>1, <2>5 DEF Contract!Next, Contract!Close, Statuses, Notices
  <2>6. QED
    BY <2>2, <2>3, <2>4, <2>5
<1>3. ASSUME begun' = begun, NEW o \in Op, Others(o),
             \/ Edits(o) \/ Start(o) \/ Ends(o) \/ Reopens(o)
             \/ Transmits(o) \/ Advances(o)
      PROVE  Contract!Next \/ UNCHANGED Contract!vars
  <2>1. CASE Edits(o)
    BY <1>1, <1>3, <2>1, EditRefines
  <2>2. CASE Start(o)
    BY <1>1, <1>3, <2>2, StartAccepts DEF Contract!Next
  <2>3. CASE Ends(o)
    <3>1. /\ op[o].status = "Pending"
          /\ op'[o].status \in Terminal /\ op'[o].completed = TRUE
      BY <2>3 DEF Ends, Pending
    <3>2. /\ Statuses' = [Statuses EXCEPT ![o] = op'[o].status]
          /\ Notices' = [Notices EXCEPT ![o] = TRUE]
      BY <1>1, <1>3, <3>1, OneChanges
    <3>3. Contract!End(o)
      BY <1>3, <3>1, <3>2 DEF Contract!End, Statuses, Notices
    <3>4. QED
      BY <3>3 DEF Contract!Next
  <2>4. CASE Reopens(o) \/ Transmits(o) \/ Advances(o)
    <3>1. op'[o].status = op[o].status /\ op'[o].completed = op[o].completed
      BY <2>4 DEF Reopens, Transmits, Advances, Pending
    <3>2. Statuses' = Statuses /\ Notices' = Notices
      BY <1>3, <3>1 DEF Others, Statuses, Notices
    <3>3. QED
      BY <1>3, <3>2 DEF Contract!vars, Statuses, Notices
  <2>5. QED
    BY <1>3, <2>1, <2>2, <2>3, <2>4
<1>4. op' = op \/ begun' = begun
  BY OpenChanges
<1>5. CASE Rests \/ \E d \in 0..MaxStall : Loop(d)
  BY <1>2, <1>5 DEF Rests, Loop
<1>6. QED
  BY <1>1, <1>2, <1>3, <1>4, <1>5 DEF Step

\* The client keeps the promises of its header: an accepted start begins a
\* run within the limit on pending requests, the run ends once with one
\* outcome that stays, its end is observed at most once, and no run begins on
\* a client that is not open (SNMPClient.h).  As for RunsEndOnce, no callback
\* returns false after it has cancelled its walk.
THEOREM ClientKeepsContract ==
  ASSUME StopAfterCancel = FALSE
  PROVE  Spec => ImplementsContract
<1>1. RunInv /\ [Next]_vars => [Contract!Next]_(Contract!vars)
  BY ContractNext
<1>2. QED
  BY <1>1, ContractInit, RunHolds, PTL
     DEF Spec, ImplementsContract, Contract!Spec
=============================================================================
