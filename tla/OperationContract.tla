------------------------- MODULE OperationContract -------------------------
(***************************************************************************)
(* What src/src/SNMPClient.h promises of the operations of one client,     *)
(* with nothing of how it is done: an accepted start begins a run, the run *)
(* ends once, with one outcome that stays until the next accepted start,   *)
(* and its end can be observed once.  At most Limit runs are in progress,  *)
(* and none starts before the client is open or after it is closed.        *)
(***************************************************************************)
EXTENDS Naturals, FiniteSets

CONSTANTS Op,       \* the operations
          Limit,    \* how many may be in progress
          Outcome   \* how a run may end

VARIABLES status,   \* "NotStarted", "Pending", an outcome or "Destroyed"
          notice,   \* a run has ended and the application has not seen it
          open      \* the client accepts work

vars == <<status, notice, open>>

InProgress == {o \in Op : status[o] = "Pending"}

Init ==
  /\ status = [o \in Op |-> "NotStarted"]
  /\ notice = [o \in Op |-> FALSE]
  /\ open = FALSE

Open == ~open /\ open' = TRUE /\ UNCHANGED <<status, notice>>

Close == open /\ open' = FALSE /\ UNCHANGED <<status, notice>>

Accept(o) ==
  /\ open
  /\ status[o] \notin {"Pending", "Destroyed"}
  /\ Cardinality(InProgress) < Limit
  /\ status' = [status EXCEPT ![o] = "Pending"]
  /\ notice' = [notice EXCEPT ![o] = FALSE]
  /\ UNCHANGED open

End(o) ==
  /\ status[o] = "Pending"
  /\ \E s \in Outcome : status' = [status EXCEPT ![o] = s]
  /\ notice' = [notice EXCEPT ![o] = TRUE]
  /\ UNCHANGED open

Observe(o) ==
  /\ status[o] # "Destroyed"
  /\ notice[o]
  /\ notice' = [notice EXCEPT ![o] = FALSE]
  /\ UNCHANGED <<status, open>>

Destroy(o) ==
  /\ status[o] # "Destroyed"
  /\ status' = [status EXCEPT ![o] = "Destroyed"]
  /\ UNCHANGED <<notice, open>>

Next ==
  \/ Open \/ Close
  \/ \E o \in Op : Accept(o) \/ End(o) \/ Observe(o) \/ Destroy(o)

Spec == Init /\ [][Next]_vars
=============================================================================
