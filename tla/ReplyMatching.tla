--------------------------- MODULE ReplyMatching ---------------------------
(***************************************************************************)
(* What the low-level API promises of replies (MIGRATION.md, and           *)
(* ValueCallbacks.h): a registration is owed a reply to each request sent  *)
(* for it, up to a limit.  A reply that is owed is taken once, and may     *)
(* bring a value.  Requests may be abandoned.  A registration for which a  *)
(* request was ever sent takes no reply that it is not owed.               *)
(***************************************************************************)
EXTENDS Naturals, FiniteSets

CONSTANTS Registration, Request, Limit

VARIABLES
  owed,    \* the requests each registration is owed a reply to
  strict,  \* was a request ever sent for it?
  fresh    \* a count that changes when a value arrives

vars == <<owed, strict, fresh>>

Init ==
  /\ owed = [r \in Registration |-> {}]
  /\ strict = [r \in Registration |-> FALSE]
  /\ fresh = [r \in Registration |-> 0]

\* Request q is sent for all of S: none of them may be beyond its limit.
Ask(S, q) ==
  /\ \A r \in S : Cardinality(owed[r] \cup {q}) <= Limit
  /\ owed' = [r \in Registration |-> IF r \in S THEN owed[r] \cup {q}
                                                ELSE owed[r]]
  /\ strict' = [r \in Registration |-> r \in S \/ strict[r]]
  /\ UNCHANGED fresh

\* Only r may change its count.
Touches(r) == \A s \in Registration \ {r} : fresh'[s] = fresh[s]

\* The reply to q reaches r, with or without a value it can use.
Answer(r, q) ==
  /\ q \in owed[r]
  /\ owed' = [owed EXCEPT ![r] = @ \ {q}]
  /\ Touches(r)
  /\ UNCHANGED strict

\* An error reply to q: none of S is owed it any more.
Refuse(S, q) ==
  /\ owed' = [r \in Registration |-> IF r \in S THEN owed[r] \ {q}
                                                ELSE owed[r]]
  /\ UNCHANGED <<strict, fresh>>

Abandon(S) ==
  /\ owed' = [r \in Registration |-> IF r \in S THEN {} ELSE owed[r]]
  /\ UNCHANGED <<strict, fresh>>

\* An update that nobody asked for.
Unsolicited(r) ==
  /\ ~strict[r]
  /\ Touches(r)
  /\ UNCHANGED <<owed, strict>>

Next ==
  \/ \E S \in SUBSET Registration :
       \/ Abandon(S)
       \/ \E q \in Request : Ask(S, q) \/ Refuse(S, q)
  \/ \E r \in Registration :
       \/ Unsolicited(r)
       \/ \E q \in Request : Answer(r, q)

Spec == Init /\ [][Next]_vars
=============================================================================
