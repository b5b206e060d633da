----------------------- MODULE SNMPManagerProperties -----------------------
(***************************************************************************)
(* What the low-level API must satisfy, for src/src/ValueCallbacks.cpp,    *)
(* SNMPGet.cpp and Arduino_SNMP_Manager.cpp.                               *)
(***************************************************************************)
EXTENDS SNMPManager

Frames ==
  [key : Key \cup {NoKey}, sentFor : SUBSET Callback, owed : SUBSET Callback,
   left : Seq(Binding), names : SUBSET Name]

\* Reference counts never become negative (release()).
ManagerTypeOK ==
  /\ life \in [Callback -> {"none", "live", "freed"}]
  /\ refs \in [Callback -> Nat]
  /\ object \in [Callback -> Object \cup {None}]
  /\ pending \in [Callback -> [Entry -> Key \cup {Free}]]
  /\ tracking \in [Callback -> BOOLEAN]
  /\ awaiting \in [Callback -> BOOLEAN]
  /\ serial \in [Callback -> 0..(SerialModulus - 1)]
  /\ manager \in {"live", "destroyed"}
  /\ registered \in Seq(Callback)
  /\ builder \in [Builder -> {"none", "live", "destroyed"}]
  /\ list \in [Builder -> Seq(Callback)]
  /\ pc \in {"idle", "parse", "return"}
  /\ frame \in Frames

-----------------------------------------------------------------------------
Holders(c) ==
  Cardinality({i \in DOMAIN registered : registered[i] = c})
  + Cardinality({l \in Listed : list[l[1]][l[2]] = c})

\* A registration lives exactly as long as a list holds it, and its reference
\* count is the number of places that do: no list ever leads to freed memory,
\* and none is leaked, in whatever order manager and builders are cleared,
\* moved and destroyed (retain, release).
ReferencesAccounted ==
  \A c \in Callback :
    /\ Live(c) <=> Holders(c) > 0
    /\ refs[c] = Holders(c)

\* The public summary requestPending says whether any entry of the table is
\* active, and only a registration that was tracked has one: a poller that
\* waits for requestPending neither stops early nor waits for ever.
SummaryAgrees ==
  \A c \in Callback :
    /\ awaiting[c] <=> Active(c) # {}
    /\ awaiting[c] => tracking[c]

\* Type invariant: the types, which the summary of the table agrees with.
ManagerInv == ManagerTypeOK /\ SummaryAgrees

\* No request has two entries of one table, so that one reply frees all that
\* the request occupied and a request sent again costs no second entry.
EntriesDiffer ==
  \A c \in Callback : \A e, f \in Entry :
    pending[c][e] = pending[c][f] /\ pending[c][e] # Free => e = f

\* When sendTo() has sent a request, every registration of the builder awaits
\* its reply: track() finds room, canTrack() having been asked before.
SendsAreTracked ==
  pc = "return" => \A c \in frame.sentFor : frame.key \in Active(c)

\* A late or repeated reply is dropped: an update that answers no tracked
\* request goes only to an object none of whose registrations was ever
\* tracked (parsePacket(), "do not route an unmatched late reply").
LateRepliesAreDropped ==
  [][\A c \in Callback :
       serial'[c] # serial[c] /\ frame.key \notin Active(c) =>
         \A i \in DOMAIN registered :
           object[registered[i]] = object[c] => ~tracking[registered[i]]]_vars

\* MIGRATION.md:85, "Matching replies consume their slots": once a response
\* that names just what a request asked for has been dispatched, none of the
\* registrations that sent it waits for it.  (Two registrations of one object
\* need two bindings, and are left out.)
MatchingRepliesConsume ==
  LET objects == {object[c] : c \in frame.owed}
      matches == /\ objects = [ip : {frame.key.peer}, oid : frame.names]
                 /\ Cardinality(objects) = Cardinality(frame.owed)
                 /\ frame.owed \subseteq {registered[i] : i \in DOMAIN registered}
  IN pc = "return" /\ matches =>
       \A c \in frame.owed : frame.key \notin Active(c)

Matching == INSTANCE ReplyMatching WITH
  Registration <- Callback,
  Request <- Key,
  Limit <- MaxPending,
  owed <- [c \in Callback |-> Active(c)],
  strict <- tracking,
  fresh <- serial

\* The tables implement the sets of requests each registration is owed a
\* reply to.
ImplementsMatching == Matching!Spec
=============================================================================
