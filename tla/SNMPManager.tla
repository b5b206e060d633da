---------------------------- MODULE SNMPManager ----------------------------
(***************************************************************************)
(* The low-level API of src/src: SNMPManager (registrations and dispatch   *)
(* of responses), ValueCallback (one registration: its reference count and *)
(* its table of requests awaiting a reply) and SNMPGet (a GET builder that *)
(* shares registrations with the manager and with other builders).         *)
(*                                                                         *)
(* An OID, a peer and a transport are members of small sets.  What a       *)
(* binding's value is to the registration it reaches is its fate:          *)
(*   "value"      of the registered type, and fits the destination         *)
(*   "unusable"   of that type but too long for the destination, or an     *)
(*                exception (noSuchObject, noSuchInstance, endOfMibView)   *)
(*   "wrongType"  of another type                                          *)
(* Any response may arrive at any time: the replies of the agents, late,   *)
(* repeated or reordered, are among them.                                  *)
(*                                                                         *)
(* A definition D_Fault is D with a plausible bug.  Nothing refers to it.  *)
(***************************************************************************)
EXTENDS Integers, Sequences, FiniteSets, SequencesExt

CONSTANTS
  Callback,       \* the ValueCallback objects the sketch ever creates
  Builder,        \* the SNMPGet objects
  Peer,           \* IPv4 addresses
  Name,           \* OIDs
  Transport,      \* UDP objects
  ID,             \* request IDs the sketch chooses
  MaxPending,     \* SNMP_MAX_PENDING_REQUESTS
  SerialModulus,  \* 2^32, the turn of an update count
  MaxListed,      \* bound: registrations in all builders together
  MaxBindings,    \* bound: bindings of a response
  Fates,          \* what values agents send, see above
  Free,           \* an entry of a request table that is not active
  None            \* no registration

Entry == 1..MaxPending
Key == [id : ID, udp : Transport, peer : Peer]
Object == [ip : Peer, oid : Name]
Binding == [name : Name, fate : Fates]

ASSUME TableAssumption ==
  /\ MaxPending \in Nat \ {0}
  /\ SerialModulus \in Nat \ {0}
  /\ Free \notin Key
  /\ None \notin Callback
ASSUME CallbackFiniteness == IsFiniteSet(Callback) /\ IsFiniteSet(Key)
ASSUME FateAssumption ==
  Fates \subseteq {"value", "unusable", "wrongType"}
ASSUME BoundAssumption == MaxListed \in Nat /\ MaxBindings \in Nat

VARIABLES
  life,       \* of each registration: "none", "live" or "freed"
  refs,       \* references
  object,     \* ip and OID
  pending,    \* the table of requests that await a reply
  tracking,   \* trackingEnabled
  awaiting,   \* requestPending, the public summary of the table
  serial,     \* updateSerial
  manager,    \* "live" or "destroyed"
  registered, \* the manager's list, in order
  builder,    \* of each SNMPGet: "none", "live" or "destroyed"
  list,       \* its registrations, in order
  pc,         \* "idle", "parse" (in parsePacket()) or "return"
  frame       \* the request just sent, or the response being dispatched; its
              \* sentFor, owed and names are history, for the properties

table == <<pending, tracking, awaiting>>
vars == <<life, refs, object, pending, tracking, awaiting, serial, manager,
          registered, builder, list, pc, frame>>

NoKey == Free
NoFrame ==
  [key |-> NoKey, sentFor |-> {}, owed |-> {}, left |-> << >>, names |-> {}]

Active(c) == {pending[c][e] : e \in Entry} \ {Free}
Live(c) == life[c] = "live"

Init ==
  /\ life = [c \in Callback |-> "none"]
  /\ refs = [c \in Callback |-> 0]
  /\ object = [c \in Callback |-> None]
  /\ pending = [c \in Callback |-> [e \in Entry |-> Free]]
  /\ tracking = [c \in Callback |-> FALSE]
  /\ awaiting = [c \in Callback |-> FALSE]
  /\ serial = [c \in Callback |-> 0]
  /\ manager = "live"
  /\ registered = << >>
  /\ builder = [b \in Builder |-> "none"]
  /\ list = [b \in Builder |-> << >>]
  /\ pc = "idle"
  /\ frame = NoFrame

-----------------------------------------------------------------------------
(***************************************************************************)
(* A registration's table of requests.                                     *)
(***************************************************************************)
HasFree(t) == \E e \in Entry : t[e] = Free
Has(t, q) == \E e \in Entry : t[e] = q

CanTrack_Always(c, q) == TRUE

CanTrack(c, q) == HasFree(pending[c]) \/ Has(pending[c], q)

\* The code takes the first free entry; which one it is makes no difference.
FreeEntry(t) == CHOOSE e \in Entry : t[e] = Free

Tracked_TakesFreeEntry(t, q) ==
  IF HasFree(t) THEN [t EXCEPT ![FreeEntry(t)] = q] ELSE t

\* track(): a request sent again keeps its entry, another takes a free one;
\* with no free entry nothing happens.
Tracked(t, q) ==
  IF Has(t, q) \/ ~HasFree(t) THEN t ELSE [t EXCEPT ![FreeEntry(t)] = q]

\* consume(): the entries of request q become free.
Consumed(t, q) == [e \in Entry |-> IF t[e] = q THEN Free ELSE t[e]]

\* The summary after consume() has gone over the table t.
SomeActive_Kept(t) == TRUE

SomeActive(t) == \E e \in Entry : t[e] # Free

\* consume(q) of every registration in S.
Consume(S, q) ==
  /\ pending' = [c \in Callback |->
       IF c \in S THEN Consumed(pending[c], q) ELSE pending[c]]
  /\ awaiting' = [c \in Callback |->
       IF c \in S THEN SomeActive(Consumed(pending[c], q)) ELSE awaiting[c]]
  /\ UNCHANGED tracking

Abandon_ForgetsTracking(S) ==
  /\ pending' = [c \in Callback |->
       IF c \in S THEN [e \in Entry |-> Free] ELSE pending[c]]
  /\ awaiting' = [c \in Callback |-> c \notin S /\ awaiting[c]]
  /\ tracking' = [c \in Callback |-> c \notin S /\ tracking[c]]

\* clearPendingRequests() of every registration in S: tracking stays on, so
\* that late replies stay unwelcome.
Abandon(S) ==
  /\ pending' = [c \in Callback |->
       IF c \in S THEN [e \in Entry |-> Free] ELSE pending[c]]
  /\ awaiting' = [c \in Callback |-> c \notin S /\ awaiting[c]]
  /\ UNCHANGED tracking

(***************************************************************************)
(* References.                                                             *)
(***************************************************************************)
Occurrences(c, s) == Cardinality({i \in DOMAIN s : s[i] = c})

\* release() for every entry of the list s; the last release deletes.
Release(s) ==
  /\ refs' = [c \in Callback |-> refs[c] - Occurrences(c, s)]
  /\ life' = [c \in Callback |->
       IF c \in ToSet(s) /\ refs[c] = Occurrences(c, s) THEN "freed"
                                                        ELSE life[c]]

-----------------------------------------------------------------------------
(***************************************************************************)
(* The sketch's calls.                                                     *)
(***************************************************************************)
\* add*Handler(): a new registration for object o, owned by the manager.
Register(c, o) ==
  /\ pc = "idle"
  /\ manager = "live"
  /\ life[c] = "none"
  /\ life' = [life EXCEPT ![c] = "live"]
  /\ refs' = [refs EXCEPT ![c] = 1]
  /\ object' = [object EXCEPT ![c] = o]
  /\ registered' = Append(registered, c)
  /\ UNCHANGED <<table, serial, manager, builder, list, pc, frame>>

\* ~SNMPManager()
DestroyManager ==
  /\ pc = "idle"
  /\ manager = "live"
  /\ manager' = "destroyed"
  /\ registered' = << >>
  /\ Release(registered)
  /\ UNCHANGED <<object, table, serial, builder, list, pc, frame>>

NewBuilder(b) ==
  /\ pc = "idle"
  /\ builder[b] = "none"
  /\ builder' = [builder EXCEPT ![b] = "live"]
  /\ UNCHANGED <<life, refs, object, table, serial, manager, registered, list,
                 pc, frame>>

\* The places of all builders' lists.
Listed == UNION {{<<b, i>> : i \in DOMAIN list[b]} : b \in Builder}

\* addOIDPointer(): the builder's list keeps a reference of its own.
AddOIDPointer(b, c) ==
  /\ pc = "idle"
  /\ builder[b] = "live"
  /\ Live(c)
  /\ Cardinality(Listed) < MaxListed
  /\ list' = [list EXCEPT ![b] = Append(@, c)]
  /\ refs' = [refs EXCEPT ![c] = @ + 1]
  /\ UNCHANGED <<life, object, table, serial, manager, registered, builder,
                 pc, frame>>

\* The registrations that builder b's list leads to.
RegistrationsOf(b) == ToSet(list[b])

\* setRequestID(), setUDP() and sendTo(): the ID and the transport are fields
\* that sendTo() alone reads.  A send that cannot be tracked is refused, and
\* one that cannot be built or transmitted (not shown) changes nothing.
SendTo(b, q) ==
  /\ pc = "idle"
  /\ builder[b] = "live"
  /\ \A c \in RegistrationsOf(b) : CanTrack(c, q)
  /\ LET S == RegistrationsOf(b)
     IN /\ pending' = [c \in Callback |->
             IF c \in S THEN Tracked(pending[c], q) ELSE pending[c]]
        /\ awaiting' = [c \in Callback |-> c \in S \/ awaiting[c]]
        /\ tracking' = [c \in Callback |-> c \in S \/ tracking[c]]
        /\ frame' = [NoFrame EXCEPT !.key = q, !.sentFor = S]
  /\ pc' = "return"
  /\ UNCHANGED <<life, refs, object, serial, manager, registered, builder,
                 list>>

\* SNMPGet::cancelPendingRequests()
CancelPendingRequests(b) ==
  /\ pc = "idle"
  /\ builder[b] = "live"
  /\ Abandon(RegistrationsOf(b))
  /\ UNCHANGED <<life, refs, object, serial, manager, registered, builder,
                 list, pc, frame>>

\* ValueCallback::clearPendingRequests()
ClearPendingRequests(c) ==
  /\ pc = "idle"
  /\ Live(c)
  /\ Abandon({c})
  /\ UNCHANGED <<life, refs, object, serial, manager, registered, builder,
                 list, pc, frame>>

\* clearOIDList() or releaseCallbacks(): pending requests stay pending.
ClearOIDList(b) ==
  /\ pc = "idle"
  /\ builder[b] = "live"
  /\ list' = [list EXCEPT ![b] = << >>]
  /\ Release(list[b])
  /\ UNCHANGED <<object, table, serial, manager, registered, builder, pc,
                 frame>>

\* ~SNMPGet()
DestroyBuilder(b) ==
  /\ pc = "idle"
  /\ builder[b] = "live"
  /\ builder' = [builder EXCEPT ![b] = "destroyed"]
  /\ list' = [list EXCEPT ![b] = << >>]
  /\ Release(list[b])
  /\ UNCHANGED <<object, table, serial, manager, registered, pc, frame>>

MoveBuilder_Copies(b, other) ==
  /\ pc = "idle"
  /\ builder[b] = "none" /\ builder[other] = "live"
  /\ builder' = [builder EXCEPT ![b] = "live"]
  /\ list' = [list EXCEPT ![b] = list[other]]
  /\ UNCHANGED <<life, refs, object, table, serial, manager, registered, pc,
                 frame>>

\* SNMPGet(SNMPGet &&other): the lists change hands, the references do not.
MoveBuilder(b, other) ==
  /\ pc = "idle"
  /\ builder[b] = "none" /\ builder[other] = "live"
  /\ builder' = [builder EXCEPT ![b] = "live"]
  /\ list' = [list EXCEPT ![b] = list[other], ![other] = << >>]
  /\ UNCHANGED <<life, refs, object, table, serial, manager, registered, pc,
                 frame>>

-----------------------------------------------------------------------------
(***************************************************************************)
(* SNMPManager::loop(): parsePacket() of one response.  A datagram that    *)
(* does not parse, is no response or has another community changes nothing.*)
(***************************************************************************)
\* A response with an error-status: every registration forgets request q.
ReceiveError(q) ==
  /\ pc = "idle"
  /\ manager = "live"
  /\ Consume(ToSet(registered), q)
  /\ UNCHANGED <<life, refs, object, serial, manager, registered, builder,
                 list, pc, frame>>

\* A response to request q with the bindings bs.
ReceiveBindings(q, bs) ==
  /\ pc = "idle"
  /\ manager = "live"
  /\ pc' = "parse"
  /\ frame' = [NoFrame EXCEPT
       !.key = q, !.left = bs, !.names = {bs[i].name : i \in DOMAIN bs},
       !.owed = {c \in Callback : q \in Active(c)}]
  /\ UNCHANGED <<life, refs, object, table, serial, manager, registered,
                 builder, list>>

\* The places in the manager's list of the registrations for OID n of the
\* peer that responds.
Candidates(n) ==
  {i \in DOMAIN registered :
     object[registered[i]] = [ip |-> frame.key.peer, oid |-> n]}

\* The first registration of some places in the list.
FirstOf(places) == IF places = {} THEN None ELSE registered[Min(places)]

\* Registration c sent the request that is being answered.
Sent(c) == tracking[c] /\ Has(pending[c], frame.key)

Chosen_FallsBack(n) ==
  LET matching == {i \in Candidates(n) : Sent(registered[i])}
  IN FirstOf(IF matching # {} THEN matching
             ELSE {i \in Candidates(n) : ~tracking[registered[i]]})

\* The registration that gets OID n: the first that sent the request; only
\* if none of them was ever tracked, the first of them.
Chosen(n) ==
  LET strict == \E i \in Candidates(n) : tracking[registered[i]]
  IN FirstOf({i \in Candidates(n) : strict => Sent(registered[i])})

\* The next binding: its registration forgets the request, whatever the
\* value is, and counts an update if it stored the value.  A value of another
\* type ends the dispatch of the response.
Dispatch ==
  /\ pc = "parse"
  /\ frame.left # << >>
  /\ LET b == Head(frame.left)
         c == Chosen(b.name)
     IN \/ /\ c = None
           /\ frame' = [frame EXCEPT !.left = Tail(@)]
           /\ UNCHANGED <<table, serial>>
        \/ /\ c # None
           /\ IF tracking[c] THEN Consume({c}, frame.key) ELSE UNCHANGED table
           /\ serial' = IF b.fate = "value"
                        THEN [serial EXCEPT ![c] = (@ + 1) % SerialModulus]
                        ELSE serial
           /\ frame' = [frame EXCEPT
                !.left = IF b.fate = "wrongType" THEN << >> ELSE Tail(@)]
  /\ UNCHANGED <<life, refs, object, manager, registered, builder, list, pc>>

Dispatched ==
  /\ pc = "parse"
  /\ frame.left = << >>
  /\ pc' = "return"
  /\ UNCHANGED <<life, refs, object, table, serial, manager, registered,
                 builder, list, frame>>

\* sendTo() or loop() returns to the sketch.
Return ==
  /\ pc = "return"
  /\ pc' = "idle"
  /\ frame' = NoFrame
  /\ UNCHANGED <<life, refs, object, table, serial, manager, registered,
                 builder, list>>

\* Everything has been destroyed.
Over ==
  /\ manager = "destroyed"
  /\ \A b \in Builder : builder[b] = "destroyed"
  /\ UNCHANGED vars

-----------------------------------------------------------------------------
Responses == UNION {[1..n -> Binding] : n \in 0..MaxBindings}

Next ==
  \/ DestroyManager \/ Dispatch \/ Dispatched \/ Return \/ Over
  \/ \E c \in Callback : \/ ClearPendingRequests(c)
                       \/ \E o \in Object : Register(c, o)
  \/ \E b \in Builder :
       \/ NewBuilder(b) \/ CancelPendingRequests(b) \/ ClearOIDList(b)
       \/ DestroyBuilder(b)
       \/ \E other \in Builder : MoveBuilder(b, other)
       \/ \E c \in Callback : AddOIDPointer(b, c)
       \/ \E q \in Key : SendTo(b, q)
  \/ \E q \in Key :
       \/ ReceiveError(q)
       \/ \E bs \in Responses : ReceiveBindings(q, bs)

Spec == Init /\ [][Next]_vars
=============================================================================
