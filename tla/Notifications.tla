---------------------------- MODULE Notifications ----------------------------
(***************************************************************************)
(* SNMPClient::notify(): traps and INFORMs from an agent, the sketch's     *)
(* handler and the values it keeps.  The agent sends an INFORM again until *)
(* it is acknowledged; datagrams are lost, repeated and reordered, and     *)
(* memory may run out.                                                     *)
(***************************************************************************)
EXTENDS Messages, SNMPValue

CONSTANTS
  Event,          \* what the agent reports, at most MaxSends times in all
  MessageOf,      \* the decoded message of each event
  Community,      \* the communities the sketch may register
  Genuine,        \* the events that are notifications of a community, with it
  Settings,       \* octets the sketch sets a value to
  MaxSends

ASSUME NotificationAssumption ==
  /\ MaxSends \in Nat
  /\ Genuine \subseteq [event : Event, community : Community]
  /\ Settings \subseteq Seq(Nat)

VARIABLES
  community,      \* registered by notifications(), or None without a handler
  handling,       \* the event whose handler runs, or None
  under,          \* history: the community it was called under, or None
  accepted,       \* what a handler accepted, and under which community
  toClient, toAgent, acknowledged, sends,
  expected        \* the octets the sketch knows it put in each value

vars == <<heap, holds, community, handling, under, accepted, toClient, toAgent,
          acknowledged, sends, expected>>

client == <<community, handling, under, accepted>>
network == <<toClient, toAgent, acknowledged, sends>>
values == <<heap, holds, expected>>

Init ==
  /\ ValuesInit
  /\ community = None
  /\ handling = None /\ under = None
  /\ accepted = {}
  /\ toClient = {} /\ toAgent = {}
  /\ acknowledged = {}
  /\ sends = 0
  /\ expected = [v \in Value |-> << >>]

IsInform(e) == PDU(MessageOf[e]).type = "InformRequest"

\* The decoded request with its PDU retagged.
Acknowledgement(m) == [m EXCEPT !.kids[3].type = "GetResponse"]

\* The agent tells its INFORMs apart, by their request IDs or their bindings.
ASSUME InformsAreDistinct ==
  \A e, f \in Event :
    IsInform(e) /\ IsInform(f)
      /\ Acknowledgement(MessageOf[e]) = Acknowledgement(MessageOf[f]) => e = f

-----------------------------------------------------------------------------
(***************************************************************************)
(* The agent and the network.                                              *)
(***************************************************************************)
AgentSends(e) ==
  /\ e \notin acknowledged
  /\ sends < MaxSends
  /\ toClient' = toClient \cup {e}
  /\ sends' = sends + 1
  /\ UNCHANGED <<toAgent, acknowledged, client, values>>

Lose(e) ==
  /\ e \in toClient
  /\ toClient' = toClient \ {e}
  /\ UNCHANGED <<toAgent, acknowledged, sends, client, values>>

AgentReceives(e) ==
  /\ IsInform(e)
  /\ Acknowledgement(MessageOf[e]) \in toAgent
  /\ acknowledged' = acknowledged \cup {e}
  /\ UNCHANGED <<toClient, toAgent, sends, client, values>>

-----------------------------------------------------------------------------
(***************************************************************************)
(* The client.  A datagram may arrive and stay in the network: a           *)
(* duplicate.  One that receive() or notify() does not pass on is ignored, *)
(* as it is when decoding it or reading its two first bindings fails for   *)
(* want of memory.                                                         *)
(***************************************************************************)
\* notifications() with a handler for community c, or with none: c is None.
Register(c) ==
  /\ community' = c
  /\ UNCHANGED <<handling, under, accepted, network, values>>

Passes(m) == community # None /\ IsNotification(m, community)

Notify(e, again, memory) ==
  /\ handling = None
  /\ e \in toClient
  /\ toClient' = IF again THEN toClient ELSE toClient \ {e}
  /\ IF Passes(MessageOf[e]) /\ memory
       THEN handling' = e /\ under' = community
       ELSE UNCHANGED <<handling, under>>
  /\ UNCHANGED <<community, accepted, toAgent, acknowledged, sends, values>>

\* The octets that copyValue() finds in a binding: none in a number.
BindingOctets(v) ==
  IF v.type = "OID" THEN v.arcs
  ELSE IF v.type \in {"Octets", "Opaque", "Address"} THEN v.octets ELSE << >>

\* The decoder makes sequences of numbers.
ASSUME MessagesAreDecoded ==
  \A e \in Event : \A i \in 1..3 :
    i <= Len(Bindings(MessageOf[e])) =>
      BindingOctets(Bindings(MessageOf[e])[i].kids[2]) \in Seq(Nat)

\* notification.read(i, v) in the handler clears v and copies the binding.
HandlerReads(i, v) ==
  LET b == Bindings(MessageOf[handling])
  IN  /\ handling # None
      /\ i <= Len(b)
      /\ \/ /\ SetBytes(v, Caller(BindingOctets(b[i].kids[2])))
            /\ expected' = [expected EXCEPT ![v] = BindingOctets(b[i].kids[2])]
         \/ Clear(v) /\ expected' = [expected EXCEPT ![v] = << >>]
      /\ UNCHANGED <<client, network>>

Acknowledges_Always(e, accepts) == IsInform(e)
Acknowledges(e, accepts) == accepts /\ IsInform(e)

\* The handler returns, and an acknowledgement may fail to be sent.
HandlerReturns(accepts, sent) ==
  /\ handling # None
  /\ handling' = None /\ under' = None
  /\ accepted' = IF accepts
                   THEN accepted \cup {[event |-> handling, community |-> under]}
                   ELSE accepted
  /\ toAgent' = IF Acknowledges(handling, accepts) /\ sent
                  THEN toAgent \cup {Acknowledgement(MessageOf[handling])} ELSE toAgent
  /\ UNCHANGED <<community, toClient, acknowledged, sends, values>>

-----------------------------------------------------------------------------
(***************************************************************************)
(* The sketch, in the handler or outside.                                  *)
(***************************************************************************)
SketchDestroys(v) ==
  /\ Clear(v)
  /\ expected' = [expected EXCEPT ![v] = << >>]
  /\ UNCHANGED <<client, network>>

SketchAssigns(v, w) ==
  /\ Assign(v, w)
  /\ expected' = [expected EXCEPT ![v] = expected[w]]
  /\ UNCHANGED <<client, network>>

SketchSets(v, octets) ==
  /\ \/ /\ SetBytes(v, Caller(octets))
        /\ expected' = [expected EXCEPT ![v] = octets]
     \/ SetBytesFails /\ UNCHANGED expected
  /\ UNCHANGED <<client, network>>

\* setBytes() with a part of what a value holds already, itself perhaps.
SketchSetsPart(v, w, offset) ==
  /\ holds[w] # None
  /\ SetBytes(v, Part(holds[w], offset))
  /\ expected' = [expected EXCEPT ![v] = SubSeq(expected[w], offset + 1, Len(expected[w]))]
  /\ UNCHANGED <<client, network>>

Next ==
  \/ \E e \in Event : AgentSends(e) \/ Lose(e) \/ AgentReceives(e)
  \/ \E c \in Community \cup {None} : Register(c)
  \/ \E e \in Event, again, memory \in BOOLEAN : Notify(e, again, memory)
  \/ \E i \in 1..3, v \in Value : HandlerReads(i, v)
  \/ \E accepts, sent \in BOOLEAN : HandlerReturns(accepts, sent)
  \/ \E v \in Value : \/ SketchDestroys(v)
                      \/ \E octets \in Settings : SketchSets(v, octets)
                      \/ \E w \in Value : \/ SketchAssigns(v, w)
                                          \/ \E n \in 0..1 : SketchSetsPart(v, w, n)

Spec == Init /\ [][Next]_vars

-----------------------------------------------------------------------------
(***************************************************************************)
(* Properties.                                                             *)
(***************************************************************************)
\* A payload's count is the number of values that hold it, so that no value
\* holds a freed payload and none that is unreachable stays allocated:
\* copies, self-assignments, replacements and failed ones in any order
\* (SNMPValue's constructors, operator=, setBytes() and release()).
PayloadsCounted ==
  \A p \in Payload : heap[p].refs = Cardinality({v \in Value : holds[v] = p})

\* Every value has the octets that were last put in it: a change of one never
\* shows in a copy, in whichever order they are copied, replaced and destroyed,
\* and its data may be part of the payload it replaces (SNMPValue::setBytes(),
\* operator=).
ValuesKeepTheirBytes == \A v \in Value : Bytes(v) = expected[v]

\* The agent stops repeating an INFORM only after a handler accepted it, and
\* the acknowledgement is the INFORM's own request, with its ID and bindings
\* (notify()).
AcknowledgedIsAccepted ==
  /\ \A m \in toAgent : \E x \in accepted :
       IsInform(x.event) /\ m = Acknowledgement(MessageOf[x.event])
  /\ acknowledged \subseteq {x.event : x \in accepted}

\* What a handler accepts was a notification of the community registered at
\* the time the handler was called: a message with anything wrong in it, of a
\* community registered before or after, or of one that never was, reaches no
\* handler (the checks of notify(), and notifications()).
OnlyNotificationsAccepted == accepted \subseteq Genuine
=============================================================================
