# Verification of the SNMP manager library

TLA+ modules, TLC runs and TLAPS proofs for the C++ library under `src/src/`
(Arduino SNMP Manager 2.x: SNMPv1 and v2c over UDP on ESP8266 and ESP32).

## 1. Inventory

The library is cooperative: nothing runs unless the sketch calls it.  There are
no threads and no persistence.  What makes it hard is that the sketch acts in
two places, between calls of `loop()` and *inside* the callbacks `loop()` makes,
that UDP loses, repeats, delays and reorders datagrams, and that the 32-bit
millisecond clock wraps.

| Component | State | Operations | Must be true |
|---|---|---|---|
| **Query engine** `SNMPClient.*`: `SNMPClient`, `SNMPOperation`, `SNMPQuery`, `SNMPSet`, `SNMPWalk`, `SNMPDevice` | per operation: status, completed flag, result cells, offset, batch, batch limit, mode, cursor, ID, attempts, times; per client: `pending_` slots, `begun_`, `nextID_` | `begin`, `addOID`/`addValue`, `configure`, `start`, `cancel`, `takeCompleted`, `loop` (receive one datagram, then a pass that sends, retries, times out), destructors, completion and stream callbacks | slots hold exactly the pending operations; a run ends once and its end is seen once; replies reach only the run that asked; SET is sent once and whole; walks increase; timeouts are neither early nor lost; every run ends |
| **Notifications** `SNMPClient.cpp` `notify()` | community, handler | parse a trap or INFORM, call the handler, acknowledge | an INFORM is acknowledged only after it is accepted |
| **Owned values** `SNMPValue` | reference-counted payload | copy, assign, `setBytes`, destroy | payload freed once, never while referenced; a change of one value never shows in another |
| **Legacy manager** `Arduino_SNMP_Manager.*` | list of registrations, transport | `add*Handler`, `addHandler`, `loop`/`parsePacket`, `setUDP`, destructor | a reply updates only the registration that asked, once |
| **Registrations** `ValueCallbacks.*` | reference count, table of pending requests, summary, update count | `track`, `canTrack`, `consume`, `matches`, `clearPendingRequests`, `retain`, `release` | summary agrees with the table; no late or repeated reply is accepted |
| **GET builder** `SNMPGet.*` | list of registrations, request ID, transport | `addOIDPointer`, `sendTo`, `clearOIDList`, `cancelPendingRequests`, move, destructor | a send is tracked by all its registrations or by none |
| **Response parser** `SNMPGetResponse.*`, `VarBinds.*` | decoded tree, list of bindings | `parseFrom`, destructor | accepts exactly the well-formed replies; owns what it allocates, whichever allocation fails |
| **BER codec** `BER.*` | the tree being decoded | encode and decode each type, nesting, lengths | decode of encode is the value; never reads past a container; ends; leaks nothing |
| **Tables** `SNMPTable.h` | columns, rows, column and fallback in turn, one streaming walk | `addColumn`, `start`, `cancel`, `takeCompleted`, `consume`, `advance` | rows are joined by the whole index; valid cells stay; the outcome is true; pending exactly while the walk is |
| **UDP helper** `SNMPUDP.h` | none | discard a datagram | the socket is drained |
| **MIB helpers** `SNMPMIB.*`, configuration, protocol constants | none | static tables | no behaviour |

Interactions: the client owns the socket and calls into operations; operations
call back into the client (`schedule`, `remove`) and into the sketch
(`onComplete`, `stream`); a table is a client of one walk or query; the manager
and the GET builder share registrations by reference count, and meet only
through the request table of each registration.

## 2. Modules

| Module | Contents |
|---|---|
| `SNMPClient.tla` | the query engine: state, one action per call, handler and step of `loop()` |
| `SNMPClientProperties.tla` | its type invariant, inductive invariant, safety, action and liveness properties |
| `OperationContract.tla` | the abstract specification: what `SNMPClient.h` promises of an operation |
| `MCSNMPClient.tla`, `SNMPClient_<run>.cfg` | instances for TLC |
| `SNMPClientProofs.tla` | the inductive invariant of the query engine and its proof |
| `SNMPClientRunProofs.tla` | extends it: how runs end, what is sent for them, and the contract of operations |
| `SNMPClientResultProofs.tla` | extends that: what results hold, and timeouts |
| `SNMPManager.tla` | the low-level API: manager, registrations and GET builders, one action per call, and `parsePacket()` binding by binding |
| `SNMPManagerProperties.tla` | its type invariant, safety and action properties |
| `ReplyMatching.tla` | the abstract specification: which replies a registration is owed and may take |
| `MCSNMPManager.tla`, `SNMPManager_<run>.cfg` | instances for TLC |
| `SNMPManagerProofs.tla` | theorems of request tables, references and dispatch, and the refinement of `ReplyMatching` |
| `SNMPTable.tla`, `SNMPTableProperties.tla`, `MCSNMPTable.tla`, `SNMPTableProofs.tla` | table reads over a walk, their properties, instance and theorems |
| `BER.tla` | the codec as operators: framing, contents and acceptance of every type |
| `Messages.tla` | the shapes of messages, shared by the parser of replies and the handler of notifications |
| `BERProofs.tla` | theorems of the codec: what is written is read back, what is read can be written |
| `SNMPGetResponse.tla`, `SNMPGetResponseProperties.tla`, `MCSNMPGetResponse.tla` | the decoder call by call and `parseFrom()`, with failing allocations |
| `SNMPGetResponseProofs.tla` | extends `BERProofs`: theorems of the parser and of whole messages |
| `SNMPValue.tla` | values that share counted payloads |
| `Notifications.tla`, `MCNotifications.tla`, `NotificationsProofs.tla` | agent, network, `notify()`, handler and the values it keeps; composes `Messages` and `SNMPValue` |

`OperationContract` is used twice: `SNMPClient` implements it, and so does
`SNMPTable`, which in turn assumes of its walk no more than the contract gives
(increasing indices, then one end, of any kind, at any time).  `Messages` extends
`BER`, and `SNMPGetResponse` and `Notifications` extend `Messages`.

The query engine and the low-level API do not interact: each owns its own
socket, and a sketch uses one or the other.  A definition `D_Fault` in a module
is `D` with a plausible bug, used to see that the properties can fail; nothing
refers to it.

### How `SNMPClient.tla` corresponds to the code

*Operations.*  `op[o]` is the record of an `SNMPOperation`'s fields; `cells` are
`results_[0..count_-1]`.  `slots` is `pending_`, `k` the iterator of the two
loops over it, `pc` the place in `loop()` or in the destructor.

*Callbacks.*  `active` is the set of operations whose handler is running (or
`None`, for the notification handler).  While it is not empty the sketch has the
control (`AppTurn`): it may add, start, cancel, take, destroy, exactly as
between two calls of `loop()`, but not re-enter `loop()` nor destroy the
operation whose handler runs, which the header forbids.  In the code nothing
follows a `finish()` but a return or the next slot, so the rest of `receive()`
and of the pass simply waits until `active` is empty.  The stream callback is
different: code follows it, and that code is `StreamContinue` and `StreamStop`.

*Data.*  An OID below a root is a number, the order that `compareOID` decides;
0 is the root and `Rows + 1` stands for every OID past the subtree.  A value is
the identity of the request whose reply brought it, which is what the
properties tell apart.  `copyValue` and the type check are a choice from
`CellOutcomes`.  What fits in a packet is `Fit`, per operation.

*Network.*  `wire` holds every request ever sent.  Each call of `loop()` may
receive nothing, a notification, or a reply to any of them, with any error
status and any bindings; so replies are lost, repeated, delayed and reordered.
`Strays` are replies with a live ID from a device that was not asked.

*Time.*  `Loop(d)` is a call `d` milliseconds after the previous one, and the
clock is a number modulo `ClockModulus`.  `ClockAssumption` says that a timeout
plus the longest stall stays below one turn of the clock, which unsigned
subtraction needs.

*History.*  `hist` and `wire` are read by no guard of the code: they count
transmissions, ends and true elapsed time for the properties.

### How `SNMPManager.tla` corresponds to the code

*Registrations.*  `refs`, `pending`, `tracking`, `awaiting` and `serial` are the
fields `references`, `pending[]`, `trackingEnabled`, `requestPending` and
`updateSerial` of a `ValueCallback`; `life` is its allocation.  `registered` and
`list[b]` are the linked lists of the manager and of the builder `b`; a list
holds one reference per entry, and `Release` gives a whole list's back.

*Requests.*  A request is `[id, udp, peer]`, what `track()` stores and
`matches()` compares.  The ID and the transport of a builder are parameters of
`SendTo` rather than variables, because `sendTo()` is the only operation that
reads them and the setters may be called before each send.  The same holds of
the manager's transport and `loop()`.  The expected ID, transport and peer of
the latest send (`expectedRequestID` and the others) are never read.

*Responses.*  Any response with up to `MaxBindings` bindings may arrive at any
time, so the answers of agents, late, repeated, reordered or malformed, are all
among them.  `Dispatch` is one turn of the loop over the bindings.  A value is
its *fate* at the registration it reaches: stored, unusable (an exception, or
too long for the destination), or of another type.  The search for the
registration that a binding reaches is the first of a set of places in the
list.  The action that ends a call leaves its request or response in
`frame` until `Return`; its fields `sentFor`, `owed` and `names` are history.

### How `SNMPTable.tla` corresponds to the code

`table` holds the fields of an `SNMPTableRead`, `rows` is `rows_` as a function of
the index, `walk` the status, root and last index of `walk_`.  `Deliver` and
`Overflow` are a binding for which `consume()` returns true or false; `Advance` is
the completion handler, and it is part of whatever action ends the walk: the
walk's own end, a refused binding, `cancel()`, or the client's destructor.  An
index is its rank; `TooLong` are those that do not fit `IndexCapacity`.  The
order of discovery of rows is left out.  A column walk that the device's
settings make invalid is refused inside the handler (`WalkOn`): SNMPClient.h:208
forbids changing them while an operation is pending, but only so are the error
paths of `advance()` reached.  `hist` is history.

### How the codec and the parser correspond to the code

`calls` is the stack of active `decode()` calls and `lists` what each has decoded
so far; each turn of the loop in `decode()` is an action, with the outcomes of
`new (std::nothrow)` as its parameters, and a failure unwinds call by call.
`varBinds` counts the list nodes and names the bindings that have wrappers;
metadata fields such as `requestID` are functions of the tree and not kept.
`live` counts allocated blocks and is changed where the code allocates or
deletes; `blocks` in an object is what its destructor deletes.  OIDs are
sequences of arcs rather than dotted text, whose length alone matters
(`TextLength`).  Octets have `Base` values.

### How `Notifications.tla` and `SNMPValue.tla` correspond to the code

A datagram is named by its event and decoded by `MessageOf`; `Notify` has all of
the checks of `notify()`.  `community` is the copied community, and None when no
handler is set, which `receive()` tests before it calls `notify()`.  While
`handling` is set the handler runs and the sketch acts inside it; `under` is a
history variable, the community it was called under, and goes into `accepted` with
the event, so that a registration made meanwhile does not hide under which one a
notification was passed on.  The acknowledgement is the decoded request with its
PDU retagged.  `heap[p].refs` is `Payload::references`; a freed payload has octets
that no value has, so that any use of it shows.  Types and numbers of values are
left out, and `SetBytesFails` is every refusal and failed allocation.

## 3. Runs
* **reads_v2c** (pass; `IInv`, `BatchesInOrder`, `OutcomeIsHonest`, `RequestBudget`, `CellsSettleOnce`). A v2c query of up to three cells, two to a packet: whatever the agent answers or loses, its batches fill in order and once, it makes at most 2n - 1 requests and it ends with a true summary; the inductive invariant of the proofs, which joins the types with the scheduler's agreement, holds.
* **reads_v1** (pass; `RequestIdentity`, `EveryRunEnds`). A v1 query of up to three cells that is split by noSuchName, tooBig and loss and retransmitted: an ID never names two different requests, and with loop() called for ever on an advancing clock the query ends, however its batches are sent again, halved and split.
* **two_slots** (pass; `SlotAgreement`, `ValuesBelongToRun`, `Retransmissions`). A query and a SET of two devices in two slots, cancelled, destroyed and restarted between and inside passes: the slots hold exactly the pending operations, every value came from a reply to the run that holds it, and the SET is transmitted once and whole while the query is retried.
* **walk** (pass; `WalkInOrder`, `TimeoutsAreServed`, `NoEarlyTimeout`). A collecting walk over GETBULK and GETNEXT with losses, retries and room for two of three rows, on a clock that wraps: rows are in order and never repeated, no pass leaves a request or a walk past its time, and none gives up before it.
* **stream_and_query** (pass; `EndsOnce`, `TakenOnce`, `DestructorDrains`, `RunStartsAtRoot`, `ImplementsContract`). A query and a streaming walk compete for one slot and act inside each other's callbacks: every run ends once, is reported once, the destructor leaves nothing pending, and the client implements the contract of its header.
* **every_run_ends** (pass; `EveryRunEnds`). With loop() called for ever on an advancing clock, every accepted query or v1 walk ends although both want the only slot and no reply need ever come.
* **stop_after_cancel** (violation; `TakenOnce`). A stream callback that cancels its walk and then returns false: the walk ends twice and takeCompleted() is true twice for one run.

* **low_level** (pass; `ManagerInv`, `ReferencesAccounted`, `EntriesDiffer`, `SendsAreTracked`, `LateRepliesAreDropped`, `ImplementsMatching`). Two registrations shared by a manager and two builders, which are cleared, moved and destroyed in any order while responses arrive: nothing is leaked or used after it is freed, the summary agrees with the table, a send is tracked by all of its registrations, a late or repeated reply updates nothing, and the tables implement `ReplyMatching`.
* **type_mismatch** (violation; `MatchingRepliesConsume`). A matching reply whose first value has another type: the registrations of the later bindings stay pending.
* **columns** (pass; `TableInv`, `RowsJoined`, `OutcomeIsHonest`, `CellsStay`, `EveryTableEnds`, `ImplementsContract`). A table of two columns, polled twice, over a walk that may deliver, fail, run out of room, be cancelled or be refused at any time: rows are joined by their index and never mix polls, valid cells stay, the outcome is true, every table ends, and a table keeps the contract of an operation.
* **replies** (pass; `ParserInv`, `NothingLeaks`, `DecodesTheMessage`, `Reserialises`, `ParseEnds`). Every datagram of up to six octets over an alphabet of interesting ones, and serialised messages of every type and with every fault, on a new or a used parser, with an allocation failing anywhere: the decoder stays inside its octets, leaks nothing, ends, reads back what was serialised, and accepts exactly the valid replies.
* **informs** (pass; `PayloadsCounted`, `ValuesKeepTheirBytes`, `AcknowledgedIsAccepted`, `OnlyNotificationsAccepted`). Four genuine notifications of two communities, one of a community that the sketch never registers (and that begins like one it does) and eleven with one thing wrong, lost, repeated, refused and unreadable, to a handler whose values share payloads and whose sketch changes or drops the registration at any time: only the genuine ones are accepted, each under its own community, an agent stops repeating only what was accepted, and no value loses or changes its octets.

### Bounds

* One or two operations and one or two slots: every hazard of the scheduler
  involves at most an operation whose callback runs and one that competes for
  its slot.
* Up to three cells with two or three to a packet: an uneven last batch, a
  halving and a split to single bindings all occur.  Three rows and
  room for two: a walk collects rows from one reply and from several, and meets the
  end of its subtree, its capacity between two replies and in the middle of one.
* `MaxID` is 2 to 5, so IDs run out in every run; reaching it models INT32_MAX.
* Clocks wrap at 2 or 4 and timeouts are 1 to 3, so every run crosses the wrap.
* Two registrations, tables of two entries, three request IDs, two OIDs of one
  peer: two registrations of one object, two outstanding requests of one
  registration, a full table and a mixed response all occur.  `MaxListed` 2
  bounds the entries of all builders' lists together, and allows a registration
  to be listed twice.  `SerialModulus` 2 lets the update count wrap at once.
  Registrations, builders, OIDs and IDs are symmetric: no property names one, and no
  temporal property but safety is checked with them.
* Tables: two columns out of three (one plain, one of strings, one with a
  fallback of another type), two rows over three indices of which one is too
  long, so sparse columns, gaps, both overflows and a fallback for a part of the
  rows occur; two starts, so cells of an earlier poll could show.
* Codec: `Base` 16 with words of two octets and unsigned longs of three keeps every
  boundary of the source (a sign bit, a long length, one and two length octets,
  a number wider than its type) and reaches it with small numbers.  Datagrams have at most
  six octets when they are arbitrary, and are serialised messages otherwise;
  `MaxDepth` 5 is met by a message that is one value deeper than a reply.
  `Again` has two datagrams for a used parser: a valid one and a broken one.
* Notifications: two values and three payloads, one more than values can hold,
  so that a replacement never waits; octet strings of up to two octets, and one
  that is too long; two datagrams in all (`MaxSends`), which a repetition and a
  crossing both need.
* `Retries` 0 or 1 tells "may retry" from "may not".

### Fairness

`every_run_ends` assumes weak fairness of the steps that happen by themselves
once `loop()` was called (`Internal`: callbacks return, the pass goes on) and
strong fairness of "`loop()` is called with a later clock".  Both are what the
documentation asks of a sketch: call `loop()` for ever.  `reads_v1` assumes
the same for a query alone: a run that splits three cells needs four IDs, and its
first one has them.  The walk of `every_run_ends` is a v1 walk; that a GETBULK walk is
not left past its deadline, through retries and its fallback, is `TimeoutsAreServed`
of *walk*, a safety property.  No fairness is assumed of the network or of the application.

`columns` assumes that a walk goes on or ends (`WF(WalkStep)`), which is what
`every_run_ends` shows of the client below it, and that a destructor that has begun
finishes.  Its run allows deadlock: a sketch may destroy its client, or use up
its starts.  `replies` assumes that `parseFrom()` runs to its end once called
(`WF(Step)`): it is one call on one thread.

### Findings

`stop_after_cancel`: a stream callback may cancel its walk (SNMPClient.h:487)
and may return false.  If it does both, `receive()` ends a run that has already
ended: status, completion handler and completed flag are all given twice.  The
other runs therefore set `StopAfterCancel = FALSE`.

`type_mismatch`: `parsePacket()` returns at the first binding whose type is not
the registered one (Arduino_SNMP_Manager.cpp:237).  The bindings after it are
not dispatched, and their registrations go on waiting for a reply that has come
already, although "Matching replies consume their slots" (MIGRATION.md:85).
`cancelPendingRequests()` frees the slots.

## 4. Proofs

Every invariant, action property and refinement of section 3 is proved for all
values of the constants, but for those section 5 lists.  Nothing is assumed
beyond the named `ASSUME`s of the modules, which TLC evaluates in every run, and
the few hypotheses that the theorems concerned state themselves.

### The query engine

`SNMPClientProofs.tla` proves `Spec => []IInv` (`InvariantHolds`), and from it
`TypesHold` and `SlotsAgree`.  `IInv` is `TypeOK /\ SlotAgreement /\ Frame`.
`TypeOK` alone is not inductive: `offset` is an index into `cells` only because of
`Frame` (the batch a pending query waits for lies within its cells, and there are
cells left), and `Pass` handles a pending operation only because of
`SlotAgreement`.  The proof has one lemma per way an operation changes
(`EndStep`, `FinishStep`, `ContinueStep`, `SendStep`, ...), one per action, and
`NextStep` collects them.

`SNMPClientRunProofs.tla` first strengthens this to `RunInv`, with `Control` (what
is being delivered at each place of `loop()`, and that a walk which a callback has
restarted has sent nothing yet), `Batches`, `Modes` and `BatchesInOrder`.  With it
`StepForms` shows that whatever action is taken, each operation is left alone or
changed in one of six ways: edited by the sketch, started, ended, opened for
another request, transmitted, or advanced by a row (`Step`).  This is the one
place where the actions are opened.  Every further property is proved way by
way, and has an invariant of its own:

| Theorem | Property | What is added to be inductive |
|---|---|---|
| `DestructorLeavesNothing` | `DestructorDrains` | `Control`: slots before `k` are empty, and `begun` is off |
| `BatchesStayInOrder` | `BatchesInOrder` | `RunInv` |
| `RunsEndOnce`, `RunsTakenOnce` | `EndsOnce`, `TakenOnce` | `Endings`: a pending run has neither ended nor been taken, a completed one has not been taken |
| `RetransmissionsBounded` | `Retransmissions` | `Transmissions`: `attempts` counts the copies of the awaited request |
| `WalksStartAtRoot` | `RunStartsAtRoot` | `RunInv` |
| `RequestsIdentified` | `RequestIdentity` | `Identities`: IDs on the wire are at most `nextID`, and the awaited request is there as it would be sent again |
| `RequestsEarnProgress` | `RequestBudget` | `Budgets`: requests used against `Progress`, with the reply being delivered counted once a row of it is taken |
| `SettledCellsStay` | `CellsSettleOnce` | `RunInv` |
| `OutcomesAreHonest` | `OutcomeIsHonest` | `Outcomes`: a run asks for every cell, and a walk is never partial |
| `WalksCollectInOrder` | `WalkInOrder` | the cursor is the last row (`Ordered`) |
| `ValuesAreOfTheirRun` | `ValuesBelongToRun` | `Values`: each source is a request of the run, and IDs of the run are above those before it |
| `TimeoutsServed`, `TimeoutsAreDue` | `TimeoutsAreServed`, `NoEarlyTimeout` | `Clocks` |
| `ClientKeepsContract` | `ImplementsContract` | `Endings` |

From `RequestBudget` follows `RequestsBounded`: a query of n values makes at most
2n - 1 requests and a walk at most two more than there are rows, which is most of
what `EveryRunEnds` needs of the protocol.  `Clocks` relates what the client knows, times
modulo `ClockModulus`, to true elapsed time: they agree up to the timeout only as
long as each `loop()` serves what is due, and `loop()` serves it only as long as they
agree; `ClockAssumption` is what closes the circle.

`RunsEndOnce`, `RunsTakenOnce` and `ClientKeepsContract` have the hypothesis
`StopAfterCancel = FALSE`: no stream callback returns false after it has cancelled
its walk.  The finding *stop_after_cancel* shows that they fail otherwise; all other
theorems hold with or without it.  `OutcomeAssumption` says of `CellOutcomes`, what
`copyValue` makes of one value, that it has neither `Partial` nor `Timeout`: the code
gives these to whole operations only.

### The low-level API

`SNMPManagerProofs.tla`:

* `SummariesAgree` and `TablesDistinct`, from `TableInv`: `Tracked` keeps entries
  distinct only because the request it adds is not in the table yet, and
  `Consumed` frees the one entry.  One lemma per way a table changes.
* `ReferencesAreAccounted`, from `References`: a registration's count is the number
  of places in the manager's list and in the builders' lists (`Held`), and it is
  live exactly while there is one.  The finite-set theorems count the places, and
  `Recounted` says what replacing one list does to them: a builder is cleared,
  moved, filled or destroyed.
* `ManagerTypes`, from these and `CallInv`, the types of the call in progress, and
  `ManagerKeepsInv`, which joins it with `SummariesAgree`.
  That no count becomes negative is `References`, not a type.
* `SendsTracked`: a send that went out is in the table of each registration of its
  builder, which needs that `canTrack()` was true of them all before the first was
  changed.
* `LateRepliesDropped`: the first place among the candidates exists (`SmallestExists`)
  and a candidate that is tracked has the reply's request in its table.
* `TablesMatchReplies`: the manager implements `ReplyMatching`.  The refinement maps
  each table to the set of its requests, `Requests`, and each way a table changes
  to a step of the abstract specification.

### Tables

`SNMPTableProofs.tla` proves `TableInvHolds`, `RowsJoinedHolds`, `CellsStayHolds`,
`OutcomeHolds` and `TableKeepsContract` for any capacities, columns, indices and
outcomes.  `TableInv` joins the types with `WalkAgrees` (the table and its walk are
pending together, over the column in effect) and `FillsInOrder` (no valid cell where
the column's own walk has not come yet).  The first is what makes `consume()` cut
the right name off; the second is why a column's own walk never overwrites a valid
cell, so that `CellsStay` needs the check in `consume()` for fallbacks alone.
`RowsJoined` is inductive beside `TableInv`.  `AdvanceInv` has the completion handler
once for the four actions that end a walk.  `OutcomeIsHonest` is not inductive:
`HonestInv` adds that `columnErrors` of a pending table remembers whether a column it
has left behind had failed, and `AdvanceHonest` shows that the last column turns
this into a true outcome.  The refinement has one lemma per kind of step: an
accepted start, the end of a run, and the stutters.

### The codec

`BERProofs.tla` is about `BER.tla` and `Messages.tla` alone, whose operators are
functions of octets and numbers.  Recursion over numbers and sequences is
written with recursive functions.  What they compute is proved without
induction: a function that obeys the recursion exists, by gluing shorter ones
(`ChainExists`), and it is unique, because the set of places where two would
disagree would have a least one and there is none (`SmallestExists`).  `Power`
stands for `b^k`, of which the provers know nothing.

| Theorem | What it says | How |
|---|---|---|
| `FramesReadBack` | a frame begins with the octet of its type, and its header leads to its contents | `TwoDigits`, and `HeaderReadsBack` for the three forms of a length |
| `IntegersReadBack` | an integer is read back as its low word, its sign extended to an unsigned long | what `IntegerType` writes is a window of the digits of the word (`ContentsAreAWindow`); dropping a redundant octet keeps the number (`WindowShrinks`) |
| `Counter64ReadsBack` | every Counter64 is read back | `ShortDigits` has as many digits as the number needs (`ShortDigitsIs`) |
| `OIDsReadBack` | every OID that serialises is read back as the same arcs | contents are cut where `Layout` puts its sub-identifiers, and `SubIdentifiersIs` finds those cuts |
| `ValuesReadBack` | the same of every primitive class | the four above, and the limits of the string classes |
| `ValuesRewritten` | whatever `fromBuffer()` of a class accepts, `serialise()` writes in no more octets, and it is read as the same value | `ContentsShortest`, `NumberBounds` (a first digit is worth more than all the others), `CutsExist` and `ArcBound` for OIDs |

The two directions differ: `fromBuffer()` takes encodings that are longer than
the shortest, `serialise()` never makes one.  Both rest on the agreement of the
limits of the two, which for OIDs is `ArcAssumption`: the largest arc fits the
array of five octets (`encoded[5]`, BER.cpp:253).  Frames need `Half >= 4`, an octet of at
least eight values; the source has 256 and the runs 16.

### Parser

`SNMPGetResponseProofs.tla` proves `DecoderStaysInside`: for every datagram, every
size of octet and every depth limit, each call of `decode()` works on octets
inside the contents of its caller.  `HeaderFits` says that `readBERHeader()`
accepts no value that ends after the octets it was given, and the rest follows
the stack of calls as it grows (`PushNested`), advances (`AdvanceNested`) and
shrinks (`PopNested`).

`ParserLeaksNothing` proves `NothingLeaks`, for every failure of an allocation.  The
blocks of an object are a sum over its children, and those of active calls a sum
over the stack (`TotalAppend`).  `Holding` adds to `ParserInv` that each active call
fills one list, and that while calls are active the parser has neither tree nor
bindings.

What the tree *is* cannot be said by a recursive operator in a module with
theorems, so it is said by relations that account for themselves:

* A set of *readings*, values with the octets they were read from, is sound
  (`Read`) if each has the header its octets say and is either what its class
  reads of its contents or has the readings of its children there, one after the
  other (`Row`).  `TreeInv`, the invariant, says that there is one in which every active
  call has read its children up to where it is.  `ReadingsAgree` says that two
  such sets never differ about the same octets (by the least length), and so
  `PacketIsTheReading`: the packet is what the datagram says and nothing else is.
* `RepliesAreAccepted`: what is accepted is a valid reply, its bindings are listed
  once each and in order, and a datagram that reads as a valid reply, no deeper
  than the limit, is rejected only if memory ran out.  `Listed` is the invariant of
  the first half.  `Complete`, of the second, says that every active call is at
  the beginning of a child of any such reading; `Shallow` gives values heights,
  since nothing else bounds the depth of a set of readings.
* A set of *writings*, trees with their octets and what a reader is to make of
  them, is sound (`Written`) if each has what `serialise()` makes of its primitive
  value or of the octets of its children.  Wherever the octets of a writing occur
  they are read as its value (`WritingsRead`), so `MessagesAreReadBack`: a message a
  peer serialised is decoded as the tree it was made of, and accepted exactly if
  that is a valid reply.  This is `DecodesTheMessage` for all messages.
* `PacketsAreRewritten`: every decoded packet has a writing, which fits the buffer
  it came in and is read as the same packet, and it has no other
  (`WritingsAgree`).  This is `Reserialises` for all datagrams.  `ReadingsRewritten` goes
  from shorter readings to longer ones; that no frame grows is `HeaderShortest`,
  and that none of its children does, `ConcatFits`.
* `EveryStepAdvances`: each step of `parseFrom()` decreases `Left` within one `Stage`, or
  goes on to a later stage.  This is what `ParseEnds` needs beside fairness.

### Notifications and values

`NotificationsProofs.tla` proves `PayloadsStayCounted`: every operation on a value
moves it from one payload, or none, to another, and `HoldersMove` compares what
that does to the number of holders with what the code does to the count.  From
exact counts follows `ValuesKeep`, that every value has the octets last put in it:
a payload that another value holds too is never freed (`SharedRefs`), and the one
that `setBytes()` allocates is held by none (`UnheldRefs`).  The assumption
`MessagesAreDecoded` says that the octets of a decoded binding are a sequence of
numbers.

`HandlersSeeNotices`: an event is accepted only if its message passes every check
of `notify()` with the community that was registered when the handler was called,
however datagrams are repeated and reordered and whenever the community changes.
Its invariant `OnlyNotices` says so of the handler that runs (`Notice`).  From it follows
`OnlyGenuineAccepted`, which is `OnlyNotificationsAccepted` for every set of events,
under the hypothesis that the labels are true of the messages: one passes those
checks for a community only if its event is a genuine notification of it.  The
sixteen events of *informs* satisfy it.

`InformsAcknowledged` proves `AcknowledgedIsAccepted`.  An agent knows an
acknowledgement by its contents alone, so the theorem needs that no two of its
INFORMs have the same (`InformsAreDistinct`), as request IDs see to.

## 5. Only model-checked, and not modelled

Of the properties of the passing runs these are model-checked only:

* Liveness, `EveryRunEnds`, `EveryTableEnds` and `ParseEnds`: `ENABLED` and fairness are
  beyond the prover.
* `DecodesTheMessage` and `Reserialises`, by name.  They are stated with recursive
  operators over trees (`DecodedAs`, `Encoding`), which no module with theorems may
  reach.  `MessagesAreReadBack` and `PacketsAreRewritten` state the same with
  relations, for every value of the constants; that the two forms agree is not
  proved.  `DecodesTheMessage` also covers the octets of a SET value, which
  `appendValue()` frames by itself.

The two violations, `TakenOnce` in *stop_after_cancel* and `MatchingRepliesConsume`, are
findings and false as stated.

Not modelled, with reasons: error codes of rejected starts and additions (they
change nothing); `agentError` fields (no decision reads them); the packet
layout and the capacity failures of `wrap()` after space was reserved;
`begin()` called from inside a handler of the destructor, which would reopen a
client that is being destroyed; examples, tests and build scripts.  Of the
low-level API: the manager's move constructor, `setUDP()`, `begin()`,
`testParsePacket()` and `findCallback()` (I/O, or no state); a callback that the
sketch allocates itself and hands to `addHandler()`; the conversion of a value
into its destination, of which the model keeps only whether it succeeds.

Of the rest: types and numbers of owned values; the texts of OIDs; entry points
of the codec without a buffer size, which cannot check anything; a table's
device shared with operations that the table does not know of; `SNMPUDP.h` (it
discards the rest of a datagram), MIB helpers, configuration and protocol
constants (tables and macros without state).

## 6. Plan

Done: the query engine with its contract, the low-level API with its matching of
replies, tables, codec, parser, values and notifications.  Every component with
behaviour has its module, and every safety property of a passing run that is
within the prover's reach has its theorem.

What would still say something: a theorem of the values that `appendValue()`
frames, as `ValuesReadBack` is of those that `serialise()` does; the safety half of
`EveryRunEnds`, a measure that every answer, split and timeout of a run decreases,
of which `RequestsBounded` has the requests; and a model of the layout of packets
that `wrap()` completes.
