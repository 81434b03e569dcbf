# A TLA+ model of the video conference server

The server (`src/src/`) is one process with one thread. Clients connect over
TCP, create and join *calls* and *streams* with small binary requests, and send
their media as UDP packets, which the server relays to the recipients of a
stream. This directory holds TLA+ modules for it, TLC configurations that check
them on small instances, and TLAPS proofs for instances of every size.

    Sessions (abstract)
        ^ implemented by
    DenseArray -- ObjectGraph -- Conference -- Notifications
                                   objects  \    what clients are told
                                             Integrity
                                              what stays intact, and when

    Delivery (abstract)
        ^ implemented by          ^ implemented by
    Framing                   WritePath                EventLoop
     bytes of requests         bytes of answers         epoll, descriptors, signals

Beside a module `M` there is `MCM` for TLC (`MCConference`, `MCIntegrity`,
`MCNotifications`, `MCFraming`, `MCWritePath`, `MCEventLoop`) and `MProofs` for TLAPS
(`DenseArrayProofs`, `ConferenceProofs`, `SessionsProofs`, `IntegrityProofs`,
`NotificationsProofs`, `FramingProofs`, `WritePathProofs`, `EventLoopProofs`).

## 1. Inventory

| component | source | state | operations | what is hard | modules |
|---|---|---|---|---|---|
| dense arrays | `dense_array.h` | fixed slots of pointers, NULL is free | ADD, REMOVE, CONTAINS, INDEX_OF, COUNT | ADD returns an index, its callers test for 0 | DenseArray |
| connections, streams, calls | `connection.c`, `stream.c`, `call.c` | three registries; arrays of pointers in both directions; owner, call, UDP address | new, delete, add and remove links | two links made one after the other, with roll-back; addresses are used again | ObjectGraph |
| request handlers | `protocol.c` | none of its own | ten TCP requests, UDP handshake | every handler reads and changes several objects | Conference, Sessions |
| notifications | `protocol.c` | what clients believe | broadcasts, START and END | who is told what, in which order, and who is not | Notifications |
| UDP relay | `protocol.c`, `network.c` | UDP addresses | handshake, relay of packets | late handshakes, refused recipients | Notifications, EventLoop |
| framing | `buffer.c`, `buffer_logic.c`, `connection_read_data`, `handle_tcp_client` | read buffer: bytes, `position`, `expected_size` | write, set expected, state, consume | segmentation, edge-triggered events, end of stream | Framing |
| write path | `connection_send_message`, `connection_write_data` | write buffer, EPOLLOUT | send, continue | partial writes | WritePath |
| main loop, life cycle | `main.c` | epoll set, batch of events, `keep_running` | accept, dispatch, periodic check, shutdown | descriptors used again within a batch, signals | EventLoop, Conference |
| integrity check | `integrity_check.h` | none | walk over all objects | follows every pointer | Conference, Integrity |
| identifiers | `id_utils.h` | random generator | generate, to and from text | identifier 0 has a meaning of its own | none |
| socket wrappers | `network.c` | none | one system call each | none | EventLoop, WritePath |

The components share the three registries and point into each other's structs;
there are no messages inside the server. Clients interact with it by request,
answer and notification (TCP) and by packets (UDP). Since one thread runs each
handler to its end, handlers do not interleave inside; what interleaves are the
requests, disconnects, packets and the 60-second check of all clients, the
arrival of their bytes, signals, the closing and reopening of descriptors while
their events wait, and, through `malloc` and `free`, the *reuse of addresses* by
objects of different clients.

What makes the components correct:

- the object graph: two objects that are linked point to each other; nothing
  points to a freed object; closing a connection removes what is its own and
  nothing else; a private stream stays within its call;
- notifications: what a client believes of the streams that exist is what the
  server keeps;
- framing and write path: what is sent is delivered whole, once and in order,
  however TCP cuts it; no buffer overflows; a client that leaves is noticed;
- the main loop: an event is handled for the connection it is about; a signal
  stops the server; who waits is accepted; shutdown leaves nothing behind.

The code does not keep all of these promises. The properties of this project
state what it does keep, and section 6 lists the disagreements between code and
comments or tests.

## 2. The modules

**DenseArray** has the macros as operators on functions from slots to pointers.
A macro with an effect and a value is split into `Added`, `AddIndex` and so on.
`Without` removes several elements at once; it equals a sequence of
`DENSE_ARRAY_REMOVE`s for arrays without duplicates, which `NoDuplicatePointers`
shows all arrays to be.

**ObjectGraph** has the structs as variables: one function per field, from the
addresses of a kind to its values. An object *is* its address, the registries
are the sets of live objects, and a freed address may be allocated again. No
field is restricted to live objects, so dangling pointers are representable.
`Link` is the code pattern behind `call_add_participant`,
`stream_add_recipient` and `stream_new`: add to the near array, add to the far
array, undo on failure, where every index but 0 counts as failure.
`connection_new`, `call_new`, `stream_delete`, `connection_delete` and the like
are the functions of these names.

**Conference** has one action for each handler: the requests (`CallCreate`,
`CallJoin`, `CallLeave`, `StreamCreate`, `StreamDelete`, `StreamJoin`,
`StreamLeave`), `Accept`, `Close`, `UdpHandshake`, `RelayPacket`,
`PeriodicCheck`, and the shutdown (`Shutdown`, `CloseNext`, `AllClosed`). Each
action has three kinds of outcome: refusal (an error answer), success, and
*undefined* when it follows a pointer to a freed object. C says nothing of what
comes after that, so the model ends the execution there
(`phase = "undefined"`), and the invariants speak of the executions up to that
point.

| code | model |
|---|---|
| `connections`, `streams`, `calls` (hash tables) | sets of addresses |
| `malloc` of an object | any address that is not registered |
| a collision of random identifiers, `malloc` of an object returning NULL | `Refuse` |
| `udp_addr` and `udp_handshake_complete` | `udp`: unset, stale (left in memory), complete |
| `send_success`, `send_error`, no answer | `reply` |
| `stream_find_by_id` and its like | membership in a registry |
| order of `connection_close_all` | any order |

**Sessions** is what the server has *granted* to clients, without arrays,
pointers and addresses: who is connected, who publishes a stream, who was admitted
as its viewer, who was admitted to a call. The only trace a refused request leaves
is that a client who asked for a second stream is *spoilt*: when it closes, it may
take streams of others along. Conference implements it: `viewer` and `member` are
slot 0 of `recipients` and `participants`, a client is spoilt if any other slot of
its `own_streams` is used (these slots are never cleared before it closes), and
`owner` is `owner`. Slot 0 is what was granted because every other index counts as
a failure. Sessions does not see the refused: they stay in other slots, where the
relay sends packets to them all the same (section 6). Notifications and its
properties do see them.

**Integrity** extends Conference with `check_all_integrity`, one operator for
each of its three loops, and with one history variable: the server is `clean` as
long as no request that was answered with an error has changed an object
(`StaysClean`). Such a half-way refusal is what leaves one end of a link pointing
at the other, and the module says what holds of a server without one. The
variable restrains no step (`CleanInvariance` carries what is proved of
Conference over).

**Notifications** extends Conference: each handler is taken together with the
messages it sends, and a message is kept only in what its receiver knows
afterwards: `knows` (I watch this stream), `offers` (this stream is in my call),
`started` (my stream has been asked for). `broadcast_to_stream_recipients`,
`send_call_joined` and the like are the functions of these names. `Reached` is
the loop of the UDP relay over the recipients. Clients know objects by random
identifiers, so nobody knows anything of a new object at an old address.

**Delivery** is what either end of a connection may expect: as long as the
sender is orderly, what is delivered is a beginning of what was sent, and all of
it is delivered in the end. Framing implements it with whole messages as units
and a sender that waits for each to be handled (`paced`); WritePath with bytes
as units and a sender whose buffer is empty whenever it sends (`orderly`).

**Framing** is one TCP connection in the direction of the server. A byte is
represented by the message size it announces when it is read as a type (0 for an
unknown type). The bytes of a client pass from `wire` to the socket's `queue` in
segments of any length; each arrival sets `ready`, the edge-triggered event; the
handler takes the event, reads at most `READ_SIZE` bytes once, and runs the loop
of `handle_tcp_client` over the read buffer (`data`, `expected`). The end of the
stream is one more arrival. The action `ReadData` is the read, `buffer_write` and
the whole loop; the loop makes at most one round that changes anything, because
each round ends with an empty or a kept buffer. That end can also be a reset,
which makes `read` fail and may overtake bytes that are on the wire; the
handler deletes the connection either way. Five history variables record what the
code does not: `stream`, all bytes the client sent, and `starts`, where in it each
message starts; `past`, the bytes that have left the buffer, handled or not;
`began`, where in `past` each handled message started; and `dropped`, whether
bytes ever left the buffer without being handled.

**WritePath** is the other direction. A message replaces what the write buffer
holds and is written at once; `write()` takes any number of bytes for which there
is room (`Takes`); a partial write arms EPOLLOUT, and each EPOLLOUT continues the
write once (`HandleOut`). The client reads, or resets. `blocked` is the event the
kernel owes for a refused or partial write. Two history variables number the
bytes: `begun`, where in all that was said each message starts, and `origin`, for
each byte on its way to the client, where in all that was said it comes from.

**EventLoop** is `main()` from the test of `keep_running` to `cleanup()`. A batch
of events is taken by `EpollWait` and handled one after the other, in any order,
while clients connect, send and reset, datagrams arrive late or twice, and a
signal comes at any moment. Handlers may close their own connection and write to
any; what they do to the objects is Conference, the bytes are Framing and
WritePath. A ghost field `of` in an event records the connection it was reported
for; the code does not have it, and only the properties look at it.
`connection_alloc` leaves `udp_addr` as it finds it, so a new connection starts
with no address or with one that a freed connection left in memory (`leftover`),
possibly of another host; `shaken` are the connections whose handshake is
complete, which `connection_alloc` does reset. The branch of `main()` for a
descriptor without a connection (`main.c:266-269`) is never taken by a client's
event: `EventsNameTheirConnection` shows that such an event finds its connection.

## 3. What the runs check

TwoStreams and ThreeClients run Integrity and Notifications, whose steps are those
of Conference; TwoCalls runs Conference itself.

| run | bounds | properties |
|---|---|---|
| TwoStreams | 2 connections, 2 streams, 1 call; arrays of 2 slots, recipients of 1 | `WatchingMutual`, `OwnershipMutual`, `SessionsKept`, `CleanIsDefined`, `CleanPasses`, `CleanStreamsStay`, `OnlySecondsSpoil` |
| TwoCalls | 2 connections, 1 stream, 2 calls; arrays of 2 slots | `CallMembershipMutual`, `PrivateStreamInCall`, `NoDuplicatePointers` |
| ThreeClients | 3 connections, 1 stream, 1 call; arrays of 2 slots, recipients of 3 | `IInv`, `NothingLeftBehind`, `ViewerAndServerAgree`, `OwnerKnowsOfViewers`, `ParticipantKnowsStreams`, `PacketReachesViewers`, `DeletionIsTold` |
| Framing | messages of 1, 2 and 3 bytes, at most 3 sent, reads of 4, buffer of 6 | `FramingInv`, `RoomForNextRead`, `HandledAsSent`, `WholeUntilDropped`, `PacedIsAwaited`, `RequestsInOrder`, `RequestsArrive`, `PacedCloseIsNoticed` |
| WritePath | buffer of 3, socket of 2, at most 7 bytes sent | `WriteInv`, `TornOnlyAtTheEnd`, `AnswersInOrder`, `AnswersArrive` |
| EventLoop | 2 clients of different hosts, 2 descriptors, batches of 2, 1 datagram | `LoopInv`, `EventsNameTheirConnection`, `OutOnlyAfterPartialWrite`, `UdpOfItsHost`, `SignalStops`, `WaitingIsAccepted` |

*The object graph.* Slot 0 is the only one whose use counts as success, so it is
where the two ends of a link must agree; other slots can hold one-sided or stale
pointers.

- `CallMembershipMutual`, `WatchingMutual`: slot 0 of a call (stream) names a
  connection exactly if the connection's slot 0 names the call (stream).
- `OwnershipMutual`: a registered stream has a live owner and is in the owner's
  slot 0; no slot 0 names anybody else's stream.
- `PrivateStreamInCall`: a private stream belongs to a live call that holds it
  and in which its owner takes part.
- `NoDuplicatePointers`: no array holds an address twice, in spite of reuse.
- `NothingLeftBehind`: when the server has stopped, no connection and no stream
  is left. Calls can be left (section 6).
- `SessionsKept`: the server implements Sessions. No request touches what a third
  client was granted, and a disconnect ends nothing but what was the client's own,
  unless it had asked for a second stream.

*The clean server.* No half-way refusal has happened yet.

- `CleanIsDefined`: no handler, packet, check or shutdown has followed a pointer
  to a freed object.
- `CleanPasses`: the integrity check meets live objects only and finds no fault.
- `CleanStreamsStay`: a stream that stays keeps its owner and its call; no call
  that ends makes a private stream public.
- `OnlySecondsSpoil`: what ends this is only a request for a second call, stream
  or viewer by one client, or about a call or stream whose first slot is taken.
  The latter can be the first request of a client that asks for one of each: the
  join of an occupied call is refused half-way whoever asks. A clean server is
  not free of all of section 6 either: what concerns bytes (FindingCoalesced,
  FindingHalfClose, FindingTornWrite) and FindingEmptyCall happens on it, too.

*What clients are told.*

- `ViewerAndServerAgree`: a client believes that it watches a live stream exactly
  if the server has it in slot 0.
- `OwnerKnowsOfViewers`: the owner of a stream with recipients, admitted or
  refused, was told START and not END since.
- `ParticipantKnowsStreams`: an admitted participant knows every stream in its
  call, whichever was there first.
- `PacketReachesViewers`: who believes that he watches, and has sent a handshake,
  is among those the relay sends to.
- `DeletionIsTold`: unless a connection closes, nobody goes on to believe in a
  deleted stream, but for one case (section 6).

*The two directions of a connection.*

- `FramingInv`: between events the buffer is empty or holds the beginning of one
  message whose size is `expected`, and for a paced client what was handled is
  what was sent, except for one message that is under way.
- `RoomForNextRead`: a full read always fits, so `BUFFER_MEMORY_OVERFLOW`, which
  `connection_read_data` ignores, does not occur.
- `HandledAsSent`: of any client, paced or not: no byte gets lost unnoticed
  between wire and buffer, and each message handled is, byte for byte, a stretch
  of what the client sent, as long as its first byte announces, in order and
  never twice. An overflow, an unknown type or a clear loses bytes, and may make
  the server read on from the middle of a message, so the stretch need not be a
  message of the client: of the bytes 2, 0, 1, sent as one message and cut 2 + 1,
  the server handles [2, 0] and then [1]. What never happens is that bytes which
  did not follow each other are glued together.
- `WholeUntilDropped`: of any client that sends messages of known size, however
  fast and however TCP cuts them: until the server drops bytes, what is handled are
  the client's messages from the first on, each whole.
- `PacedIsAwaited`: what a paced client sent to an open connection is never left
  in the socket without an event to come, nor is the end of its stream, although
  the socket is edge-triggered and read once per event.
- `RequestsInOrder`, `RequestsArrive`: Framing implements Delivery, its safety and
  its liveness. `PacedCloseIsNoticed`: when a paced client closes, its connection
  is deleted.
- `WriteInv`: bytes that wait in the write buffer always have an event to come
  (`RestIsAwaited`), and no byte of an orderly sender is lost or doubled.
- `TornOnlyAtTheEnd`: whatever the server sends, orderly or not, the client gets
  bytes in the order they were sent and none twice, and after a gap always the
  first byte of a message. Messages lose their ends (FindingTornWrite), never
  their beginnings or middles.
- `AnswersInOrder`, `AnswersArrive`: WritePath implements Delivery.

*The main loop.*

- `EventsNameTheirConnection`: an event is handled for the connection it was
  reported for, though descriptors are closed and accepted again while it waits.
- `OutOnlyAfterPartialWrite`: EPOLLOUT is only reported for a connection with an
  earlier partial write. Only such a connection can be used after it was freed
  (`main.c:264`); the model ends there (`pc = "undefined"`).
- `UdpOfItsHost`: a connection whose handshake is complete, the only kind packets
  are sent to, holds the UDP address of a client of its own host, though a late
  datagram names a descriptor that somebody else has now, and though a new
  connection may start with the address of another host.
- `SignalStops`: a signal stops the server, also one that comes between the test
  of `keep_running` and `epoll_wait`. `WaitingIsAccepted`: who waits in the
  listening socket is accepted, or closed, or there is no descriptor for it.

**Bounds.** Arrays have 2 slots instead of 4: slot 0 and "another slot" are all
the code distinguishes, and a full array needs two refused requests. The
recipients of a stream are limited to 1 in TwoStreams, to keep the run small:
there a watcher of two streams is the interesting case; ThreeClients has a stream
with three recipients, so that START and END are decided among refused ones. Two
addresses of a kind are what aliasing needs (one freed and one live, or one
reused); three connections are what a stale participant next to two live ones
needs. Each run enlarges one kind; the proofs close the gap to the real sizes.

In Framing the sizes 1, 2, 3 stand for the real sizes 1, 2 and 5: one message
without payload, one whose text the resolver does not count, one with an
identifier. 4 bytes of `READ_SIZE` and 6 of `BUFFER_SIZE` stand for 512 and
8192: a message fits into one read, several messages may fit into one read or
into the buffer, and a buffer has room for a partial message and a full read with
nothing to spare. In WritePath a message of 3 bytes does not fit into the socket
of 2, so one message can need more than one continuation (a partial write within
`HandleOut`), and 7 bytes leave room for three messages of different sizes. In
EventLoop two clients, two descriptors and a batch of two let a descriptor be
closed and accepted again while an event of the other and of the listening socket
wait.

The runs reach 76 130 (TwoStreams, with symmetry), 62 882 (TwoCalls, with
symmetry), 44 719 (ThreeClients, with symmetry), 26 977 (Framing), 26 712
(WritePath) and 73 182 (EventLoop) states. Symmetry is used only where no
liveness is checked; addresses of a kind are interchangeable. TwoStreams does not
tell states apart by the last answer (`ButForReply`): no step and no property
reads an earlier answer, only the one that the step at hand gives. Deadlock is checked
for Conference, Integrity and Notifications. In Framing, WritePath and EventLoop it is not:
a client may stay silent for ever, and a stopped server does nothing.

**Fairness.** Conference, Sessions, Integrity and Notifications: none, their properties are
safety. Framing: weak fairness of the arrival of bytes and of the end of the
stream (TCP), and of the handler (the event loop comes to every event of a batch
and then waits again); the client need not send or close. WritePath: weak fairness
of `HandleOut`, for the same reason, and of the client's reading, without which
nothing can arrive. EventLoop: weak fairness of the loop's own steps (the thread
runs), and strong fairness of two choices that the model leaves open: that
`epoll_wait` reports the listening socket if it is ready again and again (epoll
takes ready descriptors in turn), and that an `accept` for which there is
a client and a descriptor succeeds some time. No client and no signal has to come.

Each property of a passing run has a mutant: a plausible bug in one mapped
definition under which TLC finds it violated. The mutated forms stand before the
definitions they replace, with a comment that begins with "Mutant".

## 4. What is proved

The proofs hold for any sets of addresses, clients and descriptors, any positive
numbers of slots, any message sets and any sizes within the assumptions named in
the modules: `NullIsNoAddress` and `SlotsArePositive` (ObjectGraph),
`SizesFit` (`LARGEST - 1 + READ_SIZE <= BUFFER_SIZE`) and `RequestsAreBytes`
(Framing), `SocketHoldsBytes` and `AnswersFit` (WritePath), `LoopNames`
(EventLoop). The real constants satisfy them. One theorem, `PacedBytesAreAwaited`,
has a hypothesis of its own: `ReadTakesMessage`, that one read holds the largest
message (512 bytes and 5).

- **DenseArrayProofs**: what adding, removing and `Without` do to slot 0, to the
  members and to the absence of duplicates.
- **ConferenceProofs**: `Invariance` (`Spec => []IInv`), and from it
  `CallMembershipIsMutual`, `WatchingIsMutual`, `OwnershipIsMutual`,
  `PrivateStreamsStayInCall`, `NoPointerIsDuplicated` and `StoppedIsEmpty`.
- **SessionsProofs**: `ServerKeepsSessions` (`Spec => SessionsKept`), the
  refinement.
- **IntegrityProofs**: `CleanInvariance`, and from it `CleanServerIsDefined`,
  `CleanServerPasses`, `CleanServerMovesNoStream` and
  `OnlyRequestsForASecondSpoil`.
- **NotificationsProofs**: `ViewsInvariance`, and from it
  `ViewersAgreeWithServer`, `OwnersKnowOfViewers`, `ParticipantsKnowStreams`,
  `PacketsReachViewers` and `DeletionsAreTold`.
- **FramingProofs**: `FramingInvariance`, `NoMemoryOverflow`,
  `OnlySentBytesAreHandled`, `MessagesAreWholeUntilDropped`,
  `PacedBytesAreAwaited` and `FramingDelivers` (`Spec => RequestsInOrder`, the
  refinement).
- **WritePathProofs**: `WriteInvariance`, `MessagesAreTornOnlyAtTheEnd` and
  `WritePathDelivers` (`Spec => AnswersInOrder`, the refinement).
- **EventLoopProofs**: `LoopInvariance`, `EventsKeepTheirConnection`,
  `OutNeedsPartialWrite` and `UdpStaysWithItsHost`.

*Why `IInv` is what it is.* None of the mutual properties is inductive by
itself. Deleting a stream removes it from the array of the owner and of the
recipients *it* points to; that this leaves no slot 0 with its address needs the
mutual properties (who points to the stream is known to it), that a removal
removes the right slot needs `NoDuplicatePointers`, and that a reused address
starts without the links of its predecessor needs `FreedIsBlank`. That a private
stream does not outlive its owner's membership needs `OwnershipMutual` (the
owner's slot 0 is the only stream he has) together with `CallMembershipMutual`
(the call he leaves is the one his slot 0 names). The conjunction is inductive.
Each action has a `...Keeps` lemma; the actions that end in `Undefined` or
`Refuse` leave the graph alone.

*Why the server implements Sessions.* By the mutual properties, slot 0 at one end
of a link tells what is at the other end, so the abstract guards (a client that
watches nothing, a stream without a viewer) follow from the concrete arrays. Each
request is one abstract step or a stutter. A close takes along what lives at the
addresses in all slots of `own_streams`; slot 0 is the client's own stream, and
the others are used only by a spoilt client.

*Why a clean server is safe.* `CleanInv` adds to `IInv` that a clean server uses
the slots 0 only (`OnlyFirstSlots`) and that slot 0 of a call's streams agrees
with the streams' own field (`CallStreamsMutual`). A link that succeeds fills two
slots 0, and a link that fails changes something or does not: if it does, the
server is clean no more, and if it does not, nothing happened. With the mutual
properties of `IInv`, every pointer of a clean server names a live object that
names it back (`CleanIsLive`, `CleanIsIntact`), so no handler can follow one to a
freed object and the check finds nothing. The delicate steps are those that
delete several objects in a row: `CallLeaveIsClean` (a call that becomes empty
holds no stream any more, so `call_delete` detaches none) and
`ConnectionDeleteIsClean`. `CallStreamsMutual` is not true of a server that is not
clean, which is the detached stream of section 6.

*Why the views are inductive.* `ViewerAndServerAgree` and `OwnerKnowsOfViewers`
keep themselves once `IInv` is known. `ParticipantKnowsStreams` also needs
`OffersAreToParticipants`: who has left a call has no offers in it, so that the
answer to a later join is what he knows.

*Why `FramingInv` and `WriteInv` are what they are.* `PacedIsLossless` says where
the bytes of the one message under way are: in the buffer, the socket and the
wire, in this order. `Arrive` and `ReadData` shift bytes along (associativity of
concatenation), and `BufferBetweenMessages` says that the size looked for is the
one its first byte announces, so the loop completes exactly at the message's end
and `buffer_write` never refuses the rest. `OrderlyIsLossless` is the same for
the bytes on the way to the client.

*Why `WholeUntilDropped` holds.* `NextIsAStart` strengthens it: as long as nothing
was dropped, the first byte the buffer holds or waits for is the first one of the
message that is next to be handled (`SentAt` says where messages are in the
stream). If all messages have a known size, this byte announces the size of this
message, so by `BufferBetweenMessages` the buffer is complete exactly when it
holds this message, and the byte behind it begins the next.

*Why `HandledAsSent`, `PacedIsAwaited` and `TornOnlyAtTheEnd` are inductive.* The
first two need `BufferBetweenMessages`: a message is complete exactly when the
buffer holds as many bytes as its first byte announces, so the buffer as a whole
is what is handled and becomes the end of `past`. When `buffer_write` refuses
a read, `past` takes the buffer and the bytes read and nothing is handled. For
`PacedIsAwaited`, a paced client has at most one message under way, so one read
that can hold it empties the socket, and bytes that come later set the event
again; the end of the stream comes after all bytes (`ClosedLast`) and is an
arrival of its own, since a paced client closes only after its last message was
handled. `TornOnlyAtTheEnd` keeps itself: writing moves bytes from the buffer to the
socket and leaves their numbers alone, and a new message replaces the end of the
path by bytes with greater numbers, the first of which begins a message.

*Why `LoopInv` is what it is.* At most one event of a batch is about a descriptor,
a handler closes only its own connection, and a closed descriptor has nothing to
report and is not armed; so a descriptor that is given out again is never that of
an event that waits. `UdpOfItsHost`, one of its conjuncts, needs nothing of the
address a connection starts with: the flag of the handshake is cleared when a
connection is allocated, and it is set only together with an address that was
compared with the host of the connection that is at the descriptor now.

## 5. What is only model-checked

Liveness under fairness (`RequestsArrive`, `PacedCloseIsNoticed`, `AnswersArrive`,
`SignalStops`, `WaitingIsAccepted`) is beyond the prover. What is proved instead is
the safety half of an argument for it: `PacedIsAwaited` and `RestIsAwaited` say
that nothing ever waits without an event to come. Every safety property of a passing
run is a theorem or a conjunct of one.

## 6. Disagreements between the code and its comments and tests

Each of the first six has a run whose only property states what the comment or
test says; TLC shows how the code violates it.

| run | the repository says | the code |
|---|---|---|
| FindingJoin | `test/test_call.c:80` a second participant is added; `dense_array.h:14` ADD returns an index | `call.c:174` takes the index for an error: nobody is admitted while there is a participant, and the refused client stays in the call's array |
| FindingClose | `connection.c:161` a connection deletes its own streams | after a failed second stream (`stream.c:118`) it can delete another client's stream at the same address |
| FindingEmptyCall | `protocol.c:421` an empty call is deleted | `connection.c:171`: not when the last participant disconnects; it stays until a later client joins and leaves it |
| FindingCoalesced | `main.c:93` all complete messages in the buffer are processed | `buffer.c:111`: two messages in one read are both dropped |
| FindingHalfClose | `main.c:77` a connection closed by the client is deleted | not when the end of the stream arrives right behind the last bytes |
| FindingTornWrite | `connection.c:262` a refused write is to be repeated later | `connection.c:273` clears the buffer that holds the rest of the message |

Others were met while modelling and have no run of their own:

- `test/test_connection.c:206` expects a new connection to have no UDP address;
  `connection_alloc` never initialises `udp_addr`. The models leave it open: in
  Conference `udp` is unset or stale, in EventLoop it is unset or any address in
  `leftover`. `UdpOfItsHost` therefore speaks of completed handshakes only.
- FindingJoin has its like for the other arrays: `test/test_connection.c:107-118`
  asserts that a connection owns two streams and watches two,
  `test/test_connection.c:162-163` that it is in two calls, and
  `test/test_call.c:80-91` that a call has two participants. All of them go
  through the same comparison with 0, so the second one is refused.
- Who was refused as a viewer stays in `recipients`, and the relay
  (`protocol.c:589-600`) sends to every recipient with a complete handshake. A
  client whose join was answered with an error gets the packets of the stream.
  After it has closed, the entry points to a freed connection; if a new client is
  allocated there, it gets packets it never asked for. `PacketReachesViewers` says
  only that no viewer is left out.
- `buffer_logic.c:16` calls the size of CLIENT_ERROR and CLIENT_SUCCESS the least
  size of a message of variable length; the loop takes it for the exact one. With
  its text in the same read the message is dropped. If the read ends behind its
  first two bytes, these are handled as the message, and the text behind them is
  taken for messages: a text of one byte that is the type of a longer message
  waits for the rest of it, and the next request is taken for this rest, or
  dropped together with it. `HandledAsSent` is what remains.
- Leaving a call deletes the leaver's streams that are in the call's array
  (`protocol.c:397-416`). If a creation in this call failed and its address was
  used again for a stream of his in *another* call, that stream is deleted and
  the participants of the other call are not told. `DeletionIsTold` names this
  exception.
- Deleting a call detaches the streams in its array (`call.c:141`). In the same
  way this can be a stream of another call, which then belongs to no call and
  becomes public. This needs two clients, two streams and two calls, 12 steps: a
  refused join, a stream whose creation in the first call failed, and the reuse
  of its address. `PrivateStreamInCall` holds: the stream is private no more.
  `CleanServerMovesNoStream` proves that a half-way refusal is indeed needed.
- Pointers to freed objects are followed. The shortest way takes three requests
  of one client: it connects, creates a call, creates a second one, which is
  refused and freed while the client's `calls` keeps its address
  (`protocol.c:330`), and closes; `connection_delete` then changes the freed
  call. Refused joins do the same to connections: they stay in `participants`
  and `recipients`, and after they closed, broadcasts (`protocol.c:879`), the relay
  (`protocol.c:591`) and the integrity check follow the pointer. The model goes
  to `phase = "undefined"` there. `CleanServerIsDefined` proves that a half-way
  refusal is the only way to it, and `OnlyRequestsForASecondSpoil` which requests
  can be refused half-way.

## 7. What is not modelled, and the limits of the model

- What happens after undefined behaviour. An execution ends where a handler
  follows a pointer to a freed object.
- `malloc` places objects of one kind at addresses of objects of the same kind
  only; the aliasing of a stream with a former call is left out. `malloc` of a
  message returning NULL is left out, too.
- Messages are not encoded in Conference: a request is an action with an object.
  A request for an unknown identifier is a request for an address that is not
  registered. `handle_client_error` and `handle_client_success` only print.
- The notices about the roster of a call (`send_call_conn_new`,
  `send_call_conn_left`): only one participant is ever admitted, and he is
  excluded from them. The test packets (`protocol.c:251`, `536`).
- The content of UDP packets; that packets are lost or reordered is not the
  server's matter, since it keeps nothing of them.
- Framing: errors of `read` from other causes than a reset; `buffer_read`, which
  the server never calls. Main loop: errors of `epoll_wait` other than EINTR;
  start-up and its errors (`Init` is the state after a successful start).
- Identifiers: random numbers are abstracted to addresses. A call whose
  identifier is 0 (`protocol.c:126`) is left out; the base 26 text is only printed.
- `async_read` and `async_write`, which nothing calls; the query functions that only tests call.
- uthash (vendored), the tests, the old server (`server_old.txt`, `proto_old`).

The parts that are modelled apart meet in a few facts. EventLoop lets a handler
close its connection or write to any, and leaves open when; Conference's `Close`
and the other handlers are what happens then. Framing hands whole requests to
`handle_client_message`, which are the actions of Conference; Notifications takes
a message as received once it is sent, which is `AnswersArrive` for an orderly
sender.

## 8. Plan

Done: the object graph and its handlers with Sessions above them, the integrity
check, notifications and relay, both directions of a connection with Delivery
above them, and the main loop; their runs and proofs. Left, in the order of what
they would add:

1. A theorem that a clean server answers a join of a free stream or call, and the
   creation of a first stream, with success.
2. `CleanStreamsStay` for Notifications: on a clean server `DeletionIsTold` holds
   without its exception.
3. WritePath composed with Notifications: what a torn message makes a client
   believe.
4. The base 26 conversion of `id_utils.h` against a reference definition.
