------------------------------ MODULE Framing -------------------------------
(***************************************************************************)
(* How one TCP connection turns the byte stream of its client into         *)
(* requests: connection_read_data, the read buffer of buffer.c and         *)
(* buffer_logic.c, and the loop of handle_tcp_client in main.c.            *)
(*                                                                         *)
(* The socket is in edge-triggered mode: epoll reports it once per arrival *)
(* of bytes, and the handler reads once per report, at most READ_SIZE      *)
(* bytes.  What it leaves in the socket waits for the next arrival.        *)
(*                                                                         *)
(* A byte is represented by what the size resolver answers when the byte   *)
(* is taken for a message type: the size of that message, 0 for a byte     *)
(* that is no type.  A request is the sequence of its bytes.  The first    *)
(* one is its type, and its size is what the resolver says of it unless    *)
(* the message has a variable length (see WellSized).                      *)
(*                                                                         *)
(* The answers of the server are not modelled: they always fit in the      *)
(* socket here, so EPOLLOUT is never armed and causes no event.            *)
(***************************************************************************)
EXTENDS Integers, Sequences

CONSTANTS
  LARGEST,       \* the largest size the resolver knows
  READ_SIZE,     \* the size of temp in connection_read_data
  BUFFER_SIZE,
  Requests,      \* the messages clients send
  MaxSent        \* bound: how many messages the client sends

Bytes == 0 .. LARGEST

ASSUME SizesFit == /\ {LARGEST, READ_SIZE, BUFFER_SIZE} \subseteq Nat \ {0}
                   /\ LARGEST - 1 + READ_SIZE <= BUFFER_SIZE

ASSUME RequestsAreBytes == Requests \subseteq Seq(Bytes) \ {<<>>}

VARIABLES
  sent,      \* history: the messages the client sent
  closed,    \* the client closed its end
  paced,     \* history: the client never sent or closed before its last
             \* message was handled, and sent messages of known size only
  wire,      \* bytes on their way to the server, or lost to a reset
  queue,     \* bytes in the socket of the server
  eof,       \* the end of the stream, or a reset, has arrived behind them
  ready,     \* epoll has an event to report for the socket
  data,      \* the read buffer: its bytes up to position,
  expected,  \* and its expected_size
  open,      \* the connection exists
  handled,   \* history: what handle_client_message was called with
  stream,    \* history: the bytes of sent, one message after the other
  starts,    \* history: how many there were before each message of sent
  past,      \* history: the bytes that have left the buffer
  began,     \* history: how many had, before each message that was handled
  dropped    \* history: some of them left it without being handled

client == <<sent, closed, paced, wire, stream, starts>>
taken  == <<handled, past, began, dropped>>
vars   == <<client, queue, eof, ready, data, expected, open, taken>>

TypeOK ==
  /\ sent \in Seq(Requests) /\ handled \in Seq(Seq(Bytes))
  /\ {closed, paced, eof, ready, open, dropped} \subseteq BOOLEAN
  /\ {wire, queue, data, stream, past} \subseteq Seq(Bytes)
  /\ began \in Seq(Nat) /\ starts \in Seq(Nat)
  /\ expected \in Bytes

Init ==
  /\ sent = <<>> /\ handled = <<>>
  /\ closed = FALSE /\ paced = TRUE /\ eof = FALSE /\ ready = FALSE /\ open = TRUE
  /\ wire = <<>> /\ queue = <<>> /\ data = <<>> /\ expected = 0
  /\ stream = <<>> /\ past = <<>> /\ began = <<>> /\ starts = <<>>
  /\ dropped = FALSE

-----------------------------------------------------------------------------
(***************************************************************************)
(* The client and the network.                                             *)
(***************************************************************************)
\* CLIENT_ERROR and CLIENT_SUCCESS carry a text, for which the resolver does
\* not account; all other requests have a fixed size.
WellSized == {m \in Requests : m[1] = Len(m)}

Send(m) ==
  /\ open /\ ~closed /\ Len(sent) < MaxSent
  /\ sent' = Append(sent, m)
  /\ paced' = (paced /\ sent = handled /\ m \in WellSized)
  /\ wire' = wire \o m /\ stream' = stream \o m /\ starts' = Append(starts, Len(stream))
  /\ UNCHANGED <<closed, queue, eof, ready, data, expected, open, taken>>

\* close(), shutdown(), or a reset.
CloseEnd ==
  /\ open /\ ~closed
  /\ closed' = TRUE
  /\ paced' = (paced /\ sent = handled)
  /\ UNCHANGED <<sent, wire, stream, starts, queue, eof, ready, data, expected, open, taken>>

\* Any number of bytes may arrive in one segment.
Arrive ==
  /\ open /\ ~eof
  /\ \E n \in 1 .. Len(wire) :
       /\ queue' = queue \o SubSeq(wire, 1, n)
       /\ wire' = SubSeq(wire, n+1, Len(wire))
  /\ ready' = TRUE
  /\ UNCHANGED <<sent, closed, paced, stream, starts, eof, data, expected, open, taken>>

\* The end of the stream, behind all bytes, or a reset, which may overtake some:
\* they never arrive.
ArriveEof ==
  /\ open /\ closed /\ ~eof
  /\ eof' = TRUE /\ ready' = TRUE
  /\ UNCHANGED <<client, queue, data, expected, open, taken>>

-----------------------------------------------------------------------------
(***************************************************************************)
(* The read buffer.                                                        *)
(***************************************************************************)
\* Mutant: one byte per event.
ReadsOneByte(q) == SubSeq(q, 1, 1)

\* read(fd, temp, sizeof(temp))
ReadBytes(q) == IF Len(q) <= READ_SIZE THEN q ELSE SubSeq(q, 1, READ_SIZE)

Unread(q) == SubSeq(q, Len(ReadBytes(q)) + 1, Len(q))

\* What buffer_write does with bytes r for a buffer that holds d of e bytes.
buffer_write(d, e, r) ==
  CASE Len(d) + Len(r) > BUFFER_SIZE -> "memory overflow"
    [] Len(d) + Len(r) <= BUFFER_SIZE /\ e > 0 /\ Len(d) + Len(r) > e -> "overflow"
    [] OTHER -> "written"

\* buffer_protocol_set_expected; 0 when it fails.
MessageSize(d, e) ==
  CASE e > 0                        -> e
    [] e = 0 /\ d[1] <= BUFFER_SIZE -> d[1]
    [] OTHER                        -> 0

\* Mutant: position is compared with the length of the payload.
IsCompleteWithoutType(d, size) == size > 1 /\ Len(d) = size - 1

\* Mutant: the first of several messages in the buffer is complete, too.
IsCompleteOrMore(d, size) == size > 0 /\ Len(d) >= size

\* buffer_state, for a known size.
IsComplete(d, size) == size > 0 /\ Len(d) = size

\* Mutant: a type that is not known stays in the buffer.
KeptUnlessOver(d, size) == Len(d) < size \/ size = 0

\* The buffer is kept for more bytes; in all other cases it is cleared: after
\* its message was handled, when the type is unknown, or on overflow.
IsKept(d, size) == Len(d) < size

\* Mutant: the size of a message that was handled stays the expected one.
ProcessBufferStale(d, e) ==
  LET size == MessageSize(d, e) IN
  /\ handled' = IF IsComplete(d, size) THEN Append(handled, d) ELSE handled
  /\ data' = IF IsKept(d, size) THEN d ELSE <<>>
  /\ expected' = size
  /\ past' = IF IsKept(d, size) THEN past ELSE past \o d
  /\ began' = IF IsComplete(d, size) THEN Append(began, Len(past)) ELSE began
  /\ dropped' = (dropped \/ ~(IsKept(d, size) \/ IsComplete(d, size)))

\* The loop of handle_tcp_client: after one round the buffer is empty or kept.
ProcessBuffer(d, e) ==
  LET size == MessageSize(d, e) IN
  /\ handled' = IF IsComplete(d, size) THEN Append(handled, d) ELSE handled
  /\ data' = IF IsKept(d, size) THEN d ELSE <<>>
  /\ expected' = IF IsKept(d, size) THEN size ELSE 0
  /\ past' = IF IsKept(d, size) THEN past ELSE past \o d
  /\ began' = IF IsComplete(d, size) THEN Append(began, Len(past)) ELSE began
  /\ dropped' = (dropped \/ ~(IsKept(d, size) \/ IsComplete(d, size)))

-----------------------------------------------------------------------------
(***************************************************************************)
(* handle_tcp_client.                                                      *)
(***************************************************************************)
\* The answer to a request of a client that has closed both directions comes
\* back as a reset, which epoll reports.
Reset == closed /\ handled' # handled

ReadData ==
  LET r == ReadBytes(queue)
      written == buffer_write(data, expected, r)
  IN
  /\ open /\ ready /\ queue # <<>>
  /\ queue' = Unread(queue)
  /\ \/ /\ written = "overflow"                   \* connection_read_data fails
        /\ data' = <<>> /\ expected' = 0 /\ open' = FALSE
        /\ past' = past \o (data \o r) /\ dropped' = TRUE
        /\ ready' = FALSE /\ UNCHANGED <<handled, began>>
     \/ /\ written # "overflow"
        /\ ProcessBuffer(IF written = "written" THEN data \o r ELSE data, expected)
        /\ ready' = FALSE \/ (Reset /\ ready' = TRUE)
        /\ UNCHANGED open
  /\ UNCHANGED <<client, eof>>

\* Mutant: a read of 0 bytes is taken for "nothing to read".
IgnoreEof == open /\ ready /\ queue = <<>> /\ eof /\ ready' = FALSE
             /\ UNCHANGED <<client, queue, eof, data, expected, open, taken>>

\* read() returned 0, or the error that a reset leaves: handle_connection_closed.
ReadEof ==
  /\ open /\ ready /\ queue = <<>> /\ eof
  /\ open' = FALSE /\ ready' = FALSE
  /\ UNCHANGED <<client, queue, eof, data, expected, taken>>

\* read() returned EAGAIN.
ReadNothing ==
  /\ open /\ ready /\ queue = <<>> /\ ~eof
  /\ ready' = FALSE
  /\ UNCHANGED <<client, queue, eof, data, expected, open, taken>>

handle_tcp_client == ReadData \/ ReadEof \/ ReadNothing

Next ==
  \/ \E m \in Requests : Send(m)
  \/ CloseEnd \/ Arrive \/ ArriveEof
  \/ handle_tcp_client

Spec == Init /\ [][Next]_vars

\* Bytes that were sent arrive, and the event loop comes to every event.  The
\* client need not send anything, nor ever close.
Fairness == WF_vars(Arrive) /\ WF_vars(ArriveEof) /\ WF_vars(handle_tcp_client)

FairSpec == Spec /\ Fairness

-----------------------------------------------------------------------------
(***************************************************************************)
(* Safety.                                                                 *)
(***************************************************************************)
\* When the handler returns, the buffer is empty, or it holds the beginning of
\* one message and expected_size is the size its first byte announces: no size
\* of an earlier message survives a clear, a failure or an overflow.
BufferBetweenMessages ==
  /\ data = <<>> <=> expected = 0
  /\ data # <<>> => expected = data[1] /\ Len(data) < expected

\* A full read always fits behind what the buffer keeps.  connection_read_data
\* relies on it: it does not look at BUFFER_MEMORY_OVERFLOW, which would drop
\* the bytes silently.
RoomForNextRead == Len(data) + READ_SIZE <= BUFFER_SIZE

\* For a client that waits for each message to be handled before it sends the
\* next, no segmentation loses, repeats or reorders a byte: what was handled is
\* what was sent, or all of it but one message, whose bytes are under way.
PacedIsLossless ==
  paced => \/ sent = handled /\ data = <<>> /\ queue = <<>> /\ wire = <<>>
           \/ \E m \in WellSized : /\ sent = Append(handled, m)
                                   /\ data \o queue \o wire = m

\* READ_SIZE is 512, the largest message has 5 bytes.
ReadTakesMessage == LARGEST <= READ_SIZE

\* Bytes, or the end of the stream, of a client that waits for each message to
\* be handled never lie in the socket without an event to come, although an
\* arrival is reported once, several of them in one event, and answered with a
\* single read.
PacedIsAwaited == paced /\ open /\ (queue # <<>> \/ eof) => ready

\* For any client: every byte it sent has left the buffer or is under way, and
\* what is handled are stretches of bytes that follow each other in the stream,
\* as long as their first byte announces, in order, and no byte in two of them.
\* So a handler never sees bytes put together that did not follow each other,
\* whatever an unknown type, an overflow or a clear left behind.  A stretch need
\* not be a message: once bytes were dropped, or a text was sent behind a message
\* of variable length, it may begin inside of one and span two.
Stretch(i) ==
  LET m == handled[i] IN
  /\ m # <<>> /\ Len(m) = m[1] /\ began[i] + Len(m) <= Len(past)
  /\ m = SubSeq(past, began[i] + 1, began[i] + Len(m))
  /\ i < Len(handled) => began[i] + Len(m) <= began[i + 1]

HandledAsSent ==
  /\ stream = past \o (data \o queue \o wire)
  /\ Len(began) = Len(handled)
  /\ \A i \in 1 .. Len(handled) : Stretch(i)

\* For any client that sends messages of known size only, as fast as it likes:
\* until the server drops bytes, what is handled are its messages, whole, from the
\* first one on, each as it was sent.
WholeUntilDropped ==
  ~dropped /\ (\A k \in 1 .. Len(sent) : sent[k] \in WellSized)
     => Len(handled) <= Len(sent) /\ \A i \in 1 .. Len(handled) : handled[i] = sent[i]

\* Where the messages are in the stream: one behind the other.
SentAt(k) ==
  /\ starts[k] + Len(sent[k]) <= Len(stream)
  /\ sent[k] = SubSeq(stream, starts[k] + 1, starts[k] + Len(sent[k]))
  /\ starts[k] + Len(sent[k]) = IF k < Len(sent) THEN starts[k + 1] ELSE Len(stream)

\* Why WholeUntilDropped holds: the next byte the buffer looks at is the first one
\* of the message that is next to be handled.
NextIsAStart ==
  /\ Len(starts) = Len(sent)
  /\ \A k \in 1 .. Len(sent) : SentAt(k)
  /\ ~dropped /\ (\A k \in 1 .. Len(sent) : sent[k] \in WellSized)
       => Len(past) = IF Len(handled) < Len(sent) THEN starts[Len(handled) + 1] ELSE Len(stream)

FramingInv == TypeOK /\ BufferBetweenMessages /\ PacedIsLossless

-----------------------------------------------------------------------------
(***************************************************************************)
(* The promise to the same clients, and its liveness when READ_SIZE holds  *)
(* a whole message.                                                        *)
(***************************************************************************)
D == INSTANCE Delivery WITH
       Messages <- {<<m>> : m \in Requests}, delivered <- handled, orderly <- paced

\* What is handled is a beginning of what a paced client sent.
RequestsInOrder == D!Spec

\* And all of it is handled, although each event is reported only once and
\* answered with one read.
RequestsArrive == D!FairSpec

\* The connection of a client that closes when all its messages were handled is
\* deleted.
PacedCloseIsNoticed == closed /\ paced ~> ~open

-----------------------------------------------------------------------------
(***************************************************************************)
(* What comments of the repository say of the program, and the code does   *)
(* not do (see the findings in the README).                                *)
(***************************************************************************)
\* main.c: "process all complete messages in the buffer".
CompleteMessageIsHandled ==
  [][ReadData /\ open' => LET b == data \o ReadBytes(queue) IN
       b[1] # 0 /\ Len(b) >= b[1] => handled' # handled]_vars

\* main.c: a connection closed by the client is deleted.
CloseIsNoticed == closed ~> ~open
=============================================================================
