----------------------------- MODULE WritePath ------------------------------
(***************************************************************************)
(* How the messages of the server reach one client: the write buffer of a  *)
(* Connection, connection_send_message, connection_write_data, and the     *)
(* EPOLLOUT event that continues a partial write.                          *)
(*                                                                         *)
(* Every message is put into the write buffer, whatever it holds, and      *)
(* written at once.  When the socket takes only a part, EPOLLOUT is added  *)
(* to the events of the connection, and never removed; the next event      *)
(* writes what is left of the buffer.                                      *)
(*                                                                         *)
(* The read direction of the same connection is Framing.                   *)
(***************************************************************************)
EXTENDS Integers, Sequences

CONSTANTS
  Bytes,
  Answers,       \* the messages of the server
  BUFFER_SIZE,
  SOCKET,        \* how many bytes the socket and the network hold
  MaxSaid        \* bound: how many bytes the server sends

ASSUME SocketHoldsBytes == SOCKET \in Nat \ {0}

\* The longest message, an error with its text, has 67 bytes.
ASSUME AnswersFit == \A m \in Answers : m \in Seq(Bytes) /\ Len(m) \in 1 .. BUFFER_SIZE

VARIABLES
  said,      \* history: the bytes of all messages, one after the other
  heard,     \* the bytes the client has read
  queue,     \* bytes the socket took and the client has not read
  data,      \* the write buffer: its bytes up to position
  orderly,   \* history: no message was sent while bytes of another waited
  begun,     \* history: where in said the messages begin
  origin,    \* history: which bytes of said were read, or are on their way
  armed,     \* EPOLLOUT is among the events of the connection
  blocked,   \* the socket refused bytes and owes an event for it
  ready,     \* EPOLLOUT is to be reported
  gone       \* the client reset the connection

vars == <<said, heard, queue, data, orderly, begun, origin, armed, blocked, ready, gone>>

TypeOK ==
  /\ {said, heard, queue, data} \subseteq Seq(Bytes)
  /\ begun \subseteq Nat /\ origin \in Seq(Nat)
  /\ Len(origin) = Len(heard) + Len(queue) + Len(data)
  /\ {orderly, armed, blocked, ready, gone} \subseteq BOOLEAN

Init ==
  /\ said = <<>> /\ heard = <<>> /\ queue = <<>> /\ data = <<>>
  /\ orderly = TRUE /\ begun = {} /\ origin = <<>>
  /\ armed = FALSE /\ blocked = FALSE /\ ready = FALSE /\ gone = FALSE

-----------------------------------------------------------------------------
(***************************************************************************)
(* write() and what becomes of the buffer.                                 *)
(***************************************************************************)
\* How many bytes write() takes of d.  It may take fewer than there is room
\* for, but none (EAGAIN) only when there is no room.
Takes(d) ==
  LET room == SOCKET - Len(queue) IN
  {n \in 0 .. Len(d) : n <= room /\ (n = 0 => room = 0)}

\* Mutant: the bytes that were not written are not moved to the front.
RestUnmoved(d, n) == SubSeq(d, 1, Len(d) - n)

\* The buffer after n bytes of d were written.
Rest(d, n) == SubSeq(d, n + 1, Len(d))

\* Mutant: the end of a longer rest is still in the buffer behind a new message.
WriteOverRest(d, n) ==
  /\ queue' = queue \o SubSeq(d, 1, n)
  /\ data' = Rest(d, n) \o SubSeq(data, Len(d) + 1, Len(data))
  /\ blocked' = (blocked \/ n < Len(d))

\* connection_write_data on a buffer that holds d, for a client that is there.
Write(d, n) ==
  /\ queue' = queue \o SubSeq(d, 1, n)
  /\ data' = Rest(d, n)
  /\ blocked' = (blocked \/ n < Len(d))

\* Mutant: only EAGAIN counts as a write to be continued.
ArmOnlyIfRefused(d, n) == armed' = (armed \/ n = 0)

\* connection_send_message arms EPOLLOUT when the write was partial.
Arm(d, n) == armed' = (armed \/ n < Len(d))

\* The message replaces what the buffer held.  epoll_modify looks at the socket
\* at once, which may be writable again.
connection_send_message(m) ==
  /\ Len(said) + Len(m) <= MaxSaid
  /\ said' = said \o m
  /\ orderly' = (orderly /\ data = <<>>)
  /\ begun' = begun \union {Len(said) + 1}
  /\ origin' = SubSeq(origin, 1, Len(heard) + Len(queue))
                 \o [i \in 1 .. Len(m) |-> Len(said) + i]
  /\ \/ gone /\ data' = m /\ UNCHANGED <<queue, armed, blocked, ready>>
     \/ /\ ~gone
        /\ \E n \in Takes(m) :
             /\ Write(m, n) /\ Arm(m, n)
             /\ \/ UNCHANGED ready
                \/ n < Len(m) /\ Len(queue') < SOCKET /\ ready' = TRUE
  /\ UNCHANGED <<heard, gone>>

\* Mutant: a rest that was continued once is forgotten.
HandleOutOnce ==
  /\ ready /\ ready' = FALSE /\ blocked' = FALSE
  /\ \E n \in Takes(data) : queue' = queue \o SubSeq(data, 1, n) /\ data' = Rest(data, n)
  /\ UNCHANGED <<said, heard, orderly, begun, origin, armed, gone>>

\* EPOLLOUT is reported: connection_write_data, once.
HandleOut ==
  /\ ready /\ ready' = FALSE
  /\ \/ data = <<>> /\ UNCHANGED <<queue, data, blocked>>
     \/ data # <<>> /\ gone /\ UNCHANGED <<queue, data, blocked>>
     \/ data # <<>> /\ ~gone /\ \E n \in Takes(data) : Write(data, n)
  /\ UNCHANGED <<said, heard, orderly, begun, origin, armed, gone>>

-----------------------------------------------------------------------------
(***************************************************************************)
(* The client and the network.                                             *)
(***************************************************************************)
\* Reading makes room.  An event that is owed is reported when the kernel finds
\* that there is room enough, at the latest when nothing is left to be read.
ClientReads ==
  /\ ~gone
  /\ \E n \in 1 .. Len(queue) :
       /\ heard' = heard \o SubSeq(queue, 1, n)
       /\ queue' = SubSeq(queue, n + 1, Len(queue))
  /\ \/ blocked /\ blocked' = FALSE /\ ready' = (ready \/ armed)
     \/ (~blocked \/ queue' # <<>>) /\ UNCHANGED <<blocked, ready>>
  /\ UNCHANGED <<said, data, orderly, begun, origin, armed, gone>>

\* Once EPOLLOUT is armed, an event of any other kind reports it, too.
OtherEvent ==
  /\ armed /\ ~ready /\ Len(queue) < SOCKET
  /\ ready' = TRUE
  /\ UNCHANGED <<said, heard, queue, data, orderly, begun, origin, armed, blocked, gone>>

ClientResets ==
  /\ ~gone /\ gone' = TRUE
  /\ orderly' = FALSE
  /\ UNCHANGED <<said, heard, queue, data, begun, origin, armed, blocked, ready>>

Next ==
  \/ \E m \in Answers : connection_send_message(m)
  \/ HandleOut
  \/ ClientReads \/ OtherEvent \/ ClientResets

Spec == Init /\ [][Next]_vars

\* The event loop comes to every event; a client that is there reads.
Fairness == WF_vars(HandleOut) /\ WF_vars(ClientReads)

FairSpec == Spec /\ Fairness

-----------------------------------------------------------------------------
(***************************************************************************)
(* Safety.                                                                 *)
(***************************************************************************)
\* While no message is sent before the one before has left the buffer, every
\* byte is on its way exactly once and in order, however writes were cut.
OrderlyIsLossless == orderly => said = heard \o (queue \o data)

\* Bytes never wait in the buffer without an event to come: EPOLLOUT is armed,
\* and it is to be reported, or the client still has to make room.
\* connection_write_data arms nothing when it continues a write.
RestIsAwaited ==
  data # <<>> /\ ~gone => armed /\ (ready \/ (blocked /\ queue # <<>>))

\* Whatever the sender does, a message is torn only at its end: the bytes the
\* client has read, and those that follow, are bytes the server sent, each at
\* most once and in the order in which they were sent, and after a gap always
\* comes the first byte of a message.  connection_send_message drops the rest
\* of the message before, and connection_write_data never a byte between two.
Path == heard \o (queue \o data)

OnTheWay(i) ==
  /\ origin[i] \in 1 .. Len(said) /\ said[origin[i]] = Path[i]
  /\ i > 1 => origin[i - 1] < origin[i]
  /\ origin[i] \in begun \/ (i > 1 /\ origin[i - 1] = origin[i] - 1)

TornOnlyAtTheEnd ==
  /\ Len(origin) = Len(Path)
  /\ \A i \in 1 .. Len(origin) : OnTheWay(i)

WriteInv ==
  /\ TypeOK /\ Len(queue) <= SOCKET
  /\ OrderlyIsLossless /\ RestIsAwaited

-----------------------------------------------------------------------------
(***************************************************************************)
(* The promise to an orderly sender.                                       *)
(***************************************************************************)
D == INSTANCE Delivery WITH Messages <- Answers, sent <- said, delivered <- heard

\* What the client reads is a beginning of what the server sent.
AnswersInOrder == D!Spec

\* And it reads all of it, although only a partial write arms EPOLLOUT, only
\* a send arms it, and each event continues the write once.
AnswersArrive == D!FairSpec

-----------------------------------------------------------------------------
(***************************************************************************)
(* What a comment of the repository says of the program, and the code does *)
(* not do (see the findings in the README).                                *)
(***************************************************************************)
\* connection.c: what a write left over is to be repeated later.  So what has
\* been written is always a beginning of what was sent.
WrittenIsBeginningOfSaid ==
  \E n \in 0 .. Len(said) : heard \o queue = SubSeq(said, 1, n)
=============================================================================
