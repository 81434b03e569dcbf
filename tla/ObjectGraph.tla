---------------------------- MODULE ObjectGraph -----------------------------
(***************************************************************************)
(* The objects of the server and the pointers between them: the structs    *)
(* and registries of connection.c, stream.c and call.c.                    *)
(*                                                                         *)
(* An object is identified with the address it is allocated at.  The       *)
(* registries connections, streams and calls are exactly the live objects: *)
(* every handler that allocates an object either registers it or frees it  *)
(* before it returns.  A file descriptor or a 26^6 identifier is as good   *)
(* as the address while the object lives, so lookups by fd or id are       *)
(* membership in a registry.  A freed address may be allocated again, so a *)
(* pointer that outlives its object may later point to a different one.    *)
(* The fields of a freed object are blank here: allocation initialises     *)
(* all of them except the UDP address.                                     *)
(*                                                                         *)
(* Pointers that were never cleared are what makes this code hard to get   *)
(* right, so no field is restricted to live objects: what holds of them is *)
(* for the invariants of Conference to say.                                *)
(***************************************************************************)
EXTENDS DenseArray

CONSTANTS Conns, Streams, Calls,             \* addresses, one size class each
          MAX_INPUT, MAX_OUTPUT, MAX_CONNECTION_CALLS,
          STREAM_MAX_RECIPIENTS, MAX_CALL_PARTICIPANTS, MAX_CALL_STREAMS

ASSUME NullIsNoAddress == NULL \notin Conns \cup Streams \cup Calls

ASSUME SlotsArePositive ==
  {MAX_INPUT, MAX_OUTPUT, MAX_CONNECTION_CALLS, STREAM_MAX_RECIPIENTS,
   MAX_CALL_PARTICIPANTS, MAX_CALL_STREAMS} \subseteq Nat \ {0}

VARIABLES
  connections, streams, calls,               \* the three registries
  watch_streams, own_streams, conn_calls,    \* arrays of a Connection
  udp,                                       \* its UDP address and handshake
  owner, stream_call, recipients,            \* fields of a Stream
  participants, call_streams                 \* arrays of a Call

graph == <<connections, streams, calls, watch_streams, own_streams, conn_calls,
           udp, owner, stream_call, recipients, participants, call_streams>>

\* "stale": udp_addr still holds a non-zero port that malloc left there.
UdpStates == {"unset", "stale", "complete"}

connection_has_udp(c) == udp[c] # "unset"

GraphInit ==
  /\ connections = {} /\ streams = {} /\ calls = {}
  /\ watch_streams = [c \in Conns |-> Empty(MAX_INPUT)]
  /\ own_streams = [c \in Conns |-> Empty(MAX_OUTPUT)]
  /\ conn_calls = [c \in Conns |-> Empty(MAX_CONNECTION_CALLS)]
  /\ udp = [c \in Conns |-> "unset"]
  /\ owner = [s \in Streams |-> NULL]
  /\ stream_call = [s \in Streams |-> NULL]
  /\ recipients = [s \in Streams |-> Empty(STREAM_MAX_RECIPIENTS)]
  /\ participants = [k \in Calls |-> Empty(MAX_CALL_PARTICIPANTS)]
  /\ call_streams = [k \in Calls |-> Empty(MAX_CALL_STREAMS)]

GraphTypeOK ==
  /\ connections \subseteq Conns /\ streams \subseteq Streams /\ calls \subseteq Calls
  /\ watch_streams \in [Conns -> ArraysOf(MAX_INPUT, Streams)]
  /\ own_streams \in [Conns -> ArraysOf(MAX_OUTPUT, Streams)]
  /\ conn_calls \in [Conns -> ArraysOf(MAX_CONNECTION_CALLS, Calls)]
  /\ udp \in [Conns -> UdpStates]
  /\ owner \in [Streams -> Conns \cup {NULL}]
  /\ stream_call \in [Streams -> Calls \cup {NULL}]
  /\ recipients \in [Streams -> ArraysOf(STREAM_MAX_RECIPIENTS, Conns)]
  /\ participants \in [Calls -> ArraysOf(MAX_CALL_PARTICIPANTS, Conns)]
  /\ call_streams \in [Calls -> ArraysOf(MAX_CALL_STREAMS, Streams)]

-----------------------------------------------------------------------------
\* connection_new: connection_alloc leaves udp_addr uninitialised.
connection_new(c) ==
  /\ connections' = connections \cup {c}
  /\ \E u \in {"unset", "stale"} : udp' = [udp EXCEPT ![c] = u]

\* call_new: where malloc may place a new call.
call_new == Calls \ calls

(***************************************************************************)
(* Reading through pointers.  A handler that follows the pointers in C, S  *)
(* and K is defined only if all of them are live.                          *)
(***************************************************************************)
Live(C, S, K) == C \subseteq connections /\ S \subseteq streams /\ K \subseteq calls

\* What stream_delete follows: recipients, owner and call of the streams in D.
HoldersOf(D) == UNION {Members(recipients[s]) \cup ({owner[s]} \ {NULL}) : s \in D}
CallsOf(D)   == {stream_call[s] : s \in D} \ {NULL}

(***************************************************************************)
(* Adding a link.  Two functions of the code add both directions of a      *)
(* link, and stream_new adds two links to a new stream; all three do it in *)
(* the same way.  DENSE_ARRAY_ADD returns the index it used, and its       *)
(* callers take every result but 0 for a failure:                          *)
(*   - near returned a non-zero index: give up, near keeps its pointer;    *)
(*   - far already holds the pointer: undo near;                           *)
(*   - far returned a non-zero index: undo near, far keeps its pointer.    *)
(***************************************************************************)
\* Mutant: when far fails, near keeps its pointer.
LinkWithoutRollback(near, far, toFar, toNear) ==
  IF AddIndex(near) = 0 /\ (Contains(far, toNear) \/ AddIndex(far) # 0)
  THEN [near |-> Added(near, toFar), far |-> far, ok |-> FALSE]
  ELSE [near |-> Added(near, toFar), far |-> Added(far, toNear), ok |-> AddIndex(near) = 0]

Link(near, far, toFar, toNear) ==
  CASE AddIndex(near) # 0 ->
         [near |-> Added(near, toFar), far |-> far, ok |-> FALSE]
    [] AddIndex(near) = 0 /\ Contains(far, toNear) ->
         [near |-> near, far |-> far, ok |-> FALSE]
    [] AddIndex(near) = 0 /\ ~Contains(far, toNear) /\ AddIndex(far) # 0 ->
         [near |-> near, far |-> Added(far, toNear), ok |-> FALSE]
    [] OTHER ->
         [near |-> Added(near, toFar), far |-> Added(far, toNear), ok |-> TRUE]

\* Mutant: nobody looks whether the connection is in the call already.
CallAdmitsTwice(k, c) == HasRoom(participants[k]) /\ HasRoom(conn_calls[c])

\* call_add_participant: its early returns, and the link it then attempts.
CallAdmits(k, c) == /\ HasRoom(participants[k])
                    /\ HasRoom(conn_calls[c])
                    /\ ~Contains(participants[k], c)

ParticipantLink(k, c) == Link(participants[k], conn_calls[c], c, k)

\* stream_add_recipient likewise.
StreamAdmits(s, c) == /\ HasRoom(recipients[s])
                      /\ HasRoom(watch_streams[c])
                      /\ ~Contains(recipients[s], c)
                      /\ connection_has_udp(c)

RecipientLink(s, c) == Link(recipients[s], watch_streams[c], c, s)

\* Mutant: anybody may create a stream in a call.
StreamAdmittedToAll(c, k) == HasRoom(own_streams[c]) /\ (k # NULL => HasRoom(call_streams[k]))

\* stream_new, for a stream allocated at s: k is the call of a private stream,
\* NULL for a public one.  A stream that is not ok is freed again.
StreamAdmitted(c, k) == /\ HasRoom(own_streams[c])
                        /\ k # NULL => /\ Contains(participants[k], c)
                                       /\ HasRoom(call_streams[k])

\* Mutant: a public stream is not added to its owner.
NewStreamUnowned(s, c, k) ==
  IF k = NULL THEN [near |-> own_streams[c], ok |-> TRUE]
  ELSE Link(own_streams[c], call_streams[k], s, s)

NewStreamLink(s, c, k) ==
  LET own == own_streams[c]  known == Contains(own, s) IN
  CASE k = NULL         -> [near |-> IF known THEN own ELSE Added(own, s),
                            ok |-> ~known /\ AddIndex(own) = 0]
    [] k # NULL /\ known -> [near |-> own, far |-> call_streams[k], ok |-> FALSE]
    [] OTHER            -> Link(own, call_streams[k], s, s)

-----------------------------------------------------------------------------
(***************************************************************************)
(* Deleting.  stream_delete, for a set D of streams deleted one after the  *)
(* other: each recipient, the owner and the call forget the stream, if the *)
(* stream still points to them.                                            *)
(***************************************************************************)
WatchedWithout(D) ==
  [c \in Conns |-> Without(watch_streams[c], {s \in D : Contains(recipients[s], c)})]
\* Mutant: the owner keeps its pointer to a deleted stream.
OwnedKept(D) == own_streams

OwnedWithout(D) ==
  [c \in Conns |-> Without(own_streams[c], {s \in D : owner[s] = c})]
CallStreamsWithout(D) ==
  [k \in Calls |-> Without(call_streams[k], {s \in D : stream_call[s] = k})]

\* Mutant: an object starts with what its address held before.
NotBlanked(field, D, blank) == field

\* A field of the freed objects in D becomes blank.
Blanked(field, D, blank) == [x \in DOMAIN field |-> IF x \in D THEN blank ELSE field[x]]

\* Mutant: only the stream forgets the recipient.
RecipientForgotten(s, c) ==
  /\ recipients' = [recipients EXCEPT ![s] = Without(recipients[s], {c})]
  /\ UNCHANGED watch_streams

\* stream_remove_recipient clears the watch link even when the stream does not
\* know the recipient.
stream_remove_recipient(s, c) ==
  /\ recipients' = [recipients EXCEPT ![s] = Without(recipients[s], {c})]
  /\ watch_streams' = [watch_streams EXCEPT ![c] = Without(watch_streams[c], {s})]

call_remove_participant(k, c) ==
  /\ participants' = [participants EXCEPT ![k] = Without(participants[k], {c})]
  /\ conn_calls' = [conn_calls EXCEPT ![c] = Without(conn_calls[c], {k})]

stream_delete(D) ==
  /\ streams' = streams \ D
  /\ watch_streams' = WatchedWithout(D)
  /\ own_streams' = OwnedWithout(D)
  /\ recipients' = Blanked(recipients, D, Empty(STREAM_MAX_RECIPIENTS))
  /\ owner' = Blanked(owner, D, NULL)

\* call_delete, for the calls in K, which have no participants any more: each
\* detaches the streams that its array still holds.  The streams in D are
\* deleted before, and leave their calls.
call_delete(K, D) ==
  LET held == UNION {Members(CallStreamsWithout(D)[k]) : k \in K} IN
  /\ calls' = calls \ K
  /\ call_streams' = Blanked(CallStreamsWithout(D), K, Empty(MAX_CALL_STREAMS))
  /\ stream_call' = Blanked(stream_call, D \cup held, NULL)

\* What connection_delete follows.
ConnectionRefsLive(c) ==
  LET own == Members(own_streams[c]) IN
  Live(HoldersOf(own), Members(watch_streams[c]) \cup own,
       Members(conn_calls[c]) \cup CallsOf(own))

\* Mutant: a connection does not leave its calls.
CallsNotLeft(c) == participants

\* connection_remove_call_safe, for each call the connection knows of.
CallsLeft(c) ==
  [k \in Calls |-> IF Contains(conn_calls[c], k) THEN Without(participants[k], {c})
                  ELSE participants[k]]

\* connection_delete: leave the watched streams, delete the own streams,
\* leave the calls the connection knows of, unregister and free.  A stream or
\* a call that holds c without c knowing keeps its pointer.
connection_delete(c) ==
  LET own == Members(own_streams[c]) IN
  /\ connections' = connections \ {c}
  /\ streams' = streams \ own
  /\ watch_streams' = Blanked(WatchedWithout(own), {c}, Empty(MAX_INPUT))
  /\ own_streams' = Blanked(OwnedWithout(own), {c}, Empty(MAX_OUTPUT))
  /\ conn_calls' = Blanked(conn_calls, {c}, Empty(MAX_CONNECTION_CALLS))
  /\ udp' = Blanked(udp, {c}, "unset")
  /\ recipients' = [s \in Streams |->
       IF s \in own THEN Empty(STREAM_MAX_RECIPIENTS)
       ELSE IF Contains(watch_streams[c], s) THEN Without(recipients[s], {c})
       ELSE recipients[s]]
  /\ owner' = Blanked(owner, own, NULL)
  /\ stream_call' = Blanked(stream_call, own, NULL)
  /\ participants' = CallsLeft(c)
  /\ call_streams' = CallStreamsWithout(own)
  /\ UNCHANGED calls
=============================================================================
