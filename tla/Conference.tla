----------------------------- MODULE Conference -----------------------------
(***************************************************************************)
(* The conference server as a state machine: the message handlers of       *)
(* protocol.c, the acceptance and closing of connections, the periodic     *)
(* integrity check and the shutdown of main.c, over the ObjectGraph.       *)
(*                                                                         *)
(* The server is one thread that runs one handler at a time to its end, so *)
(* a handler is one action.  Clients are not modelled: any connection may  *)
(* send any request about any identifier at any time.                      *)
(*                                                                         *)
(* A handler that follows a pointer to a freed object has no defined       *)
(* outcome in C.  The model stops there: phase becomes "undefined" and the *)
(* graph keeps the value it had before the handler.  What is checked and   *)
(* proved below thus speaks of every execution up to that point.           *)
(***************************************************************************)
EXTENDS ObjectGraph

VARIABLES
  phase,   \* where main() is
  reply    \* what the last handler answered to the client that called it

vars == <<graph, phase, reply>>

Phases  == {"serving", "closing", "stopped", "undefined"}
Replies == {"none", "success", "error"}

TypeOK == GraphTypeOK /\ phase \in Phases /\ reply \in Replies

Init == GraphInit /\ phase = "serving" /\ reply = "none"

\* Outcomes shared by the handlers.
Undefined   == phase' = "undefined" /\ UNCHANGED <<graph, reply>>
Refuse      == reply' = "error" /\ UNCHANGED <<graph, phase>>
Answer(ok)  == reply' = (IF ok THEN "success" ELSE "error") /\ UNCHANGED phase
NoReply     == reply' = "none" /\ UNCHANGED phase

Serving     == phase = "serving"
Request(c)  == Serving /\ c \in connections

-----------------------------------------------------------------------------
\* handle_tcp_accept.
Accept(c) ==
  /\ Serving /\ c \notin connections
  /\ connection_new(c)
  /\ NoReply
  /\ UNCHANGED <<streams, calls, watch_streams, own_streams, conn_calls, owner,
                 stream_call, recipients, participants, call_streams>>

\* handle_connection_closed: the client closed the socket or reading failed.
Close(c) ==
  /\ Request(c)
  /\ \/ ~ConnectionRefsLive(c) /\ Undefined
     \/ ConnectionRefsLive(c) /\ connection_delete(c) /\ NoReply

\* handle_call_create.  The random id may be taken and malloc may fail.  When
\* the creator cannot be added, call_delete frees the call again.
CallCreate(c) ==
  /\ Request(c)
  /\ \/ Refuse
     \/ \E k \in call_new :
          LET l == ParticipantLink(k, c) IN
          /\ HasRoom(conn_calls[c])
          /\ calls' = IF l.ok THEN calls \cup {k} ELSE calls
          /\ participants' = [participants EXCEPT ![k] = l.near]
          /\ conn_calls' = [conn_calls EXCEPT ![c] = l.far]
          /\ Answer(l.ok)
          /\ UNCHANGED <<connections, streams, watch_streams, own_streams, udp,
                         owner, stream_call, recipients, call_streams>>

\* handle_call_join: a newcomer is sent the members and streams of the call,
\* the members are told of the newcomer.
CallJoin(c, k) ==
  LET l     == ParticipantLink(k, c)
      admit == k \in calls /\ CallAdmits(k, c)
      safe  == l.ok => Live(Members(l.near), Members(call_streams[k]), {})
  IN
  /\ Request(c)
  /\ \/ ~admit /\ Refuse
     \/ admit /\ ~safe /\ Undefined
     \/ /\ admit /\ safe
        /\ participants' = [participants EXCEPT ![k] = l.near]
        /\ conn_calls' = [conn_calls EXCEPT ![c] = l.far]
        /\ Answer(l.ok)
        /\ UNCHANGED <<connections, streams, calls, watch_streams, own_streams,
                       udp, owner, stream_call, recipients, call_streams>>

\* Mutant: whoever leaves ends all streams of the call.
WholeCall(c, k) == Members(call_streams[k])

\* Mutant: the streams of whoever leaves stay.
NobodysStreams(c, k) == {}

StreamsOfLeaver(c, k) == {s \in Members(call_streams[k]) : owner[s] = c}

\* handle_call_leave: the leaver's streams in the call are deleted, the members
\* that stay are told, and a call that became empty is deleted.
CallLeave(c, k) ==
  LET held    == Members(call_streams[k])
      own     == StreamsOfLeaver(c, k)
      left    == Without(participants[k], {c})
      emptied == Members(left) = {}
      rest    == Members(CallStreamsWithout(own)[k])
      member  == k \in calls /\ Contains(participants[k], c)
      safe    == /\ Live(HoldersOf(own) \cup Members(left), held, CallsOf(own))
                 /\ emptied => rest \cap own = {}
  IN
  /\ Request(c)
  /\ \/ ~member /\ Refuse
     \/ member /\ ~safe /\ Undefined
     \/ /\ member /\ safe
        /\ call_remove_participant(k, c)
        /\ stream_delete(own)
        /\ call_delete(IF emptied THEN {k} ELSE {}, own)
        /\ Answer(TRUE)
        /\ UNCHANGED <<connections, udp>>

\* handle_stream_create: k is NULL for a public stream.  The random id may be
\* taken and malloc may fail.  The members of the call are told.
StreamCreate(c, k) ==
  LET admit == (k # NULL => k \in calls) /\ StreamAdmitted(c, k)
      told  == IF k = NULL THEN {} ELSE Members(participants[k])
  IN
  /\ Request(c)
  /\ \/ Refuse
     \/ \E s \in Streams \ streams :
          LET l    == NewStreamLink(s, c, k)
              safe == l.ok => Live(told, {}, {})
          IN
          /\ admit
          /\ \/ ~safe /\ Undefined
             \/ /\ safe
                /\ streams' = IF l.ok THEN streams \cup {s} ELSE streams
                /\ owner' = [owner EXCEPT ![s] = IF l.ok THEN c ELSE NULL]
                /\ stream_call' = [stream_call EXCEPT ![s] = IF l.ok THEN k ELSE NULL]
                /\ own_streams' = [own_streams EXCEPT ![c] = l.near]
                /\ call_streams' = IF k = NULL THEN call_streams
                                   ELSE [call_streams EXCEPT ![k] = l.far]
                /\ Answer(l.ok)
                /\ UNCHANGED <<connections, calls, watch_streams, conn_calls, udp,
                               recipients, participants>>

\* handle_stream_delete: only the owner may; the recipients and the members of
\* the call are told first.
StreamDelete(c, s) ==
  LET told == UNION {Members(participants[k]) : k \in CallsOf({s})}
      safe == Live(HoldersOf({s}) \cup told, {}, CallsOf({s}))
      owns == s \in streams /\ owner[s] = c
  IN
  /\ Request(c)
  /\ \/ ~owns /\ Refuse
     \/ owns /\ ~safe /\ Undefined
     \/ /\ owns /\ safe
        /\ stream_delete({s})
        /\ stream_call' = Blanked(stream_call, {s}, NULL)
        /\ call_streams' = CallStreamsWithout({s})
        /\ Answer(TRUE)
        /\ UNCHANGED <<connections, calls, conn_calls, udp, participants>>

\* handle_stream_join: a private stream is for the participants of its call.
\* On success every recipient is looked at, and the owner of a first one told.
StreamJoin(c, s) ==
  LET l     == RecipientLink(s, c)
      inCall == \A k \in CallsOf({s}) : Contains(participants[k], c)
      admit == s \in streams /\ inCall /\ StreamAdmits(s, c)
      safe  == /\ s \in streams => Live({}, {}, CallsOf({s}))
               /\ admit /\ l.ok => Live(Members(l.near) \cup {owner[s]}, {}, {})
  IN
  /\ Request(c)
  /\ \/ ~safe /\ Undefined
     \/ safe /\ ~admit /\ Refuse
     \/ /\ safe /\ admit
        /\ recipients' = [recipients EXCEPT ![s] = l.near]
        /\ watch_streams' = [watch_streams EXCEPT ![c] = l.far]
        /\ Answer(l.ok)
        /\ UNCHANGED <<connections, streams, calls, own_streams, conn_calls, udp,
                       owner, stream_call, participants, call_streams>>

\* handle_stream_leave: the owner is told when the last recipient has left.
StreamLeave(c, s) ==
  LET left == Without(recipients[s], {c})
      ok   == Contains(recipients[s], c)
      safe == ok /\ Members(left) = {} => owner[s] \in connections
  IN
  /\ Request(c)
  /\ \/ s \notin streams /\ Refuse
     \/ s \in streams /\ ~safe /\ Undefined
     \/ /\ s \in streams /\ safe
        /\ stream_remove_recipient(s, c)
        /\ Answer(ok)
        /\ UNCHANGED <<connections, streams, calls, own_streams, conn_calls, udp,
                       owner, stream_call, participants, call_streams>>

-----------------------------------------------------------------------------
\* handle_udp_handshake, when the connection exists and the address matches.
UdpHandshake(c) ==
  /\ Request(c)
  /\ udp' = [udp EXCEPT ![c] = "complete"]
  /\ NoReply
  /\ UNCHANGED <<connections, streams, calls, watch_streams, own_streams, conn_calls,
                 owner, stream_call, recipients, participants, call_streams>>

\* handle_udp_stream_packet, when the packet names the call of the stream: it
\* looks at every recipient but the owner and changes no object.
RelayPacket(s) ==
  /\ Serving /\ s \in streams
  /\ ~Live(Members(recipients[s]) \ {owner[s]}, {}, CallsOf({s}))
  /\ Undefined

\* check_all_integrity first prints every live object, and follows all its
\* pointers to do so; its comparisons then follow the same pointers.
print_connection_details(c) ==
  Live({}, Members(watch_streams[c]) \cup Members(own_streams[c]), Members(conn_calls[c]))

print_stream_details(s) == Live(HoldersOf({s}), {}, CallsOf({s}))

print_call_details(k) == Live(Members(participants[k]), Members(call_streams[k]), {})

EveryRefLive ==
  /\ \A c \in connections : print_connection_details(c)
  /\ \A s \in streams : print_stream_details(s)
  /\ \A k \in calls : print_call_details(k)

\* The check main() runs every 60 seconds.
PeriodicCheck == Serving /\ ~EveryRefLive /\ Undefined

\* A signal ends the main loop; cleanup() checks once more, then
\* connection_close_all deletes the connections one after the other (in any
\* order here) and main() returns.
Shutdown ==
  /\ Serving
  /\ \/ ~EveryRefLive /\ Undefined
     \/ EveryRefLive /\ phase' = "closing" /\ reply' = "none" /\ UNCHANGED graph

CloseNext(c) ==
  /\ phase = "closing" /\ c \in connections
  /\ \/ ~ConnectionRefsLive(c) /\ Undefined
     \/ ConnectionRefsLive(c) /\ connection_delete(c) /\ NoReply

AllClosed ==
  /\ phase = "closing" /\ connections = {}
  /\ phase' = "stopped" /\ UNCHANGED <<graph, reply>>

Ended == phase \in {"stopped", "undefined"} /\ UNCHANGED vars

-----------------------------------------------------------------------------
ConnectionStep(c) ==
  \/ Accept(c) \/ Close(c) \/ UdpHandshake(c) \/ CallCreate(c) \/ CloseNext(c)
  \/ \E k \in Calls : CallJoin(c, k) \/ CallLeave(c, k)
  \/ \E k \in Calls \cup {NULL} : StreamCreate(c, k)
  \/ \E s \in Streams : StreamDelete(c, s) \/ StreamJoin(c, s) \/ StreamLeave(c, s)

Next ==
  \/ \E c \in Conns : ConnectionStep(c)
  \/ \E s \in Streams : RelayPacket(s)
  \/ PeriodicCheck \/ Shutdown \/ AllClosed \/ Ended

Spec == Init /\ [][Next]_vars

-----------------------------------------------------------------------------
(***************************************************************************)
(* Safety.  Slot 0 is the only slot the link functions report as success,  *)
(* so it is where the two ends of a link must agree; the other slots may   *)
(* hold one-sided or stale pointers.                                       *)
(***************************************************************************)
\* Slot 0 of a call and slot 0 of its participant always name each other: no
\* sequence of joins, leaves, deletions and disconnects leaves one end behind.
CallMembershipMutual ==
  \A c \in Conns, k \in Calls : participants[k][0] = c <=> conn_calls[c][0] = k

\* Likewise for a stream and its first recipient.
WatchingMutual ==
  \A c \in Conns, s \in Streams : recipients[s][0] = c <=> watch_streams[c][0] = s

\* A registered stream has a live owner that knows it, and a connection never
\* owns a second one: own_streams[0] is exactly the inverse of owner.
OwnershipMutual ==
  /\ \A s \in streams : owner[s] \in connections
  /\ \A c \in Conns, s \in Streams :
       own_streams[c][0] = s <=> s \in streams /\ owner[s] = c

\* A private stream points to a live call that holds it, and its owner is a
\* participant: whoever leaves or disconnects takes his private streams along.
PrivateStreamInCall ==
  \A s \in streams : stream_call[s] # NULL =>
     /\ stream_call[s] \in calls
     /\ call_streams[stream_call[s]][0] = s
     /\ Contains(participants[stream_call[s]], owner[s])

\* No array holds the same address twice, not even through address reuse, so
\* removing the first occurrence removes the pointer.
NoDuplicatePointers ==
  /\ \A c \in Conns : /\ NoDuplicates(watch_streams[c])
                      /\ NoDuplicates(own_streams[c])
                      /\ NoDuplicates(conn_calls[c])
  /\ \A s \in Streams : NoDuplicates(recipients[s])
  /\ \A k \in Calls : NoDuplicates(participants[k]) /\ NoDuplicates(call_streams[k])

\* When main() returns, closing the connections has deleted every stream.
NothingLeftBehind == phase = "stopped" => connections = {} /\ streams = {}

\* A freed object holds no pointers, so an object starts without any.
FreedIsBlank ==
  /\ \A c \in Conns \ connections : /\ watch_streams[c] = Empty(MAX_INPUT)
                                    /\ own_streams[c] = Empty(MAX_OUTPUT)
                                    /\ conn_calls[c] = Empty(MAX_CONNECTION_CALLS)
  /\ \A s \in Streams \ streams : /\ recipients[s] = Empty(STREAM_MAX_RECIPIENTS)
                                  /\ owner[s] = NULL /\ stream_call[s] = NULL
  /\ \A k \in Calls \ calls : /\ participants[k] = Empty(MAX_CALL_PARTICIPANTS)
                              /\ call_streams[k] = Empty(MAX_CALL_STREAMS)

\* The inductive invariant: the parts above imply each other's next step.
IInv ==
  /\ TypeOK /\ FreedIsBlank /\ NoDuplicatePointers
  /\ CallMembershipMutual /\ WatchingMutual /\ OwnershipMutual
  /\ PrivateStreamInCall
  /\ phase = "stopped" => connections = {}

-----------------------------------------------------------------------------
(***************************************************************************)
(* What all this amounts to: Sessions, read off the slots 0.               *)
(***************************************************************************)
Viewer == [s \in Streams |-> recipients[s][0]]
Member == [k \in Calls |-> participants[k][0]]

\* Who keeps a pointer of a stream that could not be created.
Spoilt == {c \in Conns : \E i \in Slots(MAX_OUTPUT) \ {0} : own_streams[c][i] # NULL}

Abs == INSTANCE Sessions WITH present <- connections, viewer <- Viewer,
                              member <- Member, spoilt <- Spoilt

\* Whatever the requests and their order, what the server has granted to one
\* client no request of another ends, but by deleting the stream that is watched,
\* and a disconnect ends nothing but what was the client's own, unless it had
\* asked for a second stream.
SessionsKept == Abs!Spec

-----------------------------------------------------------------------------
(***************************************************************************)
(* What comments and tests of the repository say of the program, and the   *)
(* code does not do (see the findings in the README).                      *)
(***************************************************************************)
\* A connection with room for a call joins a call with room for participants:
\* test_call.c expects the second and third participant to be added.
JoinerWithRoomIsAdmitted ==
  [][\A c \in Conns, k \in calls :
       CallJoin(c, k) /\ CallAdmits(k, c) /\ phase' = "serving" => reply' = "success"]_vars

\* protocol.c deletes a call when its last participant has gone.
EmptyCallIsDeleted == \A k \in calls : Members(participants[k]) # {}

\* connection_delete deletes the connection's own streams, no others.
CloseDeletesOnlyOwnStreams ==
  [][\A c \in Conns : Close(c) => \A s \in streams \ streams' : owner[s] = c]_vars
=============================================================================
