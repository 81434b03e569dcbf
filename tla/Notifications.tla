--------------------------- MODULE Notifications ----------------------------
(***************************************************************************)
(* What the clients are told: the notifications and answers that the       *)
(* handlers of Conference send, and the packets the relay passes on.       *)
(*                                                                         *)
(* Each handler of Conference is taken together with the messages it       *)
(* sends.  A message is kept only in what its receiver knows after it.     *)
(* That messages arrive whole is the matter of WritePath.                  *)
(*                                                                         *)
(* Clients know objects by their identifiers.  Identifiers are random, so  *)
(* a new object is not taken for its predecessor at the same address:      *)
(* nobody knows anything of it.                                            *)
(***************************************************************************)
EXTENDS Conference

VARIABLES
  knows,     \* <<client, stream>>: the client was told that it joined the stream,
             \* and neither that it left nor that the stream was deleted
  offers,    \* <<client, call, stream>>: the client was told that the stream is
             \* in the call, which it has not left, and not of its deletion
  started    \* streams whose owner was told START, and not END since

views == <<knows, offers, started>>
nvars == <<vars, views>>

ViewsTypeOK ==
  /\ knows \subseteq Conns \X Streams
  /\ offers \subseteq Conns \X Calls \X Streams
  /\ started \subseteq Streams

NInit == Init /\ knows = {} /\ offers = {} /\ started = {}

-----------------------------------------------------------------------------
(***************************************************************************)
(* Messages, each as the set of what its receivers learn or unlearn.       *)
(***************************************************************************)
\* Mutant: the loop over the recipients begins at 1.
RecipientsButFirst(s) == {recipients[s][i] : i \in DOMAIN recipients[s] \ {0}} \X {s}

broadcast_to_stream_recipients(s) == Members(recipients[s]) \X {s}

\* About the streams S, to participants P of call k, except exclude, if it is
\* not NULL.
broadcast_to_call_participants(P, k, S, exclude) == (P \ {exclude}) \X {k} \X S

send_stream_deleted(s) == broadcast_to_stream_recipients(s)

\* A leaver is no participant any more when the others are told.
send_call_stream_deleted(k, S, leaver) ==
  broadcast_to_call_participants(Members(participants[k]), k, S, leaver)

\* A public stream (k is NULL) is announced to nobody.
send_call_stream_new(k, S) ==
  UNION {broadcast_to_call_participants(Members(participants[l]), l, S, NULL) : l \in {k} \ {NULL}}

\* Mutant: a newcomer is not told of the streams of the call.
NothingJoined(c, k) == {}

\* A newcomer to a call is told of the streams in it.
send_call_joined(c, k) == {c} \X {k} \X Members(call_streams[k])

\* Mutant: the recipients are counted before the newcomer is added.
StartCountedBefore(s) == {t \in {s} : \E r \in Conns : Members(recipients[s]) = {r}}

\* START is sent if the recipient that was added is the only one,
send_stream_start(s) == {t \in {s} : \E r \in Conns : Members(recipients'[s]) = {r}}

\* and END if the one that was removed was the last.
send_stream_end(s) == {t \in {s} : Members(recipients'[s]) = {}}

-----------------------------------------------------------------------------
(***************************************************************************)
(* The handlers and what they send.                                        *)
(***************************************************************************)
\* What stays known: a client that is gone knows nothing, and nobody knows
\* anything of a new object.
StillKnown   == {p \in knows : p[1] \in connections' /\ p[2] \notin streams' \ streams}
StillOffered == {o \in offers : /\ o[1] \in connections' /\ o[2] \notin calls' \ calls
                                /\ o[3] \notin streams' \ streams}
StillStarted == started \cap streams \cap streams'

OnSuccess(M) == {m \in M : phase' = "serving" /\ reply' = "success"}

NStreamCreate(c, k) ==
  /\ StreamCreate(c, k)
  /\ offers' = StillOffered \cup OnSuccess(send_call_stream_new(k, streams' \ streams))
  /\ knows' = StillKnown /\ started' = StillStarted

NStreamDelete(c, s) ==
  /\ StreamDelete(c, s)
  /\ knows' = StillKnown \ OnSuccess(send_stream_deleted(s))
  /\ offers' = StillOffered
       \ OnSuccess(UNION {send_call_stream_deleted(k, {s}, NULL) : k \in CallsOf({s})})
  /\ started' = StillStarted

\* Mutant: the newcomer is told together with the owner, if it is the only one.
ToldIfFirst(c, s) ==
  /\ StreamJoin(c, s)
  /\ knows' = StillKnown \cup {<<c, t>> : t \in OnSuccess(send_stream_start(s))}
  /\ started' = StillStarted \cup OnSuccess(send_stream_start(s))
  /\ offers' = StillOffered

NStreamJoin(c, s) ==
  /\ StreamJoin(c, s)
  /\ knows' = StillKnown \cup OnSuccess({<<c, s>>})
  /\ started' = StillStarted \cup OnSuccess(send_stream_start(s))
  /\ offers' = StillOffered

NStreamLeave(c, s) ==
  /\ StreamLeave(c, s)
  /\ knows' = StillKnown \ OnSuccess({<<c, s>>})
  /\ started' = StillStarted \ OnSuccess(send_stream_end(s))
  /\ offers' = StillOffered

NCallJoin(c, k) ==
  /\ CallJoin(c, k)
  /\ offers' = StillOffered \cup OnSuccess(send_call_joined(c, k))
  /\ knows' = StillKnown /\ started' = StillStarted

\* With its answer the leaver forgets the call.
NCallLeave(c, k) ==
  LET own    == StreamsOfLeaver(c, k)
      forgot == {c} \X {k} \X Streams
  IN
  /\ CallLeave(c, k)
  /\ knows' = StillKnown \ OnSuccess(UNION {send_stream_deleted(s) : s \in own})
  /\ offers' = StillOffered \ OnSuccess(forgot \cup send_call_stream_deleted(k, own, c))
  /\ started' = StillStarted

\* The other steps send nothing about a stream.  A connection that closes takes
\* its streams and memberships along, and nobody is told.
NQuiet ==
  /\ \/ \E c \in Conns : Accept(c) \/ Close(c) \/ UdpHandshake(c) \/ CallCreate(c) \/ CloseNext(c)
     \/ \E s \in Streams : RelayPacket(s)
     \/ PeriodicCheck \/ Shutdown \/ AllClosed \/ Ended
  /\ knows' = StillKnown /\ offers' = StillOffered /\ started' = StillStarted

NNext ==
  \/ \E c \in Conns, k \in Calls : NCallJoin(c, k) \/ NCallLeave(c, k)
  \/ \E c \in Conns, k \in Calls \cup {NULL} : NStreamCreate(c, k)
  \/ \E c \in Conns, s \in Streams : NStreamDelete(c, s) \/ NStreamJoin(c, s) \/ NStreamLeave(c, s)
  \/ NQuiet

NSpec == NInit /\ [][NNext]_nvars

-----------------------------------------------------------------------------
(***************************************************************************)
(* The relay.                                                              *)
(***************************************************************************)
\* Mutant: the relay skips the first recipient.
ReachedButFirst(s) ==
  {recipients[s][i] : i \in DOMAIN recipients[s] \ {0}} \ {NULL, owner[s]}

\* Whom handle_udp_stream_packet sends a packet of stream s to.
Reached(s) == {r \in Members(recipients[s]) \ {owner[s]} : udp[r] = "complete"}

-----------------------------------------------------------------------------
(***************************************************************************)
(* Safety.                                                                 *)
(***************************************************************************)
\* A client knows that it watches a stream that exists exactly if the server
\* has it in slot 0 of the stream: no other sequence of joins, leaves, deletions
\* and disconnects of others makes the two views differ.
ViewerAndServerAgree ==
  \A c \in Conns, s \in streams : <<c, s>> \in knows <=> recipients[s][0] = c

\* The owner of a stream with recipients, admitted or refused, has been told to
\* start and not to end: nobody waits for a stream that is not sent.  (After a
\* disconnect the owner may go on sending to nobody.)
OwnerKnowsOfViewers ==
  \A s \in streams : Members(recipients[s]) # {} => s \in started

\* The admitted participant of a call knows of every stream in it, whether it
\* or the stream was there first.
ParticipantKnowsStreams ==
  \A c \in Conns, s \in streams :
     stream_call[s] # NULL /\ conn_calls[c][0] = stream_call[s]
       => <<c, stream_call[s], s>> \in offers

\* Whoever knows that he watches, has sent a handshake, and is not the owner
\* himself, gets every packet of the stream.
PacketReachesViewers ==
  \A c \in Conns, s \in streams :
     <<c, s>> \in knows /\ udp[c] = "complete" /\ c # owner[s] => c \in Reached(s)

\* Part of the inductive invariant: only who is in the list of participants,
\* admitted or refused, has a call that it has not left.
OffersAreToParticipants ==
  \A o \in offers : o[2] \in calls => Contains(participants[o[2]], o[1])

ViewsInv ==
  /\ ViewsTypeOK /\ ViewerAndServerAgree /\ OwnerKnowsOfViewers
  /\ ParticipantKnowsStreams /\ OffersAreToParticipants

\* Unless a connection is closed, nobody goes on to believe in a stream that is
\* deleted.  Its viewers are told, and those who know that it is in their call,
\* unless its owner takes it along from another call q, which has kept its
\* address from a creation that failed.
DeletionIsTold ==
  [][connections' = connections =>
       \A c \in Conns, s \in streams \ streams' :
          /\ <<c, s>> \notin knows'
          /\ <<c, stream_call[s], s>> \in offers' =>
               \E q \in calls \ {stream_call[s]} : /\ participants'[q] # participants[q]
                                                   /\ Contains(call_streams[q], s)]_nvars
=============================================================================
