------------------------ MODULE NotificationsProofs -------------------------
(***************************************************************************)
(* Proofs about what the clients are told, for any number of clients,      *)
(* streams, calls and slots.                                               *)
(***************************************************************************)
EXTENDS Notifications, ConferenceProofs

\* Whoever is in slot 0 of a stream, or has a call in slot 0, is connected, and
\* the call has him among its participants.
LEMMA EndsAreLive ==
  ASSUME GraphInv
  PROVE  /\ \A c \in Conns, s \in Streams : recipients[s][0] = c => c \in connections
         /\ \A c \in Conns, k \in Calls :
              conn_calls[c][0] = k => c \in connections /\ participants[k][0] = c
<1>1. ASSUME NEW c \in Conns, NEW s \in Streams, recipients[s][0] = c
      PROVE  c \in connections
  <2>1. watch_streams[c][0] = s /\ s # NULL
    BY <1>1, Sizes DEF GraphInv, WatchingMutual
  <2>2. c \notin connections => watch_streams[c][0] = NULL
    BY Sizes DEF GraphInv, FreedIsBlank, Empty
  <2>3. QED BY <2>1, <2>2
<1>2. ASSUME NEW c \in Conns, NEW k \in Calls, conn_calls[c][0] = k
      PROVE  c \in connections /\ participants[k][0] = c
  <2>1. c \notin connections => conn_calls[c][0] = NULL
    BY Sizes DEF GraphInv, FreedIsBlank, Empty
  <2>2. QED BY <1>2, <2>1, Sizes DEF GraphInv, CallMembershipMutual
<1>3. QED BY <1>1, <1>2

\* What an array holds in a slot is a member of it.
LEMMA SlotIsMember ==
  ASSUME NEW n \in Nat, NEW S, NEW a \in ArraysOf(n, S), NEW i \in Slots(n), a[i] # NULL
  PROVE  a[i] \in Members(a) /\ Contains(a, a[i])
BY DEF ArraysOf, Members, Contains

-----------------------------------------------------------------------------
(***************************************************************************)
(* Steps that are quiet about a part of what the clients know.             *)
(***************************************************************************)
ViewersSteady ==
  \A s \in streams' :
     /\ s \in streams => \A c \in Conns : recipients'[s][0] = c <=> recipients[s][0] = c /\ c \in connections'
     /\ s \notin streams => recipients'[s][0] = NULL

\* If slot 0 of the streams changes by disconnects only, who knows a stream that
\* stays need not be told.
LEMMA ViewersKept ==
  ASSUME GraphInv, GraphTypeOK', ViewsTypeOK, ViewerAndServerAgree, ViewersSteady,
         \A c \in Conns, s \in streams' : <<c, s>> \in knows' <=> <<c, s>> \in StillKnown
  PROVE  ViewerAndServerAgree'
<1>1. ASSUME NEW c \in Conns, NEW s \in streams'
      PROVE  <<c, s>> \in knows' <=> recipients'[s][0] = c
  <2>1. <<c, s>> \in knows' <=> <<c, s>> \in knows /\ c \in connections' /\ s \in streams
    BY <1>1 DEF StillKnown
  <2>2. CASE s \in streams
    <3>1. <<c, s>> \in knows <=> recipients[s][0] = c
      BY <2>2 DEF ViewerAndServerAgree
    <3>2. QED BY <2>1, <2>2, <3>1 DEF ViewersSteady
  <2>3. CASE s \notin streams
    BY <2>1, <2>3, Sizes DEF ViewersSteady
  <2>4. QED BY <2>2, <2>3
<1>2. QED BY <1>1 DEF ViewerAndServerAgree

RecipientsSteady ==
  \A s \in streams' :
     /\ s \in streams => Members(recipients'[s]) \subseteq Members(recipients[s])
     /\ s \notin streams => Members(recipients'[s]) = {}

\* If no stream gets a recipient, no owner need be told.
LEMMA OwnersKept ==
  ASSUME OwnerKnowsOfViewers, RecipientsSteady, started' = StillStarted
  PROVE  OwnerKnowsOfViewers'
<1>1. ASSUME NEW s \in streams', Members(recipients'[s]) # {}
      PROVE  s \in started'
  <2>1. s \in streams /\ Members(recipients[s]) # {}
    BY <1>1 DEF RecipientsSteady
  <2>2. QED BY <2>1 DEF OwnerKnowsOfViewers, StillStarted
<1>2. QED BY <1>1 DEF OwnerKnowsOfViewers

\* c is in slot 0 of the call of s, as s is.
InCallWith(c, s) == stream_call[s] # NULL /\ conn_calls[c][0] = stream_call[s]

\* An offer is still known while its call, client and stream stay.
LEMMA OfferStays ==
  ASSUME GraphInv, GraphInv', ParticipantKnowsStreams, NEW c \in Conns, NEW s \in streams,
         s \in streams', InCallWith(c, s),
         stream_call'[s] = stream_call[s], conn_calls'[c][0] = stream_call[s]
  PROVE  <<c, stream_call[s], s>> \in StillOffered
<1>1. stream_call[s] \in calls /\ stream_call[s] \in Calls /\ s \in Streams
  BY DEF InCallWith, GraphInv, GraphTypeOK, PrivateStreamInCall
<1>2. <<c, stream_call[s], s>> \in offers
  BY DEF InCallWith, ParticipantKnowsStreams
<1>3. c \in connections'
  <2>1. c \notin connections' => conn_calls'[c][0] = NULL
    BY Sizes DEF GraphInv, FreedIsBlank, Empty
  <2>2. QED BY <2>1 DEF InCallWith
<1>4. QED BY <1>1, <1>2, <1>3 DEF StillOffered

CallsSteady ==
  \A c \in Conns, s \in streams' :
     InCallWith(c, s)' => s \in streams /\ InCallWith(c, s) /\ stream_call'[s] = stream_call[s]

\* If nobody and nothing comes into a call, no participant need be told.
LEMMA ParticipantsKept ==
  ASSUME GraphInv, GraphInv', ParticipantKnowsStreams, CallsSteady,
         \A c \in Conns, s \in streams' :
           InCallWith(c, s)' /\ <<c, stream_call[s], s>> \in StillOffered
             => <<c, stream_call[s], s>> \in offers'
  PROVE  ParticipantKnowsStreams'
<1>1. ASSUME NEW c \in Conns, NEW s \in streams', InCallWith(c, s)'
      PROVE  <<c, stream_call'[s], s>> \in offers'
  <2>1. s \in streams /\ InCallWith(c, s) /\ stream_call'[s] = stream_call[s]
    BY <1>1 DEF CallsSteady
  <2>2. conn_calls'[c][0] = stream_call[s]
    BY <1>1, <2>1 DEF InCallWith
  <2>3. <<c, stream_call[s], s>> \in StillOffered
    BY <2>1, <2>2, OfferStays
  <2>4. QED BY <1>1, <2>1, <2>3
<1>2. QED BY <1>1 DEF ParticipantKnowsStreams, InCallWith

MembersSteady ==
  \A k \in calls, c \in connections' :
     k \in calls' /\ Contains(participants[k], c) => Contains(participants'[k], c)

\* If only those who are gone leave a call, offers stay with its participants.
LEMMA OffersKept ==
  ASSUME OffersAreToParticipants, MembersSteady, offers' \subseteq StillOffered
  PROVE  OffersAreToParticipants'
<1>1. ASSUME NEW o \in offers', o[2] \in calls'
      PROVE  Contains(participants'[o[2]], o[1])
  <2>1. o \in offers /\ o[1] \in connections' /\ o[2] \in calls
    BY <1>1 DEF StillOffered
  <2>2. Contains(participants[o[2]], o[1])
    BY <2>1 DEF OffersAreToParticipants
  <2>3. QED BY <1>1, <2>1, <2>2 DEF MembersSteady
<1>2. QED BY <1>1 DEF OffersAreToParticipants

\* A step that is quiet in all these ways, and tells only of streams that are
\* gone, keeps ViewsInv.
LEMMA ToldKeeps ==
  ASSUME GraphInv, GraphInv', ViewsInv, ViewersSteady, RecipientsSteady, CallsSteady,
         MembersSteady, knows' \subseteq StillKnown, offers' \subseteq StillOffered,
         started' = StillStarted,
         \A c \in Conns, s \in streams' : <<c, s>> \in knows' <=> <<c, s>> \in StillKnown,
         \A c \in Conns, s \in streams' :
           <<c, stream_call[s], s>> \in StillOffered => <<c, stream_call[s], s>> \in offers'
  PROVE  ViewsInv'
<1>1. GraphTypeOK' /\ ViewsTypeOK /\ ViewerAndServerAgree /\ OwnerKnowsOfViewers
      /\ ParticipantKnowsStreams /\ OffersAreToParticipants
  BY DEF GraphInv, ViewsInv
<1>2. ViewsTypeOK'
  BY <1>1 DEF ViewsTypeOK, StillKnown, StillOffered, StillStarted
<1>3. ViewerAndServerAgree'
  BY <1>1, ViewersKept
<1>4. OwnerKnowsOfViewers'
  BY <1>1, OwnersKept
<1>5. ParticipantKnowsStreams'
  BY <1>1, ParticipantsKept
<1>6. OffersAreToParticipants'
  BY <1>1, OffersKept
<1>7. QED BY <1>2, <1>3, <1>4, <1>5, <1>6 DEF ViewsInv

\* So does a step that is quiet and tells nothing.
LEMMA QuietKeeps ==
  ASSUME GraphInv, GraphInv', ViewsInv, ViewersSteady, RecipientsSteady, CallsSteady,
         MembersSteady, knows' = StillKnown, offers' = StillOffered, started' = StillStarted
  PROVE  ViewsInv'
BY ToldKeeps

\* A step that changes no object is quiet.
LEMMA UnchangedIsQuiet ==
  ASSUME GraphInv, UNCHANGED graph
  PROVE  ViewersSteady /\ RecipientsSteady /\ CallsSteady /\ MembersSteady
<1>1. \A c \in Conns, s \in Streams : recipients[s][0] = c => c \in connections
  BY EndsAreLive
<1>2. streams \subseteq Streams
  BY DEF GraphInv, GraphTypeOK
<1>3. ViewersSteady
  BY <1>1, <1>2 DEF ViewersSteady, graph
<1>4. RecipientsSteady /\ CallsSteady /\ MembersSteady
  BY DEF RecipientsSteady, CallsSteady, MembersSteady, InCallWith, graph
<1>5. QED BY <1>3, <1>4

\* A step that only adds a connection or changes its UDP address is quiet.
LEMMA UdpIsQuiet ==
  ASSUME GraphInv, NEW c \in Conns, Accept(c) \/ UdpHandshake(c)
  PROVE  ViewersSteady /\ RecipientsSteady /\ CallsSteady /\ MembersSteady
<1>1. \A d \in Conns, s \in Streams : recipients[s][0] = d => d \in connections
  BY EndsAreLive
<1>2. streams \subseteq Streams
  BY DEF GraphInv, GraphTypeOK
<1>3. /\ connections \subseteq connections'
      /\ UNCHANGED <<streams, calls, conn_calls, stream_call, recipients, participants>>
  BY DEF Accept, connection_new, UdpHandshake
<1>4. ViewersSteady
  BY <1>1, <1>2, <1>3 DEF ViewersSteady
<1>5. RecipientsSteady /\ CallsSteady /\ MembersSteady
  BY <1>3 DEF RecipientsSteady, CallsSteady, MembersSteady, InCallWith
<1>6. QED BY <1>4, <1>5

\* A new call has no stream, so its creator need not be told of one.
LEMMA CallCreateIsQuiet ==
  ASSUME GraphInv, NEW c \in Conns, CallCreate(c)
  PROVE  ViewersSteady /\ RecipientsSteady /\ CallsSteady /\ MembersSteady
<1>1. CASE Refuse
  BY <1>1, UnchangedIsQuiet DEF Refuse
<1>2. ASSUME NEW k \in Calls \ calls, NEW l, l = ParticipantLink(k, c),
             participants' = [participants EXCEPT ![k] = l.near],
             conn_calls' = [conn_calls EXCEPT ![c] = l.far],
             UNCHANGED <<connections, streams, stream_call, recipients>>
      PROVE  ViewersSteady /\ RecipientsSteady /\ CallsSteady /\ MembersSteady
  <2>1. \A d \in Conns, s \in Streams : recipients[s][0] = d => d \in connections
    BY EndsAreLive
  <2>2. streams \subseteq Streams /\ calls \subseteq Calls
    BY DEF GraphInv, GraphTypeOK
  <2>3. ViewersSteady /\ RecipientsSteady
    BY <1>2, <2>1, <2>2 DEF ViewersSteady, RecipientsSteady
  <2>4. /\ participants[k] = Empty(MAX_CALL_PARTICIPANTS)
        /\ participants[k] \in ArraysOf(MAX_CALL_PARTICIPANTS, Conns)
        /\ conn_calls[c] \in ArraysOf(MAX_CONNECTION_CALLS, Calls)
    BY <1>2 DEF GraphInv, GraphTypeOK, FreedIsBlank
  <2>5. ~Contains(participants[k], c)
    BY <2>4, Sizes DEF Contains, Empty
  <2>6. l.far[0] = k \/ l.far[0] = conn_calls[c][0]
    <3>1. Linked(l, participants[k], MAX_CALL_PARTICIPANTS, Conns, c,
                 conn_calls[c], MAX_CONNECTION_CALLS, Calls, k)
      BY <1>2, <2>4, <2>5, Sizes, LinkFacts DEF ParticipantLink
    <3>2. QED BY <3>1 DEF Linked
  <2>7. CallsSteady
    <3>1. ASSUME NEW d \in Conns, NEW s \in streams', InCallWith(d, s)'
          PROVE  s \in streams /\ InCallWith(d, s) /\ stream_call'[s] = stream_call[s]
      <4>1. s \in streams /\ stream_call[s] # NULL /\ stream_call[s] \in calls
        BY <1>2, <3>1 DEF InCallWith, GraphInv, PrivateStreamInCall
      <4>2. conn_calls'[d][0] = stream_call[s]
        BY <1>2, <3>1 DEF InCallWith
      <4>3. conn_calls[d][0] = stream_call[s]
        BY <1>2, <2>6, <4>1, <4>2 DEF GraphInv, GraphTypeOK
      <4>4. QED BY <1>2, <4>1, <4>3 DEF InCallWith
    <3>2. QED BY <3>1 DEF CallsSteady
  <2>8. MembersSteady
    BY <1>2, <2>2 DEF MembersSteady, GraphInv, GraphTypeOK
  <2>9. QED BY <2>3, <2>7, <2>8
<1>3. QED BY <1>1, <1>2 DEF CallCreate, call_new

\* A connection that closes tells nobody, and nobody needs to be told more than
\* that the connection and its streams are gone.
LEMMA CloseIsQuiet ==
  ASSUME GraphInv, NEW c \in Conns, c \in connections, connection_delete(c)
  PROVE  ViewersSteady /\ RecipientsSteady /\ CallsSteady /\ MembersSteady
<1> DEFINE own == Members(own_streams[c])
<1>1. /\ connections' = connections \ {c} /\ streams' = streams \ own /\ calls' = calls
      /\ recipients' = [s \in Streams |->
           IF s \in own THEN Empty(STREAM_MAX_RECIPIENTS)
           ELSE IF Contains(watch_streams[c], s) THEN Without(recipients[s], {c})
           ELSE recipients[s]]
      /\ participants' = CallsLeft(c)
      /\ stream_call' = [s \in Streams |-> IF s \in own THEN NULL ELSE stream_call[s]]
      /\ conn_calls' = [d \in Conns |-> IF d = c THEN Empty(MAX_CONNECTION_CALLS) ELSE conn_calls[d]]
  BY DEF connection_delete, Blanked, GraphInv, GraphTypeOK
<1>2. streams \subseteq Streams /\ calls \subseteq Calls
  BY DEF GraphInv, GraphTypeOK
<1>3. ASSUME NEW s \in streams'
      PROVE  /\ s \in streams
             /\ \A d \in Conns : recipients'[s][0] = d <=> recipients[s][0] = d /\ d \in connections'
             /\ Members(recipients'[s]) \subseteq Members(recipients[s])
  <2>1. /\ s \in streams /\ s \in Streams
        /\ recipients'[s] = IF Contains(watch_streams[c], s) THEN Without(recipients[s], {c})
                            ELSE recipients[s]
    BY <1>1, <1>2, <1>3
  <2>2. recipients[s] \in ArraysOf(STREAM_MAX_RECIPIENTS, Conns)
    BY <2>1 DEF GraphInv, GraphTypeOK
  <2>3. \A i \in Slots(STREAM_MAX_RECIPIENTS) :
          Without(recipients[s], {c})[i] = IF recipients[s][i] \in {c} THEN NULL ELSE recipients[s][i]
    BY <2>2, Sizes, WithoutArray
  <2>4. \A d \in Conns : recipients[s][0] = d => d \in connections
    BY <2>1, EndsAreLive
  <2>5. recipients[s][0] = c => Contains(watch_streams[c], s)
    <3>1. recipients[s][0] = c => watch_streams[c][0] = s
      BY <2>1 DEF GraphInv, WatchingMutual
    <3>2. DOMAIN watch_streams[c] = Slots(MAX_INPUT)
      BY DEF GraphInv, GraphTypeOK, ArraysOf
    <3>3. QED BY <3>1, <3>2, Sizes DEF Contains
  <2>6. \A d \in Conns : recipients'[s][0] = d <=> recipients[s][0] = d /\ d \in connections'
    BY <1>1, <2>1, <2>3, <2>4, <2>5, Sizes
  <2>7. Members(Without(recipients[s], {c})) \subseteq Members(recipients[s])
    BY DEF Members, Without
  <2>8. QED BY <2>1, <2>6, <2>7
<1>4. ViewersSteady /\ RecipientsSteady
  BY <1>3 DEF ViewersSteady, RecipientsSteady
<1>5. CallsSteady
  <2>1. ASSUME NEW d \in Conns, NEW s \in streams', InCallWith(d, s)'
        PROVE  s \in streams /\ InCallWith(d, s) /\ stream_call'[s] = stream_call[s]
    <3>1. s \in streams /\ s \in Streams /\ s \notin own
      BY <1>1, <1>2, <2>1
    <3>2. stream_call'[s] = stream_call[s] /\ stream_call[s] # NULL
      BY <1>1, <2>1, <3>1 DEF InCallWith
    <3>3. conn_calls'[d][0] = stream_call[s]
      BY <2>1, <3>2 DEF InCallWith
    <3>4. Empty(MAX_CONNECTION_CALLS)[0] = NULL
      BY Sizes DEF Empty
    <3>5. conn_calls[d][0] = stream_call[s]
      BY <1>1, <3>2, <3>3, <3>4
    <3>6. QED BY <3>1, <3>2, <3>5 DEF InCallWith
  <2>2. QED BY <2>1 DEF CallsSteady
<1>6. MembersSteady
  <2>1. ASSUME NEW k \in calls, NEW d \in connections', Contains(participants[k], d)
        PROVE  Contains(participants'[k], d)
    <3>1. participants'[k] \in {participants[k], Without(participants[k], {c})}
      BY <1>1, <1>2 DEF CallsLeft
    <3>2. d # c
      BY <1>1
    <3>3. Contains(Without(participants[k], {c}), d)
      BY <2>1, <3>2 DEF Contains, Without
    <3>4. QED BY <2>1, <3>1, <3>3
  <2>2. QED BY <2>1 DEF MembersSteady
<1>7. QED BY <1>4, <1>5, <1>6

\* The handlers that send nothing about a stream.
LEMMA NQuietKeeps ==
  ASSUME GraphInv, GraphInv', ViewsInv, NQuiet
  PROVE  ViewsInv'
<1>1. knows' = StillKnown /\ offers' = StillOffered /\ started' = StillStarted
  BY DEF NQuiet
<1>2. ViewersSteady /\ RecipientsSteady /\ CallsSteady /\ MembersSteady
  <2>1. CASE UNCHANGED graph
    BY <2>1, UnchangedIsQuiet
  <2>2. ASSUME NEW c \in Conns, Accept(c) \/ UdpHandshake(c)
        PROVE  ViewersSteady /\ RecipientsSteady /\ CallsSteady /\ MembersSteady
    BY <2>2, UdpIsQuiet
  <2>3. ASSUME NEW c \in Conns, CallCreate(c)
        PROVE  ViewersSteady /\ RecipientsSteady /\ CallsSteady /\ MembersSteady
    BY <2>3, CallCreateIsQuiet
  <2>4. ASSUME NEW c \in Conns, Close(c) \/ CloseNext(c)
        PROVE  ViewersSteady /\ RecipientsSteady /\ CallsSteady /\ MembersSteady
    <3>1. CASE c \in connections /\ connection_delete(c)
      BY <3>1, CloseIsQuiet
    <3>2. QED BY <2>1, <2>4, <3>1 DEF Close, CloseNext, Request, Undefined
  <2>5. ASSUME (\E s \in Streams : RelayPacket(s))
               \/ PeriodicCheck \/ Shutdown \/ AllClosed \/ Ended
        PROVE  UNCHANGED graph
    BY <2>5 DEF RelayPacket, PeriodicCheck, Shutdown, AllClosed, Ended, Undefined, vars
  <2>6. QED BY <2>1, <2>2, <2>3, <2>4, <2>5 DEF NQuiet
<1>3. QED BY <1>1, <1>2, QuietKeeps

-----------------------------------------------------------------------------
(***************************************************************************)
(* The handlers that tell somebody something.                              *)
(***************************************************************************)

\* A refused or undefined request tells nobody anything about a stream.
LEMMA RefusedTellsNothing ==
  ASSUME Refuse \/ Undefined, NEW M
  PROVE  OnSuccess(M) = {}
BY DEF Refuse, Undefined, OnSuccess

\* A new private stream is announced to all participants of its call, the
\* admitted one among them.
LEMMA NStreamCreateKeeps ==
  ASSUME GraphInv, GraphInv', ViewsInv, NEW c \in Conns, NEW k \in Calls \cup {NULL},
         NStreamCreate(c, k)
  PROVE  ViewsInv'
<1>1. /\ ViewsTypeOK /\ ViewerAndServerAgree /\ OwnerKnowsOfViewers
      /\ ParticipantKnowsStreams /\ OffersAreToParticipants /\ GraphTypeOK'
  BY DEF ViewsInv, GraphInv
<1>2. /\ knows' = StillKnown /\ started' = StillStarted /\ StreamCreate(c, k)
      /\ offers' = StillOffered \cup OnSuccess(send_call_stream_new(k, streams' \ streams))
  BY DEF NStreamCreate
<1>3. CASE UNCHANGED graph
  <2>1. streams' \ streams = {}
    BY <1>3 DEF graph
  <2>2. send_call_stream_new(k, {}) = {}
    BY DEF send_call_stream_new, broadcast_to_call_participants
  <2>3. offers' = StillOffered
    BY <1>2, <2>1, <2>2 DEF OnSuccess
  <2>4. QED BY <1>2, <1>3, <2>3, UnchangedIsQuiet, QuietKeeps
<1>4. ASSUME NEW s \in Streams \ streams, NEW l, l = NewStreamLink(s, c, k),
             k # NULL => k \in calls,
             streams' = IF l.ok THEN streams \cup {s} ELSE streams,
             stream_call' = [stream_call EXCEPT ![s] = IF l.ok THEN k ELSE NULL],
             phase' = "serving", reply' = IF l.ok THEN "success" ELSE "error",
             UNCHANGED <<connections, calls, conn_calls, recipients, participants>>
      PROVE  ViewsInv'
  <2>1. l.ok \in BOOLEAN
    BY <1>4, NewStreamLinkFacts DEF StreamLinked
  <2>2. /\ recipients[s] = Empty(STREAM_MAX_RECIPIENTS)
        /\ Members(recipients[s]) = {} /\ recipients[s][0] = NULL
    <3>1. recipients[s] = Empty(STREAM_MAX_RECIPIENTS)
      BY DEF GraphInv, FreedIsBlank
    <3>2. QED BY <3>1, Sizes DEF Empty, Members
  <2>3. streams' \ streams = IF l.ok THEN {s} ELSE {}
    BY <1>4
  <2>4. ViewersSteady /\ RecipientsSteady
    <3>1. \A d \in Conns, t \in Streams : recipients[t][0] = d => d \in connections
      BY EndsAreLive
    <3>2. streams \subseteq Streams
      BY DEF GraphInv, GraphTypeOK
    <3>3. \A t \in streams' : t \notin streams => t = s
      BY <2>3
    <3>4. QED BY <1>4, <2>2, <3>1, <3>2, <3>3 DEF ViewersSteady, RecipientsSteady
  <2>5. ViewerAndServerAgree' /\ OwnerKnowsOfViewers'
    BY <1>1, <1>2, <2>4, ViewersKept, OwnersKept
  <2>6. offers' = StillOffered \cup
                  (IF l.ok /\ k # NULL THEN Members(participants[k]) \X {k} \X {s} ELSE {})
    <3>1. CASE l.ok /\ k # NULL
      <4>1. {k} \ {NULL} = {k} /\ streams' \ streams = {s}
        BY <2>3, <3>1
      <4>2. send_call_stream_new(k, {s}) = (Members(participants[k]) \ {NULL}) \X {k} \X {s}
        BY <4>1 DEF send_call_stream_new, broadcast_to_call_participants
      <4>3. Members(participants[k]) \ {NULL} = Members(participants[k])
        BY DEF Members
      <4>4. OnSuccess(send_call_stream_new(k, {s})) = send_call_stream_new(k, {s})
        BY <1>4, <3>1 DEF OnSuccess
      <4>5. QED BY <1>2, <3>1, <4>1, <4>2, <4>3, <4>4
    <3>2. CASE ~l.ok
      <4>1. OnSuccess(send_call_stream_new(k, streams' \ streams)) = {}
        BY <1>4, <3>2 DEF OnSuccess
      <4>2. QED BY <1>2, <3>2, <4>1
    <3>3. CASE k = NULL
      <4>1. send_call_stream_new(k, streams' \ streams) = {}
        BY <3>3 DEF send_call_stream_new
      <4>2. QED BY <1>2, <3>3, <4>1 DEF OnSuccess
    <3>4. QED BY <2>1, <3>1, <3>2, <3>3
  <2>7. k # NULL => /\ Members(participants[k]) \subseteq Conns
                    /\ participants[k] \in ArraysOf(MAX_CALL_PARTICIPANTS, Conns)
    BY DEF GraphInv, GraphTypeOK, Members, ArraysOf
  <2>8. ViewsTypeOK'
    <3>1. offers' \subseteq Conns \X Calls \X Streams
      BY <1>1, <2>6, <2>7 DEF ViewsTypeOK, StillOffered
    <3>2. QED BY <1>1, <1>2, <3>1 DEF ViewsTypeOK, StillKnown, StillStarted
  <2>9. ParticipantKnowsStreams'
    <3>1. ASSUME NEW d \in Conns, NEW t \in streams', InCallWith(d, t)'
          PROVE  <<d, stream_call'[t], t>> \in offers'
      <4>1. CASE t \in streams
        <5>1. t # s /\ t \in Streams /\ stream_call'[t] = stream_call[t]
          BY <1>4, <4>1 DEF GraphInv, GraphTypeOK
        <5>2. InCallWith(d, t) /\ conn_calls'[d][0] = stream_call[t]
          BY <1>4, <3>1, <5>1 DEF InCallWith
        <5>3. <<d, stream_call[t], t>> \in StillOffered
          BY <1>1, <3>1, <4>1, <5>1, <5>2, OfferStays
        <5>4. QED BY <2>6, <5>1, <5>3
      <4>2. CASE t \notin streams
        <5>1. t = s /\ l.ok
          BY <2>1, <2>3, <4>2
        <5>2. stream_call'[s] = k /\ k # NULL /\ conn_calls[d][0] = k
          BY <1>4, <3>1, <5>1 DEF InCallWith, GraphInv, GraphTypeOK
        <5>3. participants[k][0] = d
          BY <5>2, EndsAreLive
        <5>4. d \in Members(participants[k])
          BY <2>7, <5>2, <5>3, Sizes, SlotIsMember
        <5>5. QED BY <2>6, <5>1, <5>2, <5>4
      <4>3. QED BY <4>1, <4>2
    <3>2. QED BY <3>1 DEF ParticipantKnowsStreams, InCallWith
  <2>10. OffersAreToParticipants'
    <3>1. ASSUME NEW o \in offers', o[2] \in calls'
          PROVE  Contains(participants'[o[2]], o[1])
      <4>1. CASE o \in StillOffered
        BY <1>1, <1>4, <3>1, <4>1 DEF StillOffered, OffersAreToParticipants
      <4>2. CASE o \notin StillOffered
        <5>1. k # NULL /\ o[1] \in Members(participants[k]) /\ o[2] = k
          BY <2>6, <4>2
        <5>2. QED BY <1>4, <5>1 DEF Members, Contains
      <4>3. QED BY <4>1, <4>2
    <3>2. QED BY <3>1 DEF OffersAreToParticipants
  <2>11. QED BY <2>5, <2>8, <2>9, <2>10 DEF ViewsInv
<1>5. QED
  <2>1. CASE Refuse \/ Undefined
    BY <1>3, <2>1 DEF Refuse, Undefined
  <2>2. CASE ~(Refuse \/ Undefined)
    <3> DEFINE L(s) == NewStreamLink(s, c, k)
    <3>1. PICK s \in Streams \ streams :
            /\ (k # NULL => k \in calls) /\ phase = "serving"
            /\ streams' = IF L(s).ok THEN streams \cup {s} ELSE streams
            /\ stream_call' = [stream_call EXCEPT ![s] = IF L(s).ok THEN k ELSE NULL]
            /\ Answer(L(s).ok)
            /\ UNCHANGED <<connections, calls, conn_calls, recipients, participants>>
      BY <1>2, <2>2 DEF StreamCreate, Request, Serving
    <3>2. phase' = "serving" /\ reply' = IF L(s).ok THEN "success" ELSE "error"
      BY <3>1 DEF Answer
    <3> HIDE DEF L
    <3>3. L(s) = NewStreamLink(s, c, k)
      BY DEF L
    <3>4. QED BY <1>4, <3>1, <3>2, <3>3
  <2>3. QED BY <2>1, <2>2

\* Deleting streams changes nothing about those that stay.
LEMMA DeletionIsSteady ==
  ASSUME GraphInv, NEW D, D \subseteq streams, stream_delete(D), UNCHANGED connections
  PROVE  /\ ViewersSteady /\ RecipientsSteady
         /\ streams' = streams \ D
<1>1. streams' = streams \ D /\ streams \subseteq Streams
  BY DEF stream_delete, GraphInv, GraphTypeOK
<1>2. \A s \in streams' : recipients'[s] = recipients[s]
  BY StreamsDeleted
<1>3. \A c \in Conns, s \in Streams : recipients[s][0] = c => c \in connections
  BY EndsAreLive
<1>4. ViewersSteady
  BY <1>1, <1>2, <1>3 DEF ViewersSteady
<1>5. RecipientsSteady
  BY <1>1, <1>2 DEF RecipientsSteady
<1>6. QED BY <1>1, <1>4, <1>5

\* A request that is refused or has no outcome keeps what is known.
LEMMA NothingToldKeeps ==
  ASSUME GraphInv, GraphInv', ViewsInv, Refuse \/ Undefined,
         knows' = StillKnown, offers' = StillOffered, started' = StillStarted
  PROVE  ViewsInv'
<1>1. UNCHANGED graph
  BY DEF Refuse, Undefined
<1>2. QED BY <1>1, UnchangedIsQuiet, QuietKeeps

\* A stream that its owner deletes: nothing changes for the others.
LEMMA NStreamDeleteKeeps ==
  ASSUME GraphInv, GraphInv', ViewsInv, NEW c \in Conns, NEW s \in Streams, NStreamDelete(c, s)
  PROVE  ViewsInv'
<1> DEFINE V == OnSuccess(send_stream_deleted(s))
           P == OnSuccess(UNION {send_call_stream_deleted(k, {s}, NULL) : k \in CallsOf({s})})
<1>1. /\ StreamDelete(c, s) /\ started' = StillStarted
      /\ knows' = StillKnown \ V /\ offers' = StillOffered \ P
  BY DEF NStreamDelete
<1>2. CASE Refuse \/ Undefined
  <2>1. V = {} /\ P = {}
    BY <1>2, RefusedTellsNothing
  <2>2. QED BY <1>1, <1>2, <2>1, NothingToldKeeps
<1>3. CASE ~(Refuse \/ Undefined)
  <2>1. /\ s \in streams /\ stream_delete({s})
        /\ stream_call' = Blanked(stream_call, {s}, NULL)
        /\ UNCHANGED <<connections, calls, conn_calls, participants>>
    BY <1>1, <1>3 DEF StreamDelete
  <2>2. /\ ViewersSteady /\ RecipientsSteady /\ streams' = streams \ {s}
    BY <2>1, DeletionIsSteady
  <2>3. \A p \in V : p[2] = s
    BY DEF OnSuccess, send_stream_deleted, broadcast_to_stream_recipients
  <2>4. \A o \in P : o[3] = s
    BY DEF OnSuccess, send_call_stream_deleted, broadcast_to_call_participants
  <2> HIDE DEF V, P
  <2>5. stream_call' = [t \in Streams |-> IF t \in {s} THEN NULL ELSE stream_call[t]]
    BY <2>1 DEF Blanked, GraphInv, GraphTypeOK
  <2>6. CallsSteady
    <3>1. streams \subseteq Streams
      BY DEF GraphInv, GraphTypeOK
    <3>2. QED BY <2>1, <2>2, <2>5, <3>1 DEF CallsSteady, InCallWith
  <2>7. MembersSteady
    BY <2>1 DEF MembersSteady
  <2>8. \A d \in Conns, t \in streams' : <<d, t>> \in knows' <=> <<d, t>> \in StillKnown
    BY <1>1, <2>2, <2>3
  <2>9. \A d \in Conns, t \in streams' :
          <<d, stream_call[t], t>> \in StillOffered => <<d, stream_call[t], t>> \in offers'
    BY <1>1, <2>2, <2>4
  <2>10. QED BY <1>1, <2>2, <2>6, <2>7, <2>8, <2>9, ToldKeeps
<1>4. QED BY <1>2, <1>3

\* Who is admitted to a stream learns so, and the owner learns of its first
\* recipient, who is always an admitted one.
LEMMA NStreamJoinKeeps ==
  ASSUME GraphInv, GraphInv', ViewsInv, NEW c \in Conns, NEW s \in Streams, NStreamJoin(c, s)
  PROVE  ViewsInv'
<1>1. /\ ViewsTypeOK /\ ViewerAndServerAgree /\ OwnerKnowsOfViewers
      /\ ParticipantKnowsStreams /\ OffersAreToParticipants /\ GraphTypeOK'
  BY DEF ViewsInv, GraphInv
<1>2. /\ StreamJoin(c, s) /\ offers' = StillOffered
      /\ knows' = StillKnown \cup OnSuccess({<<c, s>>})
      /\ started' = StillStarted \cup OnSuccess(send_stream_start(s))
  BY DEF NStreamJoin
<1>3. CASE Refuse \/ Undefined
  <2>1. OnSuccess({<<c, s>>}) = {} /\ OnSuccess(send_stream_start(s)) = {}
    BY <1>3, RefusedTellsNothing
  <2>2. QED BY <1>2, <1>3, <2>1, NothingToldKeeps
<1>4. CASE ~(Refuse \/ Undefined)
  <2> DEFINE l == RecipientLink(s, c)
             near == recipients[s]
  <2>1. /\ s \in streams /\ StreamAdmits(s, c) /\ Answer(l.ok)
        /\ phase = "serving" /\ c \in connections
        /\ recipients' = [recipients EXCEPT ![s] = l.near]
        /\ UNCHANGED <<connections, streams, calls, conn_calls, stream_call, participants>>
    BY <1>2, <1>4 DEF StreamJoin, Request, Serving
  <2>2. /\ near \in ArraysOf(STREAM_MAX_RECIPIENTS, Conns)
        /\ watch_streams[c] \in ArraysOf(MAX_INPUT, Streams)
        /\ ~Contains(near, c)
    BY <2>1 DEF GraphInv, GraphTypeOK, StreamAdmits
  <2>3. Linked(l, near, STREAM_MAX_RECIPIENTS, Conns, c, watch_streams[c], MAX_INPUT, Streams, s)
    BY <2>2, Sizes, LinkFacts DEF RecipientLink
  <2>4. phase' = "serving" /\ reply' = IF l.ok THEN "success" ELSE "error"
    BY <2>1 DEF Answer
  <2>5. /\ l.ok \in BOOLEAN /\ l.near \in ArraysOf(STREAM_MAX_RECIPIENTS, Conns)
        /\ l.ok => /\ near[0] = NULL /\ l.near[0] = c
                   /\ \A i \in Slots(STREAM_MAX_RECIPIENTS) \ {0} : l.near[i] = near[i]
        /\ ~l.ok => /\ l.near[0] = near[0]
                    /\ near[0] = NULL => l.near = near
    BY <2>3 DEF Linked
  <2> HIDE DEF l
  <2>6. /\ recipients \in [Streams -> ArraysOf(STREAM_MAX_RECIPIENTS, Conns)]
        /\ streams \subseteq Streams
    BY DEF GraphInv, GraphTypeOK
  <2>7. recipients'[s] = l.near /\ \A t \in Streams \ {s} : recipients'[t] = recipients[t]
    BY <2>1, <2>6
  <2>8. OnSuccess({<<c, s>>}) = IF l.ok THEN {<<c, s>>} ELSE {}
    BY <2>4, <2>5 DEF OnSuccess
  <2>9. ViewerAndServerAgree'
    <3>1. ASSUME NEW d \in Conns, NEW t \in streams
          PROVE  <<d, t>> \in knows' <=> recipients'[t][0] = d
      <4>1. <<d, t>> \in StillKnown <=> recipients[t][0] = d
        <5>1. <<d, t>> \in knows <=> recipients[t][0] = d
          BY <1>1 DEF ViewerAndServerAgree
        <5>2. recipients[t][0] = d => d \in connections
          BY <2>6, EndsAreLive
        <5>3. QED BY <2>1, <5>1, <5>2 DEF StillKnown
      <4>2. <<d, t>> \in knows' <=> recipients[t][0] = d \/ (l.ok /\ d = c /\ t = s)
        BY <1>2, <2>5, <2>8, <4>1
      <4>3. CASE t # s
        BY <2>6, <2>7, <4>2, <4>3
      <4>4. CASE t = s
        BY <2>5, <2>7, <4>2, <4>4, Sizes
      <4>5. QED BY <4>3, <4>4
    <3>2. QED BY <2>1, <3>1 DEF ViewerAndServerAgree
  <2>10. OwnerKnowsOfViewers'
    <3>1. ASSUME NEW t \in streams, Members(recipients'[t]) # {}
          PROVE  t \in started'
      <4>1. CASE Members(recipients[t]) # {}
        BY <1>1, <1>2, <2>1, <3>1, <4>1 DEF OwnerKnowsOfViewers, StillStarted
      <4>2. CASE Members(recipients[t]) = {}
        <5>1. t = s
          BY <2>6, <2>7, <3>1, <4>2
        <5>2. \A i \in Slots(STREAM_MAX_RECIPIENTS) : near[i] = NULL
          BY <2>2, <4>2, <5>1 DEF Members, ArraysOf
        <5>3. l.ok
          BY <2>5, <2>7, <3>1, <4>2, <5>1, <5>2, Sizes
        <5>4. Members(l.near) = {c}
          <6>1. l.near[0] = c /\ \A i \in Slots(STREAM_MAX_RECIPIENTS) : l.near[i] \in {c, NULL}
            BY <2>5, <5>2, <5>3
          <6>2. DOMAIN l.near = Slots(STREAM_MAX_RECIPIENTS)
            BY <2>5 DEF ArraysOf
          <6>3. QED BY <6>1, <6>2, Sizes DEF Members
        <5>5. s \in OnSuccess(send_stream_start(s))
          BY <2>4, <2>7, <5>3, <5>4 DEF OnSuccess, send_stream_start
        <5>6. QED BY <1>2, <5>1, <5>5
      <4>3. QED BY <4>1, <4>2
    <3>2. QED BY <2>1, <3>1 DEF OwnerKnowsOfViewers
  <2>11. ViewsTypeOK'
    <3>1. OnSuccess(send_stream_start(s)) \subseteq {s}
      BY DEF OnSuccess, send_stream_start
    <3>2. QED BY <1>1, <1>2, <2>8, <3>1 DEF ViewsTypeOK, StillKnown, StillOffered, StillStarted
  <2>12. CallsSteady /\ MembersSteady
    BY <2>1 DEF CallsSteady, MembersSteady, InCallWith
  <2>13. ParticipantKnowsStreams'
    BY <1>1, <1>2, <2>12, ParticipantsKept
  <2>14. OffersAreToParticipants'
    BY <1>1, <1>2, <2>12, OffersKept
  <2>15. QED BY <2>9, <2>10, <2>11, <2>13, <2>14 DEF ViewsInv
<1>5. QED BY <1>3, <1>4

\* Who leaves a stream learns so, and the owner is told to end only when nobody
\* is left.
LEMMA NStreamLeaveKeeps ==
  ASSUME GraphInv, GraphInv', ViewsInv, NEW c \in Conns, NEW s \in Streams, NStreamLeave(c, s)
  PROVE  ViewsInv'
<1>1. /\ ViewsTypeOK /\ ViewerAndServerAgree /\ OwnerKnowsOfViewers
      /\ ParticipantKnowsStreams /\ OffersAreToParticipants /\ GraphTypeOK'
  BY DEF ViewsInv, GraphInv
<1>2. /\ StreamLeave(c, s) /\ offers' = StillOffered
      /\ knows' = StillKnown \ OnSuccess({<<c, s>>})
      /\ started' = StillStarted \ OnSuccess(send_stream_end(s))
  BY DEF NStreamLeave
<1>3. CASE Refuse \/ Undefined
  <2>1. OnSuccess({<<c, s>>}) = {} /\ OnSuccess(send_stream_end(s)) = {}
    BY <1>3, RefusedTellsNothing
  <2>2. QED BY <1>2, <1>3, <2>1, NothingToldKeeps
<1>4. CASE ~(Refuse \/ Undefined)
  <2> DEFINE left == Without(recipients[s], {c})
             ok == Contains(recipients[s], c)
  <2>1. /\ s \in streams /\ Answer(ok) /\ phase = "serving" /\ c \in connections
        /\ recipients' = [recipients EXCEPT ![s] = left]
        /\ UNCHANGED <<connections, streams, calls, conn_calls, stream_call, participants>>
    BY <1>2, <1>4 DEF StreamLeave, stream_remove_recipient, Request, Serving
  <2>2. phase' = "serving" /\ reply' = IF ok THEN "success" ELSE "error"
    BY <2>1 DEF Answer
  <2>3. /\ recipients \in [Streams -> ArraysOf(STREAM_MAX_RECIPIENTS, Conns)]
        /\ recipients[s] \in ArraysOf(STREAM_MAX_RECIPIENTS, Conns)
        /\ streams \subseteq Streams
    BY <2>1 DEF GraphInv, GraphTypeOK
  <2>4. \A i \in Slots(STREAM_MAX_RECIPIENTS) :
          left[i] = IF recipients[s][i] \in {c} THEN NULL ELSE recipients[s][i]
    BY <2>3, Sizes, WithoutArray
  <2>5. recipients'[s] = left /\ \A t \in Streams \ {s} : recipients'[t] = recipients[t]
    BY <2>1, <2>3
  <2>6. recipients[s][0] = c => ok
    BY <2>3, Sizes DEF ArraysOf, Contains
  <2>7. ok \in BOOLEAN
    BY DEF Contains
  <2>8. Members(left) \subseteq Members(recipients[s])
    BY DEF Members, Without
  <2> HIDE DEF left, ok
  <2>9. OnSuccess({<<c, s>>}) = IF ok THEN {<<c, s>>} ELSE {}
    BY <2>2, <2>7 DEF OnSuccess
  <2>10. ViewerAndServerAgree'
    <3>1. ASSUME NEW d \in Conns, NEW t \in streams
          PROVE  <<d, t>> \in knows' <=> recipients'[t][0] = d
      <4>1. <<d, t>> \in StillKnown <=> recipients[t][0] = d
        <5>1. <<d, t>> \in knows <=> recipients[t][0] = d
          BY <1>1 DEF ViewerAndServerAgree
        <5>2. recipients[t][0] = d => d \in connections
          BY <2>3, EndsAreLive
        <5>3. QED BY <2>1, <5>1, <5>2 DEF StillKnown
      <4>2. <<d, t>> \in knows' <=> recipients[t][0] = d /\ ~(ok /\ d = c /\ t = s)
        BY <1>2, <2>7, <2>9, <4>1
      <4>3. CASE t # s
        BY <2>3, <2>5, <4>2, <4>3
      <4>4. CASE t = s
        BY <2>4, <2>5, <2>6, <4>2, <4>4, Sizes
      <4>5. QED BY <4>3, <4>4
    <3>2. QED BY <2>1, <3>1 DEF ViewerAndServerAgree
  <2>11. OwnerKnowsOfViewers'
    <3>1. ASSUME NEW t \in streams, Members(recipients'[t]) # {}
          PROVE  t \in started'
      <4>1. Members(recipients[t]) # {}
        BY <2>3, <2>5, <2>8, <3>1
      <4>2. t \notin send_stream_end(s)
        BY <3>1 DEF send_stream_end
      <4>3. QED BY <1>1, <1>2, <2>1, <3>1, <4>1, <4>2 DEF OwnerKnowsOfViewers, StillStarted, OnSuccess
    <3>2. QED BY <2>1, <3>1 DEF OwnerKnowsOfViewers
  <2>12. ViewsTypeOK'
    BY <1>1, <1>2 DEF ViewsTypeOK, StillKnown, StillOffered, StillStarted
  <2>13. CallsSteady /\ MembersSteady
    BY <2>1 DEF CallsSteady, MembersSteady, InCallWith
  <2>14. ParticipantKnowsStreams'
    BY <1>1, <1>2, <2>13, ParticipantsKept
  <2>15. OffersAreToParticipants'
    BY <1>1, <1>2, <2>13, OffersKept
  <2>16. QED BY <2>10, <2>11, <2>12, <2>14, <2>15 DEF ViewsInv
<1>5. QED BY <1>3, <1>4

\* A newcomer who is admitted is told of every stream of the call.
LEMMA NCallJoinKeeps ==
  ASSUME GraphInv, GraphInv', ViewsInv, NEW c \in Conns, NEW k \in Calls, NCallJoin(c, k)
  PROVE  ViewsInv'
<1>1. /\ ViewsTypeOK /\ ViewerAndServerAgree /\ OwnerKnowsOfViewers
      /\ ParticipantKnowsStreams /\ OffersAreToParticipants /\ GraphTypeOK'
  BY DEF ViewsInv, GraphInv
<1>2. /\ CallJoin(c, k) /\ knows' = StillKnown /\ started' = StillStarted
      /\ offers' = StillOffered \cup OnSuccess(send_call_joined(c, k))
  BY DEF NCallJoin
<1>3. CASE Refuse \/ Undefined
  <2>1. OnSuccess(send_call_joined(c, k)) = {}
    BY <1>3, RefusedTellsNothing
  <2>2. QED BY <1>2, <1>3, <2>1, NothingToldKeeps
<1>4. CASE ~(Refuse \/ Undefined)
  <2> DEFINE l == ParticipantLink(k, c)
             near == participants[k]
             held == Members(call_streams[k])
  <2>1. /\ k \in calls /\ CallAdmits(k, c) /\ Answer(l.ok)
        /\ phase = "serving" /\ c \in connections
        /\ participants' = [participants EXCEPT ![k] = l.near]
        /\ conn_calls' = [conn_calls EXCEPT ![c] = l.far]
        /\ UNCHANGED <<connections, streams, calls, recipients, stream_call>>
    BY <1>2, <1>4 DEF CallJoin, Request, Serving
  <2>2. /\ near \in ArraysOf(MAX_CALL_PARTICIPANTS, Conns)
        /\ conn_calls[c] \in ArraysOf(MAX_CONNECTION_CALLS, Calls)
        /\ ~Contains(near, c)
        /\ call_streams[k] \in ArraysOf(MAX_CALL_STREAMS, Streams)
    BY <2>1 DEF GraphInv, GraphTypeOK, CallAdmits
  <2>3. Linked(l, near, MAX_CALL_PARTICIPANTS, Conns, c,
               conn_calls[c], MAX_CONNECTION_CALLS, Calls, k)
    BY <2>2, Sizes, LinkFacts DEF ParticipantLink
  <2>4. phase' = "serving" /\ reply' = IF l.ok THEN "success" ELSE "error"
    BY <2>1 DEF Answer
  <2>5. /\ l.ok \in BOOLEAN
        /\ l.near \in ArraysOf(MAX_CALL_PARTICIPANTS, Conns)
        /\ l.ok => l.near[0] = c /\ l.far[0] = k
        /\ ~l.ok => l.far[0] = conn_calls[c][0]
        /\ \A i \in Slots(MAX_CALL_PARTICIPANTS) : near[i] # NULL => l.near[i] = near[i]
    BY <2>3 DEF Linked
  <2>6. Contains(l.near, c) \/ ~l.ok
    BY <2>5, Sizes DEF Contains, ArraysOf
  <2>7. held \subseteq Streams
    BY <2>2 DEF Members, ArraysOf
  <2> HIDE DEF l
  <2>8. OnSuccess(send_call_joined(c, k)) = IF l.ok THEN {c} \X {k} \X held ELSE {}
    BY <2>4, <2>5 DEF OnSuccess, send_call_joined
  <2>9. participants \in [Calls -> ArraysOf(MAX_CALL_PARTICIPANTS, Conns)] /\ calls \subseteq Calls
        /\ streams \subseteq Streams /\ conn_calls \in [Conns -> ArraysOf(MAX_CONNECTION_CALLS, Calls)]
    BY DEF GraphInv, GraphTypeOK
  <2>10. ViewersSteady /\ RecipientsSteady
    <3>1. \A d \in Conns, t \in Streams : recipients[t][0] = d => d \in connections
      BY EndsAreLive
    <3>2. QED BY <2>1, <2>9, <3>1 DEF ViewersSteady, RecipientsSteady
  <2>11. ViewerAndServerAgree' /\ OwnerKnowsOfViewers'
    BY <1>1, <1>2, <2>10, ViewersKept, OwnersKept
  <2> HIDE DEF held
  <2>12. ViewsTypeOK'
    <3>1. {c} \X {k} \X held \subseteq Conns \X Calls \X Streams
      BY <2>7
    <3>2. offers' \subseteq Conns \X Calls \X Streams
      BY <1>1, <1>2, <2>5, <2>8, <3>1 DEF ViewsTypeOK, StillOffered
    <3>3. QED BY <1>1, <1>2, <3>2 DEF ViewsTypeOK, StillKnown, StillStarted
  <2>13. ParticipantKnowsStreams'
    <3>1. ASSUME NEW d \in Conns, NEW t \in streams, InCallWith(d, t)'
          PROVE  <<d, stream_call[t], t>> \in offers'
      <4>1. stream_call[t] # NULL /\ conn_calls'[d][0] = stream_call[t]
        BY <2>1, <3>1 DEF InCallWith
      <4>2. CASE conn_calls[d][0] = stream_call[t]
        <5>1. <<d, stream_call[t], t>> \in StillOffered
          BY <1>1, <2>1, <4>1, <4>2, OfferStays DEF InCallWith
        <5>2. QED BY <1>2, <5>1
      <4>3. CASE conn_calls[d][0] # stream_call[t]
        <5>1. d = c /\ l.ok /\ stream_call[t] = k
          BY <2>1, <2>5, <2>9, <4>1, <4>3
        <5>2. call_streams[k][0] = t
          BY <5>1, <4>1 DEF GraphInv, PrivateStreamInCall
        <5>3. t \in held
          BY <2>2, <2>9, <5>2, Sizes, SlotIsMember DEF held
        <5>4. QED BY <1>2, <2>8, <5>1, <5>3
      <4>4. QED BY <4>2, <4>3
    <3>2. QED BY <2>1, <3>1 DEF ParticipantKnowsStreams, InCallWith
  <2>14. OffersAreToParticipants'
    <3>1. ASSUME NEW q \in calls, NEW d, Contains(participants[q], d), d # NULL
          PROVE  Contains(participants'[q], d)
      BY <2>1, <2>2, <2>5, <2>9, <3>1 DEF Contains, ArraysOf
    <3>2. ASSUME NEW o \in offers', o[2] \in calls
          PROVE  Contains(participants'[o[2]], o[1])
      <4>1. CASE o \in StillOffered
        <5>1. Contains(participants[o[2]], o[1]) /\ o[1] # NULL
          BY <1>1, <3>2, <4>1, Sizes DEF StillOffered, OffersAreToParticipants, ViewsTypeOK
        <5>2. QED BY <3>1, <3>2, <5>1
      <4>2. CASE o \notin StillOffered
        <5>1. l.ok /\ o \in {c} \X {k} \X held
          BY <1>2, <2>5, <2>8, <3>2, <4>2
        <5>2. o[1] = c /\ o[2] = k
          BY <5>1
        <5>3. QED BY <2>1, <2>6, <2>9, <5>1, <5>2
      <4>3. QED BY <4>1, <4>2
    <3>3. QED BY <2>1, <3>2 DEF OffersAreToParticipants
  <2>15. QED BY <2>11, <2>12, <2>13, <2>14 DEF ViewsInv
<1>5. QED BY <1>3, <1>4

\* Who leaves a call forgets it; the others lose only streams that are deleted
\* or, with the call, detached.
LEMMA NCallLeaveKeeps ==
  ASSUME GraphInv, GraphInv', ViewsInv, NEW c \in Conns, NEW k \in Calls, NCallLeave(c, k)
  PROVE  ViewsInv'
<1>1. /\ ViewsTypeOK /\ ViewerAndServerAgree /\ OwnerKnowsOfViewers
      /\ ParticipantKnowsStreams /\ OffersAreToParticipants /\ GraphTypeOK'
  BY DEF ViewsInv, GraphInv
<1> DEFINE own == StreamsOfLeaver(c, k)
           V == OnSuccess(UNION {send_stream_deleted(s) : s \in own})
           P == send_call_stream_deleted(k, own, c)
           Q == {c} \X {k} \X Streams
<1>2. /\ CallLeave(c, k) /\ started' = StillStarted
      /\ knows' = StillKnown \ V
      /\ offers' = StillOffered \ OnSuccess(Q \cup P)
  BY Zenon DEF NCallLeave
<1>3. CASE Refuse \/ Undefined
  <2>1. V = {} /\ OnSuccess(Q \cup P) = {}
    BY <1>3, RefusedTellsNothing
  <2>2. QED BY <1>2, <1>3, <2>1, NothingToldKeeps
<1>4. CASE ~(Refuse \/ Undefined)
  <2>1. \A p \in V : p[2] \in own
    BY DEF OnSuccess, send_stream_deleted, broadcast_to_stream_recipients
  <2>2. \A o \in P : o[3] \in own
    BY DEF send_call_stream_deleted, broadcast_to_call_participants
  <2> HIDE DEF P, V
  <2> DEFINE left == Without(participants[k], {c})
             emptied == Members(left) = {}
             gone == IF emptied THEN {k} ELSE {}
             rest == UNION {Members(CallStreamsWithout(own)[q]) : q \in gone}
             detached == own \cup rest
  <2>3. /\ k \in calls /\ Answer(TRUE) /\ phase = "serving" /\ c \in connections
        /\ participants' = [participants EXCEPT ![k] = left]
        /\ conn_calls' = [conn_calls EXCEPT ![c] = Without(conn_calls[c], {k})]
        /\ stream_delete(own) /\ calls' \subseteq calls
        /\ stream_call' = Blanked(stream_call, detached, NULL)
        /\ own \subseteq streams
        /\ UNCHANGED connections
    <3>1. Live({}, Members(call_streams[k]), {})
      BY <1>2, <1>4 DEF CallLeave, Live
    <3>2. own \subseteq streams
      BY <3>1 DEF Live, StreamsOfLeaver
    <3>3. QED
      BY <1>2, <1>4, <3>2
         DEF CallLeave, call_remove_participant, call_delete, Request, Serving
  <2>4. phase' = "serving" /\ reply' = "success"
    BY <2>3 DEF Answer
  <2>5. OnSuccess(Q \cup P) = Q \cup P
    BY <2>4 DEF OnSuccess
  <2>6. /\ participants \in [Calls -> ArraysOf(MAX_CALL_PARTICIPANTS, Conns)]
        /\ conn_calls \in [Conns -> ArraysOf(MAX_CONNECTION_CALLS, Calls)]
        /\ calls \subseteq Calls /\ streams \subseteq Streams
        /\ DOMAIN stream_call = Streams
    BY DEF GraphInv, GraphTypeOK
  <2>7. ViewersSteady /\ RecipientsSteady /\ streams' = streams \ own
    BY <2>3, DeletionIsSteady
  <2>8. \A t \in Streams : stream_call'[t] = IF t \in detached THEN NULL ELSE stream_call[t]
    BY <2>3, <2>6 DEF Blanked
  <2>9. \A i \in Slots(MAX_CONNECTION_CALLS) :
          Without(conn_calls[c], {k})[i] = IF conn_calls[c][i] \in {k} THEN NULL ELSE conn_calls[c][i]
    BY <2>6, Sizes, WithoutArray
  <2>10. \A i \in Slots(MAX_CALL_PARTICIPANTS) :
          left[i] = IF participants[k][i] \in {c} THEN NULL ELSE participants[k][i]
    BY <2>6, Sizes, WithoutArray
  <2>11. DOMAIN left = DOMAIN participants[k]
    BY DEF Without
  <2> HIDE DEF left, detached, own
  <2>12. ASSUME NEW d \in Conns, NEW t \in streams', InCallWith(d, t)'
         PROVE  /\ t \in streams /\ InCallWith(d, t) /\ stream_call'[t] = stream_call[t]
                /\ <<d, stream_call[t], t>> \notin Q
    <3>1. t \in streams /\ t \in Streams
      BY <2>6, <2>7
    <3>2. stream_call'[t] = stream_call[t] /\ stream_call[t] # NULL
      BY <2>8, <2>12, <3>1 DEF InCallWith
    <3>3. conn_calls'[d][0] = stream_call[t]
      BY <2>12, <3>2 DEF InCallWith
    <3>4. CASE d = c
      <4>1. conn_calls[c][0] # k /\ conn_calls[c][0] = stream_call[t]
        BY <2>3, <2>6, <2>9, <3>2, <3>3, <3>4, Sizes
      <4>2. QED BY <3>1, <3>2, <3>4, <4>1 DEF InCallWith
    <3>5. CASE d # c
      <4>1. conn_calls[d][0] = stream_call[t]
        BY <2>3, <2>6, <3>3, <3>5
      <4>2. QED BY <3>1, <3>2, <3>5, <4>1 DEF InCallWith
    <3>6. QED BY <3>4, <3>5
  <2>13. CallsSteady
    BY <2>12 DEF CallsSteady
  <2>14. ViewsTypeOK'
    BY <1>1, <1>2 DEF ViewsTypeOK, StillKnown, StillOffered, StillStarted
  <2>15. ViewerAndServerAgree' /\ OwnerKnowsOfViewers'
    <3>1. \A d \in Conns, t \in streams' : <<d, t>> \in knows' <=> <<d, t>> \in StillKnown
      BY <1>2, <2>1, <2>7
    <3>2. QED BY <1>1, <1>2, <2>7, <3>1, ViewersKept, OwnersKept
  <2>16. ParticipantKnowsStreams'
    <3>1. ASSUME NEW d \in Conns, NEW t \in streams', InCallWith(d, t)',
                 <<d, stream_call[t], t>> \in StillOffered
          PROVE  <<d, stream_call[t], t>> \in offers'
      <4>1. <<d, stream_call[t], t>> \notin P
        BY <2>2, <2>7
      <4>2. <<d, stream_call[t], t>> \notin Q
        BY <2>12, <3>1
      <4>3. QED BY <1>2, <2>5, <3>1, <4>1, <4>2
    <3>2. QED BY <1>1, <2>13, <3>1, ParticipantsKept
  <2>17. OffersAreToParticipants'
    <3>1. ASSUME NEW o \in offers', o[2] \in calls'
          PROVE  Contains(participants'[o[2]], o[1])
      <4>1. o \in offers /\ o \notin Q /\ o[2] \in calls
        BY <1>2, <2>3, <2>5, <3>1 DEF StillOffered
      <4>2. Contains(participants[o[2]], o[1])
        BY <1>1, <4>1 DEF OffersAreToParticipants
      <4>3. CASE o[2] # k
        BY <2>3, <2>6, <4>1, <4>2, <4>3
      <4>4. CASE o[2] = k
        <5>1. o[1] # c
          BY <1>1, <4>1, <4>4 DEF ViewsTypeOK
        <5>2. Contains(left, o[1])
          BY <2>6, <2>10, <2>11, <4>2, <4>4, <5>1 DEF Contains, ArraysOf
        <5>3. QED BY <2>3, <2>6, <4>4, <5>2
      <4>5. QED BY <4>3, <4>4
    <3>2. QED BY <3>1 DEF OffersAreToParticipants
  <2>18. QED BY <2>14, <2>15, <2>16, <2>17 DEF ViewsInv
<1>5. QED BY <1>3, <1>4

-----------------------------------------------------------------------------
\* Every step keeps what the views say.
LEMMA NNextKeeps ==
  ASSUME GraphInv, GraphInv', ViewsInv, [NNext]_nvars
  PROVE  ViewsInv'
<1>1. CASE UNCHANGED nvars
  <2>1. UNCHANGED graph /\ UNCHANGED <<knows, offers, started>>
    BY <1>1 DEF nvars, vars, views
  <2>2. QED BY <2>1 DEF ViewsInv, ViewsTypeOK, ViewerAndServerAgree, OwnerKnowsOfViewers,
                        ParticipantKnowsStreams, OffersAreToParticipants, graph
<1>2. ASSUME NEW c \in Conns, NEW k \in Calls, NCallJoin(c, k) \/ NCallLeave(c, k)
      PROVE  ViewsInv'
  BY <1>2, NCallJoinKeeps, NCallLeaveKeeps
<1>3. ASSUME NEW c \in Conns, NEW k \in Calls \cup {NULL}, NStreamCreate(c, k)
      PROVE  ViewsInv'
  BY <1>3, NStreamCreateKeeps
<1>4. ASSUME NEW c \in Conns, NEW s \in Streams,
             NStreamDelete(c, s) \/ NStreamJoin(c, s) \/ NStreamLeave(c, s)
      PROVE  ViewsInv'
  BY <1>4, NStreamDeleteKeeps, NStreamJoinKeeps, NStreamLeaveKeeps
<1>5. CASE NQuiet
  BY <1>5, NQuietKeeps
<1>6. QED BY <1>1, <1>2, <1>3, <1>4, <1>5 DEF NNext

\* Notifications adds nothing to what Conference does.
LEMMA NNextIsNext ==
  ASSUME [NNext]_nvars
  PROVE  [Next]_vars
<1>1. CASE UNCHANGED nvars
  BY <1>1 DEF nvars
<1>2. CASE NQuiet
  BY <1>2 DEF NQuiet, Next, ConnectionStep
<1>3. CASE ~NQuiet /\ NNext
  <2>1. \E c \in Conns : ConnectionStep(c)
    BY <1>3 DEF NNext, ConnectionStep, NCallJoin, NCallLeave, NStreamCreate, NStreamDelete,
                NStreamJoin, NStreamLeave
  <2>2. QED BY <2>1 DEF Next
<1>4. QED BY <1>1, <1>2, <1>3

\* The clients' views and the server's agree, whatever requests, refusals,
\* disconnects and address reuse occur, for any number of clients and slots.
THEOREM ViewsInvariance == NSpec => [](IInv /\ ViewsInv)
<1>1. NInit => IInv /\ ViewsInv
  <2> SUFFICES ASSUME NInit PROVE IInv /\ ViewsInv
    OBVIOUS
  <2>1. IInv
    BY InitKeeps DEF NInit
  <2>2. /\ streams = {} /\ calls = {} /\ knows = {} /\ offers = {} /\ started = {}
    BY DEF NInit, Init, GraphInit
  <2>3. QED BY <2>1, <2>2 DEF ViewsInv, ViewsTypeOK, ViewerAndServerAgree, OwnerKnowsOfViewers,
                              ParticipantKnowsStreams, OffersAreToParticipants
<1>2. IInv /\ ViewsInv /\ [NNext]_nvars => (IInv /\ ViewsInv)'
  <2> SUFFICES ASSUME IInv, ViewsInv, [NNext]_nvars PROVE IInv' /\ ViewsInv'
    OBVIOUS
  <2>1. [Next]_vars
    BY NNextIsNext
  <2>2. GraphInv
    BY DEF IInv, TypeOK, GraphInv
  <2>3. GraphInv'
    BY <2>1, <2>2, NextKeeps
  <2>4. /\ phase' \in Phases /\ reply' \in Replies
        /\ phase' = "stopped" => connections' = {}
    BY <2>1, PhasesKeep
  <2>5. IInv'
    BY <2>3, <2>4 DEF IInv, TypeOK, GraphInv
  <2>6. QED BY <2>2, <2>3, <2>5, NNextKeeps
<1>3. QED BY <1>1, <1>2, PTL DEF NSpec

\* A viewer that was told it joined is in slot 0 of the stream, and who is in
\* slot 0 was told.
THEOREM ViewersAgreeWithServer == NSpec => []ViewerAndServerAgree
<1>1. ViewsInv => ViewerAndServerAgree
  BY DEF ViewsInv
<1>2. QED BY <1>1, ViewsInvariance, PTL

\* No stream has a recipient its owner does not send to.
THEOREM OwnersKnowOfViewers == NSpec => []OwnerKnowsOfViewers
<1>1. ViewsInv => OwnerKnowsOfViewers
  BY DEF ViewsInv
<1>2. QED BY <1>1, ViewsInvariance, PTL

\* The admitted participant knows of every stream of its call.
THEOREM ParticipantsKnowStreams == NSpec => []ParticipantKnowsStreams
<1>1. ViewsInv => ParticipantKnowsStreams
  BY DEF ViewsInv
<1>2. QED BY <1>1, ViewsInvariance, PTL

\* The relay serves every viewer that believes it watches.
THEOREM PacketsReachViewers == NSpec => []PacketReachesViewers
<1>1. IInv /\ ViewsInv => PacketReachesViewers
  <2> SUFFICES ASSUME IInv, ViewsInv, NEW c \in Conns, NEW s \in streams,
                      <<c, s>> \in knows, udp[c] = "complete", c # owner[s]
               PROVE  c \in Reached(s)
    BY DEF PacketReachesViewers
  <2>1. recipients[s][0] = c
    BY DEF ViewsInv, ViewerAndServerAgree
  <2>2. recipients[s] \in ArraysOf(STREAM_MAX_RECIPIENTS, Conns)
    BY DEF IInv, TypeOK, GraphTypeOK
  <2>3. c \in Members(recipients[s])
    BY <2>1, <2>2, Sizes, SlotIsMember
  <2>4. QED BY <2>3 DEF Reached
<1>2. QED BY <1>1, ViewsInvariance, PTL

\* A viewer of a stream is among those that send_stream_deleted reaches.
LEMMA ViewersAreReached ==
  ASSUME GraphInv, ViewsInv, NEW d \in Conns, NEW s \in streams, <<d, s>> \in knows
  PROVE  <<d, s>> \in send_stream_deleted(s)
<1>1. recipients[s][0] = d
  BY DEF ViewsInv, ViewerAndServerAgree
<1>2. recipients[s] \in ArraysOf(STREAM_MAX_RECIPIENTS, Conns)
  BY DEF GraphInv, GraphTypeOK
<1>3. d \in Members(recipients[s])
  BY <1>1, <1>2, Sizes, SlotIsMember
<1>4. QED BY <1>3 DEF send_stream_deleted, broadcast_to_stream_recipients

\* Who knows that a stream is in its call is a participant of that call.
LEMMA OfferedAreParticipants ==
  ASSUME GraphInv, ViewsInv, NEW d, NEW s \in streams, <<d, stream_call[s], s>> \in offers
  PROVE  /\ stream_call[s] \in calls /\ d \in Conns
         /\ d \in Members(participants[stream_call[s]])
<1>1. stream_call[s] \in Calls /\ d \in Conns
  BY DEF ViewsInv, ViewsTypeOK
<1>2. stream_call[s] \in calls
  BY <1>1, Sizes DEF GraphInv, PrivateStreamInCall
<1>3. Contains(participants[stream_call[s]], d)
  BY <1>2 DEF ViewsInv, OffersAreToParticipants
<1>4. QED BY <1>1, <1>2, <1>3, Sizes DEF Members, Contains

\* handle_stream_delete tells all of them.
LEMMA OwnerDeletesToldly ==
  ASSUME GraphInv, ViewsInv, NEW c \in Conns, NEW t \in Streams, NStreamDelete(c, t),
         NEW d \in Conns, NEW s \in streams \ streams'
  PROVE  <<d, s>> \notin knows' /\ <<d, stream_call[s], s>> \notin offers'
<1>1. /\ StreamDelete(c, t) /\ knows' = StillKnown \ OnSuccess(send_stream_deleted(t))
      /\ offers' = StillOffered
            \ OnSuccess(UNION {send_call_stream_deleted(k, {t}, NULL) : k \in CallsOf({t})})
  BY DEF NStreamDelete
<1>2. /\ s = t /\ phase' = "serving" /\ reply' = "success"
  BY <1>1 DEF StreamDelete, stream_delete, Refuse, Undefined, graph, Answer, Request, Serving
<1>3. <<d, s>> \notin knows'
  <2>1. <<d, s>> \in knows => <<d, s>> \in send_stream_deleted(s)
    BY ViewersAreReached
  <2>2. QED BY <1>1, <1>2, <2>1 DEF OnSuccess, StillKnown
<1>4. ASSUME <<d, stream_call[s], s>> \in offers
      PROVE  <<d, stream_call[s], s>> \notin offers'
  <2>1. stream_call[s] \in calls /\ d \in Members(participants[stream_call[s]])
    BY <1>4, OfferedAreParticipants
  <2>2. stream_call[s] \in CallsOf({s}) /\ d # NULL
    BY <2>1, Sizes DEF CallsOf, GraphInv, GraphTypeOK
  <2>3. <<d, stream_call[s], s>> \in send_call_stream_deleted(stream_call[s], {s}, NULL)
    BY <2>1, <2>2 DEF send_call_stream_deleted, broadcast_to_call_participants
  <2>4. QED BY <1>1, <1>2, <2>2, <2>3 DEF OnSuccess
<1>5. QED BY <1>1, <1>3, <1>4 DEF StillOffered

\* handle_call_leave tells the viewers, and the participants of the call.
LEMMA LeaverDeletesToldly ==
  ASSUME GraphInv, ViewsInv, NEW c \in Conns, NEW k \in Calls, NCallLeave(c, k),
         NEW d \in Conns, NEW s \in streams \ streams'
  PROVE  /\ <<d, s>> \notin knows'
         /\ <<d, stream_call[s], s>> \in offers' =>
               \E q \in calls \ {stream_call[s]} : /\ participants'[q] # participants[q]
                                                   /\ Contains(call_streams[q], s)
<1> DEFINE own == StreamsOfLeaver(c, k)
           V == UNION {send_stream_deleted(t) : t \in own}
           P == send_call_stream_deleted(k, own, c)
           Q == {c} \X {k} \X Streams
<1>1. /\ CallLeave(c, k) /\ knows' = StillKnown \ OnSuccess(V)
      /\ offers' = StillOffered \ OnSuccess(Q \cup P)
  BY Zenon DEF NCallLeave
<1>2. /\ s \in own /\ phase' = "serving" /\ reply' = "success"
      /\ k \in calls /\ Contains(participants[k], c)
      /\ participants' = [participants EXCEPT ![k] = Without(participants[k], {c})]
  BY <1>1 DEF CallLeave, call_remove_participant, stream_delete, Refuse, Undefined, graph,
              Answer, Request, Serving
<1>3. OnSuccess(V) = V /\ OnSuccess(Q \cup P) = Q \cup P
  BY <1>2 DEF OnSuccess
<1>4. <<d, s>> \notin knows'
  <2>1. <<d, s>> \in knows => <<d, s>> \in send_stream_deleted(s)
    BY ViewersAreReached
  <2>2. QED BY <1>1, <1>2, <1>3, <2>1 DEF StillKnown
<1>5. ASSUME <<d, stream_call[s], s>> \in offers'
      PROVE  \E q \in calls \ {stream_call[s]} : /\ participants'[q] # participants[q]
                                                 /\ Contains(call_streams[q], s)
  <2>1. <<d, stream_call[s], s>> \in offers /\ <<d, stream_call[s], s>> \notin Q \cup P
    BY <1>1, <1>3, <1>5 DEF StillOffered
  <2>2. d \in Members(participants[stream_call[s]])
    BY <2>1, OfferedAreParticipants
  <2>3. s \in Streams
    BY DEF GraphInv, GraphTypeOK
  <2>4. stream_call[s] # k
    <3>1. ASSUME stream_call[s] = k
          PROVE  d = c \/ <<d, k, s>> \in P
      BY <1>2, <2>2, <3>1 DEF send_call_stream_deleted, broadcast_to_call_participants
    <3>2. QED BY <2>1, <2>3, <3>1
  <2>5. participants'[k] # participants[k]
    <3>1. participants'[k] = Without(participants[k], {c})
      BY <1>2 DEF GraphInv, GraphTypeOK
    <3>2. ~Contains(Without(participants[k], {c}), c)
      BY Sizes DEF Contains, Without
    <3>3. QED BY <1>2, <3>1, <3>2
  <2>6. Contains(call_streams[k], s)
    BY <1>2 DEF StreamsOfLeaver, Members, Contains
  <2>7. QED BY <1>2, <2>4, <2>5, <2>6
<1>6. QED BY <1>4, <1>5

\* Deleting a stream leaves nobody in the belief that it is still there, short
\* of a disconnect or a stream that another call takes along.
THEOREM DeletionsAreTold == NSpec => DeletionIsTold
<1> DEFINE Told == connections' = connections =>
       \A c \in Conns, s \in streams \ streams' :
          /\ <<c, s>> \notin knows'
          /\ <<c, stream_call[s], s>> \in offers' =>
               \E q \in calls \ {stream_call[s]} : /\ participants'[q] # participants[q]
                                                   /\ Contains(call_streams[q], s)
<1>1. ASSUME IInv, ViewsInv, NNext
      PROVE  Told
  <2>1. GraphInv
    BY <1>1 DEF IInv, TypeOK, GraphInv
  <2>2. SUFFICES ASSUME connections' = connections, ~(streams \subseteq streams')
                 PROVE  Told
    OBVIOUS
  <2> HIDE DEF Told
  <2>3. ASSUME NEW c \in Conns, NEW s \in Streams, NStreamDelete(c, s)
        PROVE  Told
    BY <1>1, <2>1, <2>2, <2>3, OwnerDeletesToldly DEF Told
  <2>4. ASSUME NEW c \in Conns, NEW k \in Calls, NCallLeave(c, k)
        PROVE  Told
    BY <1>1, <2>1, <2>2, <2>4, LeaverDeletesToldly DEF Told
  <2>5. CASE NQuiet
    <3>1. \A c \in connections : ~connection_delete(c)
      BY <2>2 DEF connection_delete
    <3>2. CASE \E c \in Conns : Close(c) \/ CloseNext(c)
      BY <2>2, <3>1, <3>2 DEF Close, CloseNext, Request, Undefined, graph
    <3>3. CASE \E c \in Conns : Accept(c) \/ UdpHandshake(c) \/ CallCreate(c)
      BY <2>2, <3>3 DEF Accept, UdpHandshake, CallCreate, Refuse, graph
    <3>4. CASE (\E s \in Streams : RelayPacket(s)) \/ PeriodicCheck \/ Shutdown \/ AllClosed \/ Ended
      BY <2>2, <3>4 DEF RelayPacket, PeriodicCheck, Shutdown, AllClosed, Ended, Undefined, graph, vars
    <3>5. QED BY <2>5, <3>2, <3>3, <3>4 DEF NQuiet
  <2>6. CASE \E c \in Conns, k \in Calls : NCallJoin(c, k)
    BY <2>2, <2>6 DEF NCallJoin, CallJoin, Refuse, Undefined, graph
  <2>7. CASE \E c \in Conns, k \in Calls \cup {NULL} : NStreamCreate(c, k)
    BY <2>2, <2>7 DEF NStreamCreate, StreamCreate, Refuse, Undefined, graph
  <2>8. CASE \E c \in Conns, s \in Streams : NStreamJoin(c, s) \/ NStreamLeave(c, s)
    BY <2>2, <2>8 DEF NStreamJoin, NStreamLeave, StreamJoin, StreamLeave, Refuse, Undefined, graph
  <2>9. QED BY <1>1, <2>3, <2>4, <2>5, <2>6, <2>7, <2>8 DEF NNext
<1>2. ASSUME UNCHANGED nvars
      PROVE  Told
  BY <1>2 DEF nvars, vars, graph
<1>3. IInv /\ ViewsInv /\ [NNext]_nvars => [Told]_nvars
  BY <1>1, <1>2
<1>4. QED BY <1>3, ViewsInvariance, PTL DEF NSpec, DeletionIsTold
=============================================================================
