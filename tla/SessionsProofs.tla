--------------------------- MODULE SessionsProofs ---------------------------
(***************************************************************************)
(* Proof that Conference implements Sessions, for any number of clients,   *)
(* streams, calls and slots: every step of the server is one step of       *)
(* Sessions, or none.  The invariant of the object graph is what makes it  *)
(* so, since slot 0 of one end of a link tells of the other end.           *)
(***************************************************************************)
EXTENDS ConferenceProofs

-----------------------------------------------------------------------------
(***************************************************************************)
(* What the abstract state is, in terms of the slots 0.                    *)
(***************************************************************************)
SlotsZero ==
  /\ Abs!Published = streams
  /\ \A c \in Conns :
       /\ Abs!Owned(c) = {s \in Streams : own_streams[c][0] = s}
       /\ Abs!Watched(c) = {s \in Streams : watch_streams[c][0] = s}
       /\ Abs!Joined(c) = {k \in Calls : conn_calls[c][0] = k}
       /\ own_streams[c][0] \in Streams \cup {NULL}
       /\ watch_streams[c][0] \in Streams \cup {NULL}
       /\ conn_calls[c][0] \in Calls \cup {NULL}

LEMMA AbstractState ==
  ASSUME GraphInv PROVE SlotsZero
<1>1. Abs!Published = streams
  BY NullIsNoAddress DEF Abs!Published, GraphInv, GraphTypeOK, FreedIsBlank, OwnershipMutual
<1>2. ASSUME NEW c \in Conns
      PROVE  /\ Abs!Owned(c) = {s \in Streams : own_streams[c][0] = s}
             /\ Abs!Watched(c) = {s \in Streams : watch_streams[c][0] = s}
             /\ Abs!Joined(c) = {k \in Calls : conn_calls[c][0] = k}
  <2>1. \A s \in Streams : owner[s] = c <=> own_streams[c][0] = s
    BY <1>2, Sizes DEF GraphInv, GraphTypeOK, FreedIsBlank, OwnershipMutual
  <2>2. Abs!Owned(c) = {s \in Streams : own_streams[c][0] = s}
    BY <2>1 DEF Abs!Owned
  <2>3. Abs!Watched(c) = {s \in Streams : watch_streams[c][0] = s}
    BY DEF Abs!Watched, Viewer, GraphInv, WatchingMutual
  <2>4. Abs!Joined(c) = {k \in Calls : conn_calls[c][0] = k}
    BY DEF Abs!Joined, Member, GraphInv, CallMembershipMutual
  <2>5. QED BY <2>2, <2>3, <2>4
<1>3. ASSUME NEW c \in Conns
      PROVE  /\ own_streams[c][0] \in Streams \cup {NULL}
             /\ watch_streams[c][0] \in Streams \cup {NULL}
             /\ conn_calls[c][0] \in Calls \cup {NULL}
  BY Sizes DEF GraphInv, GraphTypeOK, ArraysOf
<1>4. QED BY <1>1, <1>2, <1>3 DEF SlotsZero

\* A step that changes neither the slots 0 nor who is spoilt.
LEMMA NothingSeen ==
  ASSUME UNCHANGED <<connections, owner>>, Viewer' = Viewer, Member' = Member,
         Spoilt' = Spoilt
  PROVE  [Abs!Next]_(Abs!svars)
BY DEF Abs!svars

LEMMA UnchangedIsUnseen ==
  ASSUME UNCHANGED graph PROVE [Abs!Next]_(Abs!svars)
<1>1. UNCHANGED <<connections, owner>> /\ Viewer' = Viewer /\ Member' = Member /\ Spoilt' = Spoilt
  BY DEF graph, Viewer, Member, Spoilt
<1>2. QED BY <1>1, NothingSeen

\* Whether a connection is spoilt is told by the other slots of its own_streams.
LEMMA SpoiltStays ==
  ASSUME \A c \in Conns : \A i \in Slots(MAX_OUTPUT) \ {0} :
            own_streams'[c][i] = own_streams[c][i]
  PROVE  Spoilt' = Spoilt
BY DEF Spoilt

\* Deleting a stream clears no slot of its owner but slot 0.
LEMMA OthersStay ==
  ASSUME GraphInv, NEW D, NEW c \in Conns, NEW i \in Slots(MAX_OUTPUT) \ {0}
  PROVE  OwnedWithout(D)[c][i] = own_streams[c][i]
<1>1. own_streams[c] \in ArraysOf(MAX_OUTPUT, Streams) /\ NoDuplicates(own_streams[c])
  BY DEF GraphInv, GraphTypeOK, NoDuplicatePointers
<1>2. own_streams[c][i] \in Streams \cup {NULL} /\ i \in DOMAIN own_streams[c]
      /\ 0 \in DOMAIN own_streams[c]
  BY <1>1, Sizes DEF ArraysOf
<1>3. OwnedWithout(D)[c][i] = IF own_streams[c][i] \in {s \in D : owner[s] = c} THEN NULL
                              ELSE own_streams[c][i]
  BY <1>2 DEF OwnedWithout, Without
<1>4. CASE own_streams[c][i] = NULL
  BY <1>3, <1>4
<1>5. CASE own_streams[c][i] # NULL
  <2>1. own_streams[c][0] # own_streams[c][i]
    BY <1>1, <1>2, <1>5 DEF NoDuplicates
  <2>2. owner[own_streams[c][i]] # c
    BY <1>2, <1>5, <2>1, Sizes DEF GraphInv, GraphTypeOK, FreedIsBlank, OwnershipMutual
  <2>3. QED BY <1>3, <2>2
<1>6. QED BY <1>4, <1>5

-----------------------------------------------------------------------------
(***************************************************************************)
(* One lemma per kind of step.                                             *)
(***************************************************************************)
LEMMA AcceptIsCome ==
  ASSUME GraphInv, NEW c \in Conns, Accept(c) PROVE Abs!Next
<1>1. /\ c \notin connections /\ connections' = connections \cup {c}
      /\ UNCHANGED <<owner, own_streams, recipients, participants>>
  BY DEF Accept, connection_new
<1>2. Viewer' = Viewer /\ Member' = Member /\ Spoilt' = Spoilt
  BY <1>1 DEF Viewer, Member, Spoilt
<1>3. Abs!Come(c)
  BY <1>1, <1>2 DEF Abs!Come
<1>4. QED BY <1>3 DEF Abs!Next

\* call_add_participant, for a new call or an old one.
LEMMA LinkIsEnter ==
  ASSUME GraphInv, NEW c \in connections, NEW k \in Calls,
         ~Contains(participants[k], c), NEW l, l = ParticipantLink(k, c),
         participants' = [participants EXCEPT ![k] = l.near],
         UNCHANGED <<connections, own_streams, owner, recipients>>
  PROVE  [Abs!Next]_(Abs!svars)
<1>1. c \in Conns /\ SlotsZero
  BY AbstractState DEF GraphInv, GraphTypeOK
<1>2. Linked(l, participants[k], MAX_CALL_PARTICIPANTS, Conns, c,
             conn_calls[c], MAX_CONNECTION_CALLS, Calls, k)
  BY <1>1, Sizes, LinkFacts DEF ParticipantLink, GraphInv, GraphTypeOK
<1>3. Viewer' = Viewer /\ Spoilt' = Spoilt
  BY DEF Viewer, Spoilt
<1>4. Member' = [Member EXCEPT ![k] = l.near[0]]
  BY DEF Member, GraphInv, GraphTypeOK
<1>5. CASE l.ok
  <2>1. l.near[0] = c /\ participants[k][0] = NULL /\ conn_calls[c][0] = NULL
    BY <1>2, <1>5 DEF Linked
  <2>2. Abs!Joined(c) = {} /\ Member[k] = NULL
    BY <1>1, <2>1, Sizes DEF SlotsZero, Member
  <2>3. Abs!Enter(c, k)
    BY <1>3, <1>4, <2>1, <2>2 DEF Abs!Enter
  <2>4. QED BY <1>1, <2>3 DEF Abs!Next
<1>6. CASE ~l.ok
  <2>1. l.near[0] = participants[k][0]
    BY <1>2, <1>6 DEF Linked
  <2>2. Member' = Member
    BY <1>4, <2>1 DEF Member
  <2>3. QED BY <1>3, <2>2, NothingSeen
<1>7. l.ok \in BOOLEAN
  BY <1>2 DEF Linked
<1>8. QED BY <1>5, <1>6

LEMMA CallCreateIsEnter ==
  ASSUME GraphInv, NEW c \in Conns, CallCreate(c) PROVE [Abs!Next]_(Abs!svars)
<1>1. CASE Refuse
  BY <1>1, UnchangedIsUnseen DEF Refuse
<1>2. ASSUME NEW k \in Calls \ calls, NEW l, l = ParticipantLink(k, c),
             participants' = [participants EXCEPT ![k] = l.near],
             UNCHANGED <<connections, own_streams, owner, recipients>>
      PROVE  [Abs!Next]_(Abs!svars)
  <2>1. c \in connections
    BY DEF CallCreate, Request
  <2>2. ~Contains(participants[k], c)
    BY <1>2, Sizes DEF GraphInv, FreedIsBlank, Contains, Empty
  <2>3. QED BY <1>2, <2>1, <2>2, LinkIsEnter
<1>3. QED BY <1>1, <1>2 DEF CallCreate, call_new

LEMMA CallJoinIsEnter ==
  ASSUME GraphInv, NEW c \in Conns, NEW k \in Calls, CallJoin(c, k)
  PROVE  [Abs!Next]_(Abs!svars)
<1>1. CASE Refuse \/ Undefined
  BY <1>1, UnchangedIsUnseen DEF Refuse, Undefined
<1>2. ASSUME NEW l, l = ParticipantLink(k, c), CallAdmits(k, c),
             participants' = [participants EXCEPT ![k] = l.near],
             UNCHANGED <<connections, own_streams, owner, recipients>>
      PROVE  [Abs!Next]_(Abs!svars)
  <2>1. c \in connections
    BY DEF CallJoin, Request
  <2>2. QED BY <1>2, <2>1, LinkIsEnter DEF CallAdmits
<1>3. QED BY <1>1, <1>2 DEF CallJoin
\* What stream_new leaves in the slots of own_streams.
LEMMA NewStreamSlots ==
  ASSUME GraphInv, NEW c \in Conns, NEW k \in Calls \cup {NULL}, NEW s \in Streams,
         NEW l, l = NewStreamLink(s, c, k)
  PROVE  /\ l.ok => \A i \in Slots(MAX_OUTPUT) \ {0} : l.near[i] = own_streams[c][i]
         /\ ~l.ok /\ own_streams[c][0] = NULL => l.near = own_streams[c]
         /\ \A i \in Slots(MAX_OUTPUT) : own_streams[c][i] # NULL => l.near[i] = own_streams[c][i]
<1> DEFINE own == own_streams[c]
           known == Contains(own, s)
<1>1. own \in ArraysOf(MAX_OUTPUT, Streams) /\ DOMAIN own = Slots(MAX_OUTPUT)
  BY DEF GraphInv, GraphTypeOK, ArraysOf
<1>2. own[0] = NULL <=> AddIndex(own) = 0
  BY <1>1, Sizes, AddIndexZero
<1>3. /\ own[0] = NULL => Added(own, s) = [own EXCEPT ![0] = s]
      /\ \A i \in Slots(MAX_OUTPUT) : own[i] # NULL => Added(own, s)[i] = own[i]
  BY <1>1, Sizes, AddedArray
<1> HIDE DEF own
<1>4. CASE k = NULL
  <2>1. l = [near |-> IF known THEN own ELSE Added(own, s),
             ok |-> ~known /\ AddIndex(own) = 0]
    BY <1>4 DEF NewStreamLink, own
  <2>2. l.ok = (~known /\ AddIndex(own) = 0) /\ l.near = IF known THEN own ELSE Added(own, s)
    BY <2>1
  <2> HIDE DEF known
  <2>3. QED BY <1>1, <1>2, <1>3, <2>2 DEF own
<1>5. CASE k # NULL /\ known
  <2>1. l = [near |-> own, far |-> call_streams[k], ok |-> FALSE]
    BY <1>5 DEF NewStreamLink, own
  <2>2. QED BY <2>1 DEF own
<1>6. CASE k # NULL /\ ~known
  <2>1. l = Link(own, call_streams[k], s, s)
    BY <1>6 DEF NewStreamLink, own
  <2>2. call_streams[k] \in ArraysOf(MAX_CALL_STREAMS, Streams)
    BY <1>6 DEF GraphInv, GraphTypeOK
  <2>3. Linked(l, own, MAX_OUTPUT, Streams, s, call_streams[k], MAX_CALL_STREAMS, Streams, s)
    BY <1>1, <1>6, <2>1, <2>2, Sizes, LinkFacts DEF own
  <2>4. l.ok => \A i \in Slots(MAX_OUTPUT) \ {0} : l.near[i] = own[i]
    BY <2>3 DEF Linked
  <2>5. ~l.ok /\ own[0] = NULL => l.near = own
    BY <2>3 DEF Linked
  <2>6. \A i \in Slots(MAX_OUTPUT) : own[i] # NULL => l.near[i] = own[i]
    BY <2>3 DEF Linked
  <2>7. QED BY <2>4, <2>5, <2>6 DEF own
<1>7. QED BY <1>4, <1>5, <1>6

\* handle_stream_create: a stream that is not created leaves no trace, or spoils
\* an owner.
LEMMA StreamCreateIsPublish ==
  ASSUME GraphInv, NEW c \in Conns, NEW k \in Calls \cup {NULL}, StreamCreate(c, k)
  PROVE  [Abs!Next]_(Abs!svars)
<1>1. CASE Refuse \/ Undefined
  BY <1>1, UnchangedIsUnseen DEF Refuse, Undefined
<1>2. ASSUME NEW s \in Streams \ streams, NEW l, l = NewStreamLink(s, c, k),
             owner' = [owner EXCEPT ![s] = IF l.ok THEN c ELSE NULL],
             own_streams' = [own_streams EXCEPT ![c] = l.near],
             UNCHANGED <<connections, recipients, participants>>
      PROVE  [Abs!Next]_(Abs!svars)
  <2>1. c \in connections /\ s \in Streams /\ SlotsZero
    BY AbstractState DEF StreamCreate, Request
  <2>2. StreamLinked(l, own_streams[c], call_streams[k], s, k)
    BY <1>2, NewStreamLinkFacts
  <2>3. Viewer' = Viewer /\ Member' = Member
    BY <1>2 DEF Viewer, Member
  <2>4. \A d \in Conns : own_streams'[d] = IF d = c THEN l.near ELSE own_streams[d]
    BY <1>2 DEF GraphInv, GraphTypeOK
  <2>5. CASE l.ok
    <3>1. own_streams[c][0] = NULL
      BY <2>2, <2>5 DEF StreamLinked
    <3>2. Abs!Owned(c) = {} /\ s \notin Abs!Published
      BY <1>2, <2>1, <3>1, Sizes DEF SlotsZero
    <3>3. \A i \in Slots(MAX_OUTPUT) \ {0} : l.near[i] = own_streams[c][i]
      BY <1>2, <2>1, <2>5, NewStreamSlots
    <3>4. Spoilt' = Spoilt
      BY <2>4, <3>3, SpoiltStays
    <3>5. Abs!Publish(c, s)
      BY <1>2, <2>1, <2>3, <2>5, <3>2, <3>4 DEF Abs!Publish
    <3>6. QED BY <2>1, <3>5 DEF Abs!Next
  <2>6. CASE ~l.ok
    <3>1. owner' = owner
      BY <1>2, <2>6 DEF GraphInv, GraphTypeOK, FreedIsBlank
    <3>2. CASE own_streams[c][0] = NULL
      <4>1. l.near = own_streams[c]
        BY <1>2, <2>1, <2>6, <3>2, NewStreamSlots
      <4>2. Spoilt' = Spoilt
        BY <2>4, <4>1, SpoiltStays
      <4>3. QED BY <1>2, <2>3, <3>1, <4>2, NothingSeen
    <3>3. CASE own_streams[c][0] # NULL
      <4>1. Abs!Owned(c) # {}
        BY <2>1, <3>3 DEF SlotsZero
      <4>2. \A i \in Slots(MAX_OUTPUT) : own_streams[c][i] # NULL => l.near[i] = own_streams[c][i]
        BY <1>2, <2>1, NewStreamSlots
      <4>3. Spoilt \subseteq Spoilt' /\ Spoilt' \subseteq Spoilt \cup {c}
        BY <2>4, <4>2 DEF Spoilt
      <4>4. CASE c \in Spoilt'
        <5>1. Spoilt' = Spoilt \cup {c}
          BY <4>3, <4>4
        <5>2. Abs!PublishInVain(c)
          BY <1>2, <2>1, <2>3, <3>1, <4>1, <5>1 DEF Abs!PublishInVain
        <5>3. QED BY <5>2 DEF Abs!Next
      <4>5. CASE c \notin Spoilt'
        <5>1. Spoilt' = Spoilt
          BY <4>3, <4>5
        <5>2. QED BY <1>2, <2>3, <3>1, <5>1, NothingSeen
      <4>6. QED BY <4>4, <4>5
    <3>4. QED BY <3>2, <3>3
  <2>7. QED BY <2>2, <2>5, <2>6 DEF StreamLinked
<1>3. QED BY <1>1, <1>2 DEF StreamCreate

\* handle_stream_join.
LEMMA StreamJoinIsWatch ==
  ASSUME GraphInv, NEW c \in Conns, NEW s \in Streams, StreamJoin(c, s)
  PROVE  [Abs!Next]_(Abs!svars)
<1>1. CASE Refuse \/ Undefined
  BY <1>1, UnchangedIsUnseen DEF Refuse, Undefined
<1>2. ASSUME NEW l, l = RecipientLink(s, c), s \in streams, StreamAdmits(s, c),
             recipients' = [recipients EXCEPT ![s] = l.near],
             UNCHANGED <<connections, own_streams, owner, participants>>
      PROVE  [Abs!Next]_(Abs!svars)
  <2>1. c \in connections /\ SlotsZero
    BY AbstractState DEF StreamJoin, Request
  <2>2. Linked(l, recipients[s], STREAM_MAX_RECIPIENTS, Conns, c,
               watch_streams[c], MAX_INPUT, Streams, s)
    BY <1>2, Sizes, LinkFacts DEF RecipientLink, StreamAdmits, GraphInv, GraphTypeOK
  <2>3. Member' = Member /\ Spoilt' = Spoilt
    BY <1>2 DEF Member, Spoilt
  <2>4. Viewer' = [Viewer EXCEPT ![s] = l.near[0]]
    BY <1>2 DEF Viewer, GraphInv, GraphTypeOK
  <2>5. CASE l.ok
    <3>1. l.near[0] = c /\ recipients[s][0] = NULL /\ watch_streams[c][0] = NULL
      BY <2>2, <2>5 DEF Linked
    <3>2. Abs!Watched(c) = {} /\ Viewer[s] = NULL /\ s \in Abs!Published
      BY <1>2, <2>1, <3>1, Sizes DEF SlotsZero, Viewer
    <3>3. Abs!Watch(c, s)
      BY <1>2, <2>1, <2>3, <2>4, <3>1, <3>2 DEF Abs!Watch
    <3>4. QED BY <3>3 DEF Abs!Next
  <2>6. CASE ~l.ok
    <3>1. l.near[0] = recipients[s][0]
      BY <2>2, <2>6 DEF Linked
    <3>2. Viewer' = Viewer
      BY <2>4, <3>1 DEF Viewer
    <3>3. QED BY <1>2, <2>3, <3>2, NothingSeen
  <2>7. QED BY <2>2, <2>5, <2>6 DEF Linked
<1>3. QED BY <1>1, <1>2 DEF StreamJoin

\* handle_stream_leave: a recipient in another slot is no viewer.
LEMMA StreamLeaveIsUnwatch ==
  ASSUME GraphInv, NEW c \in Conns, NEW s \in Streams, StreamLeave(c, s)
  PROVE  [Abs!Next]_(Abs!svars)
<1>1. CASE Refuse \/ Undefined
  BY <1>1, UnchangedIsUnseen DEF Refuse, Undefined
<1>2. ASSUME recipients' = [recipients EXCEPT ![s] = Without(recipients[s], {c})],
             UNCHANGED <<connections, own_streams, owner, participants>>
      PROVE  [Abs!Next]_(Abs!svars)
  <2>1. c \in connections
    BY DEF StreamLeave, Request
  <2>2. Member' = Member /\ Spoilt' = Spoilt
    BY <1>2 DEF Member, Spoilt
  <2>3. Without(recipients[s], {c})[0] = IF recipients[s][0] = c THEN NULL ELSE recipients[s][0]
    BY Sizes, WithoutArray DEF GraphInv, GraphTypeOK
  <2>4. Viewer' = [Viewer EXCEPT ![s] = IF Viewer[s] = c THEN NULL ELSE Viewer[s]]
    BY <1>2, <2>3 DEF Viewer, GraphInv, GraphTypeOK
  <2>5. CASE Viewer[s] = c
    <3>1. s \in Abs!Watched(c) /\ Viewer' = Abs!Dropped(Viewer, {s})
      BY <2>4, <2>5 DEF Abs!Watched, Abs!Dropped, Viewer
    <3>2. Abs!Unwatch(c, s)
      BY <1>2, <2>1, <2>2, <3>1 DEF Abs!Unwatch
    <3>3. QED BY <3>2 DEF Abs!Next
  <2>6. CASE Viewer[s] # c
    <3>1. Viewer' = Viewer
      BY <2>4, <2>6 DEF Viewer
    <3>2. QED BY <1>2, <2>2, <3>1, NothingSeen
  <2>7. QED BY <2>5, <2>6
<1>3. QED BY <1>1, <1>2 DEF StreamLeave, stream_remove_recipient

\* stream_delete: owners and viewers of the deleted streams are dropped, and
\* nobody becomes spoilt.
LEMMA DeletedAreDropped ==
  ASSUME GraphInv, NEW D, D \subseteq streams, stream_delete(D)
  PROVE  /\ owner' = Abs!Dropped(owner, D) /\ Viewer' = Abs!Dropped(Viewer, D)
         /\ Spoilt' = Spoilt
<1>1. owner' = Abs!Dropped(owner, D)
  BY DEF stream_delete, Blanked, Abs!Dropped
<1>2. Viewer' = Abs!Dropped(Viewer, D)
  <2>1. Empty(STREAM_MAX_RECIPIENTS)[0] = NULL
    BY Sizes, EmptyArray
  <2>2. recipients' = [s \in Streams |-> IF s \in D THEN Empty(STREAM_MAX_RECIPIENTS)
                                        ELSE recipients[s]]
    BY DEF stream_delete, Blanked, GraphInv, GraphTypeOK
  <2>3. QED BY <2>1, <2>2 DEF Viewer, Abs!Dropped
<1>3. Spoilt' = Spoilt
  <2>1. own_streams' = OwnedWithout(D)
    BY DEF stream_delete
  <2>2. QED BY <2>1, OthersStay, SpoiltStays
<1>4. QED BY <1>1, <1>2, <1>3

\* handle_stream_delete.
LEMMA StreamDeleteIsRetract ==
  ASSUME GraphInv, NEW c \in Conns, NEW s \in Streams, StreamDelete(c, s)
  PROVE  [Abs!Next]_(Abs!svars)
<1>1. CASE Refuse \/ Undefined
  BY <1>1, UnchangedIsUnseen DEF Refuse, Undefined
<1>2. ASSUME s \in streams, owner[s] = c, stream_delete({s}),
             UNCHANGED <<connections, participants>>
      PROVE  [Abs!Next]_(Abs!svars)
  <2>1. c \in connections
    BY DEF StreamDelete, Request
  <2>2. owner' = Abs!Dropped(owner, {s}) /\ Viewer' = Abs!Dropped(Viewer, {s}) /\ Spoilt' = Spoilt
    BY <1>2, DeletedAreDropped
  <2>3. Member' = Member /\ s \in Abs!Owned(c)
    BY <1>2 DEF Member, Abs!Owned
  <2>4. Abs!Retract(c, s)
    BY <1>2, <2>1, <2>2, <2>3 DEF Abs!Retract
  <2>5. QED BY <2>4 DEF Abs!Next
<1>3. QED BY <1>1, <1>2 DEF StreamDelete

\* handle_call_leave: only streams of the leaver end.
LEMMA CallLeaveIsExit ==
  ASSUME GraphInv, NEW c \in Conns, NEW k \in Calls, CallLeave(c, k)
  PROVE  [Abs!Next]_(Abs!svars)
<1> DEFINE own == StreamsOfLeaver(c, k)
<1>1. CASE Refuse \/ Undefined
  BY <1>1, UnchangedIsUnseen DEF Refuse, Undefined
<1>2. CASE ~(Refuse \/ Undefined)
  <2>1. /\ Members(call_streams[k]) \subseteq streams /\ stream_delete(own)
        /\ participants' = [participants EXCEPT ![k] = Without(participants[k], {c})]
        /\ UNCHANGED connections
    BY <1>2 DEF CallLeave, call_remove_participant, Live
  <2>2. own \subseteq streams /\ own \subseteq Abs!Owned(c) /\ c \in connections
    BY <2>1 DEF StreamsOfLeaver, Abs!Owned, GraphInv, GraphTypeOK, CallLeave, Request
  <2>3. owner' = Abs!Dropped(owner, own) /\ Viewer' = Abs!Dropped(Viewer, own) /\ Spoilt' = Spoilt
    BY <2>1, <2>2, DeletedAreDropped
  <2>4. Without(participants[k], {c})[0] = IF participants[k][0] = c THEN NULL
                                           ELSE participants[k][0]
    BY Sizes, WithoutArray DEF GraphInv, GraphTypeOK
  <2>5. Member' = Abs!Dropped(Member, {k} \cap Abs!Joined(c))
    BY <2>1, <2>4 DEF Member, Abs!Dropped, Abs!Joined, GraphInv, GraphTypeOK
  <2>6. Abs!Exit(c, k, own)
    BY <2>1, <2>2, <2>3, <2>5 DEF Abs!Exit
  <2>7. own \in SUBSET Streams
    BY <2>2 DEF GraphInv, GraphTypeOK
  <2>8. QED BY <2>6, <2>7 DEF Abs!Next
<1>3. QED BY <1>1, <1>2

\* connection_delete: whoever is not spoilt holds no stream but his own.
LEMMA DeleteIsGo ==
  ASSUME GraphInv, NEW c \in Conns, c \in connections, ConnectionRefsLive(c),
         connection_delete(c)
  PROVE  Abs!Next
<1> DEFINE own == Members(own_streams[c])
<1>1. SlotsZero
  BY AbstractState
<1>2. own \subseteq streams /\ streams \subseteq Streams
  BY DEF ConnectionRefsLive, Live, GraphInv, GraphTypeOK
<1>3. own_streams[c] \in ArraysOf(MAX_OUTPUT, Streams) /\ NoDuplicates(own_streams[c])
  BY DEF GraphInv, GraphTypeOK, NoDuplicatePointers
<1>4. Abs!Owned(c) \subseteq own /\ own \subseteq Abs!Published
  BY <1>1, <1>2, <1>3, Sizes DEF SlotsZero, Members, ArraysOf
<1>5. c \notin Spoilt => own = Abs!Owned(c)
  <2>1. ASSUME c \notin Spoilt, NEW s \in own
        PROVE  s \in Abs!Owned(c)
    <3>1. PICK i \in Slots(MAX_OUTPUT) : own_streams[c][i] = s /\ s # NULL
      BY <1>3 DEF Members, ArraysOf
    <3>2. i = 0
      BY <2>1, <3>1 DEF Spoilt
    <3>3. QED BY <1>1, <1>2, <3>1, <3>2 DEF SlotsZero
  <2>2. QED BY <1>4, <2>1
<1>6. owner' = Abs!Dropped(owner, own)
  BY DEF connection_delete, Blanked, Abs!Dropped
<1>7. Viewer' = Abs!Dropped(Viewer, own \cup Abs!Watched(c))
  <2>1. /\ Empty(STREAM_MAX_RECIPIENTS)[0] = NULL
        /\ \A s \in Streams : Without(recipients[s], {c})[0] =
             IF recipients[s][0] = c THEN NULL ELSE recipients[s][0]
    BY Sizes, EmptyArray, WithoutArray DEF GraphInv, GraphTypeOK
  <2>2. \A s \in Streams : recipients[s][0] = c => Contains(watch_streams[c], s)
    <3>1. watch_streams[c] \in ArraysOf(MAX_INPUT, Streams)
      BY DEF GraphInv, GraphTypeOK
    <3>2. QED BY <3>1, Sizes DEF GraphInv, WatchingMutual, Contains, ArraysOf
  <2>3. recipients' = [s \in Streams |->
           IF s \in own THEN Empty(STREAM_MAX_RECIPIENTS)
           ELSE IF Contains(watch_streams[c], s) THEN Without(recipients[s], {c})
           ELSE recipients[s]]
    BY DEF connection_delete
  <2>4. \A s \in Streams : recipients'[s][0] =
           IF s \in own \/ recipients[s][0] = c THEN NULL ELSE recipients[s][0]
    BY <2>1, <2>2, <2>3
  <2>5. QED BY <2>4 DEF Viewer, Abs!Dropped, Abs!Watched
<1>8. Member' = Abs!Dropped(Member, Abs!Joined(c))
  <2>1. \A k \in Calls : Without(participants[k], {c})[0] =
           IF participants[k][0] = c THEN NULL ELSE participants[k][0]
    BY Sizes, WithoutArray DEF GraphInv, GraphTypeOK
  <2>2. \A k \in Calls : participants[k][0] = c => Contains(conn_calls[c], k)
    <3>1. conn_calls[c] \in ArraysOf(MAX_CONNECTION_CALLS, Calls)
      BY DEF GraphInv, GraphTypeOK
    <3>2. QED BY <3>1, Sizes DEF GraphInv, CallMembershipMutual, Contains, ArraysOf
  <2>3. participants' = [k \in Calls |->
           IF Contains(conn_calls[c], k) THEN Without(participants[k], {c}) ELSE participants[k]]
    BY DEF connection_delete, CallsLeft
  <2>4. \A k \in Calls : participants'[k][0] =
           IF participants[k][0] = c THEN NULL ELSE participants[k][0]
    BY <2>1, <2>2, <2>3
  <2>5. QED BY <2>4 DEF Member, Abs!Dropped, Abs!Joined
<1>9. Spoilt' = Spoilt \ {c}
  <2>1. own_streams' = [d \in Conns |-> IF d \in {c} THEN Empty(MAX_OUTPUT)
                                        ELSE OwnedWithout(own)[d]]
    BY DEF connection_delete, Blanked, OwnedWithout
  <2>2. \A i \in Slots(MAX_OUTPUT) : own_streams'[c][i] = NULL
    BY <2>1 DEF Empty
  <2>3. \A d \in Conns \ {c} : \A i \in Slots(MAX_OUTPUT) \ {0} :
           own_streams'[d][i] = own_streams[d][i]
    BY <2>1, OthersStay
  <2>4. QED BY <2>2, <2>3 DEF Spoilt
<1>10. connections' = connections \ {c} /\ own \in SUBSET Streams
  BY <1>2 DEF connection_delete
<1> HIDE DEF own
<1>11. Abs!Go(c, own)
  BY <1>4, <1>5, <1>6, <1>7, <1>8, <1>9, <1>10 DEF Abs!Go
<1>12. QED BY <1>10, <1>11 DEF Abs!Next

\* Every step of the server is a step of Sessions, or none.
LEMMA StepIsSession ==
  ASSUME GraphInv, [Next]_vars PROVE [Abs!Next]_(Abs!svars)
<1>1. ASSUME NEW c \in Conns, Accept(c) PROVE [Abs!Next]_(Abs!svars)
  BY <1>1, AcceptIsCome
<1>2. ASSUME NEW c \in Conns, Close(c) \/ CloseNext(c) PROVE [Abs!Next]_(Abs!svars)
  <2>1. CASE Undefined
    BY <2>1, UnchangedIsUnseen DEF Undefined
  <2>2. CASE c \in connections /\ ConnectionRefsLive(c) /\ connection_delete(c)
    BY <2>2, DeleteIsGo
  <2>3. QED BY <1>2, <2>1, <2>2 DEF Close, CloseNext, Request
<1>3. ASSUME NEW c \in Conns, UdpHandshake(c) PROVE [Abs!Next]_(Abs!svars)
  <2>1. UNCHANGED <<connections, owner, recipients, participants, own_streams>>
    BY <1>3 DEF UdpHandshake
  <2>2. Viewer' = Viewer /\ Member' = Member /\ Spoilt' = Spoilt
    BY <2>1 DEF Viewer, Member, Spoilt
  <2>3. QED BY <2>1, <2>2, NothingSeen
<1>4. ASSUME NEW c \in Conns, CallCreate(c) PROVE [Abs!Next]_(Abs!svars)
  BY <1>4, CallCreateIsEnter
<1>5. ASSUME NEW c \in Conns, NEW k \in Calls, CallJoin(c, k) \/ CallLeave(c, k)
      PROVE  [Abs!Next]_(Abs!svars)
  BY <1>5, CallJoinIsEnter, CallLeaveIsExit
<1>6. ASSUME NEW c \in Conns, NEW k \in Calls \cup {NULL}, StreamCreate(c, k)
      PROVE  [Abs!Next]_(Abs!svars)
  BY <1>6, StreamCreateIsPublish
<1>7. ASSUME NEW c \in Conns, NEW s \in Streams,
             StreamDelete(c, s) \/ StreamJoin(c, s) \/ StreamLeave(c, s)
      PROVE  [Abs!Next]_(Abs!svars)
  BY <1>7, StreamDeleteIsRetract, StreamJoinIsWatch, StreamLeaveIsUnwatch
<1>8. ASSUME NEW s \in Streams, RelayPacket(s) PROVE [Abs!Next]_(Abs!svars)
  BY <1>8, UnchangedIsUnseen DEF RelayPacket, Undefined
<1>9. CASE PeriodicCheck \/ Shutdown \/ AllClosed \/ Ended \/ UNCHANGED vars
  <2>1. UNCHANGED graph
    BY <1>9 DEF PeriodicCheck, Shutdown, AllClosed, Ended, Undefined, vars, graph
  <2>2. QED BY <2>1, UnchangedIsUnseen
<1>10. QED
  BY <1>1, <1>2, <1>3, <1>4, <1>5, <1>6, <1>7, <1>8, <1>9 DEF Next, ConnectionStep

\* The server is one of Sessions, whatever the sizes of its arrays: each request
\* grants or drops what Sessions lets it, and nobody ends a stream of another but a
\* client that closes after it was refused a second stream.
THEOREM ServerKeepsSessions == Spec => SessionsKept
<1>1. Init => Abs!Init
  <2> SUFFICES ASSUME Init PROVE Abs!Init
    OBVIOUS
  <2>1. /\ Empty(STREAM_MAX_RECIPIENTS)[0] = NULL /\ Empty(MAX_CALL_PARTICIPANTS)[0] = NULL
        /\ \A i \in Slots(MAX_OUTPUT) : Empty(MAX_OUTPUT)[i] = NULL
    BY Sizes, EmptyArray
  <2>2. /\ Viewer = [s \in Streams |-> NULL] /\ Member = [k \in Calls |-> NULL]
        /\ Spoilt = {}
    BY <2>1 DEF Init, GraphInit, Viewer, Member, Spoilt
  <2>3. QED BY <2>2 DEF Init, GraphInit, Abs!Init
<1>2. IInv /\ [Next]_vars => [Abs!Next]_(Abs!svars)
  BY StepIsSession DEF IInv, TypeOK, GraphInv
<1>3. QED BY <1>1, <1>2, Invariance, PTL DEF Spec, SessionsKept, Abs!Spec
=============================================================================
