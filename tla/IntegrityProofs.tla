--------------------------- MODULE IntegrityProofs --------------------------
(***************************************************************************)
(* Proof that as long as no request was refused half-way, no handler       *)
(* follows a pointer to a freed object and the integrity check passes, for *)
(* any number of clients, streams, calls and slots.                        *)
(***************************************************************************)
EXTENDS Integrity, ConferenceProofs

-----------------------------------------------------------------------------
(***************************************************************************)
(* Arrays in which only slot 0 is used.                                    *)
(***************************************************************************)
OnlyZero(a) == \A i \in DOMAIN a \ {0} : a[i] = NULL

\* Such an array holds what its slot 0 holds.
LEMMA ZeroHoldsAll ==
  ASSUME NEW n \in Nat \ {0}, NEW S, NEW a \in ArraysOf(n, S), OnlyZero(a)
  PROVE  /\ Members(a) = {a[0]} \ {NULL}
         /\ \A x : x # NULL => (Contains(a, x) <=> a[0] = x)
BY DEF OnlyZero, ArraysOf, Slots, Members, Contains

\* It stays such an array when elements are removed or slot 0 is filled, and an
\* empty array is one.
LEMMA ZeroStays ==
  /\ \A a, X : OnlyZero(a) => OnlyZero(Without(a, X))
  /\ \A a, x : OnlyZero(a) => OnlyZero([a EXCEPT ![0] = x])
  /\ \A n : OnlyZero(Empty(n))
BY DEF OnlyZero, Without, Empty

\* A link that succeeds fills slot 0 of both arrays and no other slot.
Filled(l, near, x, far, y) ==
  /\ near[0] = NULL /\ l.near = [near EXCEPT ![0] = x]
  /\ far[0] = NULL /\ l.far = [far EXCEPT ![0] = y]

LEMMA LinkFillsZero ==
  ASSUME NEW n \in Nat \ {0}, NEW m \in Nat \ {0}, NEW S, NEW T,
         NULL \notin S, NULL \notin T,
         NEW near \in ArraysOf(n, S), NEW far \in ArraysOf(m, T),
         NEW x \in S, NEW y \in T, Link(near, far, x, y).ok
  PROVE  Filled(Link(near, far, x, y), near, x, far, y)
<1>1. DOMAIN near = Slots(n) /\ DOMAIN far = Slots(m)
  BY DEF ArraysOf
<1>2. (AddIndex(near) = 0 <=> near[0] = NULL) /\ (AddIndex(far) = 0 <=> far[0] = NULL)
  BY <1>1, AddIndexZero
<1>3. /\ AddIndex(near) = 0 /\ ~Contains(far, y) /\ AddIndex(far) = 0
      /\ Link(near, far, x, y) = [near |-> Added(near, x), far |-> Added(far, y), ok |-> TRUE]
  <2>1. CASE AddIndex(near) # 0
    BY <2>1 DEF Link
  <2>2. CASE AddIndex(near) = 0 /\ Contains(far, y)
    BY <2>2 DEF Link
  <2>3. CASE AddIndex(near) = 0 /\ ~Contains(far, y) /\ AddIndex(far) # 0
    BY <2>3 DEF Link
  <2>4. CASE AddIndex(near) = 0 /\ ~Contains(far, y) /\ AddIndex(far) = 0
    BY <2>4 DEF Link
  <2>5. QED BY <2>1, <2>2, <2>3, <2>4
<1>4. /\ Added(near, x) = [near EXCEPT ![0] = x]
      /\ Added(far, y) = [far EXCEPT ![0] = y]
  BY <1>2, <1>3, AddedArray
<1>5. QED BY <1>2, <1>3, <1>4 DEF Filled

-----------------------------------------------------------------------------
(***************************************************************************)
(* A clean graph, and what a step must do to keep it clean.                *)
(***************************************************************************)
CleanGraph == GraphInv /\ OnlyFirstSlots /\ CallStreamsMutual

StreamsStay == \A s \in streams \cap streams' :
                  owner'[s] = owner[s] /\ stream_call'[s] = stream_call[s]

CleanStep == /\ OnlyFirstSlots' /\ CallStreamsMutual'
             /\ StreamsStay /\ phase' # "undefined"

\* OnlyFirstSlots, array by array.
LEMMA ArrayByArray ==
  ASSUME GraphTypeOK
  PROVE  OnlyFirstSlots <=>
           /\ \A c \in Conns : /\ OnlyZero(watch_streams[c]) /\ OnlyZero(own_streams[c])
                               /\ OnlyZero(conn_calls[c])
           /\ \A s \in Streams : OnlyZero(recipients[s])
           /\ \A k \in Calls : OnlyZero(participants[k]) /\ OnlyZero(call_streams[k])
BY DEF OnlyFirstSlots, OnlyFirst, OnlyZero, GraphTypeOK

LEMMA ArrayByArrayNext ==
  ASSUME GraphTypeOK'
  PROVE  OnlyFirstSlots' <=>
           /\ \A c \in Conns : /\ OnlyZero(watch_streams'[c]) /\ OnlyZero(own_streams'[c])
                               /\ OnlyZero(conn_calls'[c])
           /\ \A s \in Streams : OnlyZero(recipients'[s])
           /\ \A k \in Calls : OnlyZero(participants'[k]) /\ OnlyZero(call_streams'[k])
BY DEF OnlyFirstSlots, OnlyFirst, OnlyZero, GraphTypeOK

\* What the arrays of a clean graph hold.
ZeroSlots ==
  /\ \A c \in Conns :
       /\ OnlyZero(watch_streams[c]) /\ Members(watch_streams[c]) = {watch_streams[c][0]} \ {NULL}
       /\ OnlyZero(own_streams[c])   /\ Members(own_streams[c]) = {own_streams[c][0]} \ {NULL}
       /\ OnlyZero(conn_calls[c])    /\ Members(conn_calls[c]) = {conn_calls[c][0]} \ {NULL}
  /\ \A s \in Streams :
       OnlyZero(recipients[s]) /\ Members(recipients[s]) = {recipients[s][0]} \ {NULL}
  /\ \A k \in Calls :
       /\ OnlyZero(participants[k]) /\ Members(participants[k]) = {participants[k][0]} \ {NULL}
       /\ OnlyZero(call_streams[k]) /\ Members(call_streams[k]) = {call_streams[k][0]} \ {NULL}

ZeroContained ==
  /\ \A c \in Conns, s \in Streams : /\ Contains(watch_streams[c], s) <=> watch_streams[c][0] = s
                                     /\ Contains(own_streams[c], s) <=> own_streams[c][0] = s
                                     /\ Contains(recipients[s], c) <=> recipients[s][0] = c
  /\ \A c \in Conns, k \in Calls : /\ Contains(conn_calls[c], k) <=> conn_calls[c][0] = k
                                   /\ Contains(participants[k], c) <=> participants[k][0] = c
  /\ \A s \in Streams, k \in Calls : Contains(call_streams[k], s) <=> call_streams[k][0] = s

LEMMA CleanZeroSlots ==
  ASSUME CleanGraph PROVE ZeroSlots /\ ZeroContained
<1>1. GraphTypeOK /\ OnlyFirstSlots
  BY DEF CleanGraph, GraphInv
<1>2. ASSUME NEW c \in Conns
      PROVE  /\ watch_streams[c] \in ArraysOf(MAX_INPUT, Streams) /\ OnlyZero(watch_streams[c])
             /\ own_streams[c] \in ArraysOf(MAX_OUTPUT, Streams) /\ OnlyZero(own_streams[c])
             /\ conn_calls[c] \in ArraysOf(MAX_CONNECTION_CALLS, Calls) /\ OnlyZero(conn_calls[c])
  BY <1>1, ArrayByArray DEF GraphTypeOK
<1>3. ASSUME NEW s \in Streams
      PROVE  recipients[s] \in ArraysOf(STREAM_MAX_RECIPIENTS, Conns) /\ OnlyZero(recipients[s])
  BY <1>1, ArrayByArray DEF GraphTypeOK
<1>4. ASSUME NEW k \in Calls
      PROVE  /\ participants[k] \in ArraysOf(MAX_CALL_PARTICIPANTS, Conns) /\ OnlyZero(participants[k])
             /\ call_streams[k] \in ArraysOf(MAX_CALL_STREAMS, Streams) /\ OnlyZero(call_streams[k])
  BY <1>1, ArrayByArray DEF GraphTypeOK
<1>5. \A c \in Conns :
        /\ Members(watch_streams[c]) = {watch_streams[c][0]} \ {NULL}
        /\ Members(own_streams[c]) = {own_streams[c][0]} \ {NULL}
        /\ Members(conn_calls[c]) = {conn_calls[c][0]} \ {NULL}
        /\ \A x : x # NULL => /\ Contains(watch_streams[c], x) <=> watch_streams[c][0] = x
                              /\ Contains(own_streams[c], x) <=> own_streams[c][0] = x
                              /\ Contains(conn_calls[c], x) <=> conn_calls[c][0] = x
  BY <1>2, Sizes, ZeroHoldsAll
<1>6. \A s \in Streams :
        /\ Members(recipients[s]) = {recipients[s][0]} \ {NULL}
        /\ \A x : x # NULL => (Contains(recipients[s], x) <=> recipients[s][0] = x)
  BY <1>3, Sizes, ZeroHoldsAll
<1>7. \A k \in Calls :
        /\ Members(participants[k]) = {participants[k][0]} \ {NULL}
        /\ Members(call_streams[k]) = {call_streams[k][0]} \ {NULL}
        /\ \A x : x # NULL => /\ Contains(participants[k], x) <=> participants[k][0] = x
                              /\ Contains(call_streams[k], x) <=> call_streams[k][0] = x
  BY <1>4, Sizes, ZeroHoldsAll
<1>8. /\ \A c \in Conns : c # NULL
      /\ \A s \in Streams : s # NULL
      /\ \A k \in Calls : k # NULL
  BY Sizes
<1>9. ZeroSlots
  BY <1>2, <1>3, <1>4, <1>5, <1>6, <1>7 DEF ZeroSlots
<1>10. ASSUME NEW c \in Conns, NEW s \in Streams
       PROVE  /\ Contains(watch_streams[c], s) <=> watch_streams[c][0] = s
              /\ Contains(own_streams[c], s) <=> own_streams[c][0] = s
              /\ Contains(recipients[s], c) <=> recipients[s][0] = c
  BY <1>5, <1>6, <1>8
<1>11. ASSUME NEW c \in Conns, NEW k \in Calls
       PROVE  /\ Contains(conn_calls[c], k) <=> conn_calls[c][0] = k
              /\ Contains(participants[k], c) <=> participants[k][0] = c
  BY <1>5, <1>7, <1>8
<1>12. ASSUME NEW s \in Streams, NEW k \in Calls
       PROVE  Contains(call_streams[k], s) <=> call_streams[k][0] = s
  BY <1>7, <1>8
<1>13. ZeroContained
  BY <1>10, <1>11, <1>12 DEF ZeroContained
<1>14. QED BY <1>9, <1>13

\* Whatever a clean graph points to is live.
AllLive ==
  /\ \A c \in Conns : /\ Members(watch_streams[c]) \subseteq streams
                      /\ Members(own_streams[c]) \subseteq streams
                      /\ Members(conn_calls[c]) \subseteq calls
  /\ \A s \in Streams : /\ Members(recipients[s]) \subseteq connections
                        /\ {owner[s]} \ {NULL} \subseteq connections
                        /\ {stream_call[s]} \ {NULL} \subseteq calls
  /\ \A k \in Calls : /\ Members(participants[k]) \subseteq connections
                      /\ Members(call_streams[k]) \subseteq streams

LEMMA CleanIsLive ==
  ASSUME CleanGraph PROVE AllLive
<1>1. ZeroSlots
  BY CleanZeroSlots
<1>2. ASSUME NEW c \in Conns, NEW s \in Streams, recipients[s][0] = c \/ watch_streams[c][0] = s
      PROVE  c \in connections /\ s \in streams
  BY <1>2, Sizes DEF CleanGraph, GraphInv, WatchingMutual, FreedIsBlank, Empty
<1>3. ASSUME NEW c \in Conns, NEW k \in Calls, participants[k][0] = c \/ conn_calls[c][0] = k
      PROVE  c \in connections /\ k \in calls
  BY <1>3, Sizes DEF CleanGraph, GraphInv, CallMembershipMutual, FreedIsBlank, Empty
<1>4. ASSUME NEW s \in Streams
      PROVE  /\ {owner[s]} \ {NULL} \subseteq connections
             /\ {stream_call[s]} \ {NULL} \subseteq calls
             /\ \A c \in Conns : own_streams[c][0] = s => s \in streams
             /\ \A k \in Calls : call_streams[k][0] = s => s \in streams
  BY Sizes DEF CleanGraph, GraphInv, GraphTypeOK, OwnershipMutual, FreedIsBlank, PrivateStreamInCall,
               CallStreamsMutual
<1>5. /\ \A c \in Conns : /\ watch_streams[c][0] \in Streams \cup {NULL}
                          /\ own_streams[c][0] \in Streams \cup {NULL}
                          /\ conn_calls[c][0] \in Calls \cup {NULL}
      /\ \A s \in Streams : recipients[s][0] \in Conns \cup {NULL}
      /\ \A k \in Calls : /\ participants[k][0] \in Conns \cup {NULL}
                          /\ call_streams[k][0] \in Streams \cup {NULL}
  BY Sizes DEF CleanGraph, GraphInv, GraphTypeOK, ArraysOf
<1>6. \A c \in Conns : /\ Members(watch_streams[c]) \subseteq streams
                       /\ Members(own_streams[c]) \subseteq streams
                       /\ Members(conn_calls[c]) \subseteq calls
  BY <1>1, <1>2, <1>3, <1>4, <1>5 DEF ZeroSlots
<1>7. ASSUME NEW s \in Streams PROVE Members(recipients[s]) \subseteq connections
  <2>1. Members(recipients[s]) = {recipients[s][0]} \ {NULL}
    BY <1>1 DEF ZeroSlots
  <2>2. recipients[s][0] \in Conns => recipients[s][0] \in connections
    BY <1>2
  <2>3. QED BY <1>5, <2>1, <2>2
<1>8. ASSUME NEW k \in Calls
      PROVE  /\ Members(participants[k]) \subseteq connections
             /\ Members(call_streams[k]) \subseteq streams
  <2>1. /\ Members(participants[k]) = {participants[k][0]} \ {NULL}
        /\ Members(call_streams[k]) = {call_streams[k][0]} \ {NULL}
    BY <1>1 DEF ZeroSlots
  <2>2. participants[k][0] \in Conns => participants[k][0] \in connections
    BY <1>3
  <2>3. call_streams[k][0] \in Streams => call_streams[k][0] \in streams
    BY <1>4
  <2>4. QED BY <1>5, <2>1, <2>2, <2>3
<1>9. QED BY <1>4, <1>6, <1>7, <1>8 DEF AllLive

\* What the deletion of live streams follows is live.
LEMMA CleanHolders ==
  ASSUME CleanGraph, NEW D, D \subseteq Streams
  PROVE  HoldersOf(D) \subseteq connections /\ CallsOf(D) \subseteq calls
<1>1. AllLive
  BY CleanIsLive
<1>2. \A s \in D : Members(recipients[s]) \cup ({owner[s]} \ {NULL}) \subseteq connections
  BY <1>1 DEF AllLive
<1>3. HoldersOf(D) \subseteq connections
  BY <1>2 DEF HoldersOf
<1>4. \A s \in D : {stream_call[s]} \ {NULL} \subseteq calls
  BY <1>1 DEF AllLive
<1>5. CallsOf(D) \subseteq calls
  BY <1>4 DEF CallsOf
<1>6. QED BY <1>3, <1>5

\* The integrity check and the closing of a connection meet live objects only.
LEMMA CleanChecks ==
  ASSUME CleanGraph
  PROVE  EveryRefLive /\ \A c \in Conns : ConnectionRefsLive(c)
<1>1. AllLive /\ connections \subseteq Conns /\ streams \subseteq Streams /\ calls \subseteq Calls
  BY CleanIsLive DEF CleanGraph, GraphInv, GraphTypeOK
<1>2. \A c \in Conns : print_connection_details(c)
  BY <1>1 DEF AllLive, print_connection_details, Live
<1>3. ASSUME NEW s \in Streams PROVE print_stream_details(s)
  <2>1. HoldersOf({s}) \subseteq connections /\ CallsOf({s}) \subseteq calls
    BY CleanHolders
  <2>2. QED BY <2>1 DEF print_stream_details, Live
<1>4. \A k \in Calls : print_call_details(k)
  BY <1>1 DEF AllLive, print_call_details, Live
<1>5. ASSUME NEW c \in Conns PROVE ConnectionRefsLive(c)
  <2>1. /\ Members(own_streams[c]) \subseteq streams /\ Members(own_streams[c]) \subseteq Streams
        /\ Members(watch_streams[c]) \subseteq streams /\ Members(conn_calls[c]) \subseteq calls
    BY <1>1 DEF AllLive
  <2>2. /\ HoldersOf(Members(own_streams[c])) \subseteq connections
        /\ CallsOf(Members(own_streams[c])) \subseteq calls
    BY <2>1, CleanHolders
  <2>3. QED BY <2>1, <2>2 DEF ConnectionRefsLive, Live
<1>6. QED BY <1>1, <1>2, <1>3, <1>4, <1>5 DEF EveryRefLive

\* Its comparisons succeed.
LEMMA CleanIsIntact ==
  ASSUME CleanGraph PROVE check_all_integrity
<1>1. /\ ZeroSlots /\ ZeroContained /\ AllLive
      /\ connections \subseteq Conns /\ streams \subseteq Streams /\ calls \subseteq Calls
  BY CleanZeroSlots, CleanIsLive DEF CleanGraph, GraphInv, GraphTypeOK
<1>2. ASSUME NEW k \in calls PROVE call_intact(k)
  <2>1. k \in Calls /\ Members(participants[k]) \subseteq Conns /\ Members(call_streams[k]) \subseteq Streams
    BY <1>1 DEF AllLive
  <2>2. QED BY <1>1, <2>1 DEF call_intact, ZeroSlots, ZeroContained, CleanGraph, GraphInv, CallMembershipMutual,
                              CallStreamsMutual
<1>3. ASSUME NEW s \in streams PROVE stream_intact(s)
  <2>1. s \in Streams /\ Members(recipients[s]) \subseteq Conns
    BY <1>1 DEF AllLive
  <2>2. owner[s] \in Conns /\ owner[s] # NULL /\ own_streams[owner[s]][0] = s
    BY <1>1, <2>1, Sizes DEF CleanGraph, GraphInv, OwnershipMutual
  <2>3. Contains(own_streams[owner[s]], s)
    BY <1>1, <2>1, <2>2 DEF ZeroContained
  <2>4. ASSUME NEW c \in Members(recipients[s]) PROVE Contains(watch_streams[c], s)
    <3>1. c \in Conns /\ recipients[s][0] = c
      BY <1>1, <2>1 DEF ZeroSlots
    <3>2. watch_streams[c][0] = s
      BY <2>1, <3>1 DEF CleanGraph, GraphInv, WatchingMutual
    <3>3. QED BY <1>1, <2>1, <3>1, <3>2 DEF ZeroContained
  <2>5. \A k \in CallsOf({s}) : k \in Calls /\ call_streams[k][0] = s
    <3>1. CallsOf({s}) = {stream_call[s]} \ {NULL} /\ stream_call[s] \in Calls \cup {NULL}
      BY <2>1 DEF CallsOf, CleanGraph, GraphInv, GraphTypeOK
    <3>2. QED BY <2>1, <3>1 DEF CleanGraph, CallStreamsMutual
  <2>6. \A k \in CallsOf({s}) : Contains(call_streams[k], s)
    BY <1>1, <2>1, <2>5 DEF ZeroContained
  <2>7. QED BY <2>2, <2>3, <2>4, <2>6 DEF stream_intact
<1>4. ASSUME NEW c \in connections PROVE connection_intact(c)
  <2>1. /\ c \in Conns /\ Members(own_streams[c]) \subseteq Streams
        /\ Members(watch_streams[c]) \subseteq Streams /\ Members(conn_calls[c]) \subseteq Calls
    BY <1>1 DEF AllLive
  <2>2. \A s \in Members(own_streams[c]) : owner[s] = c
    BY <1>1, <2>1 DEF ZeroSlots, CleanGraph, GraphInv, OwnershipMutual
  <2>3. ASSUME NEW s \in Members(watch_streams[c]) PROVE Contains(recipients[s], c)
    <3>1. s \in Streams /\ watch_streams[c][0] = s
      BY <1>1, <2>1 DEF ZeroSlots
    <3>2. recipients[s][0] = c
      BY <2>1, <3>1 DEF CleanGraph, GraphInv, WatchingMutual
    <3>3. QED BY <1>1, <2>1, <3>1, <3>2 DEF ZeroContained
  <2>4. ASSUME NEW k \in Members(conn_calls[c]) PROVE Contains(participants[k], c)
    <3>1. k \in Calls /\ conn_calls[c][0] = k
      BY <1>1, <2>1 DEF ZeroSlots
    <3>2. participants[k][0] = c
      BY <2>1, <3>1 DEF CleanGraph, GraphInv, CallMembershipMutual
    <3>3. QED BY <1>1, <2>1, <3>1, <3>2 DEF ZeroContained
  <2>5. QED BY <2>2, <2>3, <2>4 DEF connection_intact
<1>5. QED BY <1>2, <1>3, <1>4 DEF check_all_integrity


-----------------------------------------------------------------------------
(***************************************************************************)
(* One lemma per handler: unless it refuses half-way, it stays defined,    *)
(* keeps the graph clean and moves no stream that stays.                   *)
(***************************************************************************)
LEMMA UnchangedIsClean ==
  ASSUME CleanGraph, UNCHANGED graph, phase' # "undefined"
  PROVE  CleanStep
BY DEF CleanStep, CleanGraph, GraphInv, graph, OnlyFirstSlots, OnlyFirst, CallStreamsMutual, StreamsStay

\* A handler that changes the pointers between connections and streams or
\* between connections and calls only, and no field of a stream.
LEMMA FieldsUnchanged ==
  ASSUME CleanGraph, UNCHANGED <<owner, stream_call, call_streams>>
  PROVE  CallStreamsMutual' /\ StreamsStay
BY DEF CleanGraph, CallStreamsMutual, StreamsStay

\* handle_tcp_accept and handle_udp_handshake.
LEMMA AcceptIsClean ==
  ASSUME CleanGraph, NEW c \in Conns, Accept(c) \/ UdpHandshake(c), phase # "undefined"
  PROVE  CleanStep
BY DEF CleanStep, CleanGraph, OnlyFirstSlots, OnlyFirst, CallStreamsMutual, StreamsStay, Accept, UdpHandshake,
       connection_new, NoReply

\* call_add_participant, for a new call or an old one, when it succeeds.
LEMMA ParticipantIsClean ==
  ASSUME CleanGraph, GraphInv', NEW c \in Conns, NEW k \in Calls, ParticipantLink(k, c).ok,
         participants' = [participants EXCEPT ![k] = ParticipantLink(k, c).near],
         conn_calls' = [conn_calls EXCEPT ![c] = ParticipantLink(k, c).far],
         UNCHANGED <<watch_streams, own_streams, owner, stream_call, recipients, call_streams>>
  PROVE  OnlyFirstSlots' /\ CallStreamsMutual' /\ StreamsStay
<1>1. /\ participants[k] \in ArraysOf(MAX_CALL_PARTICIPANTS, Conns)
      /\ conn_calls[c] \in ArraysOf(MAX_CONNECTION_CALLS, Calls)
      /\ DOMAIN participants = Calls /\ DOMAIN conn_calls = Conns
  BY DEF CleanGraph, GraphInv, GraphTypeOK
<1>2. /\ participants' = [participants EXCEPT ![k] = [participants[k] EXCEPT ![0] = c]]
      /\ conn_calls' = [conn_calls EXCEPT ![c] = [conn_calls[c] EXCEPT ![0] = k]]
  <2>1. Filled(ParticipantLink(k, c), participants[k], c, conn_calls[c], k)
    BY <1>1, Sizes, LinkFillsZero DEF ParticipantLink
  <2>2. QED BY <2>1 DEF Filled
<1>3. /\ \A d \in Conns : /\ OnlyZero(watch_streams[d]) /\ OnlyZero(own_streams[d])
                          /\ OnlyZero(conn_calls[d])
      /\ \A s \in Streams : OnlyZero(recipients[s])
      /\ \A q \in Calls : OnlyZero(participants[q]) /\ OnlyZero(call_streams[q])
  BY CleanZeroSlots DEF ZeroSlots
<1>4. /\ \A d \in Conns : OnlyZero(conn_calls'[d])
      /\ \A q \in Calls : OnlyZero(participants'[q])
  <2>1. OnlyZero([participants[k] EXCEPT ![0] = c]) /\ OnlyZero([conn_calls[c] EXCEPT ![0] = k])
    BY <1>3, ZeroStays
  <2>2. QED BY <1>1, <1>2, <1>3, <2>1
<1>5. OnlyFirstSlots'
  BY <1>3, <1>4, ArrayByArrayNext DEF GraphInv
<1>6. QED BY <1>5, FieldsUnchanged

\* handle_call_create.
LEMMA CallCreateIsClean ==
  ASSUME CleanGraph, GraphInv', NEW c \in Conns, CallCreate(c), phase # "undefined",
         reply' = "error" => UNCHANGED graph
  PROVE  CleanStep
<1>1. phase' # "undefined"
  BY DEF CallCreate, Refuse, Answer
<1>2. CASE UNCHANGED graph
  BY <1>1, <1>2, UnchangedIsClean
<1>3. CASE ~UNCHANGED graph
  <2>1. reply' # "error"
    BY <1>3
  <2>2. PICK k \in Calls \ calls :
          /\ participants' = [participants EXCEPT ![k] = ParticipantLink(k, c).near]
          /\ conn_calls' = [conn_calls EXCEPT ![c] = ParticipantLink(k, c).far]
          /\ Answer(ParticipantLink(k, c).ok)
          /\ UNCHANGED <<connections, streams, watch_streams, own_streams, udp,
                         owner, stream_call, recipients, call_streams>>
    BY <2>1 DEF CallCreate, Refuse, call_new
  <2>3. ParticipantLink(k, c).ok
    BY <2>1, <2>2 DEF Answer
  <2>4. QED BY <1>1, <2>2, <2>3, ParticipantIsClean DEF CleanStep
<1>4. QED BY <1>2, <1>3

\* handle_call_join: the members and streams it tells of are live.
LEMMA CallJoinIsClean ==
  ASSUME CleanGraph, GraphInv', NEW c \in Conns, NEW k \in Calls, CallJoin(c, k),
         phase # "undefined", reply' = "error" => UNCHANGED graph
  PROVE  CleanStep
<1> DEFINE l == ParticipantLink(k, c)
<1>1. l.ok => Live(Members(l.near), Members(call_streams[k]), {})
  <2> SUFFICES ASSUME l.ok PROVE Live(Members(l.near), Members(call_streams[k]), {})
    OBVIOUS
  <2>1. /\ participants[k] \in ArraysOf(MAX_CALL_PARTICIPANTS, Conns)
        /\ conn_calls[c] \in ArraysOf(MAX_CONNECTION_CALLS, Calls)
    BY DEF CleanGraph, GraphInv, GraphTypeOK
  <2>2. Filled(l, participants[k], c, conn_calls[c], k)
    BY <2>1, Sizes, LinkFillsZero DEF ParticipantLink
  <2>3. Members(l.near) \subseteq Members(participants[k]) \cup {c}
    BY <2>1, <2>2 DEF Filled, Members, ArraysOf
  <2>4. Members(participants[k]) \subseteq connections /\ Members(call_streams[k]) \subseteq streams
    BY CleanIsLive DEF AllLive
  <2>5. c \in connections
    BY DEF CallJoin, Request
  <2>6. QED BY <2>3, <2>4, <2>5 DEF Live
<1> HIDE DEF l
<1>2. \/ Refuse
      \/ /\ participants' = [participants EXCEPT ![k] = l.near]
         /\ conn_calls' = [conn_calls EXCEPT ![c] = l.far]
         /\ Answer(l.ok)
         /\ UNCHANGED <<connections, streams, calls, watch_streams, own_streams,
                        udp, owner, stream_call, recipients, call_streams>>
  BY <1>1 DEF CallJoin, l
<1>3. phase' # "undefined"
  BY <1>2 DEF Refuse, Answer
<1>4. CASE UNCHANGED graph
  BY <1>3, <1>4, UnchangedIsClean
<1>5. CASE ~UNCHANGED graph
  <2>1. reply' # "error" /\ ~Refuse
    BY <1>5 DEF Refuse
  <2>2. l.ok
    BY <1>2, <2>1 DEF Answer
  <2>3. QED BY <1>2, <1>3, <2>1, <2>2, ParticipantIsClean DEF CleanStep, l
<1>6. QED BY <1>4, <1>5


\* handle_stream_join: the owner and the recipients it looks at are live.
LEMMA StreamJoinIsClean ==
  ASSUME CleanGraph, GraphInv', NEW c \in Conns, NEW s \in Streams, StreamJoin(c, s),
         phase # "undefined", reply' = "error" => UNCHANGED graph
  PROVE  CleanStep
<1> DEFINE l == RecipientLink(s, c)
<1>1. /\ recipients[s] \in ArraysOf(STREAM_MAX_RECIPIENTS, Conns)
      /\ watch_streams[c] \in ArraysOf(MAX_INPUT, Streams)
      /\ DOMAIN recipients = Streams /\ DOMAIN watch_streams = Conns
  BY DEF CleanGraph, GraphInv, GraphTypeOK
<1>2. l.ok => Filled(l, recipients[s], c, watch_streams[c], s)
  BY <1>1, Sizes, LinkFillsZero DEF RecipientLink
<1>3. s \in streams => Live({}, {}, CallsOf({s}))
  <2>1. CallsOf({s}) \subseteq calls
    BY CleanHolders
  <2>2. QED BY <2>1 DEF Live
<1>4. s \in streams /\ l.ok => Live(Members(l.near) \cup {owner[s]}, {}, {})
  <2> SUFFICES ASSUME s \in streams, l.ok
               PROVE  Live(Members(l.near) \cup {owner[s]}, {}, {})
    OBVIOUS
  <2>1. Members(l.near) \subseteq Members(recipients[s]) \cup {c}
    BY <1>1, <1>2, ZenonT(30) DEF Filled, Members, ArraysOf
  <2>2. Members(recipients[s]) \subseteq connections
    BY CleanIsLive DEF AllLive
  <2>3. owner[s] \in connections
    BY DEF CleanGraph, GraphInv, OwnershipMutual
  <2>4. c \in connections
    BY DEF StreamJoin, Request
  <2>5. QED BY <2>1, <2>2, <2>3, <2>4 DEF Live
<1> HIDE DEF l
<1>5. \/ Refuse
      \/ /\ recipients' = [recipients EXCEPT ![s] = l.near]
         /\ watch_streams' = [watch_streams EXCEPT ![c] = l.far]
         /\ Answer(l.ok)
         /\ UNCHANGED <<connections, streams, calls, own_streams, conn_calls, udp,
                        owner, stream_call, participants, call_streams>>
  BY <1>3, <1>4 DEF StreamJoin, l
<1>6. phase' # "undefined"
  BY <1>5 DEF Refuse, Answer
<1>7. CASE UNCHANGED graph
  BY <1>6, <1>7, UnchangedIsClean
<1>8. CASE ~UNCHANGED graph
  <2>1. reply' # "error" /\ ~Refuse
    BY <1>8 DEF Refuse
  <2>2. /\ l.ok
        /\ recipients' = [recipients EXCEPT ![s] = [recipients[s] EXCEPT ![0] = c]]
        /\ watch_streams' = [watch_streams EXCEPT ![c] = [watch_streams[c] EXCEPT ![0] = s]]
    BY <1>2, <1>5, <2>1 DEF Answer, Filled
  <2>3. UNCHANGED <<own_streams, conn_calls, owner, stream_call, participants, call_streams>>
    BY <1>5, <2>1
  <2>4. /\ \A d \in Conns : /\ OnlyZero(watch_streams[d]) /\ OnlyZero(own_streams[d])
                            /\ OnlyZero(conn_calls[d])
        /\ \A x \in Streams : OnlyZero(recipients[x])
        /\ \A q \in Calls : OnlyZero(participants[q]) /\ OnlyZero(call_streams[q])
    BY CleanZeroSlots DEF ZeroSlots
  <2>5. OnlyZero([recipients[s] EXCEPT ![0] = c]) /\ OnlyZero([watch_streams[c] EXCEPT ![0] = s])
    BY <2>4, ZeroStays
  <2>6. /\ \A d \in Conns : OnlyZero(watch_streams'[d])
        /\ \A x \in Streams : OnlyZero(recipients'[x])
    BY <1>1, <2>2, <2>4, <2>5
  <2>7. OnlyFirstSlots'
    BY <2>3, <2>4, <2>6, ArrayByArrayNext DEF GraphInv
  <2>8. QED BY <1>6, <2>3, <2>7, FieldsUnchanged DEF CleanStep
<1>9. QED BY <1>7, <1>8

\* handle_stream_leave: the owner it tells is live.
LEMMA StreamLeaveIsClean ==
  ASSUME CleanGraph, GraphInv', NEW c \in Conns, NEW s \in Streams, StreamLeave(c, s),
         phase # "undefined"
  PROVE  CleanStep
<1>1. s \in streams => owner[s] \in connections
  BY DEF CleanGraph, GraphInv, OwnershipMutual
<1>2. \/ Refuse
      \/ /\ recipients' = [recipients EXCEPT ![s] = Without(recipients[s], {c})]
         /\ watch_streams' = [watch_streams EXCEPT ![c] = Without(watch_streams[c], {s})]
         /\ UNCHANGED phase
         /\ UNCHANGED <<connections, streams, calls, own_streams, conn_calls, udp,
                        owner, stream_call, participants, call_streams>>
  BY <1>1 DEF StreamLeave, stream_remove_recipient, Answer
<1>3. phase' # "undefined"
  BY <1>2 DEF Refuse
<1>4. CASE Refuse
  BY <1>3, <1>4, UnchangedIsClean DEF Refuse
<1>5. CASE ~Refuse
  <2>1. /\ \A d \in Conns : /\ OnlyZero(watch_streams[d]) /\ OnlyZero(own_streams[d])
                            /\ OnlyZero(conn_calls[d])
        /\ \A x \in Streams : OnlyZero(recipients[x])
        /\ \A q \in Calls : OnlyZero(participants[q]) /\ OnlyZero(call_streams[q])
    BY CleanZeroSlots DEF ZeroSlots
  <2>2. OnlyZero(Without(recipients[s], {c})) /\ OnlyZero(Without(watch_streams[c], {s}))
    BY <2>1, ZeroStays
  <2>3. DOMAIN recipients = Streams /\ DOMAIN watch_streams = Conns
    BY DEF CleanGraph, GraphInv, GraphTypeOK
  <2>4. /\ \A d \in Conns : OnlyZero(watch_streams'[d])
        /\ \A x \in Streams : OnlyZero(recipients'[x])
    BY <1>2, <1>5, <2>1, <2>2, <2>3
  <2>5. OnlyFirstSlots'
    BY <1>2, <1>5, <2>1, <2>4, ArrayByArrayNext DEF GraphInv
  <2>6. QED BY <1>2, <1>3, <1>5, <2>5, FieldsUnchanged DEF CleanStep
<1>6. QED BY <1>4, <1>5

\* handle_stream_create: the new stream is in slot 0 of its owner and its call.
LEMMA StreamCreateIsClean ==
  ASSUME CleanGraph, GraphInv', NEW c \in Conns, NEW k \in Calls \cup {NULL}, StreamCreate(c, k),
         phase # "undefined", reply' = "error" => UNCHANGED graph
  PROVE  CleanStep
<1>1. Live(IF k = NULL THEN {} ELSE Members(participants[k]), {}, {})
  BY CleanIsLive DEF AllLive, Live
<1>2. \/ Refuse
      \/ \E s \in Streams \ streams :
           LET l == NewStreamLink(s, c, k) IN
           /\ streams' = IF l.ok THEN streams \cup {s} ELSE streams
           /\ owner' = [owner EXCEPT ![s] = IF l.ok THEN c ELSE NULL]
           /\ stream_call' = [stream_call EXCEPT ![s] = IF l.ok THEN k ELSE NULL]
           /\ own_streams' = [own_streams EXCEPT ![c] = l.near]
           /\ call_streams' = IF k = NULL THEN call_streams
                              ELSE [call_streams EXCEPT ![k] = l.far]
           /\ Answer(l.ok)
           /\ UNCHANGED <<connections, calls, watch_streams, conn_calls, udp,
                          recipients, participants>>
  BY <1>1 DEF StreamCreate
<1>3. phase' # "undefined"
  BY <1>2 DEF Refuse, Answer
<1>4. CASE UNCHANGED graph
  BY <1>3, <1>4, UnchangedIsClean
<1>5. CASE ~UNCHANGED graph
  <2>1. reply' # "error" /\ ~Refuse
    BY <1>5 DEF Refuse
  <2>2. PICK s \in Streams \ streams :
          LET l == NewStreamLink(s, c, k) IN
          /\ owner' = [owner EXCEPT ![s] = IF l.ok THEN c ELSE NULL]
          /\ stream_call' = [stream_call EXCEPT ![s] = IF l.ok THEN k ELSE NULL]
          /\ own_streams' = [own_streams EXCEPT ![c] = l.near]
          /\ call_streams' = IF k = NULL THEN call_streams
                             ELSE [call_streams EXCEPT ![k] = l.far]
          /\ Answer(l.ok)
          /\ UNCHANGED <<watch_streams, conn_calls, recipients, participants>>
    BY <1>2, <2>1
  <2> DEFINE l == NewStreamLink(s, c, k)
  <2>3. l.ok
    BY <2>1, <2>2 DEF Answer
  <2>4. /\ own_streams[c] \in ArraysOf(MAX_OUTPUT, Streams) /\ DOMAIN own_streams = Conns
        /\ k # NULL => call_streams[k] \in ArraysOf(MAX_CALL_STREAMS, Streams)
        /\ DOMAIN call_streams = Calls
        /\ owner \in [Streams -> Conns \cup {NULL}]
        /\ stream_call \in [Streams -> Calls \cup {NULL}]
    BY DEF CleanGraph, GraphInv, GraphTypeOK
  <2>5. /\ l.near = [own_streams[c] EXCEPT ![0] = s]
        /\ k # NULL => call_streams[k][0] = NULL /\ l.far = [call_streams[k] EXCEPT ![0] = s]
    <3>1. CASE k = NULL
      <4>1. /\ l.near = Added(own_streams[c], s) /\ AddIndex(own_streams[c]) = 0
        BY <2>3, <3>1 DEF NewStreamLink
      <4>2. own_streams[c][0] = NULL
        BY <2>4, <4>1, Sizes, AddIndexZero DEF ArraysOf
      <4>3. QED BY <2>4, <3>1, <4>1, <4>2, Sizes, AddedArray
    <3>2. CASE k # NULL
      <4>1. l = Link(own_streams[c], call_streams[k], s, s)
        BY <2>3, <3>2 DEF NewStreamLink
      <4>2. Filled(l, own_streams[c], s, call_streams[k], s)
        BY <2>3, <2>4, <3>2, <4>1, Sizes, LinkFillsZero
      <4>3. QED BY <4>2 DEF Filled
    <3>3. QED BY <3>1, <3>2
  <2> HIDE DEF l
  <2>6. /\ \A d \in Conns : /\ OnlyZero(watch_streams[d]) /\ OnlyZero(own_streams[d])
                            /\ OnlyZero(conn_calls[d])
        /\ \A x \in Streams : OnlyZero(recipients[x])
        /\ \A q \in Calls : OnlyZero(participants[q]) /\ OnlyZero(call_streams[q])
    BY CleanZeroSlots DEF ZeroSlots
  <2>7. \A d \in Conns : OnlyZero(own_streams'[d])
    <3>1. OnlyZero([own_streams[c] EXCEPT ![0] = s])
      BY <2>6, ZeroStays
    <3>2. own_streams' = [own_streams EXCEPT ![c] = [own_streams[c] EXCEPT ![0] = s]]
      BY <2>2, <2>5 DEF l
    <3>3. QED BY <2>4, <2>6, <3>1, <3>2
  <2>8. call_streams' = IF k = NULL THEN call_streams
                        ELSE [call_streams EXCEPT ![k] = [call_streams[k] EXCEPT ![0] = s]]
    BY <2>2, <2>5 DEF l
  <2>9. \A q \in Calls : OnlyZero(call_streams'[q])
    <3>1. k # NULL => OnlyZero([call_streams[k] EXCEPT ![0] = s])
      BY <2>6, ZeroStays
    <3>2. QED BY <2>4, <2>6, <2>8, <3>1
  <2>10. OnlyFirstSlots'
    BY <2>2, <2>6, <2>7, <2>9, ArrayByArrayNext DEF GraphInv
  <2>11. /\ owner' = [owner EXCEPT ![s] = c] /\ stream_call' = [stream_call EXCEPT ![s] = k]
    BY <2>2, <2>3 DEF l
  <2>12. StreamsStay
    BY <2>2, <2>4, <2>11 DEF StreamsStay
  <2>13. ASSUME NEW q \in Calls, NEW x \in Streams
         PROVE  call_streams'[q][0] = x <=> stream_call'[x] = q
    <3>1. /\ call_streams[q][0] = x <=> stream_call[x] = q
          /\ call_streams[q][0] = s <=> stream_call[s] = q
      BY DEF CleanGraph, CallStreamsMutual
    <3>2. stream_call[s] = NULL /\ q # NULL /\ x # NULL
      BY Sizes DEF CleanGraph, GraphInv, FreedIsBlank
    <3>3. stream_call'[x] = IF x = s THEN k ELSE stream_call[x]
      BY <2>4, <2>11
    <3>4. call_streams'[q][0] = IF q = k THEN s ELSE call_streams[q][0]
      BY <2>4, <2>8, <3>2, Sizes DEF ArraysOf
    <3>5. q = k => call_streams[q][0] = NULL
      BY <2>5, <3>2
    <3>6. QED BY <3>1, <3>2, <3>3, <3>4, <3>5
  <2>14. QED BY <1>3, <2>10, <2>12, <2>13 DEF CleanStep, CallStreamsMutual
<1>6. QED BY <1>4, <1>5


\* Deleting streams empties slots, and those of calls still agree with streams.
LEMMA CleanDeletes ==
  ASSUME CleanGraph, NEW D, D \subseteq streams
  PROVE  /\ \A c \in Conns : OnlyZero(WatchedWithout(D)[c]) /\ OnlyZero(OwnedWithout(D)[c])
         /\ \A k \in Calls : /\ OnlyZero(CallStreamsWithout(D)[k])
                             /\ Members(CallStreamsWithout(D)[k])
                                  = {CallStreamsWithout(D)[k][0]} \ {NULL}
                             /\ CallStreamsWithout(D)[k][0] =
                                  IF call_streams[k][0] \in D THEN NULL ELSE call_streams[k][0]
<1>1. \A c \in Conns : OnlyZero(WatchedWithout(D)[c]) /\ OnlyZero(OwnedWithout(D)[c])
  <2>1. \A c \in Conns : OnlyZero(watch_streams[c]) /\ OnlyZero(own_streams[c])
    BY CleanZeroSlots DEF ZeroSlots
  <2>2. QED BY <2>1, ZeroStays DEF WatchedWithout, OwnedWithout
<1>2. ASSUME NEW k \in Calls
      PROVE  /\ OnlyZero(CallStreamsWithout(D)[k])
             /\ Members(CallStreamsWithout(D)[k]) = {CallStreamsWithout(D)[k][0]} \ {NULL}
             /\ CallStreamsWithout(D)[k][0] =
                  IF call_streams[k][0] \in D THEN NULL ELSE call_streams[k][0]
  <2> DEFINE X == {s \in D : stream_call[s] = k}
  <2>1. CallStreamsWithout(D)[k] = Without(call_streams[k], X)
    BY DEF CallStreamsWithout
  <2>2. call_streams[k] \in ArraysOf(MAX_CALL_STREAMS, Streams) /\ OnlyZero(call_streams[k])
    BY CleanZeroSlots DEF CleanGraph, GraphInv, GraphTypeOK, ZeroSlots
  <2>3. call_streams[k][0] \in D => call_streams[k][0] \in X
    BY DEF CleanGraph, GraphInv, GraphTypeOK, CallStreamsMutual
  <2> DEFINE b == Without(call_streams[k], X)
  <2>4. OnlyZero(b)
    BY <2>2, ZeroStays
  <2>5. /\ b \in ArraysOf(MAX_CALL_STREAMS, Streams)
        /\ b[0] = IF call_streams[k][0] \in X THEN NULL ELSE call_streams[k][0]
    BY <2>2, Sizes, WithoutArray
  <2> HIDE DEF b
  <2>6. Members(b) = {b[0]} \ {NULL}
    BY <2>4, <2>5, Sizes, ZeroHoldsAll
  <2>7. b[0] = IF call_streams[k][0] \in D THEN NULL ELSE call_streams[k][0]
    BY <2>3, <2>5
  <2>8. QED BY <2>1, <2>4, <2>6, <2>7 DEF b
<1>3. QED BY <1>1, <1>2

\* handle_stream_delete: those it tells, and the call it leaves, are live.
LEMMA StreamDeleteIsClean ==
  ASSUME CleanGraph, GraphInv', NEW c \in Conns, NEW s \in Streams, StreamDelete(c, s),
         phase # "undefined"
  PROVE  CleanStep
<1>1. Live(HoldersOf({s}) \cup UNION {Members(participants[k]) : k \in CallsOf({s})}, {},
           CallsOf({s}))
  <2>1. HoldersOf({s}) \subseteq connections /\ CallsOf({s}) \subseteq calls
    BY CleanHolders
  <2>2. \A k \in CallsOf({s}) : Members(participants[k]) \subseteq connections
    BY <2>1, CleanIsLive DEF AllLive, CleanGraph, GraphInv, GraphTypeOK
  <2>3. QED BY <2>1, <2>2 DEF Live
<1>2. \/ Refuse
      \/ /\ s \in streams /\ stream_delete({s})
         /\ stream_call' = Blanked(stream_call, {s}, NULL)
         /\ call_streams' = CallStreamsWithout({s})
         /\ UNCHANGED <<phase, connections, calls, conn_calls, udp, participants>>
  BY <1>1 DEF StreamDelete, Answer
<1>3. phase' # "undefined"
  BY <1>2 DEF Refuse
<1>4. CASE Refuse
  BY <1>3, <1>4, UnchangedIsClean DEF Refuse
<1>5. CASE ~Refuse
  <2>1. /\ {s} \subseteq streams /\ streams' = streams \ {s}
        /\ watch_streams' = WatchedWithout({s}) /\ own_streams' = OwnedWithout({s})
        /\ recipients' = [x \in Streams |-> IF x \in {s} THEN Empty(STREAM_MAX_RECIPIENTS)
                                            ELSE recipients[x]]
        /\ owner' = [x \in Streams |-> IF x \in {s} THEN NULL ELSE owner[x]]
        /\ stream_call' = [x \in Streams |-> IF x \in {s} THEN NULL ELSE stream_call[x]]
        /\ call_streams' = CallStreamsWithout({s})
        /\ UNCHANGED <<conn_calls, participants>>
    BY <1>2, <1>5 DEF stream_delete, Blanked, CleanGraph, GraphInv, GraphTypeOK
  <2>2. /\ \A d \in Conns : OnlyZero(conn_calls[d])
        /\ \A x \in Streams : OnlyZero(recipients[x])
        /\ \A q \in Calls : OnlyZero(participants[q])
    BY CleanZeroSlots DEF ZeroSlots
  <2>3. \A x \in Streams : OnlyZero(recipients'[x])
    BY <2>1, <2>2, ZeroStays
  <2>4. OnlyFirstSlots'
    BY <2>1, <2>2, <2>3, CleanDeletes, ArrayByArrayNext DEF GraphInv
  <2>5. StreamsStay
    BY <2>1 DEF StreamsStay, CleanGraph, GraphInv, GraphTypeOK
  <2>6. ASSUME NEW q \in Calls, NEW x \in Streams
        PROVE  call_streams'[q][0] = x <=> stream_call'[x] = q
    <3>1. call_streams[q][0] = x <=> stream_call[x] = q
      BY DEF CleanGraph, CallStreamsMutual
    <3>2. call_streams'[q][0] = IF call_streams[q][0] \in {s} THEN NULL ELSE call_streams[q][0]
      BY <2>1, CleanDeletes
    <3>3. QED BY <2>1, <3>1, <3>2, Sizes
  <2>7. QED BY <1>3, <2>4, <2>5, <2>6 DEF CleanStep, CallStreamsMutual
<1>6. QED BY <1>4, <1>5

\* handle_call_leave: a call that becomes empty holds no stream any more, so
\* call_delete detaches none.
LEMMA CallLeaveIsClean ==
  ASSUME CleanGraph, GraphInv', NEW c \in Conns, NEW k \in Calls, CallLeave(c, k),
         phase # "undefined"
  PROVE  CleanStep
<1> DEFINE own == StreamsOfLeaver(c, k)
           left == Without(participants[k], {c})
           emptied == Members(left) = {}
           rest == Members(CallStreamsWithout(own)[k])
<1>1. /\ Members(call_streams[k]) \subseteq streams /\ own \subseteq Members(call_streams[k])
      /\ Members(participants[k]) \subseteq connections
      /\ streams \subseteq Streams
  BY CleanIsLive DEF AllLive, StreamsOfLeaver, CleanGraph, GraphInv, GraphTypeOK
<1>2. own \subseteq streams /\ own \subseteq Streams
  BY <1>1
<1>3. HoldersOf(own) \subseteq connections /\ CallsOf(own) \subseteq calls
  BY <1>2, CleanHolders
<1>4. Members(left) \subseteq Members(participants[k])
  BY DEF Members, Without
<1>5. /\ rest = {CallStreamsWithout(own)[k][0]} \ {NULL}
      /\ CallStreamsWithout(own)[k][0] = IF call_streams[k][0] \in own THEN NULL
                                         ELSE call_streams[k][0]
  BY <1>2, CleanDeletes
<1>6. rest \cap own = {} /\ rest \subseteq streams
  BY <1>1, <1>5, CleanZeroSlots DEF ZeroSlots
<1>7. /\ Live(HoldersOf(own) \cup Members(left), Members(call_streams[k]), CallsOf(own))
      /\ emptied => rest \cap own = {}
  BY <1>1, <1>3, <1>4, <1>6 DEF Live
<1>8. emptied => rest = {}
  <2> SUFFICES ASSUME emptied, NEW x \in rest PROVE FALSE
    OBVIOUS
  <2>1. x \in streams /\ x \notin own /\ x = call_streams[k][0] /\ x \in Streams
    BY <1>1, <1>5, <1>6
  <2>2. stream_call[x] = k /\ k # NULL
    BY <2>1, Sizes DEF CleanGraph, CallStreamsMutual
  <2>3. Contains(participants[k], owner[x]) /\ owner[x] \in connections
    BY <2>1, <2>2 DEF CleanGraph, GraphInv, PrivateStreamInCall, OwnershipMutual
  <2>4. owner[x] # c
    <3>1. x \in Members(call_streams[k])
      BY <2>1, CleanZeroSlots, Sizes DEF ZeroSlots
    <3>2. QED BY <2>1, <3>1 DEF StreamsOfLeaver
  <2>5. owner[x] # NULL
    BY <2>3, Sizes DEF CleanGraph, GraphInv, GraphTypeOK
  <2>6. owner[x] \in Members(left)
    BY <2>3, <2>4, <2>5 DEF Members, Contains, Without
  <2>7. QED BY <2>6
<1>9. \/ Refuse
      \/ /\ k \in calls
         /\ call_remove_participant(k, c) /\ stream_delete(own)
         /\ call_delete(IF emptied THEN {k} ELSE {}, own)
         /\ UNCHANGED <<phase, connections, udp>>
  BY <1>7 DEF CallLeave, Answer
<1>10. phase' # "undefined"
  BY <1>9 DEF Refuse
<1>11. CASE Refuse
  BY <1>10, <1>11, UnchangedIsClean DEF Refuse
<1>12. CASE ~Refuse
  <2> HIDE DEF own
  <2>1. /\ streams' = streams \ own
        /\ watch_streams' = WatchedWithout(own) /\ own_streams' = OwnedWithout(own)
        /\ recipients' = [x \in Streams |-> IF x \in own THEN Empty(STREAM_MAX_RECIPIENTS)
                                            ELSE recipients[x]]
        /\ owner' = [x \in Streams |-> IF x \in own THEN NULL ELSE owner[x]]
        /\ participants' = [participants EXCEPT ![k] = left]
        /\ conn_calls' = [conn_calls EXCEPT ![c] = Without(conn_calls[c], {k})]
    BY <1>9, <1>12 DEF stream_delete, call_remove_participant, Blanked, CleanGraph, GraphInv,
                       GraphTypeOK
  <2>2. call_streams' = [q \in Calls |-> IF emptied /\ q = k THEN Empty(MAX_CALL_STREAMS)
                                         ELSE CallStreamsWithout(own)[q]]
    BY <1>9, <1>12 DEF call_delete, Blanked, CallStreamsWithout
  <2>3. stream_call' = [x \in Streams |-> IF x \in own THEN NULL ELSE stream_call[x]]
    <3> DEFINE K == IF emptied THEN {k} ELSE {}
               dropped == UNION {Members(CallStreamsWithout(own)[q]) : q \in K}
    <3>1. dropped = {}
      BY <1>8
    <3>2. stream_call' = Blanked(stream_call, own \cup dropped, NULL)
      BY <1>9, <1>12 DEF call_delete
    <3>3. QED BY <3>1, <3>2 DEF Blanked, CleanGraph, GraphInv, GraphTypeOK
  <2> HIDE DEF left, emptied, rest
  <2>4. /\ \A d \in Conns : OnlyZero(conn_calls[d])
        /\ \A x \in Streams : OnlyZero(recipients[x])
        /\ \A q \in Calls : OnlyZero(participants[q])
    BY CleanZeroSlots DEF ZeroSlots
  <2>5. OnlyZero(left) /\ OnlyZero(Without(conn_calls[c], {k}))
    BY <2>4, ZeroStays DEF left
  <2>6. /\ \A d \in Conns : OnlyZero(conn_calls'[d])
        /\ \A q \in Calls : OnlyZero(participants'[q])
    BY <2>1, <2>4, <2>5 DEF CleanGraph, GraphInv, GraphTypeOK
  <2>7. \A x \in Streams : OnlyZero(recipients'[x])
    BY <2>1, <2>4, ZeroStays
  <2>8. \A q \in Calls : OnlyZero(call_streams'[q])
    BY <1>2, <2>2, CleanDeletes, ZeroStays
  <2>9. OnlyFirstSlots'
    BY <1>2, <2>1, <2>6, <2>7, <2>8, CleanDeletes, ArrayByArrayNext DEF GraphInv
  <2>10. StreamsStay
    BY <1>1, <2>1, <2>3 DEF StreamsStay
  <2>11. ASSUME NEW q \in Calls, NEW x \in Streams
         PROVE  call_streams'[q][0] = x <=> stream_call'[x] = q
    <3>1. call_streams[q][0] = x <=> stream_call[x] = q
      BY DEF CleanGraph, CallStreamsMutual
    <3>2. CallStreamsWithout(own)[q][0] = IF call_streams[q][0] \in own THEN NULL
                                          ELSE call_streams[q][0]
      BY <1>2, CleanDeletes
    <3>3. emptied => CallStreamsWithout(own)[k][0] = NULL
      BY <1>5, <1>8 DEF rest
    <3>4. call_streams'[q][0] = CallStreamsWithout(own)[q][0]
      BY <2>2, <3>3, Sizes DEF Empty
    <3>5. QED BY <2>3, <3>1, <3>2, <3>4, Sizes
  <2>12. QED BY <1>10, <2>9, <2>10, <2>11 DEF CleanStep, CallStreamsMutual
<1>13. QED BY <1>11, <1>12

\* connection_delete.
LEMMA ConnectionDeleteIsClean ==
  ASSUME CleanGraph, GraphInv', NEW c \in Conns, connection_delete(c), phase' # "undefined"
  PROVE  CleanStep
<1> DEFINE own == Members(own_streams[c])
<1>1. own \subseteq streams /\ streams \subseteq Streams
  BY CleanIsLive DEF AllLive, CleanGraph, GraphInv, GraphTypeOK
<1>2. /\ watch_streams' = [d \in Conns |-> IF d \in {c} THEN Empty(MAX_INPUT)
                                          ELSE WatchedWithout(own)[d]]
      /\ own_streams' = [d \in Conns |-> IF d \in {c} THEN Empty(MAX_OUTPUT)
                                        ELSE OwnedWithout(own)[d]]
      /\ conn_calls' = [d \in Conns |-> IF d \in {c} THEN Empty(MAX_CONNECTION_CALLS)
                                       ELSE conn_calls[d]]
      /\ recipients' = [s \in Streams |->
           IF s \in own THEN Empty(STREAM_MAX_RECIPIENTS)
           ELSE IF Contains(watch_streams[c], s) THEN Without(recipients[s], {c})
           ELSE recipients[s]]
      /\ participants' = [k \in Calls |->
           IF Contains(conn_calls[c], k) THEN Without(participants[k], {c})
           ELSE participants[k]]
  BY DEF CleanGraph, GraphInv, GraphTypeOK, connection_delete, Blanked, WatchedWithout,
         OwnedWithout, CallsLeft
<1>3. /\ streams' = streams \ own
      /\ owner' = [s \in Streams |-> IF s \in own THEN NULL ELSE owner[s]]
      /\ stream_call' = [s \in Streams |-> IF s \in own THEN NULL ELSE stream_call[s]]
      /\ call_streams' = CallStreamsWithout(own)
  BY DEF CleanGraph, GraphInv, GraphTypeOK, connection_delete, Blanked
<1> HIDE DEF own
<1>4. /\ \A d \in Conns : OnlyZero(conn_calls[d])
      /\ \A x \in Streams : OnlyZero(recipients[x])
      /\ \A q \in Calls : OnlyZero(participants[q])
  BY CleanZeroSlots DEF ZeroSlots
<1>5. \A d \in Conns : OnlyZero(conn_calls'[d])
  BY <1>2, <1>4, ZeroStays
<1>6. \A d \in Conns : OnlyZero(watch_streams'[d]) /\ OnlyZero(own_streams'[d])
  BY <1>1, <1>2, CleanDeletes, ZeroStays
<1>7. \A x \in Streams : OnlyZero(recipients'[x])
  BY <1>2, <1>4, ZeroStays
<1>8. \A q \in Calls : OnlyZero(participants'[q])
  BY <1>2, <1>4, ZeroStays
<1>9. \A q \in Calls : OnlyZero(call_streams'[q])
  BY <1>1, <1>3, CleanDeletes
<1>10. OnlyFirstSlots'
  BY <1>5, <1>6, <1>7, <1>8, <1>9, ArrayByArrayNext DEF GraphInv
<1>11. StreamsStay
  BY <1>1, <1>3 DEF StreamsStay
<1>12. ASSUME NEW q \in Calls, NEW x \in Streams
       PROVE  call_streams'[q][0] = x <=> stream_call'[x] = q
  <2>1. call_streams[q][0] = x <=> stream_call[x] = q
    BY DEF CleanGraph, CallStreamsMutual
  <2>2. call_streams'[q][0] = IF call_streams[q][0] \in own THEN NULL ELSE call_streams[q][0]
    BY <1>1, <1>3, CleanDeletes
  <2>3. QED BY <1>3, <2>1, <2>2, Sizes
<1>13. QED BY <1>10, <1>11, <1>12 DEF CleanStep, CallStreamsMutual


-----------------------------------------------------------------------------
(***************************************************************************)
(* The theorems.                                                           *)
(***************************************************************************)
\* Every step of a clean server, unless it refuses half-way.
LEMMA NextIsClean ==
  ASSUME CleanGraph, GraphInv', Next, phase # "undefined", reply' = "error" => UNCHANGED graph
  PROVE  CleanStep
<1>1. /\ EveryRefLive /\ \A c \in Conns : ConnectionRefsLive(c)
      /\ AllLive
  BY CleanChecks, CleanIsLive
<1>2. ASSUME NEW c \in Conns, ConnectionStep(c)
      PROVE  CleanStep
  <2>1. CASE Accept(c) \/ UdpHandshake(c)
    BY <2>1, AcceptIsClean
  <2>2. CASE Close(c) \/ CloseNext(c)
    <3>1. connection_delete(c) /\ phase' # "undefined"
      BY <1>1, <2>2 DEF Close, CloseNext, Request, NoReply
    <3>2. QED BY <3>1, ConnectionDeleteIsClean
  <2>3. CASE CallCreate(c)
    BY <2>3, CallCreateIsClean
  <2>4. ASSUME NEW k \in Calls, CallJoin(c, k)
        PROVE  CleanStep
    BY <2>4, CallJoinIsClean
  <2>5. ASSUME NEW k \in Calls, CallLeave(c, k)
        PROVE  CleanStep
    BY <2>5, CallLeaveIsClean
  <2>6. ASSUME NEW k \in Calls \cup {NULL}, StreamCreate(c, k)
        PROVE  CleanStep
    BY <2>6, StreamCreateIsClean
  <2>7. ASSUME NEW s \in Streams, StreamDelete(c, s)
        PROVE  CleanStep
    BY <2>7, StreamDeleteIsClean
  <2>8. ASSUME NEW s \in Streams, StreamJoin(c, s)
        PROVE  CleanStep
    BY <2>8, StreamJoinIsClean
  <2>9. ASSUME NEW s \in Streams, StreamLeave(c, s)
        PROVE  CleanStep
    BY <2>9, StreamLeaveIsClean
  <2>10. QED BY <1>2, <2>1, <2>2, <2>3, <2>4, <2>5, <2>6, <2>7, <2>8, <2>9 DEF ConnectionStep
<1>3. ASSUME NEW s \in Streams, RelayPacket(s)
      PROVE  CleanStep
  <2>1. CallsOf({s}) \subseteq calls
    BY CleanHolders
  <2>2. Live(Members(recipients[s]) \ {owner[s]}, {}, CallsOf({s}))
    BY <1>1, <2>1 DEF AllLive, Live
  <2>3. QED BY <1>3, <2>2 DEF RelayPacket
<1>4. CASE PeriodicCheck \/ Shutdown \/ AllClosed \/ Ended
  <2>1. UNCHANGED graph /\ phase' # "undefined"
    BY <1>1, <1>4 DEF PeriodicCheck, Shutdown, AllClosed, Ended, vars, graph
  <2>2. QED BY <2>1, UnchangedIsClean
<1>5. QED BY <1>2, <1>3, <1>4 DEF Next

LEMMA CleanStepTaken ==
  ASSUME CleanInv, [IntegrityNext]_ivars, clean'
  PROVE  CleanStep
<1>1. CASE UNCHANGED ivars
  <2>1. CleanGraph /\ UNCHANGED graph /\ phase' # "undefined"
    BY <1>1 DEF CleanInv, IInv, TypeOK, CleanGraph, GraphInv, ivars, vars, graph
  <2>2. QED BY <2>1, UnchangedIsClean
<1>2. CASE IntegrityNext
  <2>1. clean /\ Next /\ (reply' = "error" => UNCHANGED graph)
    BY <1>2 DEF IntegrityNext, StaysClean
  <2>2. CleanGraph /\ phase # "undefined"
    BY <2>1 DEF CleanInv, IInv, TypeOK, CleanGraph, GraphInv
  <2>3. GraphInv'
    BY <2>1, <2>2, NextKeeps DEF CleanGraph
  <2>4. QED BY <2>1, <2>2, <2>3, NextIsClean
<1>3. QED BY <1>1, <1>2

\* CleanInv is an inductive invariant of the server with its history variable.
THEOREM CleanInvariance == IntegritySpec => []CleanInv
<1>1. IntegrityInit => CleanInv
  <2> SUFFICES ASSUME IntegrityInit PROVE CleanInv
    OBVIOUS
  <2>1. IInv /\ clean = TRUE /\ phase = "serving" /\ GraphInit
    BY InitKeeps DEF IntegrityInit, Init
  <2>2. GraphTypeOK
    BY <2>1 DEF IInv, TypeOK
  <2>3. OnlyFirstSlots
    BY <2>1, <2>2, ZeroStays, ArrayByArray DEF GraphInit
  <2>4. CallStreamsMutual
    BY <2>1, Sizes DEF GraphInit, CallStreamsMutual, Empty
  <2>5. QED BY <2>1, <2>3, <2>4 DEF CleanInv
<1>2. CleanInv /\ [IntegrityNext]_ivars => CleanInv'
  <2> SUFFICES ASSUME CleanInv, [IntegrityNext]_ivars PROVE CleanInv'
    OBVIOUS
  <2>1. IInv /\ [Next]_vars
    BY DEF CleanInv, IntegrityNext, ivars, vars
  <2>2. GraphInv'
    BY <2>1, NextKeeps DEF IInv, TypeOK, GraphInv
  <2>3. /\ phase' \in Phases /\ reply' \in Replies
        /\ phase' = "stopped" => connections' = {}
    BY <2>1, PhasesKeep
  <2>4. IInv'
    BY <2>2, <2>3 DEF IInv, TypeOK, GraphInv
  <2>5. clean' \in BOOLEAN
    BY DEF CleanInv, IntegrityNext, StaysClean, ivars
  <2>6. clean' => OnlyFirstSlots' /\ CallStreamsMutual' /\ phase' # "undefined"
    BY CleanStepTaken DEF CleanStep
  <2>7. QED BY <2>4, <2>5, <2>6 DEF CleanInv
<1>3. QED BY <1>1, <1>2, PTL DEF IntegritySpec

\* Nothing but a request that was refused half-way can make a handler, the
\* relay, the check or the shutdown follow a pointer to a freed object.
THEOREM CleanServerIsDefined == IntegritySpec => []CleanIsDefined
<1>1. CleanInv => CleanIsDefined
  BY DEF CleanInv, CleanIsDefined
<1>2. QED BY <1>1, CleanInvariance, PTL

\* Nothing but such a request can make the integrity check fail.
THEOREM CleanServerPasses == IntegritySpec => []CleanPasses
<1>1. CleanInv => CleanPasses
  <2> SUFFICES ASSUME CleanInv, clean PROVE EveryRefLive /\ check_all_integrity
    BY DEF CleanPasses
  <2>1. CleanGraph
    BY DEF CleanInv, IInv, TypeOK, CleanGraph, GraphInv
  <2>2. QED BY <2>1, CleanChecks, CleanIsIntact
<1>2. QED BY <1>1, CleanInvariance, PTL

\* Nothing but such a request can make a stream change its owner or its call.
THEOREM CleanServerMovesNoStream == IntegritySpec => CleanStreamsStay
<1>1. CleanInv /\ [IntegrityNext]_ivars =>
        [clean' => \A s \in streams \cap streams' :
                      owner'[s] = owner[s] /\ stream_call'[s] = stream_call[s]]_ivars
  BY CleanStepTaken DEF CleanStep, StreamsStay
<1>2. QED BY <1>1, CleanInvariance, PTL DEF IntegritySpec, CleanStreamsStay


-----------------------------------------------------------------------------
(***************************************************************************)
(* Which requests can be refused half-way.                                 *)
(***************************************************************************)
\* A link between two arrays that are empty succeeds.
LEMMA EmptyLinks ==
  ASSUME NEW n \in Nat \ {0}, NEW m \in Nat \ {0}, NEW S, NEW T,
         NEW near \in ArraysOf(n, S), NEW far \in ArraysOf(m, T), OnlyZero(far),
         near[0] = NULL, far[0] = NULL, NEW x, NEW y, y # NULL
  PROVE  Link(near, far, x, y).ok
<1>1. DOMAIN near = Slots(n) /\ DOMAIN far = Slots(m)
  BY DEF ArraysOf
<1>2. AddIndex(near) = 0 /\ AddIndex(far) = 0
  BY <1>1, AddIndexZero
<1>3. ~Contains(far, y)
  BY ZeroHoldsAll
<1>4. Link(near, far, x, y) = [near |-> Added(near, x), far |-> Added(far, y), ok |-> TRUE]
  BY <1>2, <1>3 DEF Link
<1>5. QED BY <1>4

\* Removing what an array does not hold changes nothing.
LEMMA WithoutNothing ==
  ASSUME NEW n, NEW S, NEW a \in ArraysOf(n, S), NEW x, ~Contains(a, x)
  PROVE  Without(a, {x}) = a
BY DEF Without, Contains, ArraysOf

\* A request refused half-way changes the graph of a clean server.
HalfWay == reply' = "error" /\ ~UNCHANGED graph

LEMMA CallCreateHalfWay ==
  ASSUME CleanGraph, NEW c \in Conns, CallCreate(c), HalfWay
  PROVE  conn_calls[c][0] # NULL
<1> SUFFICES ASSUME conn_calls[c][0] = NULL PROVE FALSE
  OBVIOUS
<1>1. PICK k \in Calls \ calls : reply' = IF ParticipantLink(k, c).ok THEN "success" ELSE "error"
  BY DEF CallCreate, HalfWay, Refuse, Answer, call_new
<1>2. /\ participants[k] \in ArraysOf(MAX_CALL_PARTICIPANTS, Conns)
      /\ conn_calls[c] \in ArraysOf(MAX_CONNECTION_CALLS, Calls) /\ OnlyZero(conn_calls[c])
      /\ participants[k][0] = NULL
  BY CleanZeroSlots, Sizes DEF CleanGraph, GraphInv, GraphTypeOK, FreedIsBlank, Empty, ZeroSlots
<1>3. ParticipantLink(k, c).ok
  BY <1>2, Sizes, EmptyLinks DEF ParticipantLink
<1>4. QED BY <1>1, <1>3 DEF HalfWay

LEMMA CallJoinHalfWay ==
  ASSUME CleanGraph, NEW c \in Conns, NEW k \in Calls, CallJoin(c, k), HalfWay
  PROVE  ~(conn_calls[c][0] = NULL /\ participants[k][0] = NULL)
<1> SUFFICES ASSUME conn_calls[c][0] = NULL, participants[k][0] = NULL PROVE FALSE
  OBVIOUS
<1>1. reply' = IF ParticipantLink(k, c).ok THEN "success" ELSE "error"
  BY DEF CallJoin, HalfWay, Refuse, Undefined, Answer, graph
<1>2. /\ participants[k] \in ArraysOf(MAX_CALL_PARTICIPANTS, Conns)
      /\ conn_calls[c] \in ArraysOf(MAX_CONNECTION_CALLS, Calls) /\ OnlyZero(conn_calls[c])
  BY CleanZeroSlots DEF CleanGraph, GraphInv, GraphTypeOK, ZeroSlots
<1>3. ParticipantLink(k, c).ok
  BY <1>2, Sizes, EmptyLinks DEF ParticipantLink
<1>4. QED BY <1>1, <1>3 DEF HalfWay

LEMMA StreamJoinHalfWay ==
  ASSUME CleanGraph, NEW c \in Conns, NEW s \in Streams, StreamJoin(c, s), HalfWay
  PROVE  ~(watch_streams[c][0] = NULL /\ recipients[s][0] = NULL)
<1> SUFFICES ASSUME watch_streams[c][0] = NULL, recipients[s][0] = NULL PROVE FALSE
  OBVIOUS
<1>1. reply' = IF RecipientLink(s, c).ok THEN "success" ELSE "error"
  BY DEF StreamJoin, HalfWay, Refuse, Undefined, Answer, graph
<1>2. /\ recipients[s] \in ArraysOf(STREAM_MAX_RECIPIENTS, Conns)
      /\ watch_streams[c] \in ArraysOf(MAX_INPUT, Streams) /\ OnlyZero(watch_streams[c])
  BY CleanZeroSlots DEF CleanGraph, GraphInv, GraphTypeOK, ZeroSlots
<1>3. RecipientLink(s, c).ok
  BY <1>2, Sizes, EmptyLinks DEF RecipientLink
<1>4. QED BY <1>1, <1>3 DEF HalfWay

LEMMA StreamCreateHalfWay ==
  ASSUME CleanGraph, NEW c \in Conns, NEW k \in Calls \cup {NULL}, StreamCreate(c, k), HalfWay
  PROVE  ~(own_streams[c][0] = NULL /\ (k # NULL => call_streams[k][0] = NULL))
<1> SUFFICES ASSUME own_streams[c][0] = NULL, k # NULL => call_streams[k][0] = NULL PROVE FALSE
  OBVIOUS
<1>1. PICK s \in Streams : reply' = IF NewStreamLink(s, c, k).ok THEN "success" ELSE "error"
  BY DEF StreamCreate, HalfWay, Refuse, Undefined, Answer, graph
<1>2. /\ own_streams[c] \in ArraysOf(MAX_OUTPUT, Streams) /\ OnlyZero(own_streams[c])
      /\ k # NULL => call_streams[k] \in ArraysOf(MAX_CALL_STREAMS, Streams) /\ OnlyZero(call_streams[k])
  BY CleanZeroSlots DEF CleanGraph, GraphInv, GraphTypeOK, ZeroSlots
<1>3. s # NULL /\ ~Contains(own_streams[c], s)
  BY <1>2, Sizes, ZeroHoldsAll
<1>4. AddIndex(own_streams[c]) = 0
  BY <1>2, Sizes, AddIndexZero DEF ArraysOf
<1>5. CASE k = NULL
  BY <1>1, <1>3, <1>4, <1>5 DEF NewStreamLink, HalfWay
<1>6. CASE k # NULL
  <2>1. NewStreamLink(s, c, k) = Link(own_streams[c], call_streams[k], s, s)
    BY <1>3, <1>6 DEF NewStreamLink
  <2>2. Link(own_streams[c], call_streams[k], s, s).ok
    BY <1>2, <1>3, <1>6, Sizes, EmptyLinks
  <2>3. QED BY <1>1, <2>1, <2>2 DEF HalfWay
<1>7. QED BY <1>5, <1>6

\* Who leaves a stream that he does not watch changes nothing.
LEMMA StreamLeaveHalfWay ==
  ASSUME CleanGraph, NEW c \in Conns, NEW s \in Streams, StreamLeave(c, s)
  PROVE  ~HalfWay
<1> SUFFICES ASSUME HalfWay PROVE FALSE
  OBVIOUS
<1>1. /\ recipients' = [recipients EXCEPT ![s] = Without(recipients[s], {c})]
      /\ watch_streams' = [watch_streams EXCEPT ![c] = Without(watch_streams[c], {s})]
      /\ UNCHANGED <<connections, streams, calls, own_streams, conn_calls, udp,
                     owner, stream_call, participants, call_streams>>
      /\ ~Contains(recipients[s], c)
  BY DEF StreamLeave, HalfWay, Refuse, Undefined, Answer, graph, stream_remove_recipient
<1>2. /\ recipients[s] \in ArraysOf(STREAM_MAX_RECIPIENTS, Conns)
      /\ watch_streams[c] \in ArraysOf(MAX_INPUT, Streams)
      /\ DOMAIN recipients = Streams /\ DOMAIN watch_streams = Conns
      /\ recipients \in [Streams -> ArraysOf(STREAM_MAX_RECIPIENTS, Conns)]
      /\ watch_streams \in [Conns -> ArraysOf(MAX_INPUT, Streams)]
  BY DEF CleanGraph, GraphInv, GraphTypeOK
<1>3. ~Contains(watch_streams[c], s)
  BY <1>1, CleanZeroSlots DEF ZeroContained, CleanGraph, GraphInv, WatchingMutual
<1>4. Without(recipients[s], {c}) = recipients[s] /\ Without(watch_streams[c], {s}) = watch_streams[c]
  BY <1>1, <1>2, <1>3, WithoutNothing
<1>5. UNCHANGED <<recipients, watch_streams>>
  BY <1>1, <1>2, <1>4
<1>6. QED BY <1>1, <1>5 DEF HalfWay, graph

\* Nothing but a request for a second call, stream or viewer, or about a call or
\* stream whose first slot is taken, is ever refused half-way.
THEOREM OnlyRequestsForASecondSpoil == IntegritySpec => OnlySecondsSpoil
<1>1. ASSUME CleanInv, [IntegrityNext]_ivars, clean, ~clean'
      PROVE  AsksForASecond
  <2>1. Next /\ HalfWay
    BY <1>1 DEF IntegrityNext, StaysClean, ivars, CleanInv, HalfWay
  <2>2. CleanGraph
    BY <1>1 DEF CleanInv, IInv, TypeOK, CleanGraph, GraphInv
  <2>3. /\ \A s \in Streams : ~RelayPacket(s)
        /\ ~PeriodicCheck /\ ~Shutdown /\ ~AllClosed /\ ~Ended
    BY <2>1 DEF HalfWay, RelayPacket, PeriodicCheck, Shutdown, AllClosed, Ended, Undefined, vars, graph
  <2>4. PICK c \in Conns : ConnectionStep(c)
    BY <2>1, <2>3 DEF Next
  <2>5. /\ ~Accept(c) /\ ~Close(c) /\ ~UdpHandshake(c) /\ ~CloseNext(c)
        /\ \A k \in Calls : ~CallLeave(c, k)
        /\ \A s \in Streams : ~StreamDelete(c, s)
    BY <2>1 DEF HalfWay, Accept, Close, UdpHandshake, CloseNext, CallLeave, StreamDelete,
                NoReply, Answer, Refuse, Undefined, graph
  <2>6. \A s \in Streams : ~StreamLeave(c, s)
    BY <2>1, <2>2, StreamLeaveHalfWay
  <2>7. CallCreate(c) => conn_calls[c][0] # NULL
    BY <2>1, <2>2, CallCreateHalfWay
  <2>8. ASSUME NEW k \in Calls, CallJoin(c, k)
        PROVE  ~(conn_calls[c][0] = NULL /\ participants[k][0] = NULL)
    BY <2>1, <2>2, <2>8, CallJoinHalfWay
  <2>9. ASSUME NEW k \in Calls, StreamCreate(c, k)
        PROVE  ~(own_streams[c][0] = NULL /\ call_streams[k][0] = NULL)
    BY <2>1, <2>2, <2>9, StreamCreateHalfWay
  <2>10. StreamCreate(c, NULL) => own_streams[c][0] # NULL
    BY <2>1, <2>2, StreamCreateHalfWay
  <2>11. ASSUME NEW s \in Streams, StreamJoin(c, s)
         PROVE  ~(watch_streams[c][0] = NULL /\ recipients[s][0] = NULL)
    BY <2>1, <2>2, <2>11, StreamJoinHalfWay
  <2>12. QED BY <2>4, <2>5, <2>6, <2>7, <2>8, <2>9, <2>10, <2>11
             DEF ConnectionStep, AsksForASecond
<1>2. CleanInv /\ [IntegrityNext]_ivars =>
        [clean /\ ~clean' => AsksForASecond]_ivars
  BY <1>1
<1>3. QED BY <1>2, CleanInvariance, PTL DEF IntegritySpec, OnlySecondsSpoil

\* The history variable records and restrains nothing: what is proved of Spec
\* holds of IntegritySpec.
LEMMA HistoryOnly == IntegritySpec => Spec
<1>1. IntegrityInit => Init
  BY DEF IntegrityInit
<1>2. [IntegrityNext]_ivars => [Next]_vars
  BY DEF IntegrityNext, ivars
<1>3. QED BY <1>1, <1>2, PTL DEF IntegritySpec, Spec
=============================================================================
