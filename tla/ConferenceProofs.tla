-------------------------- MODULE ConferenceProofs --------------------------
(***************************************************************************)
(* Proofs that every execution of Conference keeps IInv, for any number of *)
(* clients, streams, calls and slots.                                      *)
(***************************************************************************)
EXTENDS Conference, DenseArrayProofs

\* The part of the invariant that speaks of the graph alone.
GraphInv == /\ GraphTypeOK /\ FreedIsBlank /\ NoDuplicatePointers
            /\ CallMembershipMutual /\ WatchingMutual /\ OwnershipMutual
            /\ PrivateStreamInCall

\* Every array has a slot 0, and NULL is not an address.
LEMMA Sizes ==
  /\ MAX_INPUT \in Nat \ {0} /\ 0 \in Slots(MAX_INPUT)
  /\ MAX_OUTPUT \in Nat \ {0} /\ 0 \in Slots(MAX_OUTPUT)
  /\ MAX_CONNECTION_CALLS \in Nat \ {0} /\ 0 \in Slots(MAX_CONNECTION_CALLS)
  /\ STREAM_MAX_RECIPIENTS \in Nat \ {0} /\ 0 \in Slots(STREAM_MAX_RECIPIENTS)
  /\ MAX_CALL_PARTICIPANTS \in Nat \ {0} /\ 0 \in Slots(MAX_CALL_PARTICIPANTS)
  /\ MAX_CALL_STREAMS \in Nat \ {0} /\ 0 \in Slots(MAX_CALL_STREAMS)
  /\ NULL \notin Conns /\ NULL \notin Streams /\ NULL \notin Calls
BY SlotsArePositive, NullIsNoAddress DEF Slots

\* What Link does: l is its result for the arrays near, of n slots in S, and
\* far, of m slots in T, that x and y are added to.
Linked(l, near, n, S, x, far, m, T, y) ==
  /\ l.near \in ArraysOf(n, S) /\ l.far \in ArraysOf(m, T) /\ l.ok \in BOOLEAN
  /\ NoDuplicates(near) => NoDuplicates(l.near)
  /\ NoDuplicates(far) => NoDuplicates(l.far)
  /\ l.ok => /\ near[0] = NULL /\ l.near[0] = x
             /\ far[0] = NULL /\ l.far[0] = y
             /\ \A i \in Slots(n) \ {0} : l.near[i] = near[i]
  /\ ~l.ok => /\ l.near[0] = near[0] /\ l.far[0] = far[0]
              /\ near[0] = NULL => l.near = near
  /\ \A i \in Slots(n) : near[i] # NULL => l.near[i] = near[i]

\* A link succeeds only in slot 0 of both arrays, and a failure leaves slot 0 of
\* both as it was: all traces of a failure are in other slots.
LEMMA LinkFacts ==
  ASSUME NEW n \in Nat \ {0}, NEW m \in Nat \ {0}, NEW S, NEW T,
         NULL \notin S, NULL \notin T,
         NEW near \in ArraysOf(n, S), NEW far \in ArraysOf(m, T),
         NEW x \in S, NEW y \in T, ~Contains(near, x)
  PROVE  Linked(Link(near, far, x, y), near, n, S, x, far, m, T, y)
<1> DEFINE l == Link(near, far, x, y)
<1> USE DEF Linked
<1> DEFINE i == AddIndex(near)
           j == AddIndex(far)
           known == Contains(far, y)
<1>1. DOMAIN near = Slots(n) /\ DOMAIN far = Slots(m) /\ 0 \in Slots(n) /\ 0 \in Slots(m)
  BY DEF ArraysOf, Slots
<1>2. (i = 0 <=> near[0] = NULL) /\ (j = 0 <=> far[0] = NULL)
  BY <1>1, AddIndexZero
<1>3. /\ Added(near, x) \in ArraysOf(n, S)
      /\ near[0] = NULL => Added(near, x) = [near EXCEPT ![0] = x]
      /\ near[0] # NULL => Added(near, x)[0] = near[0]
      /\ \A p \in Slots(n) : near[p] # NULL => Added(near, x)[p] = near[p]
      /\ NoDuplicates(near) => NoDuplicates(Added(near, x))
  BY AddedArray
<1>4. /\ Added(far, y) \in ArraysOf(m, T)
      /\ far[0] = NULL => Added(far, y) = [far EXCEPT ![0] = y]
      /\ far[0] # NULL => Added(far, y)[0] = far[0]
      /\ NoDuplicates(far) /\ ~known => NoDuplicates(Added(far, y))
  BY AddedArray
<1>5. CASE i # 0
  <2>1. l = [near |-> Added(near, x), far |-> far, ok |-> FALSE]
    BY <1>5 DEF Link
  <2>2. QED BY <1>1, <1>2, <1>3, <1>5, <2>1
<1>6. CASE i = 0 /\ known
  <2>1. l = [near |-> near, far |-> far, ok |-> FALSE]
    BY <1>6 DEF Link
  <2>2. QED BY <1>1, <1>2, <1>6, <2>1
<1>7. CASE i = 0 /\ ~known /\ j # 0
  <2>1. l = [near |-> near, far |-> Added(far, y), ok |-> FALSE]
    BY <1>7 DEF Link
  <2>2. QED BY <1>1, <1>2, <1>4, <1>7, <2>1
<1>8. CASE i = 0 /\ ~known /\ j = 0
  <2>1. l = [near |-> Added(near, x), far |-> Added(far, y), ok |-> TRUE]
    BY <1>8 DEF Link
  <2>2. Added(near, x)[0] = x /\ Added(far, y)[0] = y
    BY <1>1, <1>2, <1>3, <1>4, <1>8 DEF ArraysOf
  <2>3. QED BY <1>1, <1>2, <1>3, <1>4, <1>8, <2>1, <2>2
<1>9. QED BY <1>5, <1>6, <1>7, <1>8

-----------------------------------------------------------------------------
(***************************************************************************)
(* One lemma per handler: its step keeps GraphInv.                         *)
(***************************************************************************)

\* A handler that refuses, answers nothing or is undefined leaves the graph alone.
LEMMA UnchangedKeeps ==
  ASSUME GraphInv, UNCHANGED graph
  PROVE  GraphInv'
BY DEF GraphInv, graph, GraphTypeOK, FreedIsBlank, NoDuplicatePointers,
       CallMembershipMutual, WatchingMutual, OwnershipMutual, PrivateStreamInCall

\* handle_tcp_accept: the new connection was blank while its address was free.
LEMMA AcceptKeeps ==
  ASSUME GraphInv, NEW c \in Conns, Accept(c)
  PROVE  GraphInv'
<1>1. GraphTypeOK'
  BY DEF GraphInv, GraphTypeOK, Accept, connection_new, UdpStates
<1>2. FreedIsBlank'
  BY DEF GraphInv, FreedIsBlank, Accept, connection_new
<1>3. /\ NoDuplicatePointers' /\ CallMembershipMutual' /\ WatchingMutual'
      /\ OwnershipMutual' /\ PrivateStreamInCall'
  BY DEF GraphInv, Accept, connection_new, NoDuplicatePointers, CallMembershipMutual,
         WatchingMutual, OwnershipMutual, PrivateStreamInCall
<1>4. QED BY <1>1, <1>2, <1>3 DEF GraphInv

\* handle_udp_handshake.
LEMMA UdpHandshakeKeeps ==
  ASSUME GraphInv, NEW c \in Conns, UdpHandshake(c)
  PROVE  GraphInv'
<1>1. GraphTypeOK'
  BY DEF GraphInv, GraphTypeOK, UdpHandshake, UdpStates
<1>2. FreedIsBlank'
  BY DEF GraphInv, FreedIsBlank, UdpHandshake
<1>3. /\ NoDuplicatePointers' /\ CallMembershipMutual' /\ WatchingMutual'
      /\ OwnershipMutual' /\ PrivateStreamInCall'
  BY DEF GraphInv, UdpHandshake, NoDuplicatePointers, CallMembershipMutual,
         WatchingMutual, OwnershipMutual, PrivateStreamInCall
<1>4. QED BY <1>1, <1>2, <1>3 DEF GraphInv

\* handle_call_create: a call that fails leaves a pointer beyond slot 0 at most.
LEMMA CallCreateKeeps ==
  ASSUME GraphInv, NEW c \in Conns, CallCreate(c)
  PROVE  GraphInv'
<1>1. CASE Refuse
  BY <1>1, UnchangedKeeps DEF Refuse, graph
<1>2. ASSUME NEW k \in Calls \ calls, NEW l, l = ParticipantLink(k, c),
             calls' = IF l.ok THEN calls \cup {k} ELSE calls,
             participants' = [participants EXCEPT ![k] = l.near],
             conn_calls' = [conn_calls EXCEPT ![c] = l.far],
             UNCHANGED <<connections, streams, watch_streams, own_streams, udp,
                         owner, stream_call, recipients, call_streams>>
      PROVE  GraphInv'
  <2>1. c \in connections
    BY DEF CallCreate, Request
  <2>2. /\ participants[k] = Empty(MAX_CALL_PARTICIPANTS)
        /\ participants[k] \in ArraysOf(MAX_CALL_PARTICIPANTS, Conns)
        /\ conn_calls[c] \in ArraysOf(MAX_CONNECTION_CALLS, Calls)
    BY <1>2 DEF GraphInv, GraphTypeOK, FreedIsBlank
  <2>3. ~Contains(participants[k], c) /\ participants[k][0] = NULL
    BY <2>2, Sizes DEF Contains, Empty
  <2>4. Linked(l, participants[k], MAX_CALL_PARTICIPANTS, Conns, c,
               conn_calls[c], MAX_CONNECTION_CALLS, Calls, k)
    BY <1>2, <2>2, <2>3, Sizes, LinkFacts DEF ParticipantLink
  <2> USE DEF Linked
  <2>5. GraphTypeOK'
    BY <1>2, <2>4 DEF GraphInv, GraphTypeOK
  <2>6. FreedIsBlank'
    BY <1>2, <2>1, <2>2, <2>3, <2>4 DEF GraphInv, GraphTypeOK, FreedIsBlank
  <2>7. NoDuplicatePointers'
    BY <1>2, <2>4 DEF GraphInv, GraphTypeOK, NoDuplicatePointers
  <2>8. CallMembershipMutual'
    BY <1>2, <2>3, <2>4, Sizes DEF GraphInv, GraphTypeOK, CallMembershipMutual
  <2>9. PrivateStreamInCall'
    BY <1>2, <2>4 DEF GraphInv, GraphTypeOK, PrivateStreamInCall
  <2>10. WatchingMutual' /\ OwnershipMutual'
    BY <1>2 DEF GraphInv, WatchingMutual, OwnershipMutual
  <2>11. QED BY <2>5, <2>6, <2>7, <2>8, <2>9, <2>10 DEF GraphInv
<1>3. QED BY <1>1, <1>2 DEF CallCreate, call_new

\* handle_call_join.
LEMMA CallJoinKeeps ==
  ASSUME GraphInv, NEW c \in Conns, NEW k \in Calls, CallJoin(c, k)
  PROVE  GraphInv'
<1>1. CASE UNCHANGED graph
  BY <1>1, UnchangedKeeps
<1>2. ASSUME NEW l, l = ParticipantLink(k, c), k \in calls, CallAdmits(k, c),
             participants' = [participants EXCEPT ![k] = l.near],
             conn_calls' = [conn_calls EXCEPT ![c] = l.far],
             UNCHANGED <<connections, streams, calls, watch_streams, own_streams,
                         udp, owner, stream_call, recipients, call_streams>>
      PROVE  GraphInv'
  <2>1. c \in connections
    BY DEF CallJoin, Request
  <2>2. /\ participants[k] \in ArraysOf(MAX_CALL_PARTICIPANTS, Conns)
        /\ conn_calls[c] \in ArraysOf(MAX_CONNECTION_CALLS, Calls)
        /\ ~Contains(participants[k], c)
    BY <1>2 DEF GraphInv, GraphTypeOK, CallAdmits
  <2>3. Linked(l, participants[k], MAX_CALL_PARTICIPANTS, Conns, c,
               conn_calls[c], MAX_CONNECTION_CALLS, Calls, k)
    BY <1>2, <2>2, Sizes, LinkFacts DEF ParticipantLink
  <2> USE DEF Linked
  <2>4. GraphTypeOK'
    BY <1>2, <2>3 DEF GraphInv, GraphTypeOK
  <2>5. FreedIsBlank'
    BY <1>2, <2>1 DEF GraphInv, GraphTypeOK, FreedIsBlank
  <2>6. NoDuplicatePointers'
    BY <1>2, <2>3 DEF GraphInv, GraphTypeOK, NoDuplicatePointers
  <2>7. CallMembershipMutual'
    BY <1>2, <2>3, Sizes DEF GraphInv, GraphTypeOK, CallMembershipMutual
  <2>8. \A x \in Conns, q \in Calls : Contains(participants[q], x) => Contains(participants'[q], x)
    BY <1>2, <2>2, <2>3, Sizes DEF GraphInv, GraphTypeOK, Contains, ArraysOf
  <2>9. PrivateStreamInCall'
    BY <1>2, <2>8 DEF GraphInv, GraphTypeOK, PrivateStreamInCall, OwnershipMutual
  <2>10. WatchingMutual' /\ OwnershipMutual'
    BY <1>2 DEF GraphInv, WatchingMutual, OwnershipMutual
  <2>11. QED BY <2>4, <2>5, <2>6, <2>7, <2>9, <2>10 DEF GraphInv
<1>3. QED BY <1>1, <1>2 DEF CallJoin, Refuse, Undefined, graph

\* handle_stream_leave.
LEMMA StreamLeaveKeeps ==
  ASSUME GraphInv, NEW c \in connections, NEW s \in streams,
         recipients' = [recipients EXCEPT ![s] = Without(recipients[s], {c})],
         watch_streams' = [watch_streams EXCEPT ![c] = Without(watch_streams[c], {s})],
         UNCHANGED <<connections, streams, calls, own_streams, conn_calls, udp,
                     owner, stream_call, participants, call_streams>>
  PROVE  GraphInv'
<1>1. c \in Conns /\ s \in Streams
  BY DEF GraphInv, GraphTypeOK
<1>2. /\ Without(recipients[s], {c}) \in ArraysOf(STREAM_MAX_RECIPIENTS, Conns)
      /\ Without(recipients[s], {c})[0] = IF recipients[s][0] = c THEN NULL ELSE recipients[s][0]
      /\ NoDuplicates(Without(recipients[s], {c}))
  BY <1>1, Sizes, WithoutArray DEF GraphInv, GraphTypeOK, NoDuplicatePointers
<1>3. /\ Without(watch_streams[c], {s}) \in ArraysOf(MAX_INPUT, Streams)
      /\ Without(watch_streams[c], {s})[0] = IF watch_streams[c][0] = s THEN NULL ELSE watch_streams[c][0]
      /\ NoDuplicates(Without(watch_streams[c], {s}))
  BY <1>1, Sizes, WithoutArray DEF GraphInv, GraphTypeOK, NoDuplicatePointers
<1>4. GraphTypeOK'
  BY <1>1, <1>2, <1>3 DEF GraphInv, GraphTypeOK
<1>5. FreedIsBlank'
  BY <1>1 DEF GraphInv, GraphTypeOK, FreedIsBlank
<1>6. NoDuplicatePointers'
  BY <1>1, <1>2, <1>3 DEF GraphInv, GraphTypeOK, NoDuplicatePointers
<1>7. WatchingMutual'
  BY <1>1, <1>2, <1>3, Sizes DEF GraphInv, GraphTypeOK, WatchingMutual
<1>8. CallMembershipMutual' /\ OwnershipMutual' /\ PrivateStreamInCall'
  BY DEF GraphInv, CallMembershipMutual, OwnershipMutual, PrivateStreamInCall, Contains
<1>9. QED BY <1>4, <1>5, <1>6, <1>7, <1>8 DEF GraphInv

\* handle_stream_join.
LEMMA StreamJoinKeeps ==
  ASSUME GraphInv, NEW c \in Conns, NEW s \in Streams, StreamJoin(c, s)
  PROVE  GraphInv'
<1>1. CASE UNCHANGED graph
  BY <1>1, UnchangedKeeps
<1>2. ASSUME NEW l, l = RecipientLink(s, c), s \in streams, StreamAdmits(s, c),
             recipients' = [recipients EXCEPT ![s] = l.near],
             watch_streams' = [watch_streams EXCEPT ![c] = l.far],
             UNCHANGED <<connections, streams, calls, own_streams, conn_calls, udp,
                         owner, stream_call, participants, call_streams>>
      PROVE  GraphInv'
  <2>1. c \in connections
    BY DEF StreamJoin, Request
  <2>2. /\ recipients[s] \in ArraysOf(STREAM_MAX_RECIPIENTS, Conns)
        /\ watch_streams[c] \in ArraysOf(MAX_INPUT, Streams)
        /\ ~Contains(recipients[s], c)
    BY <1>2 DEF GraphInv, GraphTypeOK, StreamAdmits
  <2>3. Linked(l, recipients[s], STREAM_MAX_RECIPIENTS, Conns, c,
               watch_streams[c], MAX_INPUT, Streams, s)
    BY <1>2, <2>2, Sizes, LinkFacts DEF RecipientLink
  <2> USE DEF Linked
  <2>4. GraphTypeOK'
    BY <1>2, <2>3 DEF GraphInv, GraphTypeOK
  <2>5. FreedIsBlank'
    BY <1>2, <2>1 DEF GraphInv, GraphTypeOK, FreedIsBlank
  <2>6. NoDuplicatePointers'
    BY <1>2, <2>3 DEF GraphInv, GraphTypeOK, NoDuplicatePointers
  <2>7. WatchingMutual'
    BY <1>2, <2>3, Sizes DEF GraphInv, GraphTypeOK, WatchingMutual
  <2>8. CallMembershipMutual' /\ OwnershipMutual' /\ PrivateStreamInCall'
    BY <1>2 DEF GraphInv, CallMembershipMutual, OwnershipMutual, PrivateStreamInCall
  <2>9. QED BY <2>4, <2>5, <2>6, <2>7, <2>8 DEF GraphInv
<1>3. QED BY <1>1, <1>2 DEF StreamJoin, Refuse, Undefined, graph

\* Deleting the live streams D keeps the types, the blanks and the absence of
\* duplicates of the arrays that forget them, and no slot 0 still names one.
LEMMA DeletedStreams ==
  ASSUME GraphInv, NEW D, D \subseteq streams
  PROVE  /\ WatchedWithout(D) \in [Conns -> ArraysOf(MAX_INPUT, Streams)]
         /\ OwnedWithout(D) \in [Conns -> ArraysOf(MAX_OUTPUT, Streams)]
         /\ CallStreamsWithout(D) \in [Calls -> ArraysOf(MAX_CALL_STREAMS, Streams)]
         /\ \A c \in Conns :
              /\ NoDuplicates(WatchedWithout(D)[c]) /\ NoDuplicates(OwnedWithout(D)[c])
              /\ WatchedWithout(D)[c][0] = IF watch_streams[c][0] \in D THEN NULL
                                           ELSE watch_streams[c][0]
              /\ OwnedWithout(D)[c][0] = IF own_streams[c][0] \in D THEN NULL
                                         ELSE own_streams[c][0]
              /\ c \notin connections => /\ WatchedWithout(D)[c] = Empty(MAX_INPUT)
                                         /\ OwnedWithout(D)[c] = Empty(MAX_OUTPUT)
         /\ \A k \in Calls :
              /\ NoDuplicates(CallStreamsWithout(D)[k])
              /\ \A s \in streams \ D : call_streams[k][0] = s => CallStreamsWithout(D)[k][0] = s
              /\ k \notin calls => CallStreamsWithout(D)[k] = Empty(MAX_CALL_STREAMS)
<1>1. D \subseteq Streams
  BY DEF GraphInv, GraphTypeOK
<1>2. ASSUME NEW c \in Conns
      PROVE  /\ WatchedWithout(D)[c] \in ArraysOf(MAX_INPUT, Streams)
             /\ NoDuplicates(WatchedWithout(D)[c])
             /\ WatchedWithout(D)[c][0] = IF watch_streams[c][0] \in D THEN NULL
                                          ELSE watch_streams[c][0]
             /\ c \notin connections => WatchedWithout(D)[c] = Empty(MAX_INPUT)
  <2> DEFINE X == {s \in D : Contains(recipients[s], c)}
  <2>1. WatchedWithout(D)[c] = Without(watch_streams[c], X)
    BY DEF WatchedWithout
  <2>2. watch_streams[c] \in ArraysOf(MAX_INPUT, Streams)
    BY DEF GraphInv, GraphTypeOK
  <2>3. watch_streams[c][0] \in D => watch_streams[c][0] \in X
    BY <1>1, Sizes DEF GraphInv, GraphTypeOK, WatchingMutual, Contains, ArraysOf
  <2>4. NULL \notin X
    BY <1>1, Sizes
  <2>5. c \notin connections => watch_streams[c] = Empty(MAX_INPUT)
    BY DEF GraphInv, FreedIsBlank
  <2>6. c \notin connections => Without(watch_streams[c], X) = Empty(MAX_INPUT)
    BY <2>4, <2>5 DEF Without, Empty
  <2>7. /\ Without(watch_streams[c], X) \in ArraysOf(MAX_INPUT, Streams)
        /\ Without(watch_streams[c], X)[0] = IF watch_streams[c][0] \in X THEN NULL
                                             ELSE watch_streams[c][0]
        /\ NoDuplicates(Without(watch_streams[c], X))
    BY <2>2, Sizes, WithoutArray DEF GraphInv, NoDuplicatePointers
  <2>8. QED BY <2>1, <2>3, <2>6, <2>7
<1>3. ASSUME NEW c \in Conns
      PROVE  /\ OwnedWithout(D)[c] \in ArraysOf(MAX_OUTPUT, Streams)
             /\ NoDuplicates(OwnedWithout(D)[c])
             /\ OwnedWithout(D)[c][0] = IF own_streams[c][0] \in D THEN NULL
                                        ELSE own_streams[c][0]
             /\ c \notin connections => OwnedWithout(D)[c] = Empty(MAX_OUTPUT)
  <2> DEFINE X == {s \in D : owner[s] = c}
  <2>1. OwnedWithout(D)[c] = Without(own_streams[c], X)
    BY DEF OwnedWithout
  <2>2. own_streams[c] \in ArraysOf(MAX_OUTPUT, Streams)
    BY DEF GraphInv, GraphTypeOK
  <2>3. own_streams[c][0] \in D => own_streams[c][0] \in X
    BY <1>1 DEF GraphInv, OwnershipMutual
  <2>4. NULL \notin X
    BY <1>1, Sizes
  <2>5. c \notin connections => own_streams[c] = Empty(MAX_OUTPUT)
    BY DEF GraphInv, FreedIsBlank
  <2>6. c \notin connections => Without(own_streams[c], X) = Empty(MAX_OUTPUT)
    BY <2>4, <2>5 DEF Without, Empty
  <2>7. /\ Without(own_streams[c], X) \in ArraysOf(MAX_OUTPUT, Streams)
        /\ Without(own_streams[c], X)[0] = IF own_streams[c][0] \in X THEN NULL
                                           ELSE own_streams[c][0]
        /\ NoDuplicates(Without(own_streams[c], X))
    BY <2>2, Sizes, WithoutArray DEF GraphInv, NoDuplicatePointers
  <2>8. QED BY <2>1, <2>3, <2>6, <2>7
<1>4. ASSUME NEW k \in Calls
      PROVE  /\ CallStreamsWithout(D)[k] \in ArraysOf(MAX_CALL_STREAMS, Streams)
             /\ NoDuplicates(CallStreamsWithout(D)[k])
             /\ \A s \in streams \ D : call_streams[k][0] = s => CallStreamsWithout(D)[k][0] = s
             /\ k \notin calls => CallStreamsWithout(D)[k] = Empty(MAX_CALL_STREAMS)
  <2> DEFINE X == {s \in D : stream_call[s] = k}
  <2>1. CallStreamsWithout(D)[k] = Without(call_streams[k], X)
    BY DEF CallStreamsWithout
  <2>2. call_streams[k] \in ArraysOf(MAX_CALL_STREAMS, Streams)
    BY DEF GraphInv, GraphTypeOK
  <2>3. k \notin calls => call_streams[k] = Empty(MAX_CALL_STREAMS)
    BY DEF GraphInv, FreedIsBlank
  <2>4. k \notin calls => Without(call_streams[k], X) = Empty(MAX_CALL_STREAMS)
    BY <1>1, <2>3, Sizes DEF Without, Empty
  <2>5. /\ Without(call_streams[k], X) \in ArraysOf(MAX_CALL_STREAMS, Streams)
        /\ Without(call_streams[k], X)[0] = IF call_streams[k][0] \in X THEN NULL
                                            ELSE call_streams[k][0]
        /\ NoDuplicates(Without(call_streams[k], X))
    BY <2>2, Sizes, WithoutArray DEF GraphInv, NoDuplicatePointers
  <2>6. QED BY <2>1, <2>4, <2>5
<1>5. /\ WatchedWithout(D) \in [Conns -> ArraysOf(MAX_INPUT, Streams)]
      /\ OwnedWithout(D) \in [Conns -> ArraysOf(MAX_OUTPUT, Streams)]
      /\ CallStreamsWithout(D) \in [Calls -> ArraysOf(MAX_CALL_STREAMS, Streams)]
  BY <1>2, <1>3, <1>4 DEF WatchedWithout, OwnedWithout, CallStreamsWithout
<1>6. QED BY <1>2, <1>3, <1>4, <1>5

\* The parts of GraphInv about connections and streams, while stream_delete
\* deletes the live streams D.
LEMMA StreamsDeleted ==
  ASSUME GraphInv, NEW D, D \subseteq streams, stream_delete(D), UNCHANGED connections
  PROVE  /\ watch_streams' \in [Conns -> ArraysOf(MAX_INPUT, Streams)]
         /\ own_streams' \in [Conns -> ArraysOf(MAX_OUTPUT, Streams)]
         /\ recipients' \in [Streams -> ArraysOf(STREAM_MAX_RECIPIENTS, Conns)]
         /\ owner' \in [Streams -> Conns \cup {NULL}]
         /\ \A s \in Streams \ streams' : /\ recipients'[s] = Empty(STREAM_MAX_RECIPIENTS)
                                          /\ owner'[s] = NULL
         /\ \A s \in streams' : recipients'[s] = recipients[s] /\ owner'[s] = owner[s]
         /\ \A s \in Streams : NoDuplicates(recipients'[s])
         /\ WatchingMutual' /\ OwnershipMutual'
<1>1. D \subseteq Streams /\ streams' = streams \ D /\ streams \subseteq Streams
  BY DEF GraphInv, GraphTypeOK, stream_delete
<1>2. watch_streams' = WatchedWithout(D) /\ own_streams' = OwnedWithout(D)
  BY DEF stream_delete
<1>3. /\ recipients' = [s \in Streams |-> IF s \in D THEN Empty(STREAM_MAX_RECIPIENTS)
                                          ELSE recipients[s]]
      /\ owner' = [s \in Streams |-> IF s \in D THEN NULL ELSE owner[s]]
  BY DEF GraphInv, GraphTypeOK, stream_delete, Blanked
<1>4. /\ Empty(STREAM_MAX_RECIPIENTS) \in ArraysOf(STREAM_MAX_RECIPIENTS, Conns)
      /\ Empty(STREAM_MAX_RECIPIENTS)[0] = NULL
      /\ NoDuplicates(Empty(STREAM_MAX_RECIPIENTS))
  BY Sizes, EmptyArray
<1>5. /\ watch_streams' \in [Conns -> ArraysOf(MAX_INPUT, Streams)]
      /\ own_streams' \in [Conns -> ArraysOf(MAX_OUTPUT, Streams)]
      /\ recipients' \in [Streams -> ArraysOf(STREAM_MAX_RECIPIENTS, Conns)]
      /\ owner' \in [Streams -> Conns \cup {NULL}]
  BY <1>2, <1>3, <1>4, DeletedStreams DEF GraphInv, GraphTypeOK
<1>6. /\ \A s \in Streams \ streams' : /\ recipients'[s] = Empty(STREAM_MAX_RECIPIENTS)
                                       /\ owner'[s] = NULL
      /\ \A s \in streams' : recipients'[s] = recipients[s] /\ owner'[s] = owner[s]
      /\ \A s \in Streams : NoDuplicates(recipients'[s])
  BY <1>1, <1>3, <1>4 DEF GraphInv, FreedIsBlank, NoDuplicatePointers
<1>7. WatchingMutual'
  <2> SUFFICES ASSUME NEW c \in Conns, NEW s \in Streams
               PROVE  recipients'[s][0] = c <=> watch_streams'[c][0] = s
    BY DEF WatchingMutual
  <2>1. watch_streams'[c][0] = IF watch_streams[c][0] \in D THEN NULL
                               ELSE watch_streams[c][0]
    BY <1>2, DeletedStreams
  <2>2. recipients[s][0] = c <=> watch_streams[c][0] = s
    BY DEF GraphInv, WatchingMutual
  <2>3. QED BY <1>3, <1>4, <2>1, <2>2, Sizes
<1>8. OwnershipMutual'
  <2>1. \A s \in streams' : owner'[s] \in connections'
    BY <1>1, <1>6 DEF GraphInv, OwnershipMutual
  <2>2. ASSUME NEW c \in Conns, NEW s \in Streams
        PROVE  own_streams'[c][0] = s <=> s \in streams' /\ owner'[s] = c
    <3>1. own_streams'[c][0] = IF own_streams[c][0] \in D THEN NULL ELSE own_streams[c][0]
      BY <1>2, DeletedStreams
    <3>2. own_streams[c][0] = s <=> s \in streams /\ owner[s] = c
      BY DEF GraphInv, OwnershipMutual
    <3>3. QED BY <1>1, <1>3, <3>1, <3>2, Sizes
  <2>3. QED BY <2>1, <2>2 DEF OwnershipMutual
<1>9. QED BY <1>5, <1>6, <1>7, <1>8

\* handle_stream_delete.
LEMMA StreamDeleteKeeps ==
  ASSUME GraphInv, NEW c \in Conns, NEW s \in Streams, StreamDelete(c, s)
  PROVE  GraphInv'
<1>1. CASE UNCHANGED graph
  BY <1>1, UnchangedKeeps
<1>2. ASSUME s \in streams, stream_delete({s}),
             stream_call' = Blanked(stream_call, {s}, NULL),
             call_streams' = CallStreamsWithout({s}),
             UNCHANGED <<connections, calls, conn_calls, udp, participants>>
      PROVE  GraphInv'
  <2>1. {s} \subseteq streams
    BY <1>2
  <2>2. /\ watch_streams' \in [Conns -> ArraysOf(MAX_INPUT, Streams)]
        /\ own_streams' \in [Conns -> ArraysOf(MAX_OUTPUT, Streams)]
        /\ recipients' \in [Streams -> ArraysOf(STREAM_MAX_RECIPIENTS, Conns)]
        /\ owner' \in [Streams -> Conns \cup {NULL}]
        /\ \A x \in Streams \ streams' : /\ recipients'[x] = Empty(STREAM_MAX_RECIPIENTS)
                                         /\ owner'[x] = NULL
        /\ \A x \in streams' : recipients'[x] = recipients[x] /\ owner'[x] = owner[x]
        /\ \A x \in Streams : NoDuplicates(recipients'[x])
        /\ WatchingMutual' /\ OwnershipMutual'
    BY <1>2, <2>1, StreamsDeleted
  <2>3. /\ streams' = streams \ {s}
        /\ watch_streams' = WatchedWithout({s}) /\ own_streams' = OwnedWithout({s})
    BY <1>2 DEF stream_delete
  <2>4. stream_call' = [x \in Streams |-> IF x \in {s} THEN NULL ELSE stream_call[x]]
    BY <1>2 DEF GraphInv, GraphTypeOK, Blanked
  <2>5. GraphTypeOK'
    <3>1. call_streams' \in [Calls -> ArraysOf(MAX_CALL_STREAMS, Streams)]
      BY <1>2, <2>1, DeletedStreams
    <3>2. stream_call' \in [Streams -> Calls \cup {NULL}]
      BY <2>4 DEF GraphInv, GraphTypeOK
    <3>3. QED BY <1>2, <2>2, <2>3, <3>1, <3>2 DEF GraphInv, GraphTypeOK
  <2>6. FreedIsBlank'
    <3>1. \A x \in Conns \ connections' : /\ watch_streams'[x] = Empty(MAX_INPUT)
                                          /\ own_streams'[x] = Empty(MAX_OUTPUT)
                                          /\ conn_calls'[x] = Empty(MAX_CONNECTION_CALLS)
      BY <1>2, <2>1, <2>3, DeletedStreams DEF GraphInv, FreedIsBlank
    <3>2. \A k \in Calls \ calls' : /\ participants'[k] = Empty(MAX_CALL_PARTICIPANTS)
                                    /\ call_streams'[k] = Empty(MAX_CALL_STREAMS)
      BY <1>2, <2>1, DeletedStreams DEF GraphInv, FreedIsBlank
    <3>3. \A x \in Streams \ streams' : stream_call'[x] = NULL
      BY <2>3, <2>4 DEF GraphInv, FreedIsBlank
    <3>4. QED BY <2>2, <3>1, <3>2, <3>3 DEF FreedIsBlank
  <2>7. NoDuplicatePointers'
    BY <1>2, <2>1, <2>2, <2>3, DeletedStreams DEF GraphInv, NoDuplicatePointers
  <2>8. CallMembershipMutual'
    BY <1>2 DEF GraphInv, CallMembershipMutual
  <2>9. PrivateStreamInCall'
    <3> SUFFICES ASSUME NEW x \in streams', stream_call'[x] # NULL
                 PROVE  /\ stream_call'[x] \in calls'
                        /\ call_streams'[stream_call'[x]][0] = x
                        /\ Contains(participants'[stream_call'[x]], owner'[x])
      BY DEF PrivateStreamInCall
    <3>1. x \in streams \ {s} /\ x \in Streams /\ stream_call'[x] = stream_call[x]
      BY <2>3, <2>4 DEF GraphInv, GraphTypeOK
    <3>2. /\ stream_call[x] \in calls /\ stream_call[x] \in Calls
          /\ call_streams[stream_call[x]][0] = x
          /\ Contains(participants[stream_call[x]], owner[x])
      BY <3>1 DEF GraphInv, GraphTypeOK, PrivateStreamInCall
    <3>3. call_streams'[stream_call[x]][0] = x
      BY <1>2, <2>1, <3>1, <3>2, DeletedStreams
    <3>4. QED BY <1>2, <2>2, <3>1, <3>2, <3>3
  <2>10. QED BY <2>2, <2>5, <2>6, <2>7, <2>8, <2>9 DEF GraphInv
<1>3. QED BY <1>1, <1>2 DEF StreamDelete, Refuse, Undefined, graph

\* What stream_new does to the arrays own and held of the owner and the call:
\* like Linked, for a stream s that may be public.
StreamLinked(l, own, held, s, k) ==
  /\ l.ok \in BOOLEAN
  /\ l.near \in ArraysOf(MAX_OUTPUT, Streams) /\ NoDuplicates(l.near)
  /\ l.ok => own[0] = NULL /\ l.near[0] = s
  /\ ~l.ok => l.near[0] = own[0]
  /\ k # NULL =>
       /\ l.far \in ArraysOf(MAX_CALL_STREAMS, Streams) /\ NoDuplicates(l.far)
       /\ l.ok => held[0] = NULL /\ l.far[0] = s
       /\ ~l.ok => l.far[0] = held[0]

LEMMA NewStreamLinkFacts ==
  ASSUME GraphInv, NEW c \in Conns, NEW k \in Calls \cup {NULL}, NEW s \in Streams
  PROVE  StreamLinked(NewStreamLink(s, c, k), own_streams[c], call_streams[k], s, k)
<1> USE DEF StreamLinked
<1> DEFINE l == NewStreamLink(s, c, k)
           own == own_streams[c]
           known == Contains(own, s)
<1>1. /\ own \in ArraysOf(MAX_OUTPUT, Streams) /\ NoDuplicates(own)
      /\ k # NULL => /\ call_streams[k] \in ArraysOf(MAX_CALL_STREAMS, Streams)
                     /\ NoDuplicates(call_streams[k])
  BY DEF GraphInv, GraphTypeOK, NoDuplicatePointers
<1>2. own[0] = NULL <=> AddIndex(own) = 0
  <2>1. DOMAIN own = Slots(MAX_OUTPUT)
    BY <1>1 DEF ArraysOf
  <2>2. QED BY <2>1, Sizes, AddIndexZero
<1>3. /\ Added(own, s) \in ArraysOf(MAX_OUTPUT, Streams)
      /\ own[0] = NULL => Added(own, s) = [own EXCEPT ![0] = s]
      /\ own[0] # NULL => Added(own, s)[0] = own[0]
      /\ ~known => NoDuplicates(Added(own, s))
  BY <1>1, Sizes, AddedArray
<1>4. own[0] = NULL => Added(own, s)[0] = s
  BY <1>1, <1>3, Sizes DEF ArraysOf
<1> HIDE DEF own
<1>5. CASE k = NULL
  <2>1. l = [near |-> IF known THEN own ELSE Added(own, s),
             ok |-> ~known /\ AddIndex(own) = 0]
    BY <1>5 DEF NewStreamLink, own
  <2>2. l.ok = (~known /\ AddIndex(own) = 0) /\ l.near = IF known THEN own ELSE Added(own, s)
    BY <2>1
  <2> HIDE DEF l, known
  <2>3. QED BY <1>1, <1>2, <1>3, <1>4, <1>5, <2>2 DEF l, own, known
<1>6. CASE k # NULL /\ known
  <2>1. l = [near |-> own, far |-> call_streams[k], ok |-> FALSE]
    BY <1>6 DEF NewStreamLink, own
  <2>2. QED BY <1>1, <1>6, <2>1 DEF own
<1>7. CASE k # NULL /\ ~known
  <2>1. l = Link(own, call_streams[k], s, s)
    BY <1>7 DEF NewStreamLink, own
  <2>2. Linked(l, own, MAX_OUTPUT, Streams, s,
               call_streams[k], MAX_CALL_STREAMS, Streams, s)
    BY <1>1, <1>7, <2>1, Sizes, LinkFacts DEF own
  <2>3. QED BY <1>1, <1>7, <2>2 DEF Linked, own
<1>8. QED BY <1>5, <1>6, <1>7

\* handle_stream_create: a stream that exists is in slot 0 of its owner and call.
LEMMA StreamCreateKeeps ==
  ASSUME GraphInv, NEW c \in Conns, NEW k \in Calls \cup {NULL}, StreamCreate(c, k)
  PROVE  GraphInv'
<1>1. CASE UNCHANGED graph
  BY <1>1, UnchangedKeeps
<1>2. ASSUME NEW s \in Streams \ streams, NEW l, l = NewStreamLink(s, c, k),
             k # NULL => k \in calls, StreamAdmitted(c, k),
             streams' = IF l.ok THEN streams \cup {s} ELSE streams,
             owner' = [owner EXCEPT ![s] = IF l.ok THEN c ELSE NULL],
             stream_call' = [stream_call EXCEPT ![s] = IF l.ok THEN k ELSE NULL],
             own_streams' = [own_streams EXCEPT ![c] = l.near],
             call_streams' = IF k = NULL THEN call_streams
                             ELSE [call_streams EXCEPT ![k] = l.far],
             UNCHANGED <<connections, calls, watch_streams, conn_calls, udp,
                         recipients, participants>>
      PROVE  GraphInv'
  <2>1. c \in connections /\ s \in Streams /\ s # NULL
    BY <1>2, Sizes DEF StreamCreate, Request
  <2>2. StreamLinked(l, own_streams[c], call_streams[k], s, k)
    BY <1>2, <2>1, NewStreamLinkFacts
  <2> USE DEF StreamLinked
  <2>3. GraphTypeOK'
    <3>1. streams' \subseteq Streams /\ own_streams' \in [Conns -> ArraysOf(MAX_OUTPUT, Streams)]
      BY <1>2, <2>1, <2>2 DEF GraphInv, GraphTypeOK
    <3>2. call_streams' \in [Calls -> ArraysOf(MAX_CALL_STREAMS, Streams)]
      BY <1>2, <2>2 DEF GraphInv, GraphTypeOK
    <3>3. owner' \in [Streams -> Conns \cup {NULL}] /\ stream_call' \in [Streams -> Calls \cup {NULL}]
      BY <1>2 DEF GraphInv, GraphTypeOK
    <3>4. QED BY <1>2, <3>1, <3>2, <3>3 DEF GraphInv, GraphTypeOK
  <2>4. FreedIsBlank'
    <3>1. \A x \in Conns \ connections' : /\ watch_streams'[x] = Empty(MAX_INPUT)
                                          /\ own_streams'[x] = Empty(MAX_OUTPUT)
                                          /\ conn_calls'[x] = Empty(MAX_CONNECTION_CALLS)
      BY <1>2, <2>1 DEF GraphInv, GraphTypeOK, FreedIsBlank
    <3>2. \A q \in Calls \ calls' : /\ participants'[q] = Empty(MAX_CALL_PARTICIPANTS)
                                    /\ call_streams'[q] = Empty(MAX_CALL_STREAMS)
      BY <1>2 DEF GraphInv, GraphTypeOK, FreedIsBlank
    <3>3. \A x \in Streams \ streams' : /\ recipients'[x] = Empty(STREAM_MAX_RECIPIENTS)
                                        /\ owner'[x] = NULL /\ stream_call'[x] = NULL
      BY <1>2, <2>2 DEF GraphInv, GraphTypeOK, FreedIsBlank
    <3>4. QED BY <3>1, <3>2, <3>3 DEF FreedIsBlank
  <2>5. NoDuplicatePointers'
    <3>1. \A x \in Conns : NoDuplicates(own_streams'[x])
      BY <1>2, <2>2 DEF GraphInv, GraphTypeOK, NoDuplicatePointers
    <3>2. \A q \in Calls : NoDuplicates(call_streams'[q])
      BY <1>2, <2>2 DEF GraphInv, GraphTypeOK, NoDuplicatePointers
    <3>3. QED BY <1>2, <3>1, <3>2 DEF GraphInv, NoDuplicatePointers
  <2>6. CallMembershipMutual' /\ WatchingMutual'
    BY <1>2 DEF GraphInv, CallMembershipMutual, WatchingMutual
  <2>7. OwnershipMutual'
    <3>1. \A x \in streams' : owner'[x] \in connections'
      BY <1>2, <2>1, <2>2 DEF GraphInv, GraphTypeOK, OwnershipMutual
    <3>2. ASSUME NEW d \in Conns, NEW x \in Streams
          PROVE  own_streams'[d][0] = x <=> x \in streams' /\ owner'[x] = d
      <4>1. own_streams[d][0] = x <=> x \in streams /\ owner[x] = d
        BY DEF GraphInv, OwnershipMutual
      <4>2. own_streams'[d] = IF d = c THEN l.near ELSE own_streams[d]
        BY <1>2 DEF GraphInv, GraphTypeOK
      <4>3. owner'[x] = IF x = s THEN (IF l.ok THEN c ELSE NULL) ELSE owner[x]
        BY <1>2 DEF GraphInv, GraphTypeOK
      <4>4. own_streams[d][0] # s
        BY <1>2 DEF GraphInv, OwnershipMutual
      <4>5. QED BY <1>2, <2>1, <2>2, <4>1, <4>2, <4>3, <4>4, Sizes
    <3>3. QED BY <3>1, <3>2 DEF OwnershipMutual
  <2>8. PrivateStreamInCall'
    <3> SUFFICES ASSUME NEW x \in streams', stream_call'[x] # NULL
                 PROVE  /\ stream_call'[x] \in calls'
                        /\ call_streams'[stream_call'[x]][0] = x
                        /\ Contains(participants'[stream_call'[x]], owner'[x])
      BY DEF PrivateStreamInCall
    <3>1. x \in Streams
      BY <2>3 DEF GraphTypeOK
    <3>2. /\ stream_call'[x] = IF x = s THEN (IF l.ok THEN k ELSE NULL) ELSE stream_call[x]
          /\ owner'[x] = IF x = s THEN (IF l.ok THEN c ELSE NULL) ELSE owner[x]
      BY <1>2, <3>1 DEF GraphInv, GraphTypeOK
    <3>3. CASE x = s
      <4>1. l.ok /\ k # NULL /\ stream_call'[x] = k /\ owner'[x] = c
        BY <3>2, <3>3
      <4>2. call_streams'[k] = l.far
        BY <1>2, <4>1 DEF GraphInv, GraphTypeOK
      <4>3. Contains(participants[k], c)
        BY <1>2, <4>1 DEF StreamAdmitted
      <4>4. QED BY <1>2, <2>2, <3>3, <4>1, <4>2, <4>3
    <3>4. CASE x # s
      <4>1. x \in streams /\ stream_call'[x] = stream_call[x] /\ owner'[x] = owner[x]
        BY <1>2, <3>2, <3>4
      <4>2. /\ stream_call[x] \in calls /\ stream_call[x] \in Calls
            /\ call_streams[stream_call[x]][0] = x
            /\ Contains(participants[stream_call[x]], owner[x])
        BY <4>1 DEF GraphInv, GraphTypeOK, PrivateStreamInCall
      <4>3. call_streams'[stream_call[x]][0] = x
        BY <1>2, <2>2, <3>1, <4>2, Sizes DEF GraphInv, GraphTypeOK
      <4>4. QED BY <1>2, <4>1, <4>2, <4>3
    <3>5. QED BY <3>3, <3>4
  <2>9. QED BY <2>3, <2>4, <2>5, <2>6, <2>7, <2>8 DEF GraphInv
<1>3. QED BY <1>1, <1>2 DEF StreamCreate, Refuse, Undefined, graph

\* handle_call_leave: a call is deleted only when no stream in it survives that
\* points to it, and the streams that stay in a call have their owners there.
LEMMA CallLeaveKeeps ==
  ASSUME GraphInv, NEW c \in Conns, NEW k \in Calls, CallLeave(c, k)
  PROVE  GraphInv'
<1>1. CASE UNCHANGED graph
  BY <1>1, UnchangedKeeps
<1>2. ASSUME NEW held, held = Members(call_streams[k]),
             NEW own, own = {s \in held : owner[s] = c},
             NEW left, left = Without(participants[k], {c}),
             NEW emptied \in BOOLEAN, emptied = (Members(left) = {}),
             NEW rest, k \in calls, held \subseteq streams,
             participants' = [participants EXCEPT ![k] = left],
             conn_calls' = [conn_calls EXCEPT ![c] = Without(conn_calls[c], {k})],
             stream_delete(own),
             calls' = calls \ IF emptied THEN {k} ELSE {},
             call_streams' = Blanked(CallStreamsWithout(own), IF emptied THEN {k} ELSE {},
                                     Empty(MAX_CALL_STREAMS)),
             stream_call' = Blanked(stream_call, own \cup rest, NULL),
             UNCHANGED <<connections, udp>>
      PROVE  GraphInv'
  <2>1. c \in connections /\ own \subseteq streams /\ k # NULL
    BY <1>2, Sizes DEF CallLeave, Request
  <2>2. /\ watch_streams' \in [Conns -> ArraysOf(MAX_INPUT, Streams)]
        /\ own_streams' \in [Conns -> ArraysOf(MAX_OUTPUT, Streams)]
        /\ recipients' \in [Streams -> ArraysOf(STREAM_MAX_RECIPIENTS, Conns)]
        /\ owner' \in [Streams -> Conns \cup {NULL}]
        /\ \A x \in Streams \ streams' : /\ recipients'[x] = Empty(STREAM_MAX_RECIPIENTS)
                                         /\ owner'[x] = NULL
        /\ \A x \in streams' : recipients'[x] = recipients[x] /\ owner'[x] = owner[x]
        /\ \A x \in Streams : NoDuplicates(recipients'[x])
        /\ WatchingMutual' /\ OwnershipMutual'
    BY <1>2, <2>1, StreamsDeleted
  <2>3. /\ streams' = streams \ own
        /\ watch_streams' = WatchedWithout(own) /\ own_streams' = OwnedWithout(own)
    BY <1>2 DEF stream_delete
  <2>4. stream_call' = [x \in Streams |-> IF x \in own \cup rest THEN NULL ELSE stream_call[x]]
    BY <1>2 DEF GraphInv, GraphTypeOK, Blanked
  <2>5. call_streams' = [q \in Calls |-> IF emptied /\ q = k THEN Empty(MAX_CALL_STREAMS)
                                         ELSE CallStreamsWithout(own)[q]]
    BY <1>2 DEF Blanked, CallStreamsWithout
  <2>6. /\ left \in ArraysOf(MAX_CALL_PARTICIPANTS, Conns) /\ NoDuplicates(left)
        /\ left[0] = IF participants[k][0] = c THEN NULL ELSE participants[k][0]
        /\ \A x : x # c /\ Contains(participants[k], x) => Contains(left, x)
    <3>1. /\ participants[k] \in ArraysOf(MAX_CALL_PARTICIPANTS, Conns)
          /\ NoDuplicates(participants[k])
      BY DEF GraphInv, GraphTypeOK, NoDuplicatePointers
    <3>2. \A i \in Slots(MAX_CALL_PARTICIPANTS) :
             left[i] = IF participants[k][i] \in {c} THEN NULL ELSE participants[k][i]
      BY <1>2, <3>1, Sizes, WithoutArray
    <3>3. left \in ArraysOf(MAX_CALL_PARTICIPANTS, Conns) /\ NoDuplicates(left)
      BY <1>2, <3>1, Sizes, WithoutArray
    <3>4. \A x : x # c /\ Contains(participants[k], x) => Contains(left, x)
      BY <3>1, <3>2, <3>3 DEF Contains, ArraysOf
    <3>5. QED BY <3>2, <3>3, <3>4, Sizes
  <2>7. /\ Without(conn_calls[c], {k}) \in ArraysOf(MAX_CONNECTION_CALLS, Calls)
        /\ NoDuplicates(Without(conn_calls[c], {k}))
        /\ Without(conn_calls[c], {k})[0] = IF conn_calls[c][0] = k THEN NULL ELSE conn_calls[c][0]
    BY Sizes, WithoutArray DEF GraphInv, GraphTypeOK, NoDuplicatePointers
  <2>8. /\ Empty(MAX_CALL_STREAMS) \in ArraysOf(MAX_CALL_STREAMS, Streams)
        /\ NoDuplicates(Empty(MAX_CALL_STREAMS))
    BY Sizes, EmptyArray
  <2>9. GraphTypeOK'
    <3>1. call_streams' \in [Calls -> ArraysOf(MAX_CALL_STREAMS, Streams)]
      BY <2>1, <2>5, <2>8, DeletedStreams
    <3>2. stream_call' \in [Streams -> Calls \cup {NULL}]
      BY <2>4 DEF GraphInv, GraphTypeOK
    <3>3. /\ participants' \in [Calls -> ArraysOf(MAX_CALL_PARTICIPANTS, Conns)]
          /\ conn_calls' \in [Conns -> ArraysOf(MAX_CONNECTION_CALLS, Calls)]
          /\ calls' \subseteq Calls
      BY <1>2, <2>6, <2>7 DEF GraphInv, GraphTypeOK
    <3>4. QED BY <1>2, <2>2, <2>3, <3>1, <3>2, <3>3 DEF GraphInv, GraphTypeOK
  <2>10. FreedIsBlank'
    <3>1. \A x \in Conns \ connections' : /\ watch_streams'[x] = Empty(MAX_INPUT)
                                          /\ own_streams'[x] = Empty(MAX_OUTPUT)
      BY <1>2, <2>1, <2>3, DeletedStreams DEF GraphInv, FreedIsBlank
    <3>2. \A x \in Conns \ connections' : conn_calls'[x] = Empty(MAX_CONNECTION_CALLS)
      BY <1>2, <2>1 DEF GraphInv, GraphTypeOK, FreedIsBlank
    <3>3. emptied => left = Empty(MAX_CALL_PARTICIPANTS)
      BY <1>2, <2>6 DEF Members, Empty, ArraysOf
    <3>4. \A q \in Calls \ calls' : participants'[q] = Empty(MAX_CALL_PARTICIPANTS)
      BY <1>2, <3>3 DEF GraphInv, GraphTypeOK, FreedIsBlank
    <3>5. \A q \in Calls \ calls' : call_streams'[q] = Empty(MAX_CALL_STREAMS)
      <4>1. \A q \in Calls \ calls : CallStreamsWithout(own)[q] = Empty(MAX_CALL_STREAMS)
        BY <2>1, DeletedStreams
      <4>2. QED BY <1>2, <2>5, <4>1
    <3>6. \A x \in Streams \ streams' : stream_call'[x] = NULL
      BY <2>3, <2>4 DEF GraphInv, FreedIsBlank
    <3>7. QED BY <2>2, <3>1, <3>2, <3>4, <3>5, <3>6 DEF FreedIsBlank
  <2>11. NoDuplicatePointers'
    <3>1. \A x \in Conns : NoDuplicates(watch_streams'[x]) /\ NoDuplicates(own_streams'[x])
      BY <2>1, <2>3, DeletedStreams
    <3>2. \A x \in Conns : NoDuplicates(conn_calls'[x])
      BY <1>2, <2>7 DEF GraphInv, GraphTypeOK, NoDuplicatePointers
    <3>3. \A q \in Calls : NoDuplicates(participants'[q])
      BY <1>2, <2>6 DEF GraphInv, GraphTypeOK, NoDuplicatePointers
    <3>4. \A q \in Calls : NoDuplicates(call_streams'[q])
      BY <2>1, <2>5, <2>8, DeletedStreams
    <3>5. QED BY <2>2, <3>1, <3>2, <3>3, <3>4 DEF NoDuplicatePointers
  <2>12. CallMembershipMutual'
    <3> SUFFICES ASSUME NEW x \in Conns, NEW q \in Calls
                 PROVE  participants'[q][0] = x <=> conn_calls'[x][0] = q
      BY DEF CallMembershipMutual
    <3>1. participants[q][0] = x <=> conn_calls[x][0] = q
      BY DEF GraphInv, CallMembershipMutual
    <3>2. /\ participants'[q] = IF q = k THEN left ELSE participants[q]
          /\ conn_calls'[x] = IF x = c THEN Without(conn_calls[c], {k}) ELSE conn_calls[x]
      BY <1>2 DEF GraphInv, GraphTypeOK
    <3>3. participants[k][0] = c <=> conn_calls[c][0] = k
      BY DEF GraphInv, CallMembershipMutual
    <3>4. QED BY <2>6, <2>7, <3>1, <3>2, <3>3, Sizes
  <2>13. PrivateStreamInCall'
    <3> SUFFICES ASSUME NEW x \in streams', stream_call'[x] # NULL
                 PROVE  /\ stream_call'[x] \in calls'
                        /\ call_streams'[stream_call'[x]][0] = x
                        /\ Contains(participants'[stream_call'[x]], owner'[x])
      BY DEF PrivateStreamInCall
    <3> DEFINE q == stream_call[x]
    <3>1. x \in streams \ own /\ x \in Streams /\ x # NULL /\ stream_call'[x] = q
      BY <2>3, <2>4, Sizes DEF GraphInv, GraphTypeOK
    <3>2. owner'[x] = owner[x]
      BY <2>2
    <3>3. /\ q \in calls /\ q \in Calls /\ call_streams[q][0] = x
          /\ Contains(participants[q], owner[x])
      BY <3>1 DEF GraphInv, GraphTypeOK, PrivateStreamInCall
    <3>4. CallStreamsWithout(own)[q][0] = x
      BY <2>1, <3>1, <3>3, DeletedStreams
    <3>5. participants'[q] = IF q = k THEN left ELSE participants[q]
      BY <1>2, <3>3 DEF GraphInv, GraphTypeOK
    <3> HIDE DEF q
    <3>6. CASE q # k
      BY <1>2, <2>5, <3>1, <3>2, <3>3, <3>4, <3>5, <3>6
    <3>7. CASE q = k
      <4>1. call_streams[k] \in ArraysOf(MAX_CALL_STREAMS, Streams)
        BY DEF GraphInv, GraphTypeOK
      <4>2. x \in held
        BY <1>2, <3>1, <3>3, <3>7, <4>1, Sizes DEF Members, ArraysOf
      <4>3. owner[x] # c
        BY <1>2, <3>1, <4>2
      <4>4. Contains(left, owner[x])
        BY <2>6, <3>3, <3>7, <4>3
      <4>5. owner[x] # NULL
        BY <3>1, Sizes DEF GraphInv, GraphTypeOK, OwnershipMutual
      <4>6. ~emptied
        BY <1>2, <4>4, <4>5 DEF Contains, Members
      <4>7. QED BY <1>2, <2>5, <3>1, <3>2, <3>3, <3>4, <3>5, <3>7, <4>4, <4>6
    <3>8. QED BY <3>6, <3>7
  <2>14. QED BY <2>2, <2>9, <2>10, <2>11, <2>12, <2>13 DEF GraphInv
<1>3. QED
  BY <1>1, <1>2 DEF CallLeave, StreamsOfLeaver, call_remove_participant, call_delete,
                    Refuse, Undefined, graph, Live

\* connection_delete: nothing that survives has the connection in slot 0, and
\* its own streams are among the deleted ones.
LEMMA ConnectionDeleteKeeps ==
  ASSUME GraphInv, NEW c \in Conns, c \in connections, ConnectionRefsLive(c),
         connection_delete(c)
  PROVE  GraphInv'
<1> DEFINE own == Members(own_streams[c])
<1>1. own \subseteq streams /\ Members(watch_streams[c]) \subseteq streams
  BY DEF ConnectionRefsLive, Live
<1>2. own \subseteq Streams
  BY <1>1 DEF GraphInv, GraphTypeOK
<1>3. \A s \in streams : owner[s] = c => s \in own
  BY Sizes DEF GraphInv, GraphTypeOK, OwnershipMutual, Members, ArraysOf
<1>4. \A s \in Streams : Contains(watch_streams[c], s) => s \in streams
  BY <1>1, Sizes DEF Members, Contains
<1>5. /\ connections' = connections \ {c} /\ streams' = streams \ own /\ calls' = calls
      /\ watch_streams' = [d \in Conns |-> IF d \in {c} THEN Empty(MAX_INPUT)
                                          ELSE WatchedWithout(own)[d]]
      /\ own_streams' = [d \in Conns |-> IF d \in {c} THEN Empty(MAX_OUTPUT)
                                        ELSE OwnedWithout(own)[d]]
      /\ conn_calls' = [d \in Conns |-> IF d \in {c} THEN Empty(MAX_CONNECTION_CALLS)
                                       ELSE conn_calls[d]]
      /\ udp' = [d \in Conns |-> IF d \in {c} THEN "unset" ELSE udp[d]]
  BY DEF GraphInv, GraphTypeOK, connection_delete, Blanked, WatchedWithout, OwnedWithout
<1>6. /\ owner' = [s \in Streams |-> IF s \in own THEN NULL ELSE owner[s]]
      /\ stream_call' = [s \in Streams |-> IF s \in own THEN NULL ELSE stream_call[s]]
      /\ call_streams' = CallStreamsWithout(own)
  BY DEF GraphInv, GraphTypeOK, connection_delete, Blanked
<1>7. /\ recipients' = [s \in Streams |->
           IF s \in own THEN Empty(STREAM_MAX_RECIPIENTS)
           ELSE IF Contains(watch_streams[c], s) THEN Without(recipients[s], {c})
           ELSE recipients[s]]
      /\ participants' = [k \in Calls |->
           IF Contains(conn_calls[c], k) THEN Without(participants[k], {c})
           ELSE participants[k]]
  BY DEF connection_delete, CallsLeft
<1>8. /\ Empty(MAX_INPUT) \in ArraysOf(MAX_INPUT, Streams)
      /\ Empty(MAX_OUTPUT) \in ArraysOf(MAX_OUTPUT, Streams)
      /\ Empty(MAX_CONNECTION_CALLS) \in ArraysOf(MAX_CONNECTION_CALLS, Calls)
      /\ Empty(STREAM_MAX_RECIPIENTS) \in ArraysOf(STREAM_MAX_RECIPIENTS, Conns)
      /\ NoDuplicates(Empty(MAX_INPUT)) /\ NoDuplicates(Empty(MAX_OUTPUT))
      /\ NoDuplicates(Empty(MAX_CONNECTION_CALLS)) /\ NoDuplicates(Empty(STREAM_MAX_RECIPIENTS))
      /\ Empty(MAX_INPUT)[0] = NULL /\ Empty(MAX_OUTPUT)[0] = NULL
      /\ Empty(MAX_CONNECTION_CALLS)[0] = NULL /\ Empty(STREAM_MAX_RECIPIENTS)[0] = NULL
  BY Sizes, EmptyArray
<1>9. ASSUME NEW s \in Streams
      PROVE  /\ Without(recipients[s], {c}) \in ArraysOf(STREAM_MAX_RECIPIENTS, Conns)
             /\ NoDuplicates(Without(recipients[s], {c}))
             /\ Without(recipients[s], {c})[0] = IF recipients[s][0] = c THEN NULL
                                                 ELSE recipients[s][0]
  BY Sizes, WithoutArray DEF GraphInv, GraphTypeOK, NoDuplicatePointers
<1>10. ASSUME NEW k \in Calls
       PROVE  /\ Without(participants[k], {c}) \in ArraysOf(MAX_CALL_PARTICIPANTS, Conns)
              /\ NoDuplicates(Without(participants[k], {c}))
              /\ Without(participants[k], {c})[0] = IF participants[k][0] = c THEN NULL
                                                    ELSE participants[k][0]
              /\ \A x : x # c /\ Contains(participants[k], x)
                           => Contains(Without(participants[k], {c}), x)
  <2>1. /\ participants[k] \in ArraysOf(MAX_CALL_PARTICIPANTS, Conns)
        /\ NoDuplicates(participants[k])
    BY DEF GraphInv, GraphTypeOK, NoDuplicatePointers
  <2>2. \A x : x # c /\ Contains(participants[k], x)
                => Contains(Without(participants[k], {c}), x)
    BY <2>1 DEF Contains, Without, ArraysOf
  <2>3. /\ Without(participants[k], {c}) \in ArraysOf(MAX_CALL_PARTICIPANTS, Conns)
        /\ NoDuplicates(Without(participants[k], {c}))
        /\ Without(participants[k], {c})[0] = IF participants[k][0] = c THEN NULL
                                              ELSE participants[k][0]
    BY <2>1, Sizes, WithoutArray
  <2>4. QED BY <2>2, <2>3
<1> HIDE DEF own
<1>11. GraphTypeOK'
  <2>1. connections' \subseteq Conns /\ streams' \subseteq Streams /\ calls' \subseteq Calls
    BY <1>5 DEF GraphInv, GraphTypeOK
  <2>2. /\ watch_streams' \in [Conns -> ArraysOf(MAX_INPUT, Streams)]
        /\ own_streams' \in [Conns -> ArraysOf(MAX_OUTPUT, Streams)]
    BY <1>1, <1>5, <1>8, DeletedStreams
  <2>3. /\ conn_calls' \in [Conns -> ArraysOf(MAX_CONNECTION_CALLS, Calls)]
        /\ udp' \in [Conns -> UdpStates]
    BY <1>5, <1>8 DEF GraphInv, GraphTypeOK, UdpStates
  <2>4. /\ owner' \in [Streams -> Conns \cup {NULL}]
        /\ stream_call' \in [Streams -> Calls \cup {NULL}]
    BY <1>6 DEF GraphInv, GraphTypeOK
  <2>5. /\ recipients' \in [Streams -> ArraysOf(STREAM_MAX_RECIPIENTS, Conns)]
        /\ participants' \in [Calls -> ArraysOf(MAX_CALL_PARTICIPANTS, Conns)]
    BY <1>7, <1>8, <1>9, <1>10 DEF GraphInv, GraphTypeOK
  <2>6. call_streams' \in [Calls -> ArraysOf(MAX_CALL_STREAMS, Streams)]
    BY <1>1, <1>6, DeletedStreams
  <2>7. QED BY <2>1, <2>2, <2>3, <2>4, <2>5, <2>6 DEF GraphTypeOK
<1>12. FreedIsBlank'
  <2>1. \A d \in Conns \ connections : /\ WatchedWithout(own)[d] = Empty(MAX_INPUT)
                                       /\ OwnedWithout(own)[d] = Empty(MAX_OUTPUT)
    BY <1>1, DeletedStreams
  <2>2. \A d \in Conns \ connections' : /\ watch_streams'[d] = Empty(MAX_INPUT)
                                        /\ own_streams'[d] = Empty(MAX_OUTPUT)
    BY <1>5, <2>1
  <2>3. \A d \in Conns \ connections' : conn_calls'[d] = Empty(MAX_CONNECTION_CALLS)
    BY <1>5 DEF GraphInv, FreedIsBlank
  <2>4. \A s \in Streams \ streams' : /\ recipients'[s] = Empty(STREAM_MAX_RECIPIENTS)
                                      /\ owner'[s] = NULL /\ stream_call'[s] = NULL
    BY <1>4, <1>5, <1>6, <1>7 DEF GraphInv, FreedIsBlank
  <2>5. \A k \in Calls \ calls' : participants'[k] = Empty(MAX_CALL_PARTICIPANTS)
    <3> SUFFICES ASSUME NEW k \in Calls \ calls
                 PROVE  participants'[k] = Empty(MAX_CALL_PARTICIPANTS)
      BY <1>5
    <3>1. participants[k] = Empty(MAX_CALL_PARTICIPANTS)
      BY DEF GraphInv, FreedIsBlank
    <3>2. Without(participants[k], {c}) = Empty(MAX_CALL_PARTICIPANTS)
      BY <3>1, Sizes DEF Without, Empty
    <3>3. QED BY <1>7, <3>1, <3>2
  <2>6. \A k \in Calls \ calls' : call_streams'[k] = Empty(MAX_CALL_STREAMS)
    <3>1. \A k \in Calls \ calls : CallStreamsWithout(own)[k] = Empty(MAX_CALL_STREAMS)
      BY <1>1, DeletedStreams
    <3>2. QED BY <1>5, <1>6, <3>1
  <2>7. QED BY <2>2, <2>3, <2>4, <2>5, <2>6 DEF FreedIsBlank
<1>13. NoDuplicatePointers'
  <2>1. \A d \in Conns : /\ NoDuplicates(WatchedWithout(own)[d])
                         /\ NoDuplicates(OwnedWithout(own)[d])
    BY <1>1, DeletedStreams
  <2>2. \A d \in Conns : NoDuplicates(watch_streams'[d]) /\ NoDuplicates(own_streams'[d])
    BY <1>5, <1>8, <2>1
  <2>3. \A d \in Conns : NoDuplicates(conn_calls'[d])
    BY <1>5, <1>8 DEF GraphInv, NoDuplicatePointers
  <2>4. \A s \in Streams : NoDuplicates(recipients'[s])
    BY <1>7, <1>8, <1>9 DEF GraphInv, NoDuplicatePointers
  <2>5. \A k \in Calls : NoDuplicates(participants'[k])
    BY <1>7, <1>10 DEF GraphInv, NoDuplicatePointers
  <2>6. \A k \in Calls : NoDuplicates(call_streams'[k])
    BY <1>1, <1>6, DeletedStreams
  <2>7. QED BY <2>2, <2>3, <2>4, <2>5, <2>6 DEF NoDuplicatePointers
<1>14. CallMembershipMutual'
  <2> SUFFICES ASSUME NEW d \in Conns, NEW k \in Calls
               PROVE  participants'[k][0] = d <=> conn_calls'[d][0] = k
    BY DEF CallMembershipMutual
  <2>1. /\ participants[k][0] = d <=> conn_calls[d][0] = k
        /\ participants[k][0] = c <=> conn_calls[c][0] = k
    BY DEF GraphInv, CallMembershipMutual
  <2>2. conn_calls[c][0] = k => Contains(conn_calls[c], k)
    BY Sizes DEF GraphInv, GraphTypeOK, Contains, ArraysOf
  <2>3. participants'[k][0] = IF participants[k][0] = c THEN NULL ELSE participants[k][0]
    BY <1>7, <1>10, <2>1, <2>2
  <2>4. conn_calls'[d][0] = IF d = c THEN NULL ELSE conn_calls[d][0]
    BY <1>5, <1>8
  <2>5. QED BY <2>1, <2>3, <2>4, Sizes
<1>15. WatchingMutual'
  <2> SUFFICES ASSUME NEW d \in Conns, NEW s \in Streams
               PROVE  recipients'[s][0] = d <=> watch_streams'[d][0] = s
    BY DEF WatchingMutual
  <2>1. /\ recipients[s][0] = d <=> watch_streams[d][0] = s
        /\ recipients[s][0] = c <=> watch_streams[c][0] = s
    BY DEF GraphInv, WatchingMutual
  <2>2. watch_streams[c][0] = s => Contains(watch_streams[c], s)
    BY Sizes DEF GraphInv, GraphTypeOK, Contains, ArraysOf
  <2>3. recipients'[s][0] = IF s \in own \/ recipients[s][0] = c THEN NULL
                            ELSE recipients[s][0]
    BY <1>7, <1>8, <1>9, <2>1, <2>2
  <2>4. WatchedWithout(own)[d][0] = IF watch_streams[d][0] \in own THEN NULL
                                    ELSE watch_streams[d][0]
    BY <1>1, DeletedStreams
  <2>5. watch_streams'[d][0] = IF d = c \/ watch_streams[d][0] \in own THEN NULL
                               ELSE watch_streams[d][0]
    BY <1>5, <1>8, <2>4
  <2>6. QED BY <2>1, <2>3, <2>5, Sizes
<1>16. OwnershipMutual'
  <2>1. \A s \in streams' : owner'[s] \in connections'
    BY <1>3, <1>5, <1>6 DEF GraphInv, GraphTypeOK, OwnershipMutual
  <2>2. ASSUME NEW d \in Conns, NEW s \in Streams
        PROVE  own_streams'[d][0] = s <=> s \in streams' /\ owner'[s] = d
    <3>1. own_streams[d][0] = s <=> s \in streams /\ owner[s] = d
      BY DEF GraphInv, OwnershipMutual
    <3>2. OwnedWithout(own)[d][0] = IF own_streams[d][0] \in own THEN NULL
                                    ELSE own_streams[d][0]
      BY <1>1, DeletedStreams
    <3>3. own_streams'[d][0] = IF d = c \/ own_streams[d][0] \in own THEN NULL
                               ELSE own_streams[d][0]
      BY <1>5, <1>8, <3>2
    <3>4. QED BY <1>3, <1>5, <1>6, <3>1, <3>3, Sizes
  <2>3. QED BY <2>1, <2>2 DEF OwnershipMutual
<1>17. PrivateStreamInCall'
  <2> SUFFICES ASSUME NEW x \in streams', stream_call'[x] # NULL
               PROVE  /\ stream_call'[x] \in calls'
                      /\ call_streams'[stream_call'[x]][0] = x
                      /\ Contains(participants'[stream_call'[x]], owner'[x])
    BY DEF PrivateStreamInCall
  <2> DEFINE q == stream_call[x]
  <2>1. x \in streams \ own /\ x \in Streams /\ stream_call'[x] = q /\ owner'[x] = owner[x]
    BY <1>5, <1>6 DEF GraphInv, GraphTypeOK
  <2>2. /\ q \in calls /\ q \in Calls /\ call_streams[q][0] = x
        /\ Contains(participants[q], owner[x])
    BY <2>1 DEF GraphInv, GraphTypeOK, PrivateStreamInCall
  <2>3. owner[x] # c
    BY <1>3, <2>1
  <2>4. call_streams'[q][0] = x
    BY <1>1, <1>6, <2>1, <2>2, DeletedStreams
  <2>5. Contains(participants'[q], owner[x])
    BY <1>7, <1>10, <2>2, <2>3
  <2>6. QED BY <1>5, <2>1, <2>2, <2>4, <2>5
<1>18. QED BY <1>11, <1>12, <1>13, <1>14, <1>15, <1>16, <1>17 DEF GraphInv

-----------------------------------------------------------------------------
(***************************************************************************)
(* The theorems.                                                           *)
(***************************************************************************)

\* An empty graph satisfies the invariant.
LEMMA InitKeeps ==
  ASSUME Init
  PROVE  IInv
<1> USE DEF Init, GraphInit
<1>1. /\ Empty(MAX_INPUT) \in ArraysOf(MAX_INPUT, Streams)
      /\ Empty(MAX_OUTPUT) \in ArraysOf(MAX_OUTPUT, Streams)
      /\ Empty(MAX_CONNECTION_CALLS) \in ArraysOf(MAX_CONNECTION_CALLS, Calls)
      /\ Empty(STREAM_MAX_RECIPIENTS) \in ArraysOf(STREAM_MAX_RECIPIENTS, Conns)
      /\ Empty(MAX_CALL_PARTICIPANTS) \in ArraysOf(MAX_CALL_PARTICIPANTS, Conns)
      /\ Empty(MAX_CALL_STREAMS) \in ArraysOf(MAX_CALL_STREAMS, Streams)
  BY Sizes, EmptyArray
<1>2. /\ NoDuplicates(Empty(MAX_INPUT)) /\ NoDuplicates(Empty(MAX_OUTPUT))
      /\ NoDuplicates(Empty(MAX_CONNECTION_CALLS))
      /\ NoDuplicates(Empty(STREAM_MAX_RECIPIENTS))
      /\ NoDuplicates(Empty(MAX_CALL_PARTICIPANTS)) /\ NoDuplicates(Empty(MAX_CALL_STREAMS))
  BY Sizes, EmptyArray
<1>3. /\ Empty(MAX_INPUT)[0] = NULL /\ Empty(MAX_OUTPUT)[0] = NULL
      /\ Empty(MAX_CONNECTION_CALLS)[0] = NULL /\ Empty(STREAM_MAX_RECIPIENTS)[0] = NULL
      /\ Empty(MAX_CALL_PARTICIPANTS)[0] = NULL
  BY Sizes, EmptyArray
<1>4. TypeOK
  BY <1>1 DEF TypeOK, GraphTypeOK, UdpStates, Phases, Replies
<1>5. FreedIsBlank
  BY DEF FreedIsBlank
<1>6. NoDuplicatePointers
  BY <1>2 DEF NoDuplicatePointers
<1>7. CallMembershipMutual
  BY <1>3, Sizes DEF CallMembershipMutual
<1>8. WatchingMutual
  BY <1>3, Sizes DEF WatchingMutual
<1>9. OwnershipMutual
  BY <1>3, Sizes DEF OwnershipMutual
<1>10. PrivateStreamInCall
  BY DEF PrivateStreamInCall
<1>11. QED BY <1>4, <1>5, <1>6, <1>7, <1>8, <1>9, <1>10 DEF IInv

\* Every step of the server, or none, keeps the graph part of the invariant.
LEMMA NextKeeps ==
  ASSUME GraphInv, [Next]_vars
  PROVE  GraphInv'
<1>1. CASE UNCHANGED graph
  BY <1>1, UnchangedKeeps
<1>2. ASSUME NEW c \in Conns, ConnectionStep(c)
      PROVE  GraphInv'
  <2>1. CASE Accept(c)
    BY <2>1, AcceptKeeps
  <2>2. CASE Close(c) \/ CloseNext(c)
    <3>1. CASE UNCHANGED graph
      BY <3>1, UnchangedKeeps
    <3>2. CASE c \in connections /\ ConnectionRefsLive(c) /\ connection_delete(c)
      BY <3>2, ConnectionDeleteKeeps
    <3>3. QED BY <2>2, <3>1, <3>2 DEF Close, CloseNext, Request, Undefined, graph
  <2>3. CASE UdpHandshake(c)
    BY <2>3, UdpHandshakeKeeps
  <2>4. CASE CallCreate(c)
    BY <2>4, CallCreateKeeps
  <2>5. ASSUME NEW k \in Calls, CallJoin(c, k)
        PROVE  GraphInv'
    BY <2>5, CallJoinKeeps
  <2>6. ASSUME NEW k \in Calls, CallLeave(c, k)
        PROVE  GraphInv'
    BY <2>6, CallLeaveKeeps
  <2>7. ASSUME NEW k \in Calls \cup {NULL}, StreamCreate(c, k)
        PROVE  GraphInv'
    BY <2>7, StreamCreateKeeps
  <2>8. ASSUME NEW s \in Streams, StreamDelete(c, s)
        PROVE  GraphInv'
    BY <2>8, StreamDeleteKeeps
  <2>9. ASSUME NEW s \in Streams, StreamJoin(c, s)
        PROVE  GraphInv'
    BY <2>9, StreamJoinKeeps
  <2>10. ASSUME NEW s \in Streams, StreamLeave(c, s)
         PROVE  GraphInv'
    <3>1. CASE UNCHANGED graph
      BY <3>1, UnchangedKeeps
    <3>2. CASE ~UNCHANGED graph
      <4>1. s \in streams /\ c \in connections
        BY <2>10, <3>2 DEF StreamLeave, Request, Refuse
      <4>2. /\ recipients' = [recipients EXCEPT ![s] = Without(recipients[s], {c})]
            /\ watch_streams' = [watch_streams EXCEPT ![c] = Without(watch_streams[c], {s})]
            /\ UNCHANGED <<connections, streams, calls, own_streams, conn_calls, udp,
                           owner, stream_call, participants, call_streams>>
        BY <2>10, <3>2 DEF StreamLeave, stream_remove_recipient, Refuse, Undefined
      <4>3. QED BY <4>1, <4>2, StreamLeaveKeeps
    <3>3. QED BY <3>1, <3>2
  <2>11. QED BY <1>2, <2>1, <2>2, <2>3, <2>4, <2>5, <2>6, <2>7, <2>8, <2>9, <2>10
             DEF ConnectionStep
<1>3. ASSUME NEW s \in Streams, RelayPacket(s)
      PROVE  UNCHANGED graph
  BY <1>3 DEF RelayPacket, Undefined, graph
<1>4. CASE PeriodicCheck \/ Shutdown \/ AllClosed \/ Ended \/ UNCHANGED vars
  <2>1. UNCHANGED graph
    BY <1>4 DEF PeriodicCheck, Shutdown, AllClosed, Ended, Undefined, vars, graph
  <2>2. QED BY <1>1, <2>1
<1>5. QED BY <1>1, <1>2, <1>3, <1>4 DEF Next

\* A step changes phase and reply within their types, and nobody connects to a
\* server that has stopped.
LEMMA PhasesKeep ==
  ASSUME IInv, [Next]_vars
  PROVE  /\ phase' \in Phases /\ reply' \in Replies
         /\ phase' = "stopped" => connections' = {}
<1>1. CASE UNCHANGED vars
  BY <1>1 DEF IInv, TypeOK, vars, graph
<1>2. ASSUME NEW c \in Conns, ConnectionStep(c)
      PROVE  phase' \in {phase, "undefined"} /\ phase \in {"serving", "closing"}
             /\ reply' \in Replies
  BY <1>2, ZenonT(30)
     DEF IInv, TypeOK, Replies, ConnectionStep, Accept, Close, UdpHandshake, CallCreate,
              CloseNext, CallJoin, CallLeave, StreamCreate, StreamDelete, StreamJoin,
              StreamLeave, Request, Serving, Undefined, Refuse, Answer, NoReply
<1>3. ASSUME NEW s \in Streams, RelayPacket(s)
      PROVE  phase' = "undefined" /\ reply' \in Replies
  BY <1>3 DEF IInv, TypeOK, RelayPacket, Undefined
<1>4. CASE PeriodicCheck \/ Shutdown \/ AllClosed \/ Ended
  BY <1>4 DEF IInv, TypeOK, Phases, Replies, PeriodicCheck, Shutdown, AllClosed, Ended,
              Undefined, Serving, vars, graph
<1>5. QED BY <1>1, <1>2, <1>3, <1>4 DEF Next, Phases, IInv, TypeOK

\* IInv is an inductive invariant: whatever requests, disconnects, address
\* reuse and integrity checks occur, and whatever the sizes of the arrays.
THEOREM Invariance == Spec => []IInv
<1>1. Init => IInv
  BY InitKeeps
<1>2. IInv /\ [Next]_vars => IInv'
  <2> SUFFICES ASSUME IInv, [Next]_vars PROVE IInv'
    OBVIOUS
  <2>1. GraphInv'
    BY NextKeeps DEF IInv, TypeOK, GraphInv
  <2>2. /\ phase' \in Phases /\ reply' \in Replies
        /\ phase' = "stopped" => connections' = {}
    BY PhasesKeep
  <2>3. QED BY <2>1, <2>2 DEF IInv, TypeOK, GraphInv
<1>3. QED BY <1>1, <1>2, PTL DEF Spec

\* The two ends of a link in slot 0 never come apart: participants of calls.
THEOREM CallMembershipIsMutual == Spec => []CallMembershipMutual
<1>1. IInv => CallMembershipMutual
  BY DEF IInv
<1>2. QED BY <1>1, Invariance, PTL

\* The same for the recipients of streams.
THEOREM WatchingIsMutual == Spec => []WatchingMutual
<1>1. IInv => WatchingMutual
  BY DEF IInv
<1>2. QED BY <1>1, Invariance, PTL

\* Every stream has a live owner that can find it to delete it.
THEOREM OwnershipIsMutual == Spec => []OwnershipMutual
<1>1. IInv => OwnershipMutual
  BY DEF IInv
<1>2. QED BY <1>1, Invariance, PTL

\* A private stream never outlives its call, nor its owner's membership in it.
THEOREM PrivateStreamsStayInCall == Spec => []PrivateStreamInCall
<1>1. IInv => PrivateStreamInCall
  BY DEF IInv
<1>2. QED BY <1>1, Invariance, PTL

\* No array ever holds an address twice, reused addresses included.
THEOREM NoPointerIsDuplicated == Spec => []NoDuplicatePointers
<1>1. IInv => NoDuplicatePointers
  BY DEF IInv
<1>2. QED BY <1>1, Invariance, PTL

\* main() returns with no stream left: a stream needs a live owner.
THEOREM StoppedIsEmpty == Spec => []NothingLeftBehind
<1>1. IInv => NothingLeftBehind
  BY DEF IInv, NothingLeftBehind, OwnershipMutual
<1>2. QED BY <1>1, Invariance, PTL
=============================================================================
