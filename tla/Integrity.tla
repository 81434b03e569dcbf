----------------------------- MODULE Integrity ------------------------------
(***************************************************************************)
(* What check_all_integrity of integrity_check.h finds, and when.          *)
(*                                                                         *)
(* The check asks of every pointer of a live object whether there is one   *)
(* back.  It can fail, and a handler can follow a pointer to a freed       *)
(* object, in a single way: a request was refused half-way, and one end of *)
(* the link kept its pointer.  As long as this has not happened, the       *)
(* server is clean, and this module says what holds of it then.            *)
(*                                                                         *)
(* The steps are those of Conference; clean is a history variable.         *)
(***************************************************************************)
EXTENDS Conference

VARIABLE clean     \* no request that was refused has changed an object

ivars == <<vars, clean>>

StaysClean == clean' = (clean /\ (reply' = "error" => UNCHANGED graph))

IntegrityInit == Init /\ clean = TRUE
IntegrityNext == Next /\ StaysClean
IntegritySpec == IntegrityInit /\ [][IntegrityNext]_ivars

-----------------------------------------------------------------------------
(***************************************************************************)
(* The three parts of check_all_integrity, for an object of each kind.     *)
(* They follow every pointer of the object, so they are defined only if    *)
(* EveryRefLive.                                                           *)
(***************************************************************************)
call_intact(k) ==
  /\ \A c \in Members(participants[k]) : Contains(conn_calls[c], k)
  /\ \A s \in Members(call_streams[k]) : stream_call[s] = k

stream_intact(s) ==
  /\ owner[s] # NULL /\ Contains(own_streams[owner[s]], s)
  /\ \A c \in Members(recipients[s]) : Contains(watch_streams[c], s)
  /\ \A k \in CallsOf({s}) : Contains(call_streams[k], s)

connection_intact(c) ==
  /\ \A s \in Members(own_streams[c]) : owner[s] = c
  /\ \A s \in Members(watch_streams[c]) : Contains(recipients[s], c)
  /\ \A k \in Members(conn_calls[c]) : Contains(participants[k], c)

check_all_integrity ==
  /\ \A k \in calls : call_intact(k)
  /\ \A s \in streams : stream_intact(s)
  /\ \A c \in connections : connection_intact(c)

-----------------------------------------------------------------------------
(***************************************************************************)
(* Safety of a clean server.                                               *)
(***************************************************************************)
\* No handler, no packet, no check and no shutdown has followed a pointer to a
\* freed object: whatever was deleted, by whom and in which order, nobody was
\* left pointing to it.
CleanIsDefined == clean => phase # "undefined"

\* The integrity check, whenever it runs, meets live objects only and passes.
CleanPasses == clean => EveryRefLive /\ check_all_integrity

\* A stream that stays keeps its owner and its call: no call that ends makes a
\* private stream public.  (Of a server that is not clean this is not true.)
CleanStreamsStay ==
  [][clean' => \A s \in streams \cap streams' :
                  owner'[s] = owner[s] /\ stream_call'[s] = stream_call[s]]_ivars

\* It takes a request for a second one to end this: of a client that is in a call,
\* watches or owns a stream already, or about a call or stream whose first slot
\* is taken.  The latter may be the first request of a client that keeps to one
\* of each.
AsksForASecond ==
  \E c \in Conns :
    \/ CallCreate(c) /\ conn_calls[c][0] # NULL
    \/ \E k \in Calls : CallJoin(c, k) /\ ~(conn_calls[c][0] = NULL /\ participants[k][0] = NULL)
    \/ \E k \in Calls : StreamCreate(c, k) /\ ~(own_streams[c][0] = NULL /\ call_streams[k][0] = NULL)
    \/ StreamCreate(c, NULL) /\ own_streams[c][0] # NULL
    \/ \E s \in Streams : StreamJoin(c, s) /\ ~(watch_streams[c][0] = NULL /\ recipients[s][0] = NULL)

OnlySecondsSpoil == [][clean /\ ~clean' => AsksForASecond]_ivars

\* The inductive invariant: a clean server uses the slots 0 only, and those of
\* calls agree with their streams as well.
OnlyFirst(arrays) == \A x \in DOMAIN arrays : \A i \in DOMAIN arrays[x] \ {0} : arrays[x][i] = NULL

OnlyFirstSlots ==
  /\ OnlyFirst(watch_streams) /\ OnlyFirst(own_streams) /\ OnlyFirst(conn_calls)
  /\ OnlyFirst(recipients) /\ OnlyFirst(participants) /\ OnlyFirst(call_streams)

CallStreamsMutual ==
  \A k \in Calls, s \in Streams : call_streams[k][0] = s <=> stream_call[s] = k

CleanInv ==
  /\ IInv /\ clean \in BOOLEAN
  /\ clean => OnlyFirstSlots /\ CallStreamsMutual /\ phase # "undefined"
=============================================================================
