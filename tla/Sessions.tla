------------------------------ MODULE Sessions ------------------------------
(***************************************************************************)
(* What the conference server amounts to for its clients: who is connected *)
(* (present), who publishes a stream (owner), who watches it (viewer) and  *)
(* who is in a call (member).  There are no arrays, no pointers and no     *)
(* addresses here.                                                         *)
(*                                                                         *)
(* These are the links that the server has granted, in slot 0 of the       *)
(* arrays: the callers of DENSE_ARRAY_ADD take every index but 0 for a     *)
(* failure, so a client is granted one stream, one to watch and one call   *)
(* at a time.  A refused request can leave a link in another slot.  Those  *)
(* are not seen here, though the relay serves the clients in them, but for *)
(* one trace: a client who asked for a second stream is spoilt, and when   *)
(* it goes, it may take streams of others along.                           *)
(*                                                                         *)
(* Conference implements this specification.                               *)
(***************************************************************************)
CONSTANTS Conns, Streams, Calls, NULL

VARIABLES present, owner, viewer, member, spoilt

svars == <<present, owner, viewer, member, spoilt>>

Published  == {s \in Streams : owner[s] # NULL}
Owned(c)   == {s \in Streams : owner[s] = c}
Watched(c) == {s \in Streams : viewer[s] = c}
Joined(c)  == {k \in Calls : member[k] = c}

Dropped(field, D) == [x \in DOMAIN field |-> IF x \in D THEN NULL ELSE field[x]]

Init ==
  /\ present = {} /\ spoilt = {}
  /\ owner = [s \in Streams |-> NULL] /\ viewer = [s \in Streams |-> NULL]
  /\ member = [k \in Calls |-> NULL]

-----------------------------------------------------------------------------
\* A client connects.
Come(c) ==
  /\ c \notin present /\ present' = present \cup {c}
  /\ UNCHANGED <<owner, viewer, member, spoilt>>

\* A client is disconnected, and takes the streams in D along.
Go(c, D) ==
  /\ c \in present
  /\ Owned(c) \subseteq D /\ D \subseteq Published
  /\ c \notin spoilt => D = Owned(c)
  /\ present' = present \ {c} /\ spoilt' = spoilt \ {c}
  /\ owner' = Dropped(owner, D)
  /\ viewer' = Dropped(viewer, D \cup Watched(c))
  /\ member' = Dropped(member, Joined(c))

Publish(c, s) ==
  /\ c \in present /\ Owned(c) = {} /\ s \notin Published
  /\ owner' = [owner EXCEPT ![s] = c]
  /\ UNCHANGED <<present, viewer, member, spoilt>>

PublishInVain(c) ==
  /\ c \in present /\ Owned(c) # {}
  /\ spoilt' = spoilt \cup {c}
  /\ UNCHANGED <<present, owner, viewer, member>>

Retract(c, s) ==
  /\ c \in present /\ s \in Owned(c)
  /\ owner' = Dropped(owner, {s}) /\ viewer' = Dropped(viewer, {s})
  /\ UNCHANGED <<present, member, spoilt>>

Watch(c, s) ==
  /\ c \in present /\ Watched(c) = {} /\ s \in Published /\ viewer[s] = NULL
  /\ viewer' = [viewer EXCEPT ![s] = c]
  /\ UNCHANGED <<present, owner, member, spoilt>>

Unwatch(c, s) ==
  /\ c \in present /\ s \in Watched(c)
  /\ viewer' = Dropped(viewer, {s})
  /\ UNCHANGED <<present, owner, member, spoilt>>

Enter(c, k) ==
  /\ c \in present /\ Joined(c) = {} /\ member[k] = NULL
  /\ member' = [member EXCEPT ![k] = c]
  /\ UNCHANGED <<present, owner, viewer, spoilt>>

\* Who leaves a call retracts the stream that he publishes in it.  A client that
\* was refused may leave the call as well.
Exit(c, k, D) ==
  /\ c \in present /\ D \subseteq Owned(c)
  /\ owner' = Dropped(owner, D) /\ viewer' = Dropped(viewer, D)
  /\ member' = Dropped(member, {k} \cap Joined(c))
  /\ UNCHANGED <<present, spoilt>>

-----------------------------------------------------------------------------
Next ==
  \E c \in Conns :
    \/ Come(c) \/ PublishInVain(c)
    \/ \E D \in SUBSET Streams : Go(c, D) \/ \E k \in Calls : Exit(c, k, D)
    \/ \E s \in Streams : Publish(c, s) \/ Retract(c, s) \/ Watch(c, s) \/ Unwatch(c, s)
    \/ \E k \in Calls : Enter(c, k)

Spec == Init /\ [][Next]_svars

=============================================================================
