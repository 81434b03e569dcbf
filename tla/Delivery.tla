------------------------------ MODULE Delivery ------------------------------
(***************************************************************************)
(* What either end of a connection may expect of the other: as long as a   *)
(* sender is orderly, what was delivered is a beginning of what was sent,  *)
(* and all of it is delivered in the end.  Nothing is promised to a sender *)
(* that is not.                                                            *)
(*                                                                         *)
(* The stream consists of units; a sender adds a message, which is a       *)
(* sequence of units.  Framing implements this for the requests of a       *)
(* client, whose units are whole messages, WritePath for the answers of    *)
(* the server, whose units are bytes.  When a sender is orderly is for     *)
(* them to say.                                                            *)
(***************************************************************************)
EXTENDS Integers, Sequences

CONSTANT Messages    \* what can be sent at once

VARIABLES sent, delivered, orderly

vars == <<sent, delivered, orderly>>

Init == sent = <<>> /\ delivered = <<>> /\ orderly = TRUE

\* A message may be the one too many.
Send(m) ==
  /\ sent' = sent \o m
  /\ orderly' \in {orderly, FALSE}
  /\ UNCHANGED delivered

\* The sender, or the receiver, leaves.
Leave == orderly' = FALSE /\ UNCHANGED <<sent, delivered>>

Deliver ==
  /\ orderly
  /\ \E n \in 1 .. Len(sent) - Len(delivered) :
       delivered' = SubSeq(sent, 1, Len(delivered) + n)
  /\ UNCHANGED <<sent, orderly>>

\* Anything may become of the messages of a sender that is not orderly.
Disorder == ~orderly /\ UNCHANGED <<sent, orderly>>

Next == (\E m \in Messages : Send(m)) \/ Leave \/ Deliver \/ Disorder

Spec == Init /\ [][Next]_vars

FairSpec == Spec /\ WF_vars(Deliver)
=============================================================================
