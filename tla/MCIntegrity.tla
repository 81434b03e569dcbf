---------------------------- MODULE MCIntegrity -----------------------------
(* Integrity on a few addresses, for TLC. *)
EXTENDS Integrity, TLC

Symmetry == Permutations(Conns) \cup Permutations(Streams) \cup Permutations(Calls)

\* A state without the last answer.  No step reads an earlier answer, and what
\* the properties say of answers they say of the one a step gives, so states that
\* differ in it only need not be told apart.
ButForReply == <<graph, phase, clean>>
=============================================================================
