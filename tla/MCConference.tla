---------------------------- MODULE MCConference ----------------------------
(* Conference on a few addresses, for TLC. *)
EXTENDS Conference, TLC

Symmetry == Permutations(Conns) \cup Permutations(Streams) \cup Permutations(Calls)
=============================================================================
