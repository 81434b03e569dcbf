-------------------------- MODULE MCNotifications ---------------------------
(* Notifications on a few addresses, for TLC. *)
EXTENDS Notifications, TLC

Symmetry == Permutations(Conns) \cup Permutations(Streams) \cup Permutations(Calls)
=============================================================================
