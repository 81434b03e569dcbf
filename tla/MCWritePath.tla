---------------------------- MODULE MCWritePath -----------------------------
(* WritePath for TLC, with messages of 1, 2 and 3 bytes, all different. *)
EXTENDS WritePath

SomeAnswers == {<<1>>, <<2, 3>>, <<4, 5, 6>>}
=============================================================================
