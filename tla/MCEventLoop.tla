---------------------------- MODULE MCEventLoop ----------------------------
(* EventLoop for TLC. *)
EXTENDS EventLoop

CONSTANTS a, b, c     \* two clients on one host, and one on another

MCHostOf == [x \in {a, b, c} |-> IF x = c THEN "h2" ELSE "h1"]
=============================================================================
