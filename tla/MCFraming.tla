----------------------------- MODULE MCFraming ------------------------------
(* Framing for TLC, with messages of 1, 2 and 3 bytes. *)
EXTENDS Framing

\* Without payload, with an identifier (one that looks like types, too), and a
\* report with a text that the resolver takes for a message of 2 bytes.
SomeRequests == {<<1>>, <<3, 0, 1>>, <<3, 3, 3>>, <<2, 0, 1>>}

\* Requests of known size only.
SizedRequests == {<<1>>, <<3, 0, 1>>, <<3, 3, 3>>}
=============================================================================
