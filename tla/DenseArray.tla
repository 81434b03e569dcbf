----------------------------- MODULE DenseArray -----------------------------
(***************************************************************************)
(* The "dense arrays" of src/src/dense_array.h: a fixed number of pointer  *)
(* slots, numbered from 0, in which NULL marks a free slot.  The macros    *)
(* are used by every link between connections, streams and calls.          *)
(*                                                                         *)
(* An array is a function from 0 .. n-1.  A macro that changes its array   *)
(* and also returns an index is split into the array it leaves (Added,     *)
(* Removed) and the index it returns (AddIndex).                           *)
(***************************************************************************)
EXTENDS Integers

CONSTANT NULL

Slots(n) == 0 .. n-1

\* DENSE_ARRAY_INIT: every slot is set to NULL.
Empty(n) == [i \in Slots(n) |-> NULL]

ArraysOf(n, S) == [Slots(n) -> S \cup {NULL}]

Members(a) == {a[i] : i \in DOMAIN a} \ {NULL}

Contains(a, x) == \E i \in DOMAIN a : a[i] = x

HasRoom(a) == Contains(a, NULL)

\* DENSE_ARRAY_INDEX_OF, for an element the array contains: the lowest slot.
IndexOf(a, x) == CHOOSE i \in DOMAIN a : /\ a[i] = x
                                         /\ \A j \in DOMAIN a : a[j] = x => i <= j

\* Mutant: the number of the slot is counted from 1.
SlotNumber(a) == IF HasRoom(a) THEN IndexOf(a, NULL) + 1 ELSE -1

\* DENSE_ARRAY_ADD: the lowest free slot takes the element; a full array is
\* left alone.  Its value is the index of that slot, or -1.
Added(a, x)   == IF HasRoom(a) THEN [a EXCEPT ![IndexOf(a, NULL)] = x] ELSE a
AddIndex(a)   == IF HasRoom(a) THEN IndexOf(a, NULL) ELSE -1

\* DENSE_ARRAY_REMOVE: the lowest slot that holds the element becomes free.
Removed(a, x) == IF Contains(a, x) THEN [a EXCEPT ![IndexOf(a, x)] = NULL] ELSE a

\* Removing each element of X in turn, from an array without duplicates.
Without(a, X) == [i \in DOMAIN a |-> IF a[i] \in X THEN NULL ELSE a[i]]

NoDuplicates(a) == \A i, j \in DOMAIN a : a[i] = a[j] /\ a[i] # NULL => i = j
=============================================================================
