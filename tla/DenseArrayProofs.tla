-------------------------- MODULE DenseArrayProofs --------------------------
(***************************************************************************)
(* What the dense-array macros do to an array, for every array size: the   *)
(* facts the proofs about the object graph rest on.                        *)
(***************************************************************************)
EXTENDS DenseArray, WellFoundedInduction, TLAPS

\* A non-empty set of naturals has a least element.
LEMMA LeastNatural ==
  ASSUME NEW T, T \subseteq Nat, T # {}
  PROVE  \E x \in T : \A y \in T : x <= y
<1> DEFINE R == {p \in Nat \X Nat : p[1] < p[2]}
<1>1. OpToRel(<, Nat) = R
  BY DEF OpToRel
<1>2. IsWellFoundedOn(R, Nat)
  BY <1>1, NatLessThanWellFounded
<1>3. PICK x \in T : \A y \in T : ~ (<<y, x>> \in R)
  BY <1>2, WFMin
<1>4. \A y \in T : x \in Nat /\ y \in Nat /\ ~(y < x)
  BY <1>3
<1>5. QED BY <1>4

\* DENSE_ARRAY_INDEX_OF finds the lowest slot that holds the element.
LEMMA IndexOfIsLowest ==
  ASSUME NEW n \in Nat, NEW a, DOMAIN a = Slots(n), NEW x, Contains(a, x)
  PROVE  /\ IndexOf(a, x) \in Slots(n)
         /\ a[IndexOf(a, x)] = x
         /\ \A j \in Slots(n) : a[j] = x => IndexOf(a, x) <= j
<1> DEFINE T == {i \in Slots(n) : a[i] = x}
<1>1. T \subseteq Nat /\ T # {}
  BY DEF Contains, Slots
<1>2. PICK i \in T : \A j \in T : i <= j
  BY <1>1, LeastNatural
<1>3. \E k \in DOMAIN a : a[k] = x /\ \A j \in DOMAIN a : a[j] = x => k <= j
  BY <1>2
<1>4. QED BY <1>3 DEF IndexOf

\* DENSE_ARRAY_ADD returns 0 exactly when slot 0 is free; it then fills slot 0
\* and otherwise leaves it alone.
LEMMA AddIndexZero ==
  ASSUME NEW n \in Nat \ {0}, NEW a, DOMAIN a = Slots(n)
  PROVE  AddIndex(a) = 0 <=> a[0] = NULL
<1>1. 0 \in Slots(n) /\ Slots(n) \subseteq Nat
  BY DEF Slots
<1>2. CASE a[0] = NULL
  <2>1. HasRoom(a)
    BY <1>1, <1>2 DEF HasRoom, Contains
  <2>2. IndexOf(a, NULL) \in Slots(n) /\ IndexOf(a, NULL) <= 0
    BY <2>1, <1>1, <1>2, IndexOfIsLowest DEF HasRoom
  <2>3. QED BY <2>1, <2>2, <1>1, <1>2 DEF AddIndex
<1>3. CASE a[0] # NULL
  <2>1. HasRoom(a) => IndexOf(a, NULL) # 0
    BY <1>3, IndexOfIsLowest DEF HasRoom
  <2>2. QED BY <2>1, <1>3 DEF AddIndex
<1>4. QED BY <1>2, <1>3

\* Adding an element to an array keeps its type, every pointer it holds and, if
\* the element is new, the absence of duplicates.
LEMMA AddedArray ==
  ASSUME NEW n \in Nat \ {0}, NEW S, NULL \notin S, NEW a \in ArraysOf(n, S), NEW x \in S
  PROVE  /\ Added(a, x) \in ArraysOf(n, S)
         /\ a[0] = NULL => Added(a, x) = [a EXCEPT ![0] = x]
         /\ a[0] # NULL => Added(a, x)[0] = a[0]
         /\ \A i \in Slots(n) : a[i] # NULL => Added(a, x)[i] = a[i]
         /\ NoDuplicates(a) /\ ~Contains(a, x) => NoDuplicates(Added(a, x))
<1> DEFINE i0 == IndexOf(a, NULL)
<1>1. DOMAIN a = Slots(n) /\ 0 \in Slots(n)
  BY DEF ArraysOf, Slots
<1>2. CASE ~HasRoom(a)
  BY <1>1, <1>2 DEF Added, HasRoom, Contains
<1>3. CASE HasRoom(a)
  <2>1. Added(a, x) = [a EXCEPT ![i0] = x]
    BY <1>3 DEF Added
  <2>2. i0 \in Slots(n) /\ a[i0] = NULL
    BY <1>1, <1>3, IndexOfIsLowest DEF HasRoom
  <2>3. a[0] = NULL => i0 = 0
    BY <1>1, <1>3, AddIndexZero DEF AddIndex
  <2> HIDE DEF i0
  <2>4. Added(a, x) \in ArraysOf(n, S)
    BY <2>1, <2>2 DEF ArraysOf
  <2>5. \A i \in Slots(n) : Added(a, x)[i] = IF i = i0 THEN x ELSE a[i]
    BY <2>1, <1>1
  <2>6. NoDuplicates(a) /\ ~Contains(a, x) => NoDuplicates(Added(a, x))
    BY <2>4, <2>5, <1>1 DEF NoDuplicates, Contains, ArraysOf
  <2>7. QED BY <2>1, <2>2, <2>3, <2>4, <2>5, <2>6, <1>1
<1>4. QED BY <1>2, <1>3

\* Removing a set of elements keeps the type of an array and the absence of
\* duplicates.
LEMMA WithoutArray ==
  ASSUME NEW n \in Nat, NEW S, NEW a \in ArraysOf(n, S), NEW X
  PROVE  /\ Without(a, X) \in ArraysOf(n, S)
         /\ \A i \in Slots(n) : Without(a, X)[i] = IF a[i] \in X THEN NULL ELSE a[i]
         /\ NoDuplicates(a) => NoDuplicates(Without(a, X))
BY DEF Without, ArraysOf, NoDuplicates

\* DENSE_ARRAY_REMOVE clears the first occurrence only; in an array without
\* duplicates that removes the element.
LEMMA RemovedIsWithout ==
  ASSUME NEW n \in Nat, NEW S, NEW a \in ArraysOf(n, S), NEW x, x # NULL,
         NoDuplicates(a)
  PROVE  Removed(a, x) = Without(a, {x})
<1>1. DOMAIN a = Slots(n)
  BY DEF ArraysOf
<1>2. CASE ~Contains(a, x)
  BY <1>1, <1>2 DEF Removed, Without, Contains, ArraysOf
<1>3. CASE Contains(a, x)
  <2> DEFINE i0 == IndexOf(a, x)
  <2>1. i0 \in Slots(n) /\ a[i0] = x
    BY <1>1, <1>3, IndexOfIsLowest
  <2>2. Removed(a, x) = [a EXCEPT ![i0] = NULL]
    BY <1>3 DEF Removed
  <2> HIDE DEF i0
  <2>3. \A i \in Slots(n) : a[i] = x <=> i = i0
    BY <1>1, <2>1 DEF NoDuplicates
  <2>4. QED BY <1>1, <2>2, <2>3 DEF Without, ArraysOf
<1>4. QED BY <1>2, <1>3

\* An empty array has its type, no duplicates, and nothing in it.
LEMMA EmptyArray ==
  ASSUME NEW n \in Nat, NEW S
  PROVE  /\ Empty(n) \in ArraysOf(n, S)
         /\ NoDuplicates(Empty(n))
         /\ \A i \in Slots(n) : Empty(n)[i] = NULL
BY DEF Empty, ArraysOf, NoDuplicates
=============================================================================
