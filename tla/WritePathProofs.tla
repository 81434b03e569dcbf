-------------------------- MODULE WritePathProofs ---------------------------
(***************************************************************************)
(* Proofs about WritePath, for any messages that fit into the buffer, any  *)
(* socket that holds a byte, and any way in which writes are cut.          *)
(***************************************************************************)
EXTENDS WritePath, SequenceTheorems, TLAPS

\* The types one by one.
LEMMA Types ==
  ASSUME TypeOK
  PROVE  /\ said \in Seq(Bytes) /\ heard \in Seq(Bytes)
         /\ queue \in Seq(Bytes) /\ data \in Seq(Bytes)
         /\ orderly \in BOOLEAN /\ armed \in BOOLEAN /\ blocked \in BOOLEAN
         /\ ready \in BOOLEAN /\ gone \in BOOLEAN
         /\ begun \subseteq Nat /\ origin \in Seq(Nat)
         /\ Len(origin) = Len(heard) + Len(queue) + Len(data)
BY DEF TypeOK

\* The elements of a beginning of one sequence, followed by another.
Continues(c, a, k, b) ==
  /\ c \in Seq(Nat) /\ Len(c) = k + Len(b)
  /\ \A i \in 1 .. k : c[i] = a[i]
  /\ \A j \in 1 .. Len(b) : c[k + j] = b[j]

LEMMA Continued ==
  \A a, b \in Seq(Nat) : \A k \in 0 .. Len(a) : Continues(SubSeq(a, 1, k) \o b, a, k, b)
<1> SUFFICES ASSUME NEW a \in Seq(Nat), NEW b \in Seq(Nat), NEW k \in 0 .. Len(a)
             PROVE  Continues(SubSeq(a, 1, k) \o b, a, k, b)
  OBVIOUS
<1>1. Len(a) \in Nat /\ Len(b) \in Nat /\ k \in Int /\ 1 \in Int /\ 0 <= k /\ k <= Len(a)
  BY LenProperties
<1>2. \A i \in 1 .. k : a[i] \in Nat
  BY <1>1, ElementOfSeq
<1>3. PICK o : o = SubSeq(a, 1, k)
  OBVIOUS
<1>4. /\ o \in Seq(Nat) /\ Len(o) = IF 1 <= k THEN k - 1 + 1 ELSE 0
      /\ \A i \in 1 .. k - 1 + 1 : o[i] = a[1 + i - 1]
  BY <1>1, <1>2, <1>3, SubSeqProperties
<1>5. Len(o) = k /\ \A i \in 1 .. k : o[i] = a[i]
  BY <1>1, <1>4
<1>6. /\ o \o b \in Seq(Nat) /\ Len(o \o b) = Len(o) + Len(b)
      /\ \A i \in 1 .. Len(o) + Len(b) :
           (o \o b)[i] = IF i <= Len(o) THEN o[i] ELSE b[i - Len(o)]
  BY <1>4, ConcatProperties
<1>8. \A i \in 1 .. k : (o \o b)[i] = a[i]
  BY <1>1, <1>5, <1>6
<1>9. \A j \in 1 .. Len(b) : (o \o b)[k + j] = b[j]
  <2>1. SUFFICES ASSUME NEW j \in 1 .. Len(b) PROVE (o \o b)[k + j] = b[j]
    OBVIOUS
  <2>2. k + j \in 1 .. Len(o) + Len(b) /\ ~(k + j <= Len(o)) /\ (k + j) - Len(o) = j
    BY <1>1, <1>5, <2>1
  <2>3. QED BY <1>6, <2>2
<1>10. QED BY <1>3, <1>5, <1>6, <1>8, <1>9 DEF Continues

\* What connection_send_message adds to the history: the bytes behind the ones
\* that left the buffer are those of the new message.
LEMMA OriginsOfSend ==
  ASSUME TypeOK, NEW m \in Seq(Bytes), connection_send_message(m), NEW k,
         k = Len(heard) + Len(queue)
  PROVE  /\ k \in 0 .. Len(origin)
         /\ begun' \subseteq Nat /\ Len(said) + 1 \in begun' /\ begun \subseteq begun'
         /\ origin' \in Seq(Nat) /\ Len(origin') = k + Len(m)
         /\ \A i \in 1 .. k : origin'[i] = origin[i]
         /\ \A j \in 1 .. Len(m) : origin'[k + j] = Len(said) + j
<1>1. /\ said \in Seq(Bytes) /\ heard \in Seq(Bytes) /\ queue \in Seq(Bytes)
      /\ data \in Seq(Bytes) /\ origin \in Seq(Nat) /\ begun \subseteq Nat
      /\ Len(origin) = Len(heard) + Len(queue) + Len(data)
  BY Types
<1>2. /\ Len(said) \in Nat /\ Len(heard) \in Nat /\ Len(queue) \in Nat
      /\ Len(data) \in Nat /\ Len(m) \in Nat /\ Len(origin) \in Nat
  BY <1>1, LenProperties
<1>3. k \in 0 .. Len(origin)
  BY <1>1, <1>2
<1>4. PICK new : new = [i \in 1 .. Len(m) |-> Len(said) + i]
  OBVIOUS
<1>5. new \in Seq(Nat) /\ Len(new) = Len(m) /\ \A j \in 1 .. Len(m) : new[j] = Len(said) + j
  BY <1>2, <1>4
<1>6. origin' = SubSeq(origin, 1, k) \o new /\ begun' = begun \union {Len(said) + 1}
  BY <1>4 DEF connection_send_message
<1>7. Continues(SubSeq(origin, 1, k) \o new, origin, k, new)
  BY <1>1, <1>3, <1>5, Continued, Zenon
<1>10. Continues(origin', origin, k, new)
  BY <1>6, <1>7, Zenon
<1>8. begun' \subseteq Nat /\ Len(said) + 1 \in begun' /\ begun \subseteq begun'
  <2>1. Len(said) + 1 \in Nat
    BY <1>2
  <2>2. QED BY <1>1, <1>6, <2>1, Zenon
<1>9. QED BY <1>3, <1>5, <1>8, <1>10 DEF Continues

\* A sum in which two of three parts change, and their sum does not.
LEMMA SumOfTwo ==
  \A h, q, d, q1, d1 \in Nat : q1 + d1 = q + d => (h + q1) + d1 = (h + q) + d
OBVIOUS

\* Cutting a sequence of bytes in two.
LEMMA Cut ==
  ASSUME NEW q \in Seq(Bytes), NEW n \in 0 .. Len(q)
  PROVE  /\ SubSeq(q, 1, n) \in Seq(Bytes) /\ Len(SubSeq(q, 1, n)) = n
         /\ SubSeq(q, n+1, Len(q)) \in Seq(Bytes)
         /\ Len(SubSeq(q, n+1, Len(q))) = Len(q) - n
         /\ SubSeq(q, 1, n) \o SubSeq(q, n+1, Len(q)) = q
<1>1. Len(q) \in Nat /\ n \in Int /\ n+1 \in Int /\ n <= Len(q) /\ 0 <= n
  BY LenProperties
<1>2. (\A i \in 1 .. n : q[i] \in Bytes) /\ (\A i \in n+1 .. Len(q) : q[i] \in Bytes)
  BY <1>1, ElementOfSeq
<1>3. SubSeq(q, 1, n) \in Seq(Bytes) /\ Len(SubSeq(q, 1, n)) = IF 1 <= n THEN n-1+1 ELSE 0
  BY <1>1, <1>2, SubSeqProperties
<1>4. /\ SubSeq(q, n+1, Len(q)) \in Seq(Bytes)
      /\ Len(SubSeq(q, n+1, Len(q))) = IF n+1 <= Len(q) THEN Len(q)-(n+1)+1 ELSE 0
  BY <1>1, <1>2, SubSeqProperties
<1>5. SubSeq(q, 1, n) \o SubSeq(q, n+1, Len(q)) = SubSeq(q, 1, Len(q))
  <2>1. 1 \in 1 .. Len(q)+1 /\ n \in 1-1 .. Len(q) /\ Len(q) \in n .. Len(q)
    BY <1>1
  <2>2. QED BY <2>1, ConcatAdjacentSubSeq
<1>6. Len(SubSeq(q, 1, n)) = n
  BY <1>1, <1>3
<1>7. SubSeq(q, 1, Len(q)) = q
  BY SubSeqFull
<1>8. Len(SubSeq(q, n+1, Len(q))) = Len(q) - n
  BY <1>1, <1>4
<1>9. QED BY <1>3, <1>4, <1>5, <1>6, <1>7, <1>8

\* Concatenation of bytes is associative.
Regrouped(x, y, z) == (x \o y) \o z = x \o (y \o z)

LEMMA Regroup == \A x, y, z \in Seq(Bytes) : Regrouped(x, y, z)
<1>1. SUFFICES ASSUME NEW x \in Seq(Bytes), NEW y \in Seq(Bytes), NEW z \in Seq(Bytes)
               PROVE  (x \o y) \o z = x \o (y \o z)
  BY DEF Regrouped
<1>2. QED OBVIOUS

\* The bytes of a cut sequence stay in place behind whatever comes before it.
LEMMA CutBehind ==
  ASSUME NEW a \in Seq(Bytes), NEW q \in Seq(Bytes), NEW n \in 0 .. Len(q)
  PROVE  (a \o SubSeq(q, 1, n)) \o SubSeq(q, n+1, Len(q)) = a \o q
<1>1. SubSeq(q, 1, n) \in Seq(Bytes) /\ SubSeq(q, n+1, Len(q)) \in Seq(Bytes)
  BY Cut
<1>2. Regrouped(a, SubSeq(q, 1, n), SubSeq(q, n+1, Len(q)))
  BY <1>1, Regroup, Zenon
<1>3. SubSeq(q, 1, n) \o SubSeq(q, n+1, Len(q)) = q
  BY Cut
<1>4. QED BY <1>2, <1>3, Zenon DEF Regrouped

\* What write() takes: at least a byte if there is room, never more than fits.
LEMMA WriteFits ==
  ASSUME NEW d \in Seq(Bytes), queue \in Seq(Bytes), Len(queue) <= SOCKET,
         NEW n \in Takes(d), d # <<>>, Write(d, n)
  PROVE  /\ n \in 0 .. Len(d)
         /\ queue' \in Seq(Bytes) /\ data' \in Seq(Bytes)
         /\ Len(queue') <= SOCKET /\ queue' # <<>>
         /\ data' # <<>> => n < Len(d)
         /\ queue' \o data' = queue \o d
         /\ Len(queue') + Len(data') = Len(queue) + Len(d)
<1>1. /\ n \in 0 .. Len(d) /\ n <= SOCKET - Len(queue)
      /\ n = 0 => SOCKET - Len(queue) = 0
  BY DEF Takes
<1>2. Len(queue) \in Nat /\ Len(d) \in Nat /\ SOCKET \in Nat \ {0}
  BY LenProperties, SocketHoldsBytes
<1>3. SubSeq(d, 1, n) \in Seq(Bytes) /\ Len(SubSeq(d, 1, n)) = n
  BY <1>1, Cut
<1>4. queue' \in Seq(Bytes) /\ Len(queue') = Len(queue) + n
  BY <1>3, ConcatProperties DEF Write
<1>5. data' \in Seq(Bytes) /\ Len(data') = Len(d) - n
  BY <1>1, Cut DEF Write, Rest
<1>6. Len(queue') <= SOCKET /\ Len(queue') > 0
  BY <1>1, <1>2, <1>4
<1>7. queue' # <<>>
  BY <1>4, <1>6, EmptySeq
<1>8. data' # <<>> => n < Len(d)
  <2>1. SUFFICES ASSUME n >= Len(d) PROVE data' = <<>>
    BY <1>1, <1>2
  <2>2. Len(data') = 0
    BY <1>1, <1>2, <1>5, <2>1
  <2>3. QED BY <1>5, <2>2, EmptySeq
<1>9. queue' \o data' = queue \o d
  BY <1>1, CutBehind DEF Write, Rest
<1>10. Len(queue') + Len(data') = Len(queue) + Len(d)
  BY <1>1, <1>2, <1>4, <1>5
<1>11. QED BY <1>1, <1>4, <1>5, <1>6, <1>7, <1>8, <1>9, <1>10

-----------------------------------------------------------------------------
(***************************************************************************)
(* WriteInv is inductive.                                                  *)
(***************************************************************************)

\* A new message goes behind all the bytes before it, if they have left the
\* buffer.
LEMMA SendKeeps ==
  ASSUME WriteInv, NEW m \in Answers, connection_send_message(m)
  PROVE  WriteInv'
<1>1. TypeOK /\ Len(queue) <= SOCKET /\ OrderlyIsLossless /\ RestIsAwaited
  BY DEF WriteInv
<1>2. m \in Seq(Bytes) /\ m # <<>>
  <2>1. m \in Seq(Bytes) /\ Len(m) \in 1 .. BUFFER_SIZE
    BY AnswersFit
  <2>2. Len(m) # 0
    BY <2>1
  <2>3. QED BY <2>1, <2>2, EmptySeq
<1>3. /\ said' = said \o m /\ orderly' = (orderly /\ data = <<>>)
      /\ heard' = heard /\ gone' = gone
  BY DEF connection_send_message
<1>4. /\ said \in Seq(Bytes) /\ heard \in Seq(Bytes) /\ queue \in Seq(Bytes)
      /\ orderly \in BOOLEAN /\ gone \in BOOLEAN
  BY <1>1, Types
<1>5. said' \in Seq(Bytes) /\ orderly' \in BOOLEAN
  BY <1>2, <1>3, <1>4, ConcatProperties
<1>6. orderly' => said' = heard \o (queue \o m)
  <2>1. SUFFICES ASSUME orderly, data = <<>> PROVE said' = heard \o (queue \o m)
    BY <1>3
  <2>2. queue \o data = queue
    BY <1>4, <2>1, ConcatEmptySeq
  <2>3. said = heard \o queue
    BY <1>1, <2>1, <2>2 DEF OrderlyIsLossless
  <2>4. QED BY <1>2, <1>3, <1>4, <2>3, ConcatAssociative
<1>11. PICK k : k = Len(heard) + Len(queue)
  OBVIOUS
<1>12. begun' \subseteq Nat /\ origin' \in Seq(Nat) /\ Len(origin') = k + Len(m)
  BY <1>1, <1>2, <1>11, OriginsOfSend
<1>7. CASE gone /\ data' = m /\ UNCHANGED <<queue, armed, blocked, ready>>
  <2>1. TypeOK'
    BY <1>1, <1>2, <1>3, <1>5, <1>7, <1>11, <1>12 DEF TypeOK
  <2>2. OrderlyIsLossless'
    BY <1>3, <1>6, <1>7 DEF OrderlyIsLossless
  <2>3. RestIsAwaited'
    BY <1>3, <1>7 DEF RestIsAwaited
  <2>4. QED BY <1>1, <1>7, <2>1, <2>2, <2>3 DEF WriteInv
<1>8. ASSUME NEW n \in Takes(m), Write(m, n), Arm(m, n), ready' \in BOOLEAN
      PROVE  WriteInv'
  <2>1. /\ queue' \in Seq(Bytes) /\ data' \in Seq(Bytes)
        /\ Len(queue') <= SOCKET /\ queue' # <<>>
        /\ data' # <<>> => n < Len(m)
        /\ queue' \o data' = queue \o m
        /\ Len(queue') + Len(data') = Len(queue) + Len(m)
    BY <1>1, <1>2, <1>4, <1>8, WriteFits
  <2>2. armed' \in BOOLEAN /\ blocked' \in BOOLEAN
    BY <1>8 DEF Arm, Write
  <2>7. Len(origin') = Len(heard') + Len(queue') + Len(data')
    <3>1. /\ Len(heard) \in Nat /\ Len(queue) \in Nat /\ Len(m) \in Nat
          /\ Len(queue') \in Nat /\ Len(data') \in Nat
      BY <1>2, <1>4, <2>1, LenProperties
    <3>2. Len(origin') = (Len(heard) + Len(queue)) + Len(m)
      BY <1>11, <1>12
    <3>3. Len(queue') + Len(data') = Len(queue) + Len(m)
      BY <2>1
    <3>4. (Len(heard) + Len(queue')) + Len(data') = (Len(heard) + Len(queue)) + Len(m)
      BY <3>1, <3>3, SumOfTwo
    <3>5. QED BY <1>3, <3>2, <3>4, Zenon
  <2>3. TypeOK'
    BY <1>3, <1>4, <1>5, <1>8, <1>12, <2>1, <2>2, <2>7 DEF TypeOK
  <2>4. OrderlyIsLossless'
    BY <1>3, <1>6, <2>1 DEF OrderlyIsLossless
  <2>5. RestIsAwaited'
    BY <1>8, <2>1 DEF RestIsAwaited, Arm, Write
  <2>6. QED BY <2>1, <2>3, <2>4, <2>5 DEF WriteInv
<1>9. ready \in BOOLEAN
  BY <1>1, Types
<1>10. QED BY <1>7, <1>8, <1>9 DEF connection_send_message

\* Continuing a write keeps the bytes in order; a second partial write leaves
\* the socket blocked, with bytes for the client to read.
LEMMA HandleOutKeeps ==
  ASSUME WriteInv, HandleOut
  PROVE  WriteInv'
<1>1. TypeOK /\ Len(queue) <= SOCKET /\ OrderlyIsLossless /\ RestIsAwaited
  BY DEF WriteInv
<1>2. UNCHANGED <<said, heard, orderly, begun, origin, armed, gone>> /\ ready' = FALSE
  BY DEF HandleOut
<1>3. CASE data = <<>> /\ UNCHANGED <<queue, data, blocked>>
  <2>1. TypeOK' /\ OrderlyIsLossless' /\ RestIsAwaited'
    BY <1>1, <1>2, <1>3 DEF TypeOK, OrderlyIsLossless, RestIsAwaited
  <2>2. QED BY <1>1, <1>3, <2>1 DEF WriteInv
<1>4. CASE gone /\ UNCHANGED <<queue, data, blocked>>
  <2>1. TypeOK' /\ OrderlyIsLossless' /\ RestIsAwaited'
    BY <1>1, <1>2, <1>4 DEF TypeOK, OrderlyIsLossless, RestIsAwaited
  <2>2. QED BY <1>1, <1>4, <2>1 DEF WriteInv
<1>5. ASSUME data # <<>>, ~gone, NEW n \in Takes(data), Write(data, n)
      PROVE  WriteInv'
  <2>1. data \in Seq(Bytes) /\ queue \in Seq(Bytes)
    BY <1>1, Types
  <2>2. /\ queue' \in Seq(Bytes) /\ data' \in Seq(Bytes)
        /\ Len(queue') <= SOCKET /\ queue' # <<>>
        /\ data' # <<>> => n < Len(data)
        /\ queue' \o data' = queue \o data
        /\ Len(queue') + Len(data') = Len(queue) + Len(data)
    BY <1>1, <1>5, <2>1, WriteFits
  <2>3. blocked' \in BOOLEAN /\ (data' # <<>> => blocked')
    BY <1>5, <2>2 DEF Write
  <2>8. Len(origin) = Len(heard) + Len(queue') + Len(data')
    <3>1. /\ Len(heard) \in Nat /\ Len(queue) \in Nat /\ Len(data) \in Nat
          /\ Len(queue') \in Nat /\ Len(data') \in Nat
      BY <1>1, <2>1, <2>2, Types, LenProperties
    <3>2. Len(origin) = Len(heard) + Len(queue) + Len(data)
      BY <1>1, Types
    <3>3. Len(queue') + Len(data') = Len(queue) + Len(data)
      BY <2>2
    <3>4. (Len(heard) + Len(queue')) + Len(data') = (Len(heard) + Len(queue)) + Len(data)
      BY <3>1, <3>3, SumOfTwo
    <3>5. QED BY <3>2, <3>4, Zenon
  <2>4. TypeOK'
    BY <1>1, <1>2, <2>2, <2>3, <2>8 DEF TypeOK
  <2>5. OrderlyIsLossless'
    BY <1>1, <1>2, <2>2 DEF OrderlyIsLossless
  <2>6. RestIsAwaited'
    BY <1>1, <1>2, <1>5, <2>2, <2>3 DEF RestIsAwaited
  <2>7. QED BY <2>2, <2>4, <2>5, <2>6 DEF WriteInv
<1>6. QED BY <1>3, <1>4, <1>5 DEF HandleOut

\* Reading moves bytes from the socket to the client, and reports an event that
\* is owed before the socket is empty.
LEMMA ReadsKeep ==
  ASSUME WriteInv, ClientReads
  PROVE  WriteInv'
<1>1. TypeOK /\ Len(queue) <= SOCKET /\ OrderlyIsLossless /\ RestIsAwaited
  BY DEF WriteInv
<1>2. /\ said \in Seq(Bytes) /\ heard \in Seq(Bytes) /\ queue \in Seq(Bytes)
      /\ data \in Seq(Bytes) /\ ready \in BOOLEAN /\ armed \in BOOLEAN
      /\ blocked \in BOOLEAN
  BY <1>1, Types
<1>3. PICK n \in 1 .. Len(queue) : /\ heard' = heard \o SubSeq(queue, 1, n)
                                   /\ queue' = SubSeq(queue, n + 1, Len(queue))
  BY DEF ClientReads
<1>4. UNCHANGED <<said, data, orderly, begun, origin, armed, gone>>
  BY DEF ClientReads
<1>5. n \in 0 .. Len(queue) /\ Len(queue) \in Nat /\ SOCKET \in Nat
  BY <1>2, <1>3, LenProperties, SocketHoldsBytes
<1>6. SubSeq(queue, 1, n) \in Seq(Bytes)
  BY <1>2, <1>5, Cut
<1>7. queue' \in Seq(Bytes) /\ Len(queue') = Len(queue) - n
  BY <1>2, <1>3, <1>5, Cut
<1>8. heard' \in Seq(Bytes) /\ Len(heard') = Len(heard) + n
  <2>1. Len(SubSeq(queue, 1, n)) = n
    BY <1>2, <1>5, Cut
  <2>2. QED BY <1>2, <1>3, <1>6, <2>1, ConcatProperties
<1>9. ready' \in BOOLEAN /\ blocked' \in BOOLEAN
  BY <1>2 DEF ClientReads
<1>15. Len(origin) = Len(heard') + Len(queue') + Len(data)
  <2>1. /\ Len(heard) \in Nat /\ Len(queue) \in Nat /\ Len(data) \in Nat
        /\ Len(origin) = Len(heard) + Len(queue) + Len(data)
    BY <1>1, Types, LenProperties
  <2>2. QED BY <1>5, <1>7, <1>8, <2>1
<1>10. TypeOK'
  BY <1>1, <1>4, <1>7, <1>8, <1>9, <1>15 DEF TypeOK
<1>11. Len(queue') <= SOCKET
  BY <1>1, <1>5, <1>7
<1>12. OrderlyIsLossless'
  <2>1. heard' \o queue' = heard \o queue
    BY <1>2, <1>3, <1>5, CutBehind
  <2>2. Regrouped(heard', queue', data) /\ Regrouped(heard, queue, data)
    BY <1>2, <1>7, <1>8, Regroup, Zenon
  <2>3. heard' \o (queue' \o data) = heard \o (queue \o data)
    BY <2>1, <2>2, Zenon DEF Regrouped
  <2>4. QED BY <1>1, <1>4, <2>3 DEF OrderlyIsLossless
<1>13. RestIsAwaited'
  <2>1. SUFFICES ASSUME data # <<>>, ~gone
                 PROVE  armed /\ (ready' \/ (blocked' /\ queue' # <<>>))
    BY <1>4 DEF RestIsAwaited
  <2>2. armed /\ (ready \/ blocked)
    BY <1>1, <2>1 DEF RestIsAwaited
  <2>3. QED BY <2>2 DEF ClientReads
<1>14. QED BY <1>10, <1>11, <1>12, <1>13 DEF WriteInv

\* No sequence of sends, events and reads loses, repeats or reorders a byte
\* while the sender is orderly, or leaves a rest without an event to come.
THEOREM WriteInvariance == Spec => []WriteInv
<1>1. Init => WriteInv
  <2>1. SUFFICES ASSUME Init PROVE WriteInv
    OBVIOUS
  <2>2. <<>> \in Seq(Bytes) /\ Len(<<>>) <= SOCKET /\ <<>> \in Seq(Nat) /\ Len(<<>>) = 0
    BY EmptySeq, SocketHoldsBytes
  <2>3. TypeOK
    <3>1. Len(origin) = Len(heard) + Len(queue) + Len(data)
      BY <2>1, <2>2 DEF Init
    <3>2. {said, heard, queue, data} \subseteq Seq(Bytes) /\ origin \in Seq(Nat)
      BY <2>1, <2>2 DEF Init
    <3>3. {orderly, armed, blocked, ready, gone} \subseteq BOOLEAN /\ begun \subseteq Nat
      BY <2>1 DEF Init
    <3>4. QED BY <3>1, <3>2, <3>3 DEF TypeOK
  <2>4. <<>> \o (<<>> \o <<>>) = <<>>
    BY <2>2, ConcatEmptySeq
  <2>5. OrderlyIsLossless /\ RestIsAwaited /\ Len(queue) <= SOCKET
    BY <2>1, <2>2, <2>4 DEF Init, OrderlyIsLossless, RestIsAwaited
  <2>6. QED BY <2>3, <2>5 DEF WriteInv
<1>2. WriteInv /\ [Next]_vars => WriteInv'
  <2>1. SUFFICES ASSUME WriteInv, [Next]_vars PROVE WriteInv'
    OBVIOUS
  <2>2. ASSUME NEW m \in Answers, connection_send_message(m) PROVE WriteInv'
    BY <2>1, <2>2, SendKeeps
  <2>3. CASE HandleOut
    BY <2>1, <2>3, HandleOutKeeps
  <2>4. CASE ClientReads
    BY <2>1, <2>4, ReadsKeep
  <2>5. CASE OtherEvent \/ ClientResets \/ UNCHANGED vars
    <3>1. /\ UNCHANGED <<said, heard, queue, data, begun, origin, armed, blocked>>
          /\ orderly' \in {orderly, FALSE} /\ gone' \in {gone, TRUE}
          /\ ready' \in {ready, TRUE}
      BY <2>5 DEF OtherEvent, ClientResets, vars
    <3>2. TypeOK'
      <4>1. TypeOK
        BY <2>1 DEF WriteInv
      <4>2. orderly' \in BOOLEAN /\ gone' \in BOOLEAN /\ ready' \in BOOLEAN
        BY <3>1, <4>1, Types
      <4>3. QED BY <3>1, <4>1, <4>2 DEF TypeOK
    <3>3. OrderlyIsLossless'
      BY <2>1, <3>1 DEF WriteInv, OrderlyIsLossless
    <3>4. RestIsAwaited'
      <4>1. RestIsAwaited
        BY <2>1 DEF WriteInv
      <4>2. CASE ClientResets
        BY <4>2 DEF ClientResets, RestIsAwaited
      <4>3. CASE OtherEvent
        BY <4>1, <4>3 DEF OtherEvent, RestIsAwaited
      <4>4. CASE UNCHANGED vars
        BY <4>1, <4>4 DEF vars, RestIsAwaited
      <4>5. QED BY <2>5, <4>2, <4>3, <4>4
    <3>5. Len(queue') <= SOCKET
      BY <2>1, <3>1 DEF WriteInv
    <3>6. QED BY <3>2, <3>3, <3>4, <3>5 DEF WriteInv
  <2>6. QED BY <2>1, <2>2, <2>3, <2>4, <2>5 DEF Next
<1>3. QED BY <1>1, <1>2, PTL DEF Spec

-----------------------------------------------------------------------------
(***************************************************************************)
(* A message is torn only at its end.                                      *)
(***************************************************************************)

\* Continuing a write and reading move bytes along, and change none.
LEMMA PathStays ==
  ASSUME WriteInv, HandleOut \/ ClientReads
  PROVE  Path' = Path
<1>1. TypeOK /\ Len(queue) <= SOCKET
  BY DEF WriteInv
<1>2. /\ heard \in Seq(Bytes) /\ queue \in Seq(Bytes) /\ data \in Seq(Bytes)
  BY <1>1, Types
<1>3. CASE HandleOut
  <2>1. heard' = heard
    BY <1>3 DEF HandleOut
  <2>2. CASE UNCHANGED <<queue, data, blocked>>
    BY <2>1, <2>2 DEF Path
  <2>3. ASSUME data # <<>>, NEW n \in Takes(data), Write(data, n) PROVE Path' = Path
    <3>1. queue' \o data' = queue \o data
      BY <1>1, <1>2, <2>3, WriteFits
    <3>2. QED BY <2>1, <3>1 DEF Path
  <2>4. QED BY <1>3, <2>2, <2>3 DEF HandleOut
<1>4. CASE ClientReads
  <2>1. PICK n \in 1 .. Len(queue) : /\ heard' = heard \o SubSeq(queue, 1, n)
                                     /\ queue' = SubSeq(queue, n + 1, Len(queue))
    BY <1>4 DEF ClientReads
  <2>2. data' = data
    BY <1>4 DEF ClientReads
  <2>3. n \in 0 .. Len(queue)
    BY <1>2, <2>1, LenProperties
  <2>4. SubSeq(queue, 1, n) \in Seq(Bytes) /\ queue' \in Seq(Bytes)
    BY <1>2, <2>1, <2>3, Cut
  <2>5. heard' \in Seq(Bytes)
    BY <1>2, <2>1, <2>4, ConcatProperties
  <2>6. heard' \o queue' = heard \o queue
    BY <1>2, <2>1, <2>3, CutBehind
  <2>7. Regrouped(heard', queue', data) /\ Regrouped(heard, queue, data)
    BY <1>2, <2>4, <2>5, Regroup, Zenon
  <2>8. QED BY <2>2, <2>6, <2>7, Zenon DEF Regrouped, Path
<1>5. QED BY <1>3, <1>4

\* The elements of a sequence of bytes behind another.
Behind(c, a, b) ==
  /\ c \in Seq(Bytes) /\ Len(c) = Len(a) + Len(b)
  /\ \A i \in 1 .. Len(a) : c[i] = a[i]
  /\ \A j \in 1 .. Len(b) : c[Len(a) + j] = b[j]

LEMMA Concatenated == \A a, b \in Seq(Bytes) : Behind(a \o b, a, b)
<1> SUFFICES ASSUME NEW a \in Seq(Bytes), NEW b \in Seq(Bytes) PROVE Behind(a \o b, a, b)
  OBVIOUS
<1>1. Len(a) \in Nat /\ Len(b) \in Nat
  BY LenProperties
<1>2. /\ a \o b \in Seq(Bytes) /\ Len(a \o b) = Len(a) + Len(b)
      /\ \A i \in 1 .. Len(a) + Len(b) :
           (a \o b)[i] = IF i <= Len(a) THEN a[i] ELSE b[i - Len(a)]
  BY ConcatProperties
<1>3. \A i \in 1 .. Len(a) : (a \o b)[i] = a[i]
  BY <1>1, <1>2
<1>4. \A j \in 1 .. Len(b) : (a \o b)[Len(a) + j] = b[j]
  <2>1. SUFFICES ASSUME NEW j \in 1 .. Len(b) PROVE (a \o b)[Len(a) + j] = b[j]
    OBVIOUS
  <2>2. /\ Len(a) + j \in 1 .. Len(a) + Len(b) /\ ~(Len(a) + j <= Len(a))
        /\ (Len(a) + j) - Len(a) = j
    BY <1>1, <2>1
  <2>3. QED BY <1>2, <2>2
<1>5. QED BY <1>2, <1>3, <1>4 DEF Behind

\* A new message takes the place of a rest that waits, and all that was written
\* of the message before stays.
LEMMA SendReplacesRest ==
  ASSUME WriteInv, NEW m \in Answers, connection_send_message(m)
  PROVE  Path = (heard \o queue) \o data /\ Path' = (heard \o queue) \o m
<1>1. TypeOK /\ Len(queue) <= SOCKET
  BY DEF WriteInv
<1>2. heard \in Seq(Bytes) /\ queue \in Seq(Bytes) /\ data \in Seq(Bytes)
  BY <1>1, Types
<1>3. m \in Seq(Bytes) /\ m # <<>>
  <2>1. m \in Seq(Bytes) /\ Len(m) \in 1 .. BUFFER_SIZE
    BY AnswersFit
  <2>2. Len(m) # 0
    BY <2>1
  <2>3. QED BY <2>1, <2>2, EmptySeq
<1>4. heard' = heard /\ queue' \o data' = queue \o m
  <2>1. heard' = heard
    BY DEF connection_send_message
  <2>2. CASE data' = m /\ UNCHANGED <<queue, armed, blocked, ready>>
    BY <2>1, <2>2
  <2>3. ASSUME NEW n \in Takes(m), Write(m, n) PROVE queue' \o data' = queue \o m
    BY <1>1, <1>2, <1>3, <2>3, WriteFits
  <2>4. QED BY <2>1, <2>2, <2>3 DEF connection_send_message
<1>5. Regrouped(heard, queue, data) /\ Regrouped(heard, queue, m)
  BY <1>2, <1>3, Regroup, Zenon
<1>6. QED BY <1>4, <1>5, Zenon DEF Path, Regrouped

\* The history accounts for every byte on its way.
LEMMA AllAccountedFor ==
  ASSUME WriteInv
  PROVE  Len(origin) = Len(Path)
<1>1. /\ heard \in Seq(Bytes) /\ queue \in Seq(Bytes) /\ data \in Seq(Bytes)
      /\ Len(origin) = Len(heard) + Len(queue) + Len(data)
  BY Types DEF WriteInv
<1>2. Len(heard) \in Nat /\ Len(queue) \in Nat /\ Len(data) \in Nat
  BY <1>1, LenProperties
<1>3. queue \o data \in Seq(Bytes) /\ Len(queue \o data) = Len(queue) + Len(data)
  BY <1>1, ConcatProperties
<1>4. Len(Path) = Len(heard) + (Len(queue) + Len(data))
  BY <1>1, <1>3, ConcatProperties DEF Path
<1>5. QED BY <1>1, <1>2, <1>4

LEMMA SendTearsAtTheEnd ==
  ASSUME WriteInv, WriteInv', TornOnlyAtTheEnd, NEW m \in Answers, connection_send_message(m)
  PROVE  TornOnlyAtTheEnd'
<1>1. TypeOK
  BY DEF WriteInv
<1>2. /\ said \in Seq(Bytes) /\ heard \in Seq(Bytes) /\ queue \in Seq(Bytes)
      /\ data \in Seq(Bytes) /\ m \in Seq(Bytes) /\ origin \in Seq(Nat)
      /\ Len(origin) = Len(heard) + Len(queue) + Len(data)
  BY <1>1, Types, AnswersFit
<1>3. /\ Len(said) \in Nat /\ Len(heard) \in Nat /\ Len(queue) \in Nat
      /\ Len(data) \in Nat /\ Len(m) \in Nat /\ Len(origin) \in Nat
  BY <1>2, LenProperties
<1>4. PICK k : k = Len(heard) + Len(queue)
  OBVIOUS
<1>5. /\ k \in 0 .. Len(origin) /\ Len(said) + 1 \in begun' /\ begun \subseteq begun'
      /\ Len(origin') = k + Len(m)
      /\ \A i \in 1 .. k : origin'[i] = origin[i]
      /\ \A j \in 1 .. Len(m) : origin'[k + j] = Len(said) + j
  BY <1>1, <1>2, <1>4, OriginsOfSend
<1>6. PICK hq : hq = heard \o queue
  OBVIOUS
<1>7. hq \in Seq(Bytes) /\ Len(hq) = k
  BY <1>2, <1>4, <1>6, ConcatProperties
<1>8. Behind(Path, hq, data) /\ Behind(Path', hq, m)
  <2>1. Path = hq \o data /\ Path' = hq \o m
    BY <1>6, SendReplacesRest
  <2>2. QED BY <1>2, <1>7, <2>1, Concatenated, Zenon
<1>9. /\ \A i \in 1 .. k : Path[i] = hq[i] /\ Path'[i] = hq[i]
      /\ \A j \in 1 .. Len(m) : Path'[k + j] = m[j]
  BY <1>7, <1>8 DEF Behind
<1>10. Behind(said', said, m)
  <2>1. said' = said \o m
    BY DEF connection_send_message
  <2>2. QED BY <1>2, <2>1, Concatenated, Zenon
<1>11. /\ Len(said') = Len(said) + Len(m)
       /\ \A i \in 1 .. Len(said) : said'[i] = said[i]
       /\ \A j \in 1 .. Len(m) : said'[Len(said) + j] = m[j]
  BY <1>10 DEF Behind
<1>12. ASSUME NEW i \in 1 .. k PROVE OnTheWay(i)'
  <2>1. OnTheWay(i)
    BY <1>3, <1>5 DEF TornOnlyAtTheEnd
  <2>2. /\ origin[i] \in 1 .. Len(said) /\ said[origin[i]] = Path[i]
        /\ i > 1 => origin[i - 1] < origin[i]
        /\ origin[i] \in begun \/ (i > 1 /\ origin[i - 1] = origin[i] - 1)
    BY <2>1 DEF OnTheWay
  <2>3. origin'[i] = origin[i] /\ (i > 1 => origin'[i - 1] = origin[i - 1])
    BY <1>3, <1>5
  <2>4. origin'[i] \in 1 .. Len(said') /\ said'[origin'[i]] = Path'[i]
    BY <1>3, <1>9, <1>11, <2>2, <2>3
  <2>5. /\ i > 1 => origin'[i - 1] < origin'[i]
        /\ origin'[i] \in begun' \/ (i > 1 /\ origin'[i - 1] = origin'[i] - 1)
    BY <1>5, <2>2, <2>3
  <2>6. QED BY <2>4, <2>5 DEF OnTheWay
<1>13. ASSUME NEW j \in 1 .. Len(m) PROVE OnTheWay(k + j)'
  <2>1. origin'[k + j] = Len(said) + j /\ Len(said) + j \in 1 .. Len(said')
    BY <1>3, <1>5, <1>11
  <2>2. said'[origin'[k + j]] = Path'[k + j]
    BY <1>9, <1>11, <2>1
  <2>3. CASE j = 1
    <3>1. origin'[k + j] \in begun'
      BY <1>5, <2>1, <2>3
    <3>2. k + j > 1 => origin'[(k + j) - 1] < origin'[k + j]
      <4>1. SUFFICES ASSUME k + j > 1 PROVE origin'[(k + j) - 1] < origin'[k + j]
        OBVIOUS
      <4>2. k \in 1 .. k /\ (k + j) - 1 = k /\ k \in 1 .. Len(origin)
        BY <1>3, <1>5, <2>3, <4>1
      <4>3. OnTheWay(k)
        BY <4>2 DEF TornOnlyAtTheEnd
      <4>4. origin'[k] \in 1 .. Len(said)
        BY <1>5, <4>2, <4>3 DEF OnTheWay
      <4>5. QED BY <1>3, <2>1, <2>3, <4>2, <4>4
    <3>3. QED BY <2>1, <2>2, <3>1, <3>2 DEF OnTheWay
  <2>4. CASE j # 1
    <3>1. j - 1 \in 1 .. Len(m) /\ k + (j - 1) = (k + j) - 1 /\ k + j > 1
      BY <1>3, <1>5, <2>4
    <3>2. origin'[(k + j) - 1] = Len(said) + (j - 1)
      BY <1>5, <3>1
    <3>3. origin'[(k + j) - 1] = origin'[k + j] - 1 /\ origin'[(k + j) - 1] < origin'[k + j]
      BY <1>3, <2>1, <3>2
    <3>4. QED BY <2>1, <2>2, <3>1, <3>3 DEF OnTheWay
  <2>5. QED BY <2>3, <2>4
<1>14. \A i \in 1 .. Len(origin') : OnTheWay(i)'
  <2>1. SUFFICES ASSUME NEW i \in 1 .. Len(origin') PROVE OnTheWay(i)'
    OBVIOUS
  <2>2. CASE i \in 1 .. k
    BY <1>12, <2>2
  <2>3. CASE i \notin 1 .. k
    <3>1. i - k \in 1 .. Len(m) /\ k + (i - k) = i
      BY <1>3, <1>5, <2>1, <2>3
    <3>2. QED BY <1>13, <3>1
  <2>4. QED BY <2>2, <2>3
<1>15. (Len(origin) = Len(Path))'
  BY AllAccountedFor, PTL
<1>16. QED BY <1>14, <1>15 DEF TornOnlyAtTheEnd

\* Whatever the server sends, whatever the socket takes and whenever the client
\* reads: what arrives are beginnings of messages, in order, each at most once.
THEOREM MessagesAreTornOnlyAtTheEnd == Spec => []TornOnlyAtTheEnd
<1>1. Init => TornOnlyAtTheEnd
  <2>1. SUFFICES ASSUME Init PROVE TornOnlyAtTheEnd
    OBVIOUS
  <2>2. origin = <<>> /\ Len(<<>>) = 0
    BY <2>1, EmptySeq DEF Init
  <2>3. Path = <<>>
    <3>1. Path = <<>> \o (<<>> \o <<>>)
      BY <2>1 DEF Init, Path
    <3>2. QED BY <3>1, EmptySeq, ConcatEmptySeq
  <2>4. QED BY <2>2, <2>3 DEF TornOnlyAtTheEnd
<1>2. WriteInv /\ WriteInv' /\ TornOnlyAtTheEnd /\ [Next]_vars => TornOnlyAtTheEnd'
  <2>1. SUFFICES ASSUME WriteInv, WriteInv', TornOnlyAtTheEnd, [Next]_vars PROVE TornOnlyAtTheEnd'
    OBVIOUS
  <2>2. ASSUME NEW m \in Answers, connection_send_message(m) PROVE TornOnlyAtTheEnd'
    BY <2>1, <2>2, SendTearsAtTheEnd
  <2>3. ASSUME HandleOut \/ ClientReads \/ OtherEvent \/ ClientResets \/ UNCHANGED vars
        PROVE  TornOnlyAtTheEnd'
    <3>1. UNCHANGED <<said, begun, origin>>
      BY <2>3 DEF HandleOut, ClientReads, OtherEvent, ClientResets, vars
    <3>2. Path' = Path
      <4>1. CASE HandleOut \/ ClientReads
        BY <2>1, <4>1, PathStays
      <4>2. CASE OtherEvent \/ ClientResets \/ UNCHANGED vars
        BY <4>2 DEF OtherEvent, ClientResets, vars, Path
      <4>3. QED BY <2>3, <4>1, <4>2
    <3>3. QED BY <2>1, <3>1, <3>2 DEF TornOnlyAtTheEnd, OnTheWay
  <2>4. QED BY <2>1, <2>2, <2>3 DEF Next
<1>3. QED BY <1>1, <1>2, WriteInvariance, PTL DEF Spec

-----------------------------------------------------------------------------
(***************************************************************************)
(* WritePath implements Delivery.                                          *)
(***************************************************************************)

\* A step that leaves the history alone is a stutter of Delivery.
LEMMA Stutters ==
  ASSUME UNCHANGED <<said, heard, orderly>>
  PROVE  [D!Next]_(D!vars)
BY DEF D!vars

\* What a client reads of an orderly sender continues what it has read.
LEMMA ReadDelivers ==
  ASSUME WriteInv, WriteInv', ClientReads
  PROVE  [D!Next]_(D!vars)
<1>1. said' = said /\ data' = data /\ orderly' = orderly
  BY DEF ClientReads
<1>2. CASE ~orderly
  BY <1>1, <1>2 DEF D!Disorder, D!Next
<1>3. CASE orderly
  <2>1. PICK n \in 1 .. Len(queue) : heard' = heard \o SubSeq(queue, 1, n)
    BY DEF ClientReads
  <2>2. /\ heard \in Seq(Bytes) /\ queue \in Seq(Bytes)
    BY Types DEF WriteInv
  <2>3. heard' \in Seq(Bytes) /\ queue' \in Seq(Bytes) /\ data' \in Seq(Bytes)
    BY DEF WriteInv, TypeOK
  <2>4. said = heard' \o (queue' \o data')
    BY <1>1, <1>3 DEF WriteInv, OrderlyIsLossless
  <2> DEFINE rest == queue' \o data'
  <2>5. rest \in Seq(Bytes)
    BY <2>3, ConcatProperties
  <2>6. Len(heard') = Len(heard) + n /\ Len(heard) \in Nat /\ n \in Nat \ {0}
    <3>1. n \in 0 .. Len(queue) /\ n \in Nat \ {0}
      BY <2>1, <2>2, LenProperties
    <3>2. SubSeq(queue, 1, n) \in Seq(Bytes) /\ Len(SubSeq(queue, 1, n)) = n
      BY <2>2, <3>1, Cut
    <3>3. Len(heard \o SubSeq(queue, 1, n)) = Len(heard) + n
      BY <2>2, <3>2, ConcatProperties
    <3>4. QED BY <2>1, <2>2, <3>1, <3>3, LenProperties
  <2>7. Len(said) = Len(heard') + Len(rest) /\ Len(rest) \in Nat
    BY <2>3, <2>4, <2>5, ConcatProperties, LenProperties
  <2>8. SubSeq(said, 1, Len(heard')) = heard'
    <3>1. 1 \in 1 .. Len(heard') /\ Len(heard') \in 1 .. Len(heard')
      BY <2>6
    <3>2. SubSeq(heard' \o rest, 1, Len(heard')) = SubSeq(heard', 1, Len(heard'))
      BY <2>3, <2>5, <3>1, SubSeqOfConcat1
    <3>3. SubSeq(heard', 1, Len(heard')) = heard'
      BY <2>3, SubSeqFull
    <3>4. QED BY <2>4, <3>2, <3>3
  <2>9. n \in 1 .. Len(said) - Len(heard)
    <3> HIDE DEF rest
    <3>1. QED BY <2>6, <2>7
  <2>10. heard' = SubSeq(said, 1, Len(heard) + n)
    BY <2>6, <2>8
  <2>11. D!Deliver
    BY <1>1, <1>3, <2>9, <2>10 DEF D!Deliver
  <2>12. QED BY <2>11 DEF D!Next
<1>4. QED BY <1>2, <1>3

\* What a client reads is a beginning of what connection_send_message was given
\* by an orderly sender.
THEOREM WritePathDelivers == Spec => AnswersInOrder
<1>1. Init => D!Init
  BY DEF Init, D!Init
<1>2. WriteInv /\ WriteInv' /\ [Next]_vars => [D!Next]_(D!vars)
  <2>1. SUFFICES ASSUME WriteInv, WriteInv', [Next]_vars PROVE [D!Next]_(D!vars)
    OBVIOUS
  <2>2. orderly \in BOOLEAN
    BY <2>1, Types DEF WriteInv
  <2>3. ASSUME NEW m \in Answers, connection_send_message(m) PROVE [D!Next]_(D!vars)
    <3>1. said' = said \o m /\ heard' = heard /\ orderly' \in {orderly, FALSE}
      BY <2>2, <2>3 DEF connection_send_message
    <3>2. QED BY <3>1 DEF D!Send, D!Next
  <2>4. CASE ClientResets
    BY <2>4 DEF ClientResets, D!Leave, D!Next
  <2>5. CASE HandleOut \/ OtherEvent \/ UNCHANGED vars
    <3>1. UNCHANGED <<said, heard, orderly>>
      BY <2>5 DEF HandleOut, OtherEvent, vars
    <3>2. QED BY <3>1, Stutters
  <2>6. CASE ClientReads
    BY <2>1, <2>6, ReadDelivers
  <2>7. QED BY <2>1, <2>3, <2>4, <2>5, <2>6 DEF Next
<1>3. QED BY <1>1, <1>2, WriteInvariance, PTL DEF Spec, AnswersInOrder, D!Spec
=============================================================================
