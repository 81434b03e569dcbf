--------------------------- MODULE FramingProofs ----------------------------
(***************************************************************************)
(* Proofs about Framing, for any sizes that satisfy SizesFit, any set of   *)
(* messages and any segmentation of the stream.                            *)
(***************************************************************************)
EXTENDS Framing, SequenceTheorems, TLAPS

\* The types one by one.
LEMMA Types ==
  ASSUME TypeOK
  PROVE  /\ sent \in Seq(Requests) /\ handled \in Seq(Seq(Bytes))
         /\ wire \in Seq(Bytes) /\ queue \in Seq(Bytes) /\ data \in Seq(Bytes)
         /\ closed \in BOOLEAN /\ paced \in BOOLEAN /\ eof \in BOOLEAN
         /\ ready \in BOOLEAN /\ open \in BOOLEAN /\ expected \in Bytes
         /\ stream \in Seq(Bytes) /\ past \in Seq(Bytes) /\ began \in Seq(Nat)
         /\ starts \in Seq(Nat) /\ dropped \in BOOLEAN
BY DEF TypeOK

\* Cutting a sequence of bytes in two.
LEMMA Cut ==
  ASSUME NEW q \in Seq(Bytes), NEW n \in 0 .. Len(q)
  PROVE  /\ SubSeq(q, 1, n) \in Seq(Bytes) /\ Len(SubSeq(q, 1, n)) = n
         /\ SubSeq(q, n+1, Len(q)) \in Seq(Bytes)
         /\ SubSeq(q, 1, n) \o SubSeq(q, n+1, Len(q)) = q
<1>1. Len(q) \in Nat /\ n \in Int /\ n+1 \in Int /\ n <= Len(q)
  BY LenProperties
<1>2. (\A i \in 1 .. n : q[i] \in Bytes) /\ (\A i \in n+1 .. Len(q) : q[i] \in Bytes)
  BY <1>1, ElementOfSeq
<1>3. SubSeq(q, 1, n) \in Seq(Bytes) /\ Len(SubSeq(q, 1, n)) = IF 1 <= n THEN n-1+1 ELSE 0
  BY <1>1, <1>2, SubSeqProperties
<1>4. SubSeq(q, n+1, Len(q)) \in Seq(Bytes)
  BY <1>1, <1>2, SubSeqProperties
<1>5. SubSeq(q, 1, n) \o SubSeq(q, n+1, Len(q)) = SubSeq(q, 1, Len(q))
  <2>1. 1 \in 1 .. Len(q)+1 /\ n \in 1-1 .. Len(q) /\ Len(q) \in n .. Len(q)
    BY <1>1
  <2>2. QED BY <2>1, ConcatAdjacentSubSeq
<1>6. Len(SubSeq(q, 1, n)) = n
  BY <1>1, <1>3
<1>7. SubSeq(q, 1, Len(q)) = q
  BY SubSeqFull
<1>8. QED BY <1>3, <1>4, <1>5, <1>6, <1>7

\* Concatenation is associative.
Regrouped(p, q, r, s) == p \o (q \o r) \o s = p \o q \o (r \o s)

\* All sequences of bytes can be regrouped.
LEMMA Regroup ==
  \A p, q, r, s \in Seq(Bytes) : Regrouped(p, q, r, s)
<1> SUFFICES ASSUME NEW B, NEW p \in Seq(B), NEW q \in Seq(B), NEW r \in Seq(B),
                    NEW s \in Seq(B)
             PROVE  Regrouped(p, q, r, s)
  OBVIOUS
<1> QED BY SMTT(30) DEF Regrouped

\* What connection_read_data takes from the socket and what it leaves there.
LEMMA ReadCuts ==
  ASSUME NEW q \in Seq(Bytes), q # <<>>
  PROVE  /\ ReadBytes(q) \in Seq(Bytes) /\ ReadBytes(q) # <<>>
         /\ Len(ReadBytes(q)) <= READ_SIZE
         /\ Unread(q) \in Seq(Bytes)
         /\ ReadBytes(q) \o Unread(q) = q
<1>1. Len(q) \in Nat \ {0} /\ READ_SIZE \in Nat \ {0}
  BY EmptySeq, SizesFit
<1>2. CASE Len(q) <= READ_SIZE
  <2>1. ReadBytes(q) = q
    BY <1>2 DEF ReadBytes
  <2>2. Unread(q) = <<>>
    BY <1>1, <2>1, SubSeqEmpty DEF Unread
  <2>3. QED BY <1>2, <2>1, <2>2, EmptySeq, ConcatEmptySeq
<1>3. CASE READ_SIZE < Len(q)
  <2>1. READ_SIZE \in 0 .. Len(q) /\ ~(Len(q) <= READ_SIZE)
    BY <1>1, <1>3
  <2>2. ReadBytes(q) = SubSeq(q, 1, READ_SIZE)
    BY <2>1 DEF ReadBytes
  <2>3. Len(ReadBytes(q)) = READ_SIZE
    BY <2>1, <2>2, Cut
  <2>4. Unread(q) = SubSeq(q, READ_SIZE + 1, Len(q))
    BY <2>3 DEF Unread
  <2>5. ReadBytes(q) # <<>>
    BY <1>1, <2>3
  <2>6. ReadBytes(q) \in Seq(Bytes)
    BY <2>1, <2>2, Cut
  <2>7. Unread(q) \in Seq(Bytes)
    BY <2>1, <2>4, Cut
  <2>8. ReadBytes(q) \o Unread(q) = q
    BY <2>1, <2>2, <2>4, Cut
  <2>9. QED BY <1>1, <2>3, <2>5, <2>6, <2>7, <2>8
<1>4. QED BY <1>1, <1>2, <1>3

\* Behind what the buffer keeps there is room for a full read.
LEMMA RoomFollows ==
  ASSUME TypeOK, BufferBetweenMessages
  PROVE  RoomForNextRead /\ Len(data) \in Nat
<1>1. /\ LARGEST \in Nat \ {0} /\ READ_SIZE \in Nat \ {0} /\ BUFFER_SIZE \in Nat \ {0}
      /\ LARGEST - 1 + READ_SIZE <= BUFFER_SIZE
  BY SizesFit
<1>2. data \in Seq(Bytes) /\ Len(data) \in Nat /\ expected \in 0 .. LARGEST
  BY Types, LenProperties DEF Bytes
<1>3. CASE data = <<>>
  <2>1. Len(data) = 0
    BY <1>3
  <2>2. QED BY <1>1, <2>1 DEF RoomForNextRead
<1>4. CASE data # <<>>
  <2>1. Len(data) < expected
    BY <1>4 DEF BufferBetweenMessages
  <2>2. QED BY <1>1, <1>2, <2>1 DEF RoomForNextRead
<1>5. QED BY <1>2, <1>3, <1>4

\* One round of the loop in handle_tcp_client.
LEMMA RoundFrames ==
  ASSUME NEW d \in Seq(Bytes), d # <<>>, NEW e \in Bytes, e = 0 \/ e = d[1],
         handled \in Seq(Seq(Bytes)), past \in Seq(Bytes), began \in Seq(Nat),
         dropped \in BOOLEAN, ProcessBuffer(d, e)
  PROVE  /\ data' \in Seq(Bytes) /\ expected' \in Bytes /\ handled' \in Seq(Seq(Bytes))
         /\ past' \in Seq(Bytes) /\ began' \in Seq(Nat) /\ dropped' \in BOOLEAN
         /\ BufferBetweenMessages'
<1> DEFINE size == MessageSize(d, e)
<1>1. Len(d) \in Nat \ {0} /\ d[1] \in Bytes /\ LARGEST \in Nat
  BY EmptySeq, ElementOfSeq, SizesFit
<1>2. size \in {0, d[1]}
  BY <1>1 DEF MessageSize, Bytes
<1>3. /\ handled' = IF IsComplete(d, size) THEN Append(handled, d) ELSE handled
      /\ data' = IF IsKept(d, size) THEN d ELSE <<>>
      /\ expected' = IF IsKept(d, size) THEN size ELSE 0
      /\ past' = IF IsKept(d, size) THEN past ELSE past \o d
      /\ began' = IF IsComplete(d, size) THEN Append(began, Len(past)) ELSE began
      /\ dropped' = (dropped \/ ~(IsKept(d, size) \/ IsComplete(d, size)))
  BY DEF ProcessBuffer
<1> HIDE DEF size
<1>8. past' \in Seq(Bytes)
  BY <1>3, ConcatProperties
<1>9. began' \in Seq(Nat)
  <2>1. Len(past) \in Nat
    BY LenProperties
  <2>2. QED BY <1>3, <2>1, AppendProperties
<1>10. dropped' \in BOOLEAN
  BY <1>3, Zenon
<1>4. handled' \in Seq(Seq(Bytes))
  BY <1>3, AppendProperties
<1>5. CASE IsKept(d, size)
  <2>1. Len(d) < size
    BY <1>5 DEF IsKept
  <2>2. size = d[1] /\ size # 0
    BY <1>1, <1>2, <2>1 DEF Bytes
  <2>3. data' = d /\ expected' = d[1]
    BY <1>3, <1>5, <2>2
  <2>4. QED BY <1>1, <1>4, <1>8, <1>9, <1>10, <2>1, <2>2, <2>3 DEF BufferBetweenMessages
<1>6. CASE ~IsKept(d, size)
  <2>1. data' = <<>> /\ expected' = 0
    BY <1>3, <1>6
  <2>2. 0 \in Bytes /\ <<>> \in Seq(Bytes)
    BY <1>1, EmptySeq DEF Bytes
  <2>3. QED BY <1>4, <1>8, <1>9, <1>10, <2>1, <2>2 DEF BufferBetweenMessages
<1>7. QED BY <1>5, <1>6

-----------------------------------------------------------------------------
(***************************************************************************)
(* One lemma per action of the client and the network.                     *)
(***************************************************************************)

\* Send: only a message that is sent while nothing is under way is paced.
LEMMA SendKeeps ==
  ASSUME FramingInv, NEW m \in Requests, Send(m)
  PROVE  FramingInv'
<1> USE DEF FramingInv
<1>1. /\ m \in Seq(Bytes) /\ wire \in Seq(Bytes) /\ sent \in Seq(Requests)
      /\ stream \in Seq(Bytes) /\ starts \in Seq(Nat)
  BY RequestsAreBytes, Types
<1>2. /\ sent' = Append(sent, m) /\ wire' = wire \o m /\ stream' = stream \o m
      /\ starts' = Append(starts, Len(stream))
      /\ paced' = (paced /\ sent = handled /\ m \in WellSized)
      /\ UNCHANGED <<closed, queue, eof, ready, data, expected, open, handled, past, began, dropped>>
  BY DEF Send, taken
<1>3. sent' \in Seq(Requests)
  BY <1>1, <1>2, AppendProperties
<1>4. wire' \in Seq(Bytes) /\ stream' \in Seq(Bytes) /\ starts' \in Seq(Nat)
  BY <1>1, <1>2, ConcatProperties, AppendProperties, LenProperties
<1>5. TypeOK'
  BY <1>2, <1>3, <1>4, Types DEF TypeOK
<1>6. BufferBetweenMessages'
  BY <1>2 DEF BufferBetweenMessages
<1>7. PacedIsLossless'
  <2> SUFFICES ASSUME paced'
               PROVE  \E x \in WellSized : /\ sent' = Append(handled', x)
                                           /\ data' \o queue' \o wire' = x
    BY DEF PacedIsLossless, WellSized
  <2>1. paced /\ sent = handled /\ m \in WellSized
    BY <1>2
  <2>2. \A x \in WellSized : sent # Append(handled, x)
    <3> SUFFICES ASSUME NEW x \in WellSized, sent = Append(sent, x) PROVE FALSE
      BY <2>1
    <3>1. x \in Requests
      BY DEF WellSized
    <3>2. Len(Append(sent, x)) = Len(sent) + 1 /\ Len(sent) \in Nat
      BY <1>1, <3>1, AppendProperties, LenProperties
    <3>3. QED BY <3>2
  <2>3. data = <<>> /\ queue = <<>> /\ wire = <<>>
    BY <2>1, <2>2 DEF PacedIsLossless
  <2>4. data' \o queue' \o wire' = m
    BY <1>1, <1>2, <2>3, EmptySeq, ConcatEmptySeq
  <2>5. QED BY <1>2, <2>1, <2>4
<1>8. QED BY <1>5, <1>6, <1>7

\* Arrive moves bytes from the wire to the end of the queue.
LEMMA ArriveKeeps ==
  ASSUME FramingInv, Arrive
  PROVE  FramingInv'
<1> USE DEF FramingInv
<1>1. PICK n \in 1 .. Len(wire) : /\ queue' = queue \o SubSeq(wire, 1, n)
                                  /\ wire' = SubSeq(wire, n+1, Len(wire))
  BY DEF Arrive
<1>2. /\ UNCHANGED <<sent, closed, paced, stream, starts, eof, data, expected, open>>
      /\ UNCHANGED <<handled, past, began, dropped>> /\ ready' = TRUE
  BY DEF Arrive, taken
<1> DEFINE a == SubSeq(wire, 1, n)
           b == SubSeq(wire, n+1, Len(wire))
<1>3. wire \in Seq(Bytes) /\ queue \in Seq(Bytes) /\ data \in Seq(Bytes) /\ Len(wire) \in Nat
  BY Types, LenProperties
<1>4. n \in 0 .. Len(wire)
  BY <1>3
<1>5. a \in Seq(Bytes) /\ b \in Seq(Bytes) /\ a \o b = wire
  BY <1>3, <1>4, Cut
<1> HIDE DEF a, b
<1>6. queue' = queue \o a /\ wire' = b
  BY <1>1 DEF a, b
<1>7. queue' \in Seq(Bytes)
  BY <1>3, <1>5, <1>6, ConcatProperties
<1>8. TypeOK'
  BY <1>2, <1>5, <1>6, <1>7, Types DEF TypeOK
<1>9. BufferBetweenMessages'
  BY <1>2 DEF BufferBetweenMessages
<1>10. data \o (queue \o a) \o b = data \o queue \o wire
  <2> HIDE DEF FramingInv
  <2>1. Regrouped(data, queue, a, b)
    BY <1>3, <1>5, Regroup, Zenon
  <2>2. QED BY <1>5, <2>1, Zenon DEF Regrouped
<1>11. wire # <<>>
  BY <1>3, EmptySeq
<1>12. PacedIsLossless'
  BY <1>2, <1>6, <1>10, <1>11 DEF PacedIsLossless, WellSized
<1>13. QED BY <1>8, <1>9, <1>12

\* Nothing moves when the client closes its end, the end of the stream arrives,
\* or a read returns no bytes.
LEMMA NoBytesKeeps ==
  ASSUME FramingInv, CloseEnd \/ ArriveEof \/ ReadEof \/ ReadNothing \/ UNCHANGED vars
  PROVE  FramingInv'
<1> USE DEF FramingInv
<1>1. /\ UNCHANGED <<sent, wire, stream, starts, queue, data, expected, handled, past, began,
                     dropped>>
      /\ paced' = paced \/ paced' = (paced /\ sent = handled)
      /\ {closed', eof', ready', open'} \subseteq BOOLEAN
  <2>1. CASE CloseEnd
    BY <2>1, Types DEF CloseEnd, taken
  <2>2. CASE ArriveEof
    BY <2>2, Types DEF ArriveEof, client, taken
  <2>3. CASE ReadEof
    BY <2>3, Types DEF ReadEof, client, taken
  <2>4. CASE ReadNothing
    BY <2>4, Types DEF ReadNothing, client, taken
  <2>5. CASE UNCHANGED vars
    BY <2>5, Types DEF vars, client, taken
  <2>6. QED BY <2>1, <2>2, <2>3, <2>4, <2>5
<1>2. paced' \in BOOLEAN /\ (paced' => paced)
  <2>1. paced \in BOOLEAN
    BY Types
  <2>2. CASE paced' = paced
    BY <2>1, <2>2
  <2>3. CASE paced' = (paced /\ sent = handled)
    BY <2>3
  <2>4. QED BY <1>1, <2>2, <2>3
<1>3. TypeOK'
  BY <1>1, <1>2, Types DEF TypeOK
<1>4. BufferBetweenMessages'
  BY <1>1 DEF BufferBetweenMessages
<1>5. PacedIsLossless'
  BY <1>1, <1>2 DEF PacedIsLossless, WellSized
<1>6. QED BY <1>3, <1>4, <1>5

\* What the first bytes of a message tell of the whole.
BeginsWith(m, d, u, w) ==
  /\ m[1] = d[1] /\ Len(m) \in Nat /\ Len(d) <= Len(m)
  /\ Len(d) = Len(m) => u = <<>> /\ w = <<>> /\ m = d

\* A message that was received whole or in part begins with what was received.
LEMMA Front ==
  ASSUME NEW d \in Seq(Bytes), NEW u \in Seq(Bytes), NEW w \in Seq(Bytes), d # <<>>,
         NEW m, d \o u \o w = m
  PROVE  BeginsWith(m, d, u, w)
<1>1. Len(d) \in Nat \ {0} /\ Len(u) \in Nat /\ Len(w) \in Nat
  BY EmptySeq, LenProperties
<1>2. d \o u \in Seq(Bytes) /\ Len(d \o u) = Len(d) + Len(u) /\ (d \o u)[1] = d[1]
  BY <1>1
<1>3. Len(m) = Len(d) + Len(u) + Len(w) /\ m[1] = d[1]
  <2>1. ASSUME NEW e \in Seq(Bytes), Len(e) > 0
        PROVE  Len(e \o w) = Len(e) + Len(w) /\ (e \o w)[1] = e[1]
    BY <2>1
  <2>2. Len((d \o u) \o w) = Len(d \o u) + Len(w) /\ ((d \o u) \o w)[1] = (d \o u)[1]
    BY <1>1, <1>2, <2>1
  <2>3. QED BY <1>2, <2>2
<1>4. ASSUME Len(d) = Len(m) PROVE u = <<>> /\ w = <<>> /\ m = d
  <2>1. u = <<>> /\ w = <<>>
    BY <1>1, <1>3, <1>4, EmptySeq
  <2>2. QED BY <2>1, EmptySeq, ConcatEmptySeq
<1>5. QED BY <1>1, <1>3, <1>4 DEF BeginsWith

\* What handle_tcp_client finds in the buffer after a read, and what of it a
\* paced client may have sent.
LEMMA ReadGathers ==
  ASSUME FramingInv, queue # <<>>
  PROVE  LET r == ReadBytes(queue)
             d == data \o r
         IN  /\ r \in Seq(Bytes) /\ d \in Seq(Bytes) /\ d # <<>> /\ d[1] \in Bytes
             /\ Unread(queue) \in Seq(Bytes)
             /\ Len(d) = Len(data) + Len(r) /\ Len(d) \in Nat \ {0} /\ Len(d) <= BUFFER_SIZE
             /\ expected = 0 \/ expected = d[1]
             /\ d \o Unread(queue) \o wire = data \o queue \o wire
<1> USE DEF FramingInv
<1> DEFINE r == ReadBytes(queue)
           d == data \o r
           u == Unread(queue)
<1>1. data \in Seq(Bytes) /\ queue \in Seq(Bytes) /\ wire \in Seq(Bytes)
  BY Types
<1>2. r \in Seq(Bytes) /\ r # <<>> /\ Len(r) <= READ_SIZE /\ u \in Seq(Bytes)
  BY <1>1, ReadCuts
<1>3. r \o u = queue
  BY <1>1, ReadCuts
<1> HIDE DEF r, u
<1>4. Len(r) \in Nat \ {0} /\ Len(data) \in Nat /\ READ_SIZE \in Nat /\ BUFFER_SIZE \in Nat
  BY <1>1, <1>2, EmptySeq, LenProperties, SizesFit
<1>5. d \in Seq(Bytes) /\ Len(d) = Len(data) + Len(r)
  BY <1>1, <1>2, ConcatProperties
<1>6. Len(d) \in Nat \ {0} /\ d # <<>>
  BY <1>4, <1>5, EmptySeq
<1>7. Len(d) <= BUFFER_SIZE
  BY <1>2, <1>4, <1>5, RoomFollows DEF RoomForNextRead
<1>8. d[1] \in Bytes
  BY <1>5, <1>6, ElementOfSeq
<1>9. expected = 0 \/ expected = d[1]
  <2>1. CASE data = <<>>
    BY <2>1 DEF BufferBetweenMessages
  <2>2. CASE data # <<>>
    <3>1. expected = data[1]
      BY <2>2 DEF BufferBetweenMessages
    <3>2. Len(data) >= 1
      BY <1>1, <1>4, <2>2, EmptySeq
    <3>3. d[1] = data[1]
      <4>1. 1 \in 1 .. Len(data) + Len(r) /\ 1 <= Len(data)
        BY <1>4, <3>2
      <4>2. QED BY <1>1, <1>2, <4>1, ConcatProperties
    <3>4. QED BY <3>1, <3>3
  <2>3. QED BY <2>1, <2>2
<1>10. d \o u \o wire = data \o queue \o wire
  <2> HIDE DEF FramingInv
  <2>1. \A x, y, z \in Seq(Bytes) : x \o y \o z = x \o (y \o z)
    OBVIOUS
  <2>2. data \o r \o u = data \o (r \o u)
    BY <1>1, <1>2, <2>1, ZenonT(30)
  <2>3. QED BY <1>3, <2>2, Zenon
<1>11. QED BY <1>2, <1>5, <1>6, <1>7, <1>8, <1>9, <1>10 DEF r, u

\* While a message of a paced client is under way, it begins with what the
\* buffer holds after a read, and its size is the one that is looked for.
LEMMA PacedRead ==
  ASSUME FramingInv, queue # <<>>, paced,
         NEW d, d = data \o ReadBytes(queue)
  PROVE  \E m \in WellSized :
           /\ sent = Append(handled, m)
           /\ d \o Unread(queue) \o wire = m
           /\ MessageSize(d, expected) = Len(m)
           /\ Len(m) \in Nat \ {0} /\ Len(d) <= Len(m) /\ (expected > 0 => expected = Len(m))
           /\ Len(d) = Len(m) => Unread(queue) = <<>> /\ wire = <<>> /\ m = d
<1> USE DEF FramingInv
<1> DEFINE u == Unread(queue)
<1>1. PICK m \in WellSized : sent = Append(handled, m) /\ data \o queue \o wire = m
  BY DEF PacedIsLossless
<1>2. /\ d \in Seq(Bytes) /\ d # <<>> /\ d[1] \in Bytes /\ u \in Seq(Bytes)
      /\ Len(d) \in Nat \ {0} /\ (expected = 0 \/ expected = d[1])
      /\ d \o u \o wire = data \o queue \o wire
  BY ReadGathers
<1>3. m[1] = Len(m)
  BY DEF WellSized
<1>4. wire \in Seq(Bytes) /\ d \o u \o wire = m
  BY <1>1, <1>2, Types
<1> HIDE DEF u, FramingInv
<1>5. BeginsWith(m, d, u, wire)
  BY <1>2, <1>4, Front, Zenon
<1>6. /\ m[1] = d[1] /\ Len(m) \in Nat /\ Len(d) <= Len(m)
      /\ Len(d) = Len(m) => u = <<>> /\ wire = <<>> /\ m = d
  BY <1>5 DEF BeginsWith
<1>7. d[1] = Len(m) /\ Len(m) \in Nat \ {0}
  BY <1>2, <1>3, <1>6
<1>8. Len(m) <= BUFFER_SIZE
  <2>1. /\ LARGEST \in Nat /\ READ_SIZE \in Nat \ {0} /\ BUFFER_SIZE \in Nat
        /\ LARGEST - 1 + READ_SIZE <= BUFFER_SIZE
    BY SizesFit
  <2>2. QED BY <1>2, <1>7, <2>1 DEF Bytes
<1>9. MessageSize(d, expected) = Len(m)
  BY <1>2, <1>7, <1>8 DEF MessageSize
<1>10. expected > 0 => expected = Len(m)
  BY <1>2, <1>7
<1>11. QED BY <1>1, <1>4, <1>6, <1>7, <1>9, <1>10 DEF u

\* ReadData: either the bytes do not fit into the expected size, which no paced
\* client can cause, or one round of the loop takes them.
LEMMA ReadDataKeeps ==
  ASSUME FramingInv, ReadData
  PROVE  FramingInv'
<1> DEFINE r == ReadBytes(queue)
           d == data \o r
           u == Unread(queue)
<1>1. queue # <<>> /\ queue' = u /\ UNCHANGED <<client, eof>>
  BY DEF ReadData
<1>2. UNCHANGED <<sent, closed, paced, wire, stream, starts, eof>>
  BY <1>1 DEF client
<1>3. /\ d \in Seq(Bytes) /\ d # <<>> /\ u \in Seq(Bytes)
      /\ Len(d) = Len(data) + Len(r) /\ Len(d) \in Nat \ {0} /\ Len(d) <= BUFFER_SIZE
      /\ expected = 0 \/ expected = d[1]
  BY <1>1, ReadGathers
<1>4. /\ sent \in Seq(Requests) /\ handled \in Seq(Seq(Bytes)) /\ wire \in Seq(Bytes)
      /\ closed \in BOOLEAN /\ paced \in BOOLEAN /\ eof \in BOOLEAN
      /\ ready \in BOOLEAN /\ open \in BOOLEAN /\ expected \in 0 .. LARGEST
      /\ stream \in Seq(Bytes) /\ past \in Seq(Bytes) /\ began \in Seq(Nat)
      /\ starts \in Seq(Nat) /\ dropped \in BOOLEAN
  BY Types DEF FramingInv, Bytes
<1>5. BUFFER_SIZE \in Nat /\ LARGEST \in Nat
  BY SizesFit
<1>6. buffer_write(data, expected, r) = IF expected > 0 /\ Len(d) > expected
                                        THEN "overflow" ELSE "written"
  <2>1. /\ ~(Len(data) + Len(r) > BUFFER_SIZE) /\ Len(data) + Len(r) <= BUFFER_SIZE
        /\ Len(data) + Len(r) = Len(d)
    BY <1>3, <1>5
  <2> HIDE DEF d, r
  <2>2. QED BY <2>1 DEF buffer_write
<1> DEFINE Framed == /\ data' \in Seq(Bytes) /\ expected' \in Bytes
                     /\ handled' \in Seq(Seq(Bytes)) /\ BufferBetweenMessages'
                     /\ past' \in Seq(Bytes) /\ began' \in Seq(Nat)
                     /\ ready' \in BOOLEAN /\ open' \in BOOLEAN /\ dropped' \in BOOLEAN
<1>7. CASE buffer_write(data, expected, r) = "overflow"
  <2>1. /\ data' = <<>> /\ expected' = 0 /\ open' = FALSE /\ ready' = FALSE
        /\ handled' = handled /\ began' = began /\ past' = past \o d /\ dropped' = TRUE
    BY <1>7 DEF ReadData
  <2>2. Framed
    <3>1. 0 \in Bytes /\ <<>> \in Seq(Bytes)
      BY <1>5, EmptySeq DEF Bytes
    <3>2. past' \in Seq(Bytes)
      BY <1>3, <1>4, <2>1, ConcatProperties
    <3>3. QED BY <1>4, <2>1, <3>1, <3>2 DEF BufferBetweenMessages
  <2>3. expected > 0 /\ Len(d) > expected
    BY <1>6, <1>7
  <2>4. ~paced
    <3>1. SUFFICES ASSUME paced PROVE FALSE
      OBVIOUS
    <3>2. \E m \in WellSized : Len(m) \in Nat /\ Len(d) <= Len(m) /\ expected = Len(m)
      BY <1>1, <2>3, <3>1, PacedRead
    <3>3. QED BY <1>3, <2>3, <3>2
  <2>5. PacedIsLossless'
    <3>1. ~paced'
      BY <1>2, <2>4
    <3>2. QED BY <3>1 DEF PacedIsLossless
  <2>6. QED BY <1>1, <1>2, <1>3, <1>4, <2>2, <2>5 DEF FramingInv, TypeOK
<1>8. CASE buffer_write(data, expected, r) = "written"
  <2>1. /\ ProcessBuffer(d, expected) /\ open' = open
        /\ ready' = FALSE \/ ready' = TRUE
    BY <1>8 DEF ReadData
  <2>2. Framed
    <3>1. expected \in Bytes
      BY <1>4 DEF Bytes
    <3>2. QED BY <1>3, <1>4, <2>1, <3>1, RoundFrames
  <2>3. PacedIsLossless'
    <3>1. SUFFICES ASSUME paced PROVE PacedIsLossless'
      BY <1>2 DEF PacedIsLossless
    <3>2. PICK m \in WellSized :
            /\ sent = Append(handled, m)
            /\ d \o u \o wire = m
            /\ MessageSize(d, expected) = Len(m)
            /\ Len(m) \in Nat \ {0} /\ Len(d) <= Len(m)
            /\ Len(d) = Len(m) => u = <<>> /\ wire = <<>> /\ m = d
      BY <1>1, <3>1, PacedRead
    <3>3. CASE Len(d) = Len(m)
      <4>1. IsComplete(d, Len(m)) /\ ~IsKept(d, Len(m))
        BY <3>2, <3>3 DEF IsComplete, IsKept
      <4>2. handled' = Append(handled, d) /\ data' = <<>>
        BY <2>1, <3>2, <4>1 DEF ProcessBuffer
      <4>3. sent' = handled' /\ data' = <<>> /\ queue' = <<>> /\ wire' = <<>>
        BY <1>1, <1>2, <3>2, <3>3, <4>2
      <4>4. QED BY <4>3 DEF PacedIsLossless
    <3>4. CASE Len(d) < Len(m)
      <4>1. ~IsComplete(d, Len(m)) /\ IsKept(d, Len(m))
        BY <1>3, <3>2, <3>4 DEF IsComplete, IsKept
      <4>2. handled' = handled /\ data' = d
        BY <2>1, <3>2, <4>1 DEF ProcessBuffer
      <4>3. sent' = Append(handled', m) /\ data' \o queue' \o wire' = m
        BY <1>1, <1>2, <3>2, <4>2
      <4>4. m \in WellSized'
        BY DEF WellSized
      <4>5. QED BY <4>3, <4>4 DEF PacedIsLossless
    <3>5. Len(d) = Len(m) \/ Len(d) < Len(m)
      <4>1. ASSUME NEW i \in Nat, NEW j \in Nat, i <= j PROVE i = j \/ i < j
        BY <4>1
      <4>2. Len(d) \in Nat /\ Len(m) \in Nat /\ Len(d) <= Len(m)
        <5> HIDE DEF d
        <5>1. QED BY <1>3, <3>2
      <4>3. QED BY <4>1, <4>2, Zenon
    <3>6. QED BY <3>3, <3>4, <3>5
  <2>4. QED BY <1>1, <1>2, <1>3, <1>4, <2>2, <2>3 DEF FramingInv, TypeOK
<1>9. QED BY <1>6, <1>7, <1>8

-----------------------------------------------------------------------------
(***************************************************************************)
(* What any client has handled is what it sent.                            *)
(***************************************************************************)

Grouped(p, q, r) == (p \o q) \o r = p \o (q \o r)

LEMMA Group == \A p, q, r \in Seq(Bytes) : Grouped(p, q, r)
<1> SUFFICES ASSUME NEW p \in Seq(Bytes), NEW q \in Seq(Bytes), NEW r \in Seq(Bytes)
             PROVE  Grouped(p, q, r)
  OBVIOUS
<1> QED BY DEF Grouped

\* A stretch of the past stays one when more bytes leave the buffer.
StretchOf(p, m, a) == m = SubSeq(p, a + 1, a + Len(m))

LEMMA StretchStays ==
  \A p, x, m \in Seq(Bytes) : \A a \in Nat :
    m # <<>> /\ a + Len(m) <= Len(p) /\ StretchOf(p, m, a) => StretchOf(p \o x, m, a)
<1> SUFFICES ASSUME NEW p \in Seq(Bytes), NEW x \in Seq(Bytes), NEW m \in Seq(Bytes),
                    NEW a \in Nat, m # <<>>, a + Len(m) <= Len(p), StretchOf(p, m, a)
             PROVE  StretchOf(p \o x, m, a)
  OBVIOUS
<1>1. Len(p) \in Nat /\ Len(m) \in Nat \ {0}
  BY EmptySeq
<1>2. a + 1 \in 1 .. Len(p) /\ a + Len(m) \in 1 .. Len(p)
  BY <1>1
<1>3. SubSeq(p \o x, a + 1, a + Len(m)) = SubSeq(p, a + 1, a + Len(m))
  BY <1>2, SubSeqOfConcat1
<1>4. QED BY <1>3 DEF StretchOf

\* The bytes that leave the buffer are the last stretch of the past.
LEMMA LastStretch ==
  \A p, d \in Seq(Bytes) : d # <<>> => StretchOf(p \o d, d, Len(p))
<1> SUFFICES ASSUME NEW p \in Seq(Bytes), NEW d \in Seq(Bytes), d # <<>>
             PROVE  StretchOf(p \o d, d, Len(p))
  OBVIOUS
<1>1. Len(p) \in Nat /\ Len(d) \in Nat \ {0}
  BY EmptySeq
<1>2. /\ Len(p) + 1 \in Len(p) + 1 .. Len(p) + Len(d)
      /\ Len(p) + Len(d) \in Len(p) + 1 .. Len(p) + Len(d)
      /\ (Len(p) + 1) - Len(p) = 1 /\ (Len(p) + Len(d)) - Len(p) = Len(d)
  BY <1>1
<1>3. SubSeq(p \o d, Len(p) + 1, Len(p) + Len(d)) = SubSeq(d, 1, Len(d))
  BY <1>2, SubSeqOfConcat2
<1>4. QED BY <1>3, SubSeqFull DEF StretchOf

\* A step after which the same messages have been handled, and that at most
\* takes bytes away from the buffer, keeps their stretches.
LEMMA StretchesStay ==
  ASSUME TypeOK, HandledAsSent, UNCHANGED <<handled, began>>,
         NEW x \in Seq(Bytes), past' = past \o x
  PROVE  Len(began') = Len(handled') /\ \A i \in 1 .. Len(handled') : Stretch(i)'
<1>1. /\ past \in Seq(Bytes) /\ handled \in Seq(Seq(Bytes)) /\ began \in Seq(Nat)
      /\ Len(began) = Len(handled)
  BY Types DEF HandledAsSent
<1>2. SUFFICES ASSUME NEW i \in 1 .. Len(handled) PROVE Stretch(i)'
  BY <1>1
<1>3. PICK m : m = handled[i]
  OBVIOUS
<1>4. PICK a : a = began[i]
  OBVIOUS
<1>5. m \in Seq(Bytes) /\ a \in Nat
  BY <1>1, <1>2, <1>3, <1>4, ElementOfSeq
<1>6. /\ m # <<>> /\ Len(m) = m[1] /\ a + Len(m) <= Len(past) /\ StretchOf(past, m, a)
      /\ i < Len(handled) => a + Len(m) <= began[i + 1]
  BY <1>2, <1>3, <1>4 DEF HandledAsSent, Stretch, StretchOf
<1>7. StretchOf(past', m, a)
  BY <1>1, <1>5, <1>6, StretchStays, Zenon
<1>8. a + Len(m) <= Len(past')
  <2>1. Len(past') = Len(past) + Len(x)
    BY <1>1, ConcatProperties
  <2>2. Len(past) \in Nat /\ Len(x) \in Nat /\ Len(m) \in Nat
    BY <1>1, <1>5, LenProperties
  <2>3. QED BY <1>5, <1>6, <2>1, <2>2
<1>9. QED BY <1>3, <1>4, <1>6, <1>7, <1>8 DEF Stretch, StretchOf

\* A message that is handled is a stretch behind all others.
LEMMA StretchAdded ==
  ASSUME TypeOK, HandledAsSent, NEW d \in Seq(Bytes), d # <<>>, Len(d) = d[1],
         past' = past \o d, handled' = Append(handled, d), began' = Append(began, Len(past))
  PROVE  Len(began') = Len(handled') /\ \A i \in 1 .. Len(handled') : Stretch(i)'
<1>1. /\ past \in Seq(Bytes) /\ handled \in Seq(Seq(Bytes)) /\ began \in Seq(Nat)
      /\ Len(began) = Len(handled)
  BY Types DEF HandledAsSent
<1>2. Len(past) \in Nat /\ Len(d) \in Nat /\ Len(handled) \in Nat
  BY <1>1, LenProperties
<1>3. PICK n : n = Len(handled)
  OBVIOUS
<1>4. /\ Len(handled') = n + 1 /\ handled'[n + 1] = d
      /\ \A i \in 1 .. n : handled'[i] = handled[i]
  BY <1>1, <1>3, AppendProperties
<1>5. /\ Len(began') = n + 1 /\ began'[n + 1] = Len(past)
      /\ \A i \in 1 .. n : began'[i] = began[i]
  BY <1>1, <1>2, <1>3, AppendProperties
<1>6. Len(past') = Len(past) + Len(d)
  BY <1>1, ConcatProperties
<1>7. ASSUME NEW i \in 1 .. n PROVE Stretch(i)'
  <2>1. PICK m : m = handled[i]
    OBVIOUS
  <2>2. PICK a : a = began[i]
    OBVIOUS
  <2>3. m \in Seq(Bytes) /\ a \in Nat
    BY <1>1, <1>3, <1>7, <2>1, <2>2, ElementOfSeq
  <2>4. /\ m # <<>> /\ Len(m) = m[1] /\ a + Len(m) <= Len(past) /\ StretchOf(past, m, a)
        /\ i < n => a + Len(m) <= began[i + 1]
    BY <1>3, <1>7, <2>1, <2>2 DEF HandledAsSent, Stretch, StretchOf
  <2>5. StretchOf(past', m, a)
    BY <1>1, <2>3, <2>4, StretchStays, Zenon
  <2>6. a + Len(m) <= Len(past')
    <3>1. Len(m) \in Nat
      BY <2>3, LenProperties
    <3>2. QED BY <1>2, <1>6, <2>3, <2>4, <3>1
  <2>7. a + Len(m) <= began'[i + 1]
    <3>1. CASE i < n
      <4>1. i + 1 \in 1 .. n
        BY <1>2, <1>3, <3>1
      <4>2. began'[i + 1] = began[i + 1]
        BY <1>5, <4>1
      <4>3. QED BY <2>4, <3>1, <4>2
    <3>2. CASE i = n
      BY <1>5, <2>4, <3>2
    <3>3. i < n \/ i = n
      BY <1>2, <1>3, <1>7
    <3>4. QED BY <3>1, <3>2, <3>3
  <2>8. handled'[i] = m /\ began'[i] = a
    BY <1>4, <1>5, <2>1, <2>2
  <2>9. QED BY <2>4, <2>5, <2>6, <2>7, <2>8 DEF Stretch, StretchOf
<1>8. Stretch(n + 1)'
  <2>1. StretchOf(past', d, Len(past))
    BY <1>1, LastStretch, Zenon
  <2>2. ~(n + 1 < Len(handled'))
    BY <1>2, <1>3, <1>4
  <2>3. Len(past) + Len(d) <= Len(past')
    BY <1>2, <1>6
  <2>4. QED BY <1>4, <1>5, <2>1, <2>2, <2>3 DEF Stretch, StretchOf
<1>9. ASSUME NEW i \in 1 .. n + 1 PROVE i \in 1 .. n \/ i = n + 1
  BY <1>2, <1>3, <1>9
<1>10. QED BY <1>4, <1>5, <1>7, <1>8, <1>9

\* Bytes that are sent come behind all others.
LEMMA SendExtendsStream ==
  ASSUME TypeOK, HandledAsSent, NEW m \in Requests, Send(m)
  PROVE  HandledAsSent'
<1>1. /\ m \in Seq(Bytes) /\ wire \in Seq(Bytes) /\ queue \in Seq(Bytes)
      /\ data \in Seq(Bytes) /\ past \in Seq(Bytes)
  BY RequestsAreBytes, Types
<1>2. /\ wire' = wire \o m /\ stream' = stream \o m
      /\ UNCHANGED <<data, queue, handled, past, began>>
  BY DEF Send, taken
<1>3. PICK dq : dq = data \o queue
  OBVIOUS
<1>4. PICK x : x = dq \o wire
  OBVIOUS
<1>5. dq \in Seq(Bytes)
  BY <1>1, <1>3, ConcatProperties
<1>6. x \in Seq(Bytes)
  BY <1>1, <1>4, <1>5, ConcatProperties
<1>7. Grouped(dq, wire, m) /\ Grouped(past, x, m)
  BY <1>1, <1>5, <1>6, Group, Zenon
<1>8. stream = past \o x
  BY <1>3, <1>4 DEF HandledAsSent
<1>9. dq \o (wire \o m) = x \o m
  BY <1>4, <1>7, Zenon DEF Grouped
<1>10. stream \o m = past \o (dq \o (wire \o m))
  BY <1>7, <1>8, <1>9, Zenon DEF Grouped
<1>11. stream' = past' \o (data' \o queue' \o wire')
  BY <1>2, <1>3, <1>10, Zenon
<1>13. Len(began') = Len(handled') /\ \A i \in 1 .. Len(handled') : Stretch(i)'
  BY <1>2 DEF HandledAsSent, Stretch
<1>14. QED BY <1>11, <1>13 DEF HandledAsSent

\* A segment that arrives moves bytes along.
LEMMA ArriveKeepsStream ==
  ASSUME TypeOK, HandledAsSent, Arrive
  PROVE  HandledAsSent'
<1>1. PICK n \in 1 .. Len(wire) : /\ queue' = queue \o SubSeq(wire, 1, n)
                                  /\ wire' = SubSeq(wire, n+1, Len(wire))
  BY DEF Arrive
<1>2. UNCHANGED <<stream, data, handled, past, began>>
  BY DEF Arrive, taken
<1>3. wire \in Seq(Bytes) /\ queue \in Seq(Bytes) /\ data \in Seq(Bytes) /\ Len(wire) \in Nat
  BY Types, LenProperties
<1>4. PICK a : a = SubSeq(wire, 1, n)
  OBVIOUS
<1>5. PICK b : b = SubSeq(wire, n+1, Len(wire))
  OBVIOUS
<1>6. a \in Seq(Bytes) /\ b \in Seq(Bytes) /\ a \o b = wire
  <2>1. n \in 0 .. Len(wire)
    BY <1>3
  <2>2. QED BY <1>3, <1>4, <1>5, <2>1, Cut
<1>7. Regrouped(data, queue, a, b)
  BY <1>3, <1>6, Regroup, Zenon
<1>8. data \o (queue \o a) \o b = data \o queue \o wire
  BY <1>6, <1>7, Zenon DEF Regrouped
<1>9. stream' = past' \o (data' \o queue' \o wire')
  BY <1>1, <1>2, <1>4, <1>5, <1>8 DEF HandledAsSent
<1>10. Len(began') = Len(handled') /\ \A i \in 1 .. Len(handled') : Stretch(i)'
  BY <1>2 DEF HandledAsSent, Stretch
<1>11. QED BY <1>9, <1>10 DEF HandledAsSent

\* A read that does not go beyond the expected size is written to the buffer.
LEMMA ReadFits ==
  ASSUME FramingInv, queue # <<>>,
         buffer_write(data, expected, ReadBytes(queue)) # "overflow"
  PROVE  buffer_write(data, expected, ReadBytes(queue)) = "written"
<1>1. PICK d : d = data \o ReadBytes(queue)
  OBVIOUS
<1>2. /\ Len(d) \in Nat /\ Len(d) <= BUFFER_SIZE
      /\ Len(d) = Len(data) + Len(ReadBytes(queue))
  BY <1>1, ReadGathers
<1>3. ~(Len(data) + Len(ReadBytes(queue)) > BUFFER_SIZE)
  <2>1. Len(d) \in Nat /\ BUFFER_SIZE \in Nat /\ ~(Len(d) > BUFFER_SIZE)
    BY <1>2, SizesFit
  <2>2. QED BY <1>2, <2>1, Zenon
<1>4. QED BY <1>3 DEF buffer_write

\* A read takes bytes from the socket to the buffer.  They stay there, or they
\* leave it, as a whole message or dropped.
LEMMA ReadTakesStretches ==
  ASSUME FramingInv, HandledAsSent, ReadData
  PROVE  HandledAsSent'
<1>1. PICK d : d = data \o ReadBytes(queue)
  OBVIOUS
<1>2. PICK u : u = Unread(queue)
  OBVIOUS
<1>3. TypeOK
  BY DEF FramingInv
<1>4. queue # <<>> /\ queue' = u /\ wire' = wire /\ stream' = stream
  BY <1>2 DEF ReadData, client
<1>5. /\ d \in Seq(Bytes) /\ d # <<>> /\ d[1] \in Bytes /\ u \in Seq(Bytes)
      /\ Len(d) = Len(data) + Len(ReadBytes(queue)) /\ Len(d) \in Nat \ {0}
      /\ Len(d) <= BUFFER_SIZE
      /\ expected = 0 \/ expected = d[1]
      /\ d \o u \o wire = data \o queue \o wire
  BY <1>1, <1>2, <1>4, ReadGathers
<1>6. /\ wire \in Seq(Bytes) /\ past \in Seq(Bytes)
  BY <1>3, Types
<1>7. ASSUME data' = d, UNCHANGED <<handled, past, began>>
      PROVE  HandledAsSent'
  <2>1. stream' = past' \o (data' \o queue' \o wire')
    BY <1>4, <1>5, <1>7 DEF HandledAsSent
  <2>2. Len(began') = Len(handled') /\ \A i \in 1 .. Len(handled') : Stretch(i)'
    BY <1>7 DEF HandledAsSent, Stretch
  <2>3. QED BY <2>1, <2>2 DEF HandledAsSent
<1>8. ASSUME data' = <<>>, past' = past \o d
      PROVE  stream' = past' \o (data' \o queue' \o wire')
  <2>1. PICK x : x = u \o wire
    OBVIOUS
  <2>2. x \in Seq(Bytes) /\ <<>> \o u = u
    BY <1>5, <1>6, <2>1, ConcatProperties, ConcatEmptySeq
  <2>3. Grouped(past, d, x) /\ Grouped(d, u, wire)
    BY <1>5, <1>6, <2>2, Group, Zenon
  <2>4. stream = past \o (d \o u \o wire)
    BY <1>5 DEF HandledAsSent
  <2>5. stream = past \o (d \o x)
    BY <2>1, <2>3, <2>4, Zenon DEF Grouped
  <2>6. stream = (past \o d) \o x
    BY <2>3, <2>5, Zenon DEF Grouped
  <2>7. data' \o queue' \o wire' = x
    BY <1>4, <1>8, <2>1, <2>2
  <2>8. QED BY <1>4, <1>8, <2>6, <2>7, Zenon
<1>9. ASSUME data' = <<>>, past' = past \o d, UNCHANGED <<handled, began>>
      PROVE  HandledAsSent'
  <2>1. stream' = past' \o (data' \o queue' \o wire')
    BY <1>8, <1>9
  <2>2. Len(began') = Len(handled') /\ \A i \in 1 .. Len(handled') : Stretch(i)'
    BY <1>3, <1>5, <1>9, StretchesStay
  <2>3. QED BY <2>1, <2>2 DEF HandledAsSent
<1>10. CASE buffer_write(data, expected, ReadBytes(queue)) = "overflow"
  <2>1. /\ data' = <<>> /\ past' = past \o d /\ UNCHANGED <<handled, began>>
    BY <1>1, <1>10 DEF ReadData
  <2>2. QED BY <1>9, <2>1
<1>11. CASE buffer_write(data, expected, ReadBytes(queue)) # "overflow"
  <2>1. buffer_write(data, expected, ReadBytes(queue)) = "written"
    BY <1>4, <1>11, ReadFits
  <2>2. ProcessBuffer(d, expected)
    BY <1>1, <1>11, <2>1 DEF ReadData
  <2>3. PICK size : size = MessageSize(d, expected)
    OBVIOUS
  <2>4. /\ handled' = IF IsComplete(d, size) THEN Append(handled, d) ELSE handled
        /\ data' = IF IsKept(d, size) THEN d ELSE <<>>
        /\ past' = IF IsKept(d, size) THEN past ELSE past \o d
        /\ began' = IF IsComplete(d, size) THEN Append(began, Len(past)) ELSE began
    BY <2>2, <2>3 DEF ProcessBuffer
  <2>5. size \in {0, d[1]}
    BY <1>5, <2>3 DEF MessageSize, Bytes
  <2>6. CASE IsKept(d, size)
    <3>1. ~IsComplete(d, size)
      BY <1>5, <2>6 DEF IsKept, IsComplete
    <3>2. data' = d /\ UNCHANGED <<handled, past, began>>
      BY <2>4, <2>6, <3>1
    <3>3. QED BY <1>7, <3>2
  <2>7. CASE ~IsKept(d, size) /\ ~IsComplete(d, size)
    BY <1>9, <2>4, <2>7
  <2>8. CASE ~IsKept(d, size) /\ IsComplete(d, size)
    <3>1. Len(d) = d[1]
      BY <2>5, <2>8 DEF IsComplete
    <3>2. /\ data' = <<>> /\ past' = past \o d
          /\ handled' = Append(handled, d) /\ began' = Append(began, Len(past))
      BY <2>4, <2>8
    <3>3. stream' = past' \o (data' \o queue' \o wire')
      BY <1>8, <3>2
    <3>4. Len(began') = Len(handled') /\ \A i \in 1 .. Len(handled') : Stretch(i)'
      BY <1>3, <1>5, <3>1, <3>2, StretchAdded
    <3>5. QED BY <3>3, <3>4 DEF HandledAsSent
  <2>9. QED BY <2>6, <2>7, <2>8
<1>12. QED BY <1>10, <1>11

-----------------------------------------------------------------------------
(***************************************************************************)
(* The theorems.                                                           *)
(***************************************************************************)

\* Init establishes the invariant.
LEMMA InitFrames ==
  ASSUME Init
  PROVE  FramingInv
<1>1. TypeOK
  <2>1. /\ <<>> \in Seq(Requests) /\ <<>> \in Seq(Seq(Bytes)) /\ <<>> \in Seq(Bytes)
        /\ 0 \in Bytes /\ <<>> \in Seq(Nat)
    BY EmptySeq, SizesFit DEF Bytes
  <2>2. QED BY <2>1 DEF Init, TypeOK
<1>2. BufferBetweenMessages /\ PacedIsLossless
  BY DEF Init, BufferBetweenMessages, PacedIsLossless
<1>3. QED BY <1>1, <1>2 DEF FramingInv

\* Framing never loses its footing: between two events the read buffer holds
\* the beginning of one message, and a client that waits for each message to be
\* handled has all its messages handled as it sent them, in order and once,
\* however handle_tcp_client finds their bytes cut.
THEOREM FramingInvariance == Spec => []FramingInv
<1>1. Init => FramingInv
  BY InitFrames
<1>2. FramingInv /\ [Next]_vars => FramingInv'
  <2>1. SUFFICES ASSUME FramingInv, [Next]_vars PROVE FramingInv'
    OBVIOUS
  <2>2. CASE \E m \in Requests : Send(m)
    BY <2>1, <2>2, SendKeeps
  <2>3. CASE Arrive
    BY <2>1, <2>3, ArriveKeeps
  <2>4. CASE CloseEnd \/ ArriveEof \/ ReadEof \/ ReadNothing \/ UNCHANGED vars
    BY <2>1, <2>4, NoBytesKeeps
  <2>5. CASE ReadData
    BY <2>1, <2>5, ReadDataKeeps
  <2>6. QED BY <2>1, <2>2, <2>3, <2>4, <2>5 DEF Next, handle_tcp_client
<1>3. QED BY <1>1, <1>2, PTL DEF Spec

\* connection_read_data never runs into BUFFER_MEMORY_OVERFLOW, the result it
\* does not look at.
THEOREM NoMemoryOverflow == Spec => []RoomForNextRead
<1>1. FramingInv => RoomForNextRead
  BY RoomFollows DEF FramingInv
<1>2. QED BY <1>1, FramingInvariance, PTL

\* Whatever a client sends, and however handle_tcp_client finds it cut: what
\* handle_client_message is called with is what the client sent, each time as
\* many bytes in a row as the first one announces, in order, and none twice.
THEOREM OnlySentBytesAreHandled == Spec => []HandledAsSent
<1>1. Init => HandledAsSent
  <2>1. SUFFICES ASSUME Init PROVE HandledAsSent
    OBVIOUS
  <2>2. Len(<<>>) = 0 /\ <<>> \o <<>> = <<>>
    BY EmptySeq, ConcatEmptySeq
  <2>3. Len(handled) = 0 /\ Len(began) = 0
    BY <2>1, <2>2 DEF Init
  <2>4. stream = past \o (data \o queue \o wire)
    BY <2>1, <2>2 DEF Init
  <2>5. QED BY <2>3, <2>4 DEF HandledAsSent
<1>2. FramingInv /\ HandledAsSent /\ [Next]_vars => HandledAsSent'
  <2>1. SUFFICES ASSUME FramingInv, HandledAsSent, [Next]_vars PROVE HandledAsSent'
    OBVIOUS
  <2>2. TypeOK
    BY <2>1 DEF FramingInv
  <2>3. ASSUME NEW m \in Requests, Send(m) PROVE HandledAsSent'
    BY <2>1, <2>2, <2>3, SendExtendsStream
  <2>4. CASE Arrive
    BY <2>1, <2>2, <2>4, ArriveKeepsStream
  <2>5. CASE ReadData
    BY <2>1, <2>5, ReadTakesStretches
  <2>6. CASE CloseEnd \/ ArriveEof \/ ReadEof \/ ReadNothing \/ UNCHANGED vars
    <3>1. UNCHANGED <<stream, past, data, queue, wire, handled, began>>
      BY <2>6 DEF CloseEnd, ArriveEof, ReadEof, ReadNothing, vars, client, taken
    <3>2. QED BY <2>1, <3>1 DEF HandledAsSent, Stretch
  <2>7. QED BY <2>1, <2>3, <2>4, <2>5, <2>6 DEF Next, handle_tcp_client
<1>3. QED BY <1>1, <1>2, FramingInvariance, PTL DEF Spec

-----------------------------------------------------------------------------
(***************************************************************************)
(* Until bytes are dropped, messages of known size are handled whole.      *)
(***************************************************************************)
\* The client sent messages of known size only.
Sized == \A k \in 1 .. Len(sent) : sent[k] \in WellSized

\* The messages lie in the stream one behind the other.
AllSentAt == Len(starts) = Len(sent) /\ \A k \in 1 .. Len(sent) : SentAt(k)

\* Where the next byte that leaves the buffer is expected.
NextStart == IF Len(handled) < Len(sent) THEN starts[Len(handled) + 1] ELSE Len(stream)

\* NextIsAStart is about these.
LEMMA NextIsAStartParts ==
  NextIsAStart <=> AllSentAt /\ (~dropped /\ Sized => Len(past) = NextStart)
BY DEF NextIsAStart, AllSentAt, Sized, NextStart

\* The same of the next state.
LEMMA NextIsAStartPartsNext ==
  NextIsAStart' <=> AllSentAt' /\ (~dropped' /\ Sized' => Len(past)' = NextStart')
BY DEF NextIsAStart, AllSentAt, Sized, NextStart

\* A message that was sent is not empty.
LEMMA SentMessage ==
  ASSUME TypeOK, NEW k \in 1 .. Len(sent)
  PROVE  sent[k] \in Seq(Bytes) /\ sent[k] # <<>> /\ Len(sent[k]) \in Nat \ {0}
<1>1. sent[k] \in Requests
  BY Types, ElementOfSeq
<1>2. sent[k] \in Seq(Bytes) /\ sent[k] # <<>>
  BY <1>1, RequestsAreBytes
<1>3. QED BY <1>2, EmptySeq, LenProperties

\* The first byte of a stretch is the byte at its place.
LEMMA FirstOfStretch ==
  ASSUME NEW p \in Seq(Bytes), NEW m \in Seq(Bytes), NEW a \in Nat,
         m # <<>>, a + Len(m) <= Len(p), StretchOf(p, m, a)
  PROVE  m[1] = p[a + 1]
<1>1. Len(p) \in Nat /\ Len(m) \in Nat \ {0}
  BY EmptySeq, LenProperties
<1>2. PICK u, v : u = a + 1 /\ v = a + Len(m)
  OBVIOUS
<1>3. u \in Int /\ v \in Int /\ (u .. v) \subseteq 1 .. Len(p) /\ 1 \in 1 .. v - u + 1
  BY <1>1, <1>2
<1>4. \A i \in u .. v : p[i] \in Bytes
  BY <1>3, ElementOfSeq
<1>5. \A i \in 1 .. v - u + 1 : SubSeq(p, u, v)[i] = p[u + i - 1]
  BY <1>3, <1>4, SubSeqProperties
<1>6. SubSeq(p, u, v)[1] = p[u + 1 - 1] /\ u + 1 - 1 = u
  BY <1>3, <1>5
<1>7. QED BY <1>2, <1>6 DEF StretchOf

\* A message that is sent lies behind all others.
LEMMA SendKeepsStarts ==
  ASSUME TypeOK, NextIsAStart, WholeUntilDropped, NEW m \in Requests, Send(m)
  PROVE  NextIsAStart' /\ WholeUntilDropped'
<1>1. /\ m \in Seq(Bytes) /\ m # <<>> /\ stream \in Seq(Bytes) /\ sent \in Seq(Requests)
      /\ starts \in Seq(Nat) /\ Len(stream) \in Nat /\ Len(m) \in Nat
      /\ handled \in Seq(Seq(Bytes)) /\ Len(handled) \in Nat
  BY RequestsAreBytes, Types, LenProperties
<1>2. /\ sent' = Append(sent, m) /\ stream' = stream \o m
      /\ starts' = Append(starts, Len(stream)) /\ UNCHANGED <<handled, past, began, dropped>>
  BY DEF Send, taken
<1>3. PICK n \in Nat : n = Len(sent)
  BY <1>1, LenProperties
<1>4. AllSentAt /\ (~dropped /\ Sized => Len(past) = NextStart)
  BY NextIsAStartParts
<1>5. Len(starts) = n
  BY <1>3, <1>4 DEF AllSentAt
<1>6. /\ Len(sent') = n + 1 /\ sent'[n + 1] = m /\ \A k \in 1 .. n : sent'[k] = sent[k]
  BY <1>1, <1>2, <1>3, AppendProperties
<1>7. /\ Len(starts') = n + 1 /\ starts'[n + 1] = Len(stream)
      /\ \A k \in 1 .. n : starts'[k] = starts[k]
  <2>1. starts \in Seq(Nat) /\ Len(stream) \in Nat /\ starts' = Append(starts, Len(stream))
    BY <1>1, <1>2
  <2>2. QED BY <1>5, <2>1, AppendProperties
<1>8. stream' \in Seq(Bytes) /\ Len(stream') = Len(stream) + Len(m)
  BY <1>1, <1>2, ConcatProperties
<1>9. ASSUME NEW k \in 1 .. n PROVE SentAt(k)'
  <2>1. PICK x : x = sent[k]
    OBVIOUS
  <2>2. PICK a : a = starts[k]
    OBVIOUS
  <2>3. x \in Seq(Bytes) /\ x # <<>> /\ Len(x) \in Nat /\ a \in Nat
    BY <1>1, <1>3, <1>5, <1>9, <2>1, <2>2, SentMessage, ElementOfSeq
  <2>4. SentAt(k)
    BY <1>3, <1>4, <1>9 DEF AllSentAt
  <2>5. /\ a + Len(x) <= Len(stream) /\ StretchOf(stream, x, a)
        /\ a + Len(x) = IF k < n THEN starts[k + 1] ELSE Len(stream)
    BY <1>3, <2>1, <2>2, <2>4 DEF SentAt, StretchOf
  <2>6. StretchOf(stream', x, a)
    BY <1>1, <1>2, <2>3, <2>5, StretchStays, Zenon
  <2>7. a + Len(x) = starts'[k + 1]
    <3>1. CASE k < n
      <4>1. k + 1 \in 1 .. n
        BY <1>9, <3>1
      <4>2. QED BY <1>7, <2>5, <3>1, <4>1
    <3>2. CASE k = n
      BY <1>7, <2>5, <3>2
    <3>3. QED BY <1>9, <3>1, <3>2
  <2>8. k < Len(sent') /\ a + Len(x) <= Len(stream')
    BY <1>1, <1>6, <1>8, <1>9, <2>3, <2>5
  <2>9. sent'[k] = x /\ starts'[k] = a
    BY <1>6, <1>7, <1>9, <2>1, <2>2
  <2>10. QED BY <2>6, <2>7, <2>8, <2>9 DEF SentAt, StretchOf
<1>10. SentAt(n + 1)'
  <2>1. StretchOf(stream', m, Len(stream))
    BY <1>1, <1>2, LastStretch, Zenon
  <2>2. ~(n + 1 < Len(sent')) /\ Len(stream) + Len(m) <= Len(stream')
    BY <1>1, <1>6, <1>8
  <2>3. QED BY <1>6, <1>7, <1>8, <2>1, <2>2 DEF SentAt, StretchOf
<1>11. AllSentAt'
  <2>1. \A k \in 1 .. n + 1 : k \in 1 .. n \/ k = n + 1
    OBVIOUS
  <2>2. QED BY <1>6, <1>7, <1>9, <1>10, <2>1 DEF AllSentAt
<1>12. ASSUME ~dropped', Sized'
       PROVE  /\ ~dropped /\ Sized /\ Len(handled) <= n
              /\ \A i \in 1 .. Len(handled) : handled[i] = sent[i]
  <2>1. \A k \in 1 .. n : k \in 1 .. n + 1
    OBVIOUS
  <2>2. ~dropped /\ Sized
    BY <1>2, <1>3, <1>6, <1>12, <2>1 DEF Sized
  <2>3. QED BY <1>3, <2>2 DEF WholeUntilDropped, Sized
<1>13. ASSUME ~dropped', Sized' PROVE Len(past)' = NextStart'
  <2>1. Len(past)' = NextStart
    BY <1>2, <1>4, <1>12, <1>13
  <2>2. CASE Len(handled) < n
    <3>1. Len(handled) + 1 \in 1 .. n /\ Len(handled) < n + 1
      BY <1>1, <2>2
    <3>2. QED BY <1>2, <1>3, <1>6, <1>7, <2>1, <2>2, <3>1 DEF NextStart
  <2>3. CASE Len(handled) = n
    <3>1. ~(Len(handled) < n) /\ Len(handled) < n + 1
      BY <1>1, <2>3
    <3>2. QED BY <1>2, <1>3, <1>6, <1>7, <2>1, <2>3, <3>1 DEF NextStart
  <2>4. Len(handled) < n \/ Len(handled) = n
    BY <1>1, <1>12, <1>13
  <2>5. QED BY <2>2, <2>3, <2>4
<1>14. WholeUntilDropped'
  <2>1. SUFFICES ASSUME ~dropped', Sized'
                 PROVE  /\ Len(handled') <= Len(sent')
                        /\ \A i \in 1 .. Len(handled') : handled'[i] = sent'[i]
    BY DEF WholeUntilDropped, Sized
  <2>2. Len(handled) <= n /\ \A i \in 1 .. Len(handled) : handled[i] = sent[i]
    BY <1>12, <2>1
  <2>3. \A i \in 1 .. Len(handled) : i \in 1 .. n
    BY <1>1, <2>2
  <2>4. Len(handled) <= n + 1
    BY <1>1, <2>2
  <2>5. QED BY <1>2, <1>6, <2>2, <2>3, <2>4
<1>15. QED BY <1>11, <1>13, <1>14, NextIsAStartPartsNext

\* What leaves the buffer as a whole message, when all before it did, is the next
\* message of the client: both begin at the same place of the stream, so the same
\* byte announces their size.
LEMMA NextHandledIsNextSent ==
  ASSUME TypeOK, NextIsAStart, WholeUntilDropped, ~dropped, Sized,
         NEW d \in Seq(Bytes), d # <<>>, Len(d) = d[1],
         NEW x \in Seq(Bytes), stream = (past \o d) \o x
  PROVE  Len(handled) + 1 \in 1 .. Len(sent) /\ sent[Len(handled) + 1] = d
<1>1. /\ past \in Seq(Bytes) /\ stream \in Seq(Bytes) /\ sent \in Seq(Requests)
      /\ starts \in Seq(Nat) /\ handled \in Seq(Seq(Bytes))
  BY Types
<1>2. PICK a \in Nat : a = Len(past)
  BY <1>1, LenProperties
<1>3. /\ Len(handled) \in Nat /\ Len(sent) \in Nat /\ Len(stream) \in Nat
      /\ Len(d) \in Nat \ {0} /\ Len(x) \in Nat
  BY <1>1, EmptySeq, LenProperties
<1>4. a + Len(d) <= Len(stream)
  <2>1. past \o d \in Seq(Bytes) /\ Len(past \o d) = a + Len(d)
    BY <1>1, <1>2, ConcatProperties
  <2>2. Len(stream) = (a + Len(d)) + Len(x)
    BY <2>1, ConcatProperties
  <2>3. QED BY <1>3, <2>2
<1>5. AllSentAt /\ a = NextStart
  BY <1>2, NextIsAStartParts
<1>6. Len(handled) < Len(sent)
  BY <1>3, <1>4, <1>5 DEF NextStart
<1>7. PICK k \in 1 .. Len(sent) : k = Len(handled) + 1
  BY <1>3, <1>6
<1>8. starts[k] = a
  BY <1>5, <1>6, <1>7 DEF NextStart
<1>9. PICK m : m = sent[k]
  OBVIOUS
<1>10. m \in Seq(Bytes) /\ m # <<>> /\ m[1] = Len(m)
  BY <1>7, <1>9, SentMessage DEF Sized, WellSized
<1>11. StretchOf(stream, m, a) /\ a + Len(m) <= Len(stream)
  BY <1>5, <1>7, <1>8, <1>9 DEF AllSentAt, SentAt, StretchOf
<1>12. StretchOf(stream, d, a)
  <2>1. StretchOf(past \o d, d, a)
    BY <1>1, <1>2, LastStretch, Zenon
  <2>2. past \o d \in Seq(Bytes) /\ a + Len(d) <= Len(past \o d)
    <3>1. past \o d \in Seq(Bytes) /\ Len(past \o d) = a + Len(d)
      BY <1>1, <1>2, ConcatProperties
    <3>2. QED BY <1>3, <3>1
  <2>3. QED BY <2>1, <2>2, StretchStays, Zenon
<1>13. m[1] = d[1]
  <2>1. m[1] = stream[a + 1]
    BY <1>1, <1>10, <1>11, FirstOfStretch
  <2>2. d[1] = stream[a + 1]
    BY <1>1, <1>4, <1>12, FirstOfStretch
  <2>3. QED BY <2>1, <2>2
<1>14. Len(m) = Len(d)
  BY <1>10, <1>13
<1>15. m = d
  BY <1>11, <1>12, <1>14 DEF StretchOf
<1>16. QED BY <1>7, <1>9, <1>15

\* A read handles the next message, or drops bytes, or waits for more.
LEMMA ReadKeepsStarts ==
  ASSUME FramingInv, HandledAsSent, HandledAsSent', NextIsAStart, WholeUntilDropped, ReadData
  PROVE  NextIsAStart' /\ WholeUntilDropped'
<1>1. TypeOK
  BY DEF FramingInv
<1>2. UNCHANGED <<sent, stream, starts, wire>> /\ queue # <<>> /\ queue' = Unread(queue)
  BY DEF ReadData, client
<1>3. AllSentAt /\ (~dropped /\ Sized => Len(past) = NextStart)
  BY NextIsAStartParts
<1>4. AllSentAt'
  BY <1>2, <1>3 DEF AllSentAt, SentAt
<1>5. CASE dropped'
  BY <1>4, <1>5, NextIsAStartPartsNext DEF WholeUntilDropped
<1>6. CASE UNCHANGED <<handled, past>> /\ (dropped => dropped')
  <2>1. ~dropped' /\ Sized' => Len(past)' = NextStart'
    BY <1>2, <1>3, <1>6 DEF Sized, NextStart
  <2>2. WholeUntilDropped'
    BY <1>2, <1>6 DEF WholeUntilDropped
  <2>3. QED BY <1>4, <2>1, <2>2, NextIsAStartPartsNext
<1>7. ASSUME ~dropped', dropped => dropped',
             NEW d \in Seq(Bytes), d # <<>>, Len(d) = d[1], data' = <<>>,
             past' = past \o d, handled' = Append(handled, d)
      PROVE  NextIsAStart' /\ WholeUntilDropped'
  <2>1. SUFFICES ASSUME Sized'
                 PROVE  /\ Len(past)' = NextStart'
                        /\ Len(handled') <= Len(sent')
                        /\ \A i \in 1 .. Len(handled') : handled'[i] = sent'[i]
    BY <1>4, NextIsAStartPartsNext DEF WholeUntilDropped, Sized
  <2>2. ~dropped /\ Sized
    BY <1>2, <1>7, <2>1 DEF Sized
  <2>3. /\ past \in Seq(Bytes) /\ handled \in Seq(Seq(Bytes)) /\ wire \in Seq(Bytes)
        /\ queue' \in Seq(Bytes) /\ sent \in Seq(Requests)
    BY <1>1, <1>2, ReadGathers, Types
  <2>4. PICK x \in Seq(Bytes) : x = <<>> \o queue' \o wire'
    <3>1. <<>> \o queue' \in Seq(Bytes)
      BY <2>3, EmptySeq, ConcatProperties
    <3>2. QED BY <1>2, <2>3, <3>1, ConcatProperties
  <2>5. stream = (past \o d) \o x
    BY <1>2, <1>7, <2>4 DEF HandledAsSent
  <2>6. PICK n \in Nat : n = Len(handled)
    BY <2>3, LenProperties
  <2>7. n + 1 \in 1 .. Len(sent) /\ sent[n + 1] = d
    BY <1>1, <1>7, <2>2, <2>5, <2>6, NextHandledIsNextSent
  <2>8. /\ Len(handled') = n + 1 /\ handled'[n + 1] = d
        /\ \A i \in 1 .. n : handled'[i] = handled[i]
    BY <1>7, <2>3, <2>6, AppendProperties
  <2>9. \A i \in 1 .. n : handled[i] = sent[i]
    BY <2>2, <2>6 DEF WholeUntilDropped, Sized
  <2>10. \A i \in 1 .. n + 1 : handled'[i] = sent[i]
    <3>1. \A i \in 1 .. n + 1 : i \in 1 .. n \/ i = n + 1
      OBVIOUS
    <3>2. QED BY <2>7, <2>8, <2>9, <3>1
  <2>11. Len(past') = Len(past) + Len(d)
    BY <1>7, <2>3, ConcatProperties
  <2>12. Len(past) = starts[n + 1]
    <3>1. Len(sent) \in Nat
      BY <2>3, LenProperties
    <3>2. n < Len(sent)
      BY <2>7, <3>1
    <3>3. QED BY <1>3, <2>2, <2>6, <3>2 DEF NextStart
  <2>13. Len(past') = IF n + 1 < Len(sent) THEN starts[(n + 1) + 1] ELSE Len(stream)
    BY <1>3, <2>7, <2>11, <2>12 DEF AllSentAt, SentAt
  <2>14. Len(past)' = NextStart'
    BY <1>2, <2>8, <2>13 DEF NextStart
  <2>15. n + 1 <= Len(sent)
    <3>1. Len(sent) \in Nat
      BY <2>3, LenProperties
    <3>2. QED BY <2>7, <3>1
  <2>16. QED BY <1>2, <2>8, <2>10, <2>14, <2>15
<1>8. PICK d : d = data \o ReadBytes(queue)
  OBVIOUS
<1>9. /\ d \in Seq(Bytes) /\ d # <<>> /\ d[1] \in Bytes
      /\ expected = 0 \/ expected = d[1]
  BY <1>2, <1>8, ReadGathers
<1>10. CASE buffer_write(data, expected, ReadBytes(queue)) = "overflow"
  <2>1. dropped'
    BY <1>10 DEF ReadData
  <2>2. QED BY <1>5, <2>1
<1>11. CASE buffer_write(data, expected, ReadBytes(queue)) # "overflow"
  <2>1. buffer_write(data, expected, ReadBytes(queue)) = "written"
    BY <1>2, <1>11, ReadFits
  <2>2. ProcessBuffer(d, expected)
    BY <1>8, <1>11, <2>1 DEF ReadData
  <2>3. PICK size : size = MessageSize(d, expected)
    OBVIOUS
  <2>4. /\ handled' = IF IsComplete(d, size) THEN Append(handled, d) ELSE handled
        /\ data' = IF IsKept(d, size) THEN d ELSE <<>>
        /\ past' = IF IsKept(d, size) THEN past ELSE past \o d
        /\ dropped' = (dropped \/ ~(IsKept(d, size) \/ IsComplete(d, size)))
    BY <2>2, <2>3 DEF ProcessBuffer
  <2>5. size \in {0, d[1]}
    BY <1>9, <2>3 DEF MessageSize, Bytes
  <2>6. dropped => dropped'
    BY <2>4
  <2>7. CASE IsKept(d, size)
    <3>1. ~IsComplete(d, size)
      <4>1. Len(d) \in Nat /\ size \in Nat
        BY <1>9, <2>5, LenProperties, SizesFit DEF Bytes
      <4>2. QED BY <2>7, <4>1 DEF IsKept, IsComplete
    <3>2. UNCHANGED <<handled, past>>
      BY <2>4, <2>7, <3>1
    <3>3. QED BY <1>6, <2>6, <3>2
  <2>8. CASE ~IsKept(d, size) /\ ~IsComplete(d, size)
    <3>1. dropped'
      BY <2>4, <2>8
    <3>2. QED BY <1>5, <3>1
  <2>9. CASE ~IsKept(d, size) /\ IsComplete(d, size)
    <3>1. Len(d) = d[1]
      BY <2>5, <2>9 DEF IsComplete
    <3>2. data' = <<>> /\ past' = past \o d /\ handled' = Append(handled, d)
      BY <2>4, <2>9
    <3>3. CASE dropped'
      BY <1>5, <3>3
    <3>4. CASE ~dropped'
      BY <1>7, <1>9, <2>6, <3>1, <3>2, <3>4
    <3>5. QED BY <3>3, <3>4
  <2>10. QED BY <2>7, <2>8, <2>9
<1>12. QED BY <1>10, <1>11

\* However handle_tcp_client finds the messages cut, and however fast they come:
\* up to the first bytes it drops, what a client sent in known sizes is handled
\* message by message, whole and in order.
THEOREM MessagesAreWholeUntilDropped == Spec => []WholeUntilDropped
<1>1. Init => NextIsAStart /\ WholeUntilDropped
  <2>1. SUFFICES ASSUME Init PROVE NextIsAStart /\ WholeUntilDropped
    OBVIOUS
  <2>2. Len(sent) = 0 /\ Len(handled) = 0 /\ Len(starts) = 0 /\ Len(past) = 0 /\ Len(stream) = 0
    BY <2>1, EmptySeq DEF Init
  <2>3. QED BY <2>2 DEF NextIsAStart, WholeUntilDropped
<1>2. /\ FramingInv /\ HandledAsSent /\ HandledAsSent' /\ NextIsAStart /\ WholeUntilDropped
      /\ [Next]_vars
      => (NextIsAStart /\ WholeUntilDropped)'
  <2>1. SUFFICES ASSUME FramingInv, HandledAsSent, HandledAsSent', NextIsAStart,
                        WholeUntilDropped, [Next]_vars
                 PROVE  NextIsAStart' /\ WholeUntilDropped'
    OBVIOUS
  <2>2. TypeOK
    BY <2>1 DEF FramingInv
  <2>3. ASSUME NEW m \in Requests, Send(m) PROVE NextIsAStart' /\ WholeUntilDropped'
    BY <2>1, <2>2, <2>3, SendKeepsStarts
  <2>4. CASE ReadData
    BY <2>1, <2>4, ReadKeepsStarts
  <2>5. CASE CloseEnd \/ Arrive \/ ArriveEof \/ ReadEof \/ ReadNothing \/ UNCHANGED vars
    <3>1. UNCHANGED <<sent, stream, starts, handled, past, dropped>>
      BY <2>5 DEF CloseEnd, Arrive, ArriveEof, ReadEof, ReadNothing, vars, client, taken
    <3>2. NextIsAStart'
      BY <2>1, <3>1 DEF NextIsAStart, SentAt
    <3>3. WholeUntilDropped'
      BY <2>1, <3>1 DEF WholeUntilDropped
    <3>4. QED BY <3>2, <3>3
  <2>6. QED BY <2>1, <2>3, <2>4, <2>5 DEF Next, handle_tcp_client
<1>3. QED BY <1>1, <1>2, FramingInvariance, OnlySentBytesAreHandled, PTL DEF Spec

-----------------------------------------------------------------------------
(***************************************************************************)
(* No bytes of a paced client lie in the socket without an event to come.  *)
(***************************************************************************)

\* The end of the stream only comes from a client that closed, and a paced
\* client closes when its last message was handled.
ClosedLast == (eof => closed) /\ (paced /\ closed => sent = handled)

\* A read that happens for a paced client takes all there is, and the client
\* has not closed.
LEMMA PacedReadEmptiesSocket ==
  ASSUME ReadTakesMessage, FramingInv, ClosedLast, ReadData, paced
  PROVE  queue' = <<>> /\ ~closed /\ ~eof
<1>1. queue # <<>> /\ queue' = Unread(queue)
  BY DEF ReadData
<1>2. /\ data \in Seq(Bytes) /\ queue \in Seq(Bytes) /\ wire \in Seq(Bytes)
      /\ sent \in Seq(Requests) /\ handled \in Seq(Seq(Bytes))
  BY Types DEF FramingInv
<1>3. PICK m \in WellSized : sent = Append(handled, m) /\ data \o queue \o wire = m
  BY <1>1 DEF FramingInv, PacedIsLossless
<1>4. m \in Seq(Bytes) /\ m # <<>> /\ m[1] = Len(m)
  BY RequestsAreBytes DEF WellSized
<1>5. Len(m) <= READ_SIZE
  <2>1. m[1] \in Bytes
    <3>1. Len(m) \in Nat \ {0}
      BY <1>4, EmptySeq
    <3>2. QED BY <1>4, <3>1, ElementOfSeq
  <2>2. QED BY <1>4, <2>1, SizesFit DEF Bytes, ReadTakesMessage
<1>6. Len(queue) <= READ_SIZE
  <2>1. Len(data) \in Nat /\ Len(queue) \in Nat /\ Len(wire) \in Nat
    BY <1>2, LenProperties
  <2>2. data \o queue \in Seq(Bytes) /\ Len(data \o queue) = Len(data) + Len(queue)
    BY <1>2, ConcatProperties
  <2>3. Len(m) = (Len(data) + Len(queue)) + Len(wire)
    <3>1. Len((data \o queue) \o wire) = Len(data \o queue) + Len(wire)
      BY <1>2, <2>2, ConcatProperties
    <3>2. QED BY <1>3, <2>2, <3>1
  <2>4. QED BY <1>5, <2>1, <2>3, SizesFit
<1>7. queue' = <<>>
  <2>1. ReadBytes(queue) = queue
    BY <1>6 DEF ReadBytes
  <2>2. Len(queue) \in Nat
    BY <1>2, LenProperties
  <2>3. SubSeq(queue, Len(queue) + 1, Len(queue)) = <<>>
    BY <2>2, SubSeqEmpty
  <2>4. QED BY <1>1, <2>1, <2>3 DEF Unread
<1>8. sent # handled
  <2>1. Len(Append(handled, m)) = Len(handled) + 1 /\ Len(handled) \in Nat
    BY <1>2, <1>4, AppendProperties, LenProperties
  <2>2. Append(handled, m) # handled
    BY <2>1
  <2>3. QED BY <1>3, <2>2
<1>9. QED BY <1>7, <1>8 DEF ClosedLast

\* However the bytes of a paced client arrive, the one read that follows an
\* event of the edge-triggered socket leaves nothing behind that no event is
\* going to report, when the largest message fits into a read.
THEOREM PacedBytesAreAwaited ==
  ASSUME ReadTakesMessage
  PROVE  Spec => []PacedIsAwaited
<1>1. Init => PacedIsAwaited /\ ClosedLast
  BY DEF Init, PacedIsAwaited, ClosedLast
<1>2. FramingInv /\ PacedIsAwaited /\ ClosedLast /\ [Next]_vars => (PacedIsAwaited /\ ClosedLast)'
  <2>1. SUFFICES ASSUME FramingInv, PacedIsAwaited, ClosedLast, [Next]_vars
                 PROVE  PacedIsAwaited' /\ ClosedLast'
    OBVIOUS
  <2>2. paced \in BOOLEAN /\ closed \in BOOLEAN
    BY <2>1, Types DEF FramingInv
  <2>3. ASSUME NEW m \in Requests, Send(m) PROVE PacedIsAwaited' /\ ClosedLast'
    BY <2>1, <2>2, <2>3 DEF Send, PacedIsAwaited, ClosedLast
  <2>4. CASE CloseEnd
    BY <2>1, <2>2, <2>4 DEF CloseEnd, taken, PacedIsAwaited, ClosedLast
  <2>5. CASE Arrive \/ ArriveEof
    BY <2>1, <2>5 DEF Arrive, ArriveEof, client, taken, PacedIsAwaited, ClosedLast
  <2>6. CASE ReadEof \/ ReadNothing \/ UNCHANGED vars
    BY <2>1, <2>6 DEF ReadEof, ReadNothing, vars, client, taken, PacedIsAwaited, ClosedLast
  <2>7. CASE ReadData
    <3>1. UNCHANGED <<paced, closed, eof>>
      BY <2>7 DEF ReadData, client
    <3>2. paced => queue' = <<>> /\ ~closed /\ ~eof
      BY <2>1, <2>7, PacedReadEmptiesSocket
    <3>3. QED BY <2>1, <3>1, <3>2 DEF PacedIsAwaited, ClosedLast
  <2>8. QED BY <2>1, <2>3, <2>4, <2>5, <2>6, <2>7 DEF Next, handle_tcp_client
<1>3. QED BY <1>1, <1>2, FramingInvariance, PTL DEF Spec

-----------------------------------------------------------------------------
(***************************************************************************)
(* Framing implements Delivery.                                            *)
(***************************************************************************)

\* A step that leaves the history alone is a stutter of Delivery.
LEMMA Stutters ==
  ASSUME UNCHANGED <<sent, handled, paced>>
  PROVE  [D!Next]_(D!vars)
BY DEF D!vars

\* What is appended can be told from what was there.
LEMMA AppendUnique ==
  ASSUME NEW h \in Seq(Seq(Bytes)), NEW g \in Seq(Seq(Bytes)),
         NEW m \in Seq(Bytes), NEW l \in Seq(Bytes), Append(h, m) = Append(g, l)
  PROVE  h = g
<1>1. Len(h) = Len(g) /\ Len(h) \in Nat
  <2>1. Len(Append(h, m)) = Len(h) + 1
    BY AppendProperties
  <2>2. Len(Append(g, l)) = Len(g) + 1
    BY AppendProperties
  <2>3. Len(h) \in Nat /\ Len(g) \in Nat
    BY LenProperties
  <2>4. QED BY <2>1, <2>2, <2>3
<1>2. \A i \in 1 .. Len(h) : h[i] = Append(h, m)[i] /\ g[i] = Append(g, l)[i]
  <2>1. \A i \in 1 .. Len(h) : Append(h, m)[i] = h[i]
    BY AppendProperties
  <2>2. \A i \in 1 .. Len(g) : Append(g, l)[i] = g[i]
    BY AppendProperties
  <2>3. QED BY <1>1, <2>1, <2>2
<1>3. \A i \in 1 .. Len(h) : h[i] = g[i]
  BY <1>2
<1>4. QED BY <1>1, <1>3, SeqEqual

\* A read of a paced client hands on its one outstanding message, or nothing.
LEMMA ReadDelivers ==
  ASSUME FramingInv, FramingInv', ReadData
  PROVE  [D!Next]_(D!vars)
<1>1. sent' = sent /\ paced' = paced /\ queue # <<>>
  BY DEF ReadData, client
<1>2. CASE ~paced
  BY <1>1, <1>2 DEF D!Disorder, D!Next
<1>3. CASE paced
  <2>1. PICK m \in WellSized : sent = Append(handled, m)
    BY <1>1, <1>3 DEF FramingInv, PacedIsLossless
  <2>2. handled \in Seq(Seq(Bytes)) /\ handled' \in Seq(Seq(Bytes)) /\ m \in Seq(Bytes)
    BY RequestsAreBytes DEF FramingInv, TypeOK, WellSized
  <2>3. CASE sent = handled'
    <3>1. Len(sent) = Len(handled) + 1 /\ Len(handled) \in Nat
      BY <2>1, <2>2, AppendProperties, LenProperties
    <3>2. sent \in Seq(Seq(Bytes)) /\ SubSeq(sent, 1, Len(sent)) = sent
      BY <2>2, <2>3, SubSeqFull
    <3>3. 1 \in 1 .. Len(sent) - Len(handled)
      BY <3>1
    <3>4. handled' = SubSeq(sent, 1, Len(handled) + 1)
      BY <2>3, <3>1, <3>2
    <3>5. D!Deliver
      BY <1>1, <1>3, <3>3, <3>4 DEF D!Deliver
    <3>6. QED BY <3>5 DEF D!Next
  <2>4. CASE \E l \in WellSized' : sent' = Append(handled', l)
    <3>1. PICK l \in WellSized : sent = Append(handled', l)
      BY <1>1, <2>4 DEF WellSized
    <3>2. l \in Seq(Bytes)
      BY RequestsAreBytes DEF WellSized
    <3>3. handled' = handled
      BY <2>1, <2>2, <3>1, <3>2, AppendUnique
    <3>4. QED BY <1>1, <3>3, Stutters
  <2>5. QED BY <1>1, <1>3, <2>3, <2>4 DEF FramingInv, PacedIsLossless
<1>4. QED BY <1>2, <1>3

\* Framing implements Delivery: what handle_client_message is called with is a
\* beginning of what a paced client sent.
THEOREM FramingDelivers == Spec => RequestsInOrder
<1>1. Init => D!Init
  BY DEF Init, D!Init
<1>2. FramingInv /\ FramingInv' /\ [Next]_vars => [D!Next]_(D!vars)
  <2>1. SUFFICES ASSUME FramingInv, FramingInv', [Next]_vars PROVE [D!Next]_(D!vars)
    OBVIOUS
  <2>2. paced \in BOOLEAN /\ sent \in Seq(Requests)
    BY <2>1 DEF FramingInv, TypeOK
  <2>3. ASSUME NEW m \in Requests, Send(m) PROVE [D!Next]_(D!vars)
    <3>1. sent' = sent \o <<m>>
      BY <2>2, <2>3, AppendIsConcat DEF Send
    <3>2. handled' = handled /\ paced' \in {paced, FALSE}
      BY <2>2, <2>3 DEF Send, taken
    <3>3. D!Send(<<m>>)
      BY <3>1, <3>2 DEF D!Send
    <3>4. QED BY <3>3 DEF D!Next
  <2>4. CASE CloseEnd
    <3>1. sent' = sent /\ handled' = handled /\ paced' \in {paced, FALSE}
      BY <2>2, <2>4 DEF CloseEnd, taken
    <3>2. QED BY <3>1, Stutters DEF D!Leave, D!Next
  <2>5. CASE Arrive \/ ArriveEof \/ ReadEof \/ ReadNothing \/ UNCHANGED vars
    <3>1. UNCHANGED <<sent, handled, paced>>
      BY <2>5 DEF Arrive, ArriveEof, ReadEof, ReadNothing, vars, client, taken
    <3>2. QED BY <3>1, Stutters
  <2>6. CASE ReadData
    BY <2>1, <2>6, ReadDelivers
  <2>7. QED BY <2>1, <2>3, <2>4, <2>5, <2>6 DEF Next, handle_tcp_client
<1>3. QED BY <1>1, <1>2, FramingInvariance, PTL DEF Spec, RequestsInOrder, D!Spec
=============================================================================
