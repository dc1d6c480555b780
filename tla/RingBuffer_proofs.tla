-------------------------- MODULE RingBuffer_proofs --------------------------
(* For every size of the array, every largest request and every set of byte *)
(* values, the ring buffer of mode_mavlink.c is a bounded FIFO queue.        *)
EXTENDS RingBuffer, SequenceTheorems, TLAPS

(***************************************************************************)
(* Arithmetic of the indices: one wrap at most.                            *)
(***************************************************************************)
LEMMA AtAhead ==
  ASSUME NEW i \in Index, NEW k \in 0..TXBUF_SIZE
  PROVE  /\ At(i, k) \in Index
         /\ At(i, k) = IF i + k < TXBUF_SIZE THEN i + k ELSE i + k - TXBUF_SIZE
<1>1. CASE i + k < TXBUF_SIZE
  BY <1>1, SizeAssumption DEF At, Index
<1>2. CASE i + k >= TXBUF_SIZE
  <2>1. i + k \in TXBUF_SIZE..2 * TXBUF_SIZE - 1
    BY <1>2, SizeAssumption DEF Index
  <2>2. \A a \in TXBUF_SIZE..2 * TXBUF_SIZE - 1 : a % TXBUF_SIZE = a - TXBUF_SIZE
    BY SizeAssumption
  <2>. QED  BY <1>2, <2>1, <2>2, SizeAssumption DEF At, Index
<1>. QED  BY <1>1, <1>2, SizeAssumption DEF Index

LEMMA OffsetBehind ==
  ASSUME NEW i \in Index, NEW t \in Index
  PROVE  /\ Offset(i, t) \in Nat
         /\ Offset(i, t) = IF i >= t THEN i - t ELSE i - t + TXBUF_SIZE
<1>1. CASE i >= t
  <2>1. i - t \in 0..TXBUF_SIZE - 1
    BY <1>1, SizeAssumption DEF Index
  <2>2. \A a \in 0..TXBUF_SIZE - 1 : a % TXBUF_SIZE = a
    BY SizeAssumption
  <2>. QED  BY <1>1, <2>1, <2>2, SizeAssumption DEF Offset
<1>2. CASE i < t
  <2>1. i - t \in -TXBUF_SIZE..-1
    BY <1>2, SizeAssumption DEF Index
  <2>2. \A a \in -TXBUF_SIZE..-1 : a % TXBUF_SIZE = a + TXBUF_SIZE
    BY SizeAssumption
  <2>. QED  BY <1>2, <2>1, <2>2, SizeAssumption DEF Offset, Index
<1>. QED  BY <1>1, <1>2, SizeAssumption DEF Index

(***************************************************************************)
(* What each operation does to the bytes waiting.                          *)
(***************************************************************************)
RingType == [data : [Index -> Byte], head : Index, tail : Index,
             used : 0..TXBUF_SIZE]

Consistent(b) == b \in RingType /\ b.tail = At(b.head, b.used)

LEMMA ContentsType ==
  ASSUME NEW b, Consistent(b)
  PROVE  ContentsOf(b) \in Seq(Byte) /\ Len(ContentsOf(b)) = b.used
<1>1. \A i \in 1..b.used : b.data[At(b.head, i - 1)] \in Byte
  BY AtAhead, SizeAssumption DEF Consistent, RingType
<1>. QED  BY <1>1 DEF ContentsOf, Consistent, RingType

LEMMA ChunkIsSeq ==
  ASSUME NEW src \in Chunk
  PROVE  /\ src \in Seq(Byte)
         /\ Len(src) \in Nat
         /\ DOMAIN src = 1..Len(src)
         /\ \A i \in 1..Len(src) : src[i] \in Byte
<1>1. PICK n \in 0..MaxChunk : src \in [1..n -> Byte]
  BY DEF Chunk
<1>. QED  BY <1>1, SizeAssumption

\* A push that fits keeps the ring consistent and appends the chunk.
LEMMA PushAppends ==
  ASSUME NEW b, Consistent(b), NEW src \in Chunk, RbFits(b, Len(src))
  PROVE  /\ Consistent(RbPush(b, src))
         /\ ContentsOf(RbPush(b, src)) = ContentsOf(b) \o src
<1>. DEFINE n == Len(src)
            c == RbPush(b, src)
<1>1. /\ n \in Nat
      /\ \A i \in 1..n : src[i] \in Byte
      /\ src \in Seq(Byte)
  BY ChunkIsSeq
<1>2. /\ b.used + n <= TXBUF_SIZE
      /\ n \in 0..TXBUF_SIZE
      /\ b.used \in 0..TXBUF_SIZE /\ b.head \in Index /\ b.tail \in Index
      /\ b.data \in [Index -> Byte]
  BY <1>1, SizeAssumption DEF RbFits, Consistent, RingType
<1>3. /\ c.data = [i \in Index |-> IF Offset(i, b.tail) < n
                                    THEN src[Offset(i, b.tail) + 1] ELSE b.data[i]]
      /\ c.head = b.head
      /\ c.tail = At(b.tail, n)
      /\ c.used = b.used + n
      /\ c = [data |-> c.data, head |-> c.head, tail |-> c.tail, used |-> c.used]
  BY DEF RbPush
<1>4. \A i \in Index : Offset(i, b.tail) \in Nat
  BY <1>2, OffsetBehind, SizeAssumption DEF Index
<1>5. c.data \in [Index -> Byte]
  BY <1>1, <1>2, <1>3, <1>4
<1>6. c.tail \in Index
  BY <1>2, <1>3, AtAhead
<1>7. c.tail = At(c.head, c.used)
  <2>. DEFINE h == b.head  t == b.tail  u == b.used
  <2>1. t = IF h + u < TXBUF_SIZE THEN h + u ELSE h + u - TXBUF_SIZE
    BY <1>2, AtAhead DEF Consistent
  <2>2. At(t, n) = IF t + n < TXBUF_SIZE THEN t + n ELSE t + n - TXBUF_SIZE
    BY <1>2, AtAhead
  <2>3. u + n \in 0..TXBUF_SIZE
    BY <1>1, <1>2
  <2>4. At(h, u + n) = IF h + (u + n) < TXBUF_SIZE THEN h + (u + n)
                                                   ELSE h + (u + n) - TXBUF_SIZE
    BY <1>2, <2>3, AtAhead
  <2>5. At(t, n) = At(h, u + n)
    <3>1. h \in Int /\ u \in Int /\ n \in Int /\ TXBUF_SIZE \in Int /\ h < TXBUF_SIZE
          /\ u + n <= TXBUF_SIZE /\ n >= 0 /\ u >= 0 /\ h >= 0
      BY <1>1, <1>2, SizeAssumption DEF Index
    <3>. HIDE DEF h, t, u, n
    <3>. QED  BY <2>1, <2>2, <2>4, <3>1
  <2>. QED  BY <1>3, <2>5
<1>8. Consistent(c)
  <2>1. c.used \in 0..TXBUF_SIZE
    BY <1>1, <1>2, <1>3
  <2>. QED  BY <1>2, <1>3, <1>5, <1>6, <1>7, <2>1 DEF Consistent, RingType
\* The i-th byte waiting is an old one up to used, a new one beyond.
<1>9. ASSUME NEW i \in 1..(b.used + n)
      PROVE  c.data[At(b.head, i - 1)] =
               IF i <= b.used THEN b.data[At(b.head, i - 1)] ELSE src[i - b.used]
  <2>. DEFINE p == At(b.head, i - 1)
  <2>1. i - 1 \in 0..TXBUF_SIZE
    BY <1>1, <1>2, SizeAssumption
  <2>2. /\ p \in Index
        /\ p = IF b.head + (i - 1) < TXBUF_SIZE THEN b.head + (i - 1)
                                                ELSE b.head + (i - 1) - TXBUF_SIZE
    BY <1>2, <2>1, AtAhead
  <2>3. b.tail = IF b.head + b.used < TXBUF_SIZE THEN b.head + b.used
                                                 ELSE b.head + b.used - TXBUF_SIZE
    BY <1>2, AtAhead DEF Consistent
  <2>4. Offset(p, b.tail) = IF p >= b.tail THEN p - b.tail ELSE p - b.tail + TXBUF_SIZE
    BY <1>2, <2>2, OffsetBehind
  <2>5. CASE i <= b.used
    <3>1. Offset(p, b.tail) >= n
      <4>. DEFINE h == b.head  t == b.tail  u == b.used
      <4>1. /\ h \in Int /\ u \in Int /\ n \in Int /\ TXBUF_SIZE \in Int /\ i \in Int
            /\ h < TXBUF_SIZE /\ u + n <= TXBUF_SIZE /\ n >= 0 /\ u >= 0 /\ h >= 0
            /\ 1 <= i /\ i <= u
        BY <1>1, <1>2, <2>5, SizeAssumption DEF Index
      <4>. HIDE DEF h, t, u, n, p
      <4>2. p = IF h + (i - 1) < TXBUF_SIZE THEN h + (i - 1) ELSE h + (i - 1) - TXBUF_SIZE
        BY <2>2 DEF h
      <4>3. t = IF h + u < TXBUF_SIZE THEN h + u ELSE h + u - TXBUF_SIZE
        BY <2>3 DEF h, t, u
      <4>4. Offset(p, t) = IF p >= t THEN p - t ELSE p - t + TXBUF_SIZE
        BY <2>4 DEF t
      <4>5. Offset(p, t) >= n
        BY <4>1, <4>2, <4>3, <4>4
      <4>. QED  BY <4>5 DEF t
    <3>. QED  BY <1>1, <1>2, <1>3, <1>4, <2>2, <2>5, <3>1
  <2>6. CASE i > b.used
    <3>1. Offset(p, b.tail) = i - 1 - b.used
      <4>. DEFINE h == b.head  t == b.tail  u == b.used
      <4>1. /\ h \in Int /\ u \in Int /\ n \in Int /\ TXBUF_SIZE \in Int /\ i \in Int
            /\ h < TXBUF_SIZE /\ u + n <= TXBUF_SIZE /\ n >= 0 /\ u >= 0 /\ h >= 0
            /\ u < i /\ i <= u + n
        BY <1>1, <1>2, <2>6, SizeAssumption DEF Index
      <4>. HIDE DEF h, t, u, n, p
      <4>2. p = IF h + (i - 1) < TXBUF_SIZE THEN h + (i - 1) ELSE h + (i - 1) - TXBUF_SIZE
        BY <2>2 DEF h
      <4>3. t = IF h + u < TXBUF_SIZE THEN h + u ELSE h + u - TXBUF_SIZE
        BY <2>3 DEF h, t, u
      <4>4. Offset(p, t) = IF p >= t THEN p - t ELSE p - t + TXBUF_SIZE
        BY <2>4 DEF t
      <4>5. Offset(p, t) = i - 1 - u
        BY <4>1, <4>2, <4>3, <4>4
      <4>. QED  BY <4>5 DEF t, u
    <3>. QED  BY <1>1, <1>2, <1>3, <2>2, <2>6, <3>1
  <2>. QED  BY <1>2, <2>5, <2>6
<1>10. ContentsOf(c) = ContentsOf(b) \o src
  <2>1. ContentsOf(b) \in Seq(Byte) /\ Len(ContentsOf(b)) = b.used
    BY ContentsType
  <2>2. ContentsOf(c) \in Seq(Byte) /\ Len(ContentsOf(c)) = b.used + n
    BY <1>3, <1>8, ContentsType
  <2>3. /\ ContentsOf(b) \o src \in Seq(Byte)
        /\ Len(ContentsOf(b) \o src) = b.used + n
        /\ \A i \in 1..(b.used + n) :
             (ContentsOf(b) \o src)[i] =
                IF i <= b.used THEN ContentsOf(b)[i] ELSE src[i - b.used]
    <3>. DEFINE old == ContentsOf(b)
    <3>. HIDE DEF old
    <3>1. old \in Seq(Byte) /\ src \in Seq(Byte)
      BY <1>1, <2>1 DEF old
    <3>2. /\ old \o src \in Seq(Byte)
          /\ Len(old \o src) = Len(old) + Len(src)
          /\ \A i \in 1..Len(old) + Len(src) :
               (old \o src)[i] = IF i <= Len(old) THEN old[i] ELSE src[i - Len(old)]
      BY <3>1, ConcatProperties
    <3>3. Len(old) = b.used
      BY <2>1 DEF old
    <3>. QED  BY <3>2, <3>3 DEF old
  <2>4. \A i \in 1..(b.used + n) : ContentsOf(c)[i] = (ContentsOf(b) \o src)[i]
    <3>. TAKE i \in 1..(b.used + n)
    <3>1. ContentsOf(c)[i] = c.data[At(b.head, i - 1)]
      BY <1>3 DEF ContentsOf
    <3>2. i <= b.used => ContentsOf(b)[i] = b.data[At(b.head, i - 1)]
      BY <1>2 DEF ContentsOf
    <3>. QED  BY <1>9, <2>3, <3>1, <3>2
  <2>. QED  BY <2>2, <2>3, <2>4, SeqEqual
<1>. QED  BY <1>8, <1>10

\* A pop keeps the ring consistent, hands out the oldest bytes and leaves the rest.
LEMMA PopTakesFront ==
  ASSUME NEW b, Consistent(b), NEW n \in 1..MaxChunk
  PROVE  LET k == AtMost(n, b.used)
         IN /\ Consistent(RbPop(b, n))
            /\ RbTaken(b, n) = SubSeq(ContentsOf(b), 1, k)
            /\ ContentsOf(RbPop(b, n)) = SubSeq(ContentsOf(b), k + 1, b.used)
<1>. DEFINE k == AtMost(n, b.used)
            c == RbPop(b, n)
            h == b.head
            u == b.used
            q == ContentsOf(b)
<1>1. /\ k \in 0..u /\ u \in 0..TXBUF_SIZE /\ h \in Index
      /\ b.data \in [Index -> Byte] /\ b.tail \in Index
      /\ b.tail = At(h, u)
  BY SizeAssumption DEF AtMost, Consistent, RingType
<1>2. /\ c.data = b.data /\ c.head = At(h, k) /\ c.tail = b.tail /\ c.used = u - k
      /\ c = [data |-> b.data, head |-> At(h, k), tail |-> b.tail, used |-> u - k]
  <2>1. b = [data |-> b.data, head |-> b.head, tail |-> b.tail, used |-> b.used]
    BY DEF Consistent, RingType
  <2>2. c = [b EXCEPT !.head = At(h, k), !.used = u - k]
    BY DEF RbPop
  <2>. HIDE DEF c, k, h, u
  <2>3. c = [data |-> b.data, head |-> At(h, k), tail |-> b.tail, used |-> u - k]
    BY <2>1, <2>2
  <2>. QED  BY <2>3
<1>3. k \in 0..TXBUF_SIZE
  BY <1>1, SizeAssumption
\* Cell i - 1 from the new head is cell k + i - 1 from the old one.
<1>4. ASSUME NEW j \in 0..u - k
      PROVE  At(At(h, k), j) = At(h, k + j)
  <2>1. j \in 0..TXBUF_SIZE /\ k + j \in 0..TXBUF_SIZE
    BY <1>1, SizeAssumption
  <2>2. /\ At(h, k) \in Index
        /\ At(h, k) = IF h + k < TXBUF_SIZE THEN h + k ELSE h + k - TXBUF_SIZE
    BY <1>1, <1>3, AtAhead
  <2>. DEFINE g == At(h, k)
  <2>3. At(g, j) = IF g + j < TXBUF_SIZE THEN g + j ELSE g + j - TXBUF_SIZE
    BY <2>1, <2>2, AtAhead
  <2>4. At(h, k + j) = IF h + (k + j) < TXBUF_SIZE THEN h + (k + j)
                                                   ELSE h + (k + j) - TXBUF_SIZE
    BY <1>1, <2>1, AtAhead
  <2>5. /\ h \in Int /\ k \in Int /\ j \in Int /\ TXBUF_SIZE \in Int
        /\ 0 <= h /\ h < TXBUF_SIZE /\ 0 <= k /\ 0 <= j /\ k + j <= TXBUF_SIZE
    BY <1>1, <2>1, SizeAssumption DEF Index
  <2>6. g = IF h + k < TXBUF_SIZE THEN h + k ELSE h + k - TXBUF_SIZE
    BY <2>2
  <2>7. At(g, j) = At(h, k + j)
    <3>. HIDE DEF g, h, k
    <3>. QED  BY <2>3, <2>4, <2>5, <2>6
  <2>. QED  BY <2>7
<1>5. Consistent(c)
  <2>1. At(h, k) \in Index
    BY <1>1, <1>3, AtAhead
  <2>2. u - k \in 0..TXBUF_SIZE
    BY <1>1, SizeAssumption
  <2>3. At(At(h, k), u - k) = At(h, u)
    <3>1. u - k \in 0..u - k /\ k + (u - k) = u
      BY <1>1
    <3>. QED  BY <1>4, <3>1
  <2>. QED  BY <1>1, <1>2, <2>1, <2>2, <2>3 DEF Consistent, RingType
<1>6. q \in Seq(Byte) /\ Len(q) = u
  BY ContentsType
<1>7. \A i \in 1..u : q[i] = b.data[At(h, i - 1)] /\ q[i] \in Byte
  BY <1>1, AtAhead, SizeAssumption DEF ContentsOf
<1>8. RbTaken(b, n) = SubSeq(q, 1, k)
  <2>1. /\ SubSeq(q, 1, k) \in Seq(Byte)
        /\ Len(SubSeq(q, 1, k)) = k
        /\ \A i \in 1..k : SubSeq(q, 1, k)[i] = q[i]
    <3>. HIDE DEF q, k, u
    <3>1. \A i \in 1..k : q[i] \in Byte
      BY <1>1, <1>7 DEF u
    <3>2. /\ SubSeq(q, 1, k) \in Seq(Byte)
          /\ Len(SubSeq(q, 1, k)) = IF 1 <= k THEN k - 1 + 1 ELSE 0
          /\ \A i \in 1..k - 1 + 1 : SubSeq(q, 1, k)[i] = q[1 + i - 1]
      BY <1>1, <3>1, SubSeqProperties
    <3>. QED  BY <1>1, <3>2
  <2>2. RbTaken(b, n) = [i \in 1..k |-> b.data[At(h, i - 1)]]
    BY DEF RbTaken
  <2>3. \A i \in 1..k : b.data[At(h, i - 1)] = q[i] /\ q[i] \in Byte
    BY <1>1, <1>7
  <2>4. RbTaken(b, n) \in Seq(Byte) /\ Len(RbTaken(b, n)) = k
    BY <1>1, <2>2, <2>3
  <2>5. \A i \in 1..k : RbTaken(b, n)[i] = SubSeq(q, 1, k)[i]
    BY <2>1, <2>2, <2>3
  <2>. HIDE DEF q, k
  <2>. QED  BY <2>1, <2>4, <2>5, SeqEqual
<1>9. ContentsOf(c) = SubSeq(q, k + 1, u)
  <2>1. /\ SubSeq(q, k + 1, u) \in Seq(Byte)
        /\ Len(SubSeq(q, k + 1, u)) = u - k
        /\ \A i \in 1..u - k : SubSeq(q, k + 1, u)[i] = q[k + i]
    <3>. HIDE DEF q, k, u
    <3>1. \A i \in k + 1..u : q[i] \in Byte
      BY <1>1, <1>7 DEF u
    <3>2. /\ SubSeq(q, k + 1, u) \in Seq(Byte)
          /\ Len(SubSeq(q, k + 1, u)) = IF k + 1 <= u THEN u - (k + 1) + 1 ELSE 0
          /\ \A i \in 1..u - (k + 1) + 1 : SubSeq(q, k + 1, u)[i] = q[(k + 1) + i - 1]
      BY <1>1, <3>1, SubSeqProperties
    <3>. QED  BY <1>1, <3>2
  <2>2. ContentsOf(c) \in Seq(Byte) /\ Len(ContentsOf(c)) = u - k
    BY <1>2, <1>5, ContentsType
  <2>3. ASSUME NEW i \in 1..u - k
        PROVE  ContentsOf(c)[i] = q[k + i]
    <3>1. i - 1 \in 0..u - k /\ k + (i - 1) = (k + i) - 1 /\ k + i \in 1..u
      BY <1>1
    <3>2. ContentsOf(c)[i] = b.data[At(At(h, k), i - 1)]
      BY <1>2 DEF ContentsOf
    <3>. QED  BY <1>4, <1>7, <3>1, <3>2
  <2>. HIDE DEF q, k, u, c
  <2>. QED  BY <2>1, <2>2, <2>3, SeqEqual
<1>. QED  BY <1>5, <1>8, <1>9

(***************************************************************************)
(* The inductive invariant.                                                *)
(***************************************************************************)
LEMMA InvIsConsistent == Inv <=> Consistent(rb) /\ taken \in Seq(Byte)
BY DEF Inv, TypeOK, IndicesAgree, Consistent, RingType

LEMMA InitInv == Init => Inv
<1>. SUFFICES ASSUME Init PROVE Inv
  OBVIOUS
<1>1. 0 \in Index
  BY SizeAssumption DEF Index
<1>2. At(0, 0) = 0
  BY <1>1, AtAhead, SizeAssumption
<1>. QED  BY <1>1, <1>2, SizeAssumption DEF Init, Inv, TypeOK, IndicesAgree

LEMMA NextInv == Inv /\ [Next]_vars => Inv'
<1>. SUFFICES ASSUME Inv, [Next]_vars PROVE Consistent(rb') /\ taken' \in Seq(Byte)
  BY DEF Inv, TypeOK, IndicesAgree, Consistent, RingType
<1>. USE InvIsConsistent
<1>1. ASSUME NEW src \in Chunk, Push(src)
      PROVE  Consistent(rb') /\ taken' \in Seq(Byte)
  <2>1. CASE RbFits(rb, Len(src))
    BY <1>1, <2>1, PushAppends DEF Push
  <2>2. CASE ~RbFits(rb, Len(src))
    BY <1>1, <2>2 DEF Push, RbPush
  <2>. QED  BY <2>1, <2>2
<1>2. ASSUME NEW n \in 1..MaxChunk, Pop(n)
      PROVE  Consistent(rb') /\ taken' \in Seq(Byte)
  <2>1. Consistent(RbPop(rb, n)) /\ RbTaken(rb, n) = SubSeq(ContentsOf(rb), 1, AtMost(n, rb.used))
    BY PopTakesFront
  <2>2. /\ ContentsOf(rb) \in Seq(Byte) /\ Len(ContentsOf(rb)) = rb.used
        /\ AtMost(n, rb.used) \in 0..rb.used
    BY ContentsType, SizeAssumption DEF AtMost, Consistent, RingType
  <2>3. \A i \in 1..AtMost(n, rb.used) : ContentsOf(rb)[i] \in Byte
    BY <2>2, ElementOfSeq
  <2>4. AtMost(n, rb.used) \in Int
    BY <2>2 DEF Consistent, RingType
  <2>5. SubSeq(ContentsOf(rb), 1, AtMost(n, rb.used)) \in Seq(Byte)
    BY <2>3, <2>4, SubSeqProperties
  <2>. QED  BY <1>2, <2>1, <2>5 DEF Pop
<1>3. ASSUME Reset
      PROVE  Consistent(rb') /\ taken' \in Seq(Byte)
  <2>1. 0 \in Index
    BY SizeAssumption DEF Index
  <2>2. At(0, 0) = 0
    BY <2>1, AtAhead, SizeAssumption
  <2>3. rb = [data |-> rb.data, head |-> rb.head, tail |-> rb.tail, used |-> rb.used]
        /\ rb.data \in [Index -> Byte]
    BY DEF Consistent, RingType
  <2>4. rb' = [data |-> rb.data, head |-> 0, tail |-> 0, used |-> 0]
    BY <1>3, <2>3 DEF Reset, RbReset
  <2>5. taken' \in Seq(Byte)
    BY <1>3 DEF Reset
  <2>6. 0 \in 0..TXBUF_SIZE
    BY SizeAssumption
  <2>. QED  BY <2>1, <2>2, <2>3, <2>4, <2>5, <2>6 DEF Consistent, RingType
<1>4. CASE UNCHANGED vars
  BY <1>4 DEF vars
<1>. QED  BY <1>1, <1>2, <1>3, <1>4 DEF Next

\* The indices and the fill count stay within the array (mode_mavlink.c:83-103).
THEOREM RingTypeOK == Spec => []TypeOK
<1>1. Inv => TypeOK
  BY DEF Inv
<1>. QED  BY <1>1, InitInv, NextInv, PTL DEF Spec

\* The three counters never disagree, full and empty included.
THEOREM RingIndicesAgree == Spec => []IndicesAgree
<1>1. Inv => IndicesAgree
  BY DEF Inv
<1>. QED  BY <1>1, InitInv, NextInv, PTL DEF Spec

(***************************************************************************)
(* The refinement.                                                         *)
(***************************************************************************)
LEMMA InitRefines == Init => Fifo!Init
BY SizeAssumption DEF Init, Fifo!Init, Contents, ContentsOf

LEMMA NextRefines ==
  Inv /\ [Next]_vars => [Fifo!Next]_<<Contents, taken>>
<1>. SUFFICES ASSUME Inv, [Next]_vars
              PROVE  [Fifo!Next]_<<Contents, taken>>
  OBVIOUS
<1>1. Consistent(rb)
  BY InvIsConsistent
<1>2. Len(Contents) = rb.used /\ Contents \in Seq(Byte)
  BY <1>1, ContentsType DEF Contents
<1>3. ASSUME NEW src \in Chunk, Push(src)
      PROVE  Fifo!Push(src)
  <2>1. CASE RbFits(rb, Len(src))
    <3>1. Contents' = Contents \o src
      BY <1>1, <1>3, <2>1, PushAppends DEF Push, Contents
    <3>2. ~(Len(Contents) + Len(src) > TXBUF_SIZE)
      BY <1>1, <1>2, <2>1, ChunkIsSeq, SizeAssumption DEF RbFits, Consistent, RingType
    <3>. QED  BY <1>3, <3>1, <3>2 DEF Push, Fifo!Push
  <2>2. CASE ~RbFits(rb, Len(src))
    <3>1. Contents' = Contents
      BY <1>3, <2>2 DEF Push, RbPush, Contents
    <3>2. Len(Contents) + Len(src) > TXBUF_SIZE
      BY <1>1, <1>2, <2>2, ChunkIsSeq, SizeAssumption DEF RbFits, Consistent, RingType
    <3>. QED  BY <1>3, <3>1, <3>2 DEF Push, Fifo!Push
  <2>. QED  BY <2>1, <2>2
<1>4. ASSUME NEW n \in 1..MaxChunk, Pop(n)
      PROVE  Fifo!Pop(n)
  BY <1>1, <1>2, <1>4, PopTakesFront DEF Pop, Contents, Fifo!Pop, Fifo!AtMost, AtMost
<1>5. ASSUME Reset
      PROVE  Fifo!Reset
  BY <1>5 DEF Reset, RbReset, Contents, ContentsOf, Fifo!Reset
<1>6. CASE UNCHANGED vars
  BY <1>6 DEF vars, Contents, ContentsOf
<1>. QED  BY <1>3, <1>4, <1>5, <1>6 DEF Next, Fifo!Next, Chunk, Fifo!Chunk

\* The ring buffer implements the bounded FIFO queue: no byte is overwritten,
\* repeated or reordered, whatever the calls and wherever the indices wrap.
THEOREM RingImplementsFifo == Spec => IsBoundedFifo
<1>. QED  BY InitInv, NextInv, InitRefines, NextRefines, PTL
          DEF Spec, IsBoundedFifo, Fifo!Spec
=============================================================================
