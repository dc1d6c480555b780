----------------------------- MODULE RingBuffer -----------------------------
(* ringbuf_t of mode_mavlink.c: a byte array of TXBUF_SIZE cells used as a  *)
(* circle.  Transport bytes wait here for their LoRa packet.  The indices   *)
(* and the fill count are separate ints that every operation must keep in   *)
(* step; Contents is the queue they stand for.                              *)
EXTENDS Integers, Sequences

CONSTANTS Byte,        \* the values a byte can have
          TXBUF_SIZE,  \* cells of the array (8192 in the code)
          MaxChunk     \* the largest n of a call (512 for a push, 250 for a pop)

ASSUME SizeAssumption == TXBUF_SIZE \in Nat \ {0} /\ MaxChunk \in Nat

VARIABLES rb,    \* the ringbuf_t
          taken  \* dst of the last rb_pop, empty after any other call

vars == <<rb, taken>>

Index == 0..TXBUF_SIZE - 1

Chunk == UNION {[1..n -> Byte] : n \in 0..MaxChunk}

\* The cell k places after cell i, and how many places cell i is after cell j.
At(i, k) == (i + k) % TXBUF_SIZE
Offset(i, j) == (i - j) % TXBUF_SIZE

AtMost(n, m) == IF n > m THEN m ELSE n

(***************************************************************************)
(* The operations on a ringbuf_t value.                                    *)
(***************************************************************************)
\* Slips for the mutation runs: the capacity test one too wide, and a reset
\* that forgets the tail.
RbFitsOneMore(b, n) == b.used + n <= TXBUF_SIZE + 1
RbResetKeepsTail(b) == [b EXCEPT !.head = 0, !.used = 0]

RbReset(b) == [b EXCEPT !.head = 0, !.tail = 0, !.used = 0]

RbFits(b, n) == b.used + n <= TXBUF_SIZE

\* The loop stores src[j] in the j-th cell from the old tail.
RbPush(b, src) ==
  LET n == Len(src)
  IN IF ~RbFits(b, n) THEN b
     ELSE [data |-> [i \in Index |-> IF Offset(i, b.tail) < n
                                     THEN src[Offset(i, b.tail) + 1]
                                     ELSE b.data[i]],
           head |-> b.head,
           tail |-> At(b.tail, n),
           used |-> b.used + n]

RbPop(b, n) ==
  LET k == AtMost(n, b.used)
  IN [b EXCEPT !.head = At(b.head, k), !.used = b.used - k]

RbTaken(b, n) == [i \in 1..AtMost(n, b.used) |-> b.data[At(b.head, i - 1)]]

(***************************************************************************)
(* A history of calls.  The array lives on the stack of run_air/run_gnd    *)
(* and rb_reset clears no cell: it starts with any contents.               *)
(***************************************************************************)
Init == /\ rb \in [data : [Index -> Byte], head : {0}, tail : {0}, used : {0}]
        /\ taken = <<>>

Push(src) == rb' = RbPush(rb, src) /\ taken' = <<>>

Pop(n) == rb' = RbPop(rb, n) /\ taken' = RbTaken(rb, n)

Reset == rb' = RbReset(rb) /\ taken' = <<>>

Next == \/ \E src \in Chunk : Push(src)
        \/ \E n \in 1..MaxChunk : Pop(n)
        \/ Reset

Spec == Init /\ [][Next]_vars

(***************************************************************************)
(* Properties.                                                             *)
(***************************************************************************)
TypeOK == /\ rb \in [data : [Index -> Byte], head : Index, tail : Index,
                     used : 0..TXBUF_SIZE]
          /\ taken \in Seq(Byte)

\* head, tail and used are three separate counters (mode_mavlink.c:74-103):
\* after any sequence of calls, full and empty included, tail is used cells
\* ahead of head.
IndicesAgree == rb.tail = At(rb.head, rb.used)

Inv == TypeOK /\ IndicesAgree

\* The bytes waiting in b, oldest first.
ContentsOf(b) == [i \in 1..b.used |-> b.data[At(b.head, i - 1)]]

Contents == ContentsOf(rb)

Fifo == INSTANCE BoundedFifo WITH queue <- Contents, Capacity <- TXBUF_SIZE

\* Whatever the calls, the circle behaves as a bounded FIFO queue that takes a
\* chunk whole or not at all: no byte is overwritten, repeated or reordered
\* when the indices wrap.
IsBoundedFifo == Fifo!Spec
=============================================================================
