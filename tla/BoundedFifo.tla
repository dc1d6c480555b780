---------------------------- MODULE BoundedFifo ----------------------------
(* What the transmit buffer of the MAVLink bridge promises to its users:   *)
(* a queue of at most Capacity bytes, fed by whole chunks that are taken    *)
(* entirely or not at all, and emptied from the front.                      *)
EXTENDS Integers, Sequences

CONSTANTS Byte,      \* the values a byte can have
          Capacity,  \* how many bytes the queue holds
          MaxChunk   \* the largest request of a caller, in bytes

VARIABLES queue,  \* the bytes waiting, oldest first
          taken   \* the bytes the last operation handed out

Chunk == UNION {[1..n -> Byte] : n \in 0..MaxChunk}

AtMost(n, m) == IF n > m THEN m ELSE n

Init == /\ queue = <<>>
        /\ taken = <<>>

\* A chunk that does not fit leaves the queue as it is.
Push(src) == /\ queue' = IF Len(queue) + Len(src) > Capacity
                           THEN queue ELSE queue \o src
             /\ taken' = <<>>

Pop(n) == LET k == AtMost(n, Len(queue))
          IN /\ taken' = SubSeq(queue, 1, k)
             /\ queue' = SubSeq(queue, k + 1, Len(queue))

Reset == /\ queue' = <<>>
         /\ taken' = <<>>

Next == \/ \E src \in Chunk : Push(src)
        \/ \E n \in 1..MaxChunk : Pop(n)
        \/ Reset

Spec == Init /\ [][Next]_<<queue, taken>>
=============================================================================
