---------------------------- MODULE OrderedPipe ----------------------------
(* What one direction of the MAVLink bridge promises: of the bytes one       *)
(* program writes, the other gets some, each at most once, in order and as   *)
(* they were written.  Bytes may be lost: MAVLink resynchronises on its own. *)
EXTENDS Integers, Sequences

VARIABLES sent,      \* the bytes 1..sent have been written at one end
          delivered  \* the bytes that came out of the other, in that order

\* The bytes that may still come out: none is repeated or overtaken.
Deliverable == {b \in 1..sent : \A i \in 1..Len(delivered) : delivered[i] < b}

Init == sent = 0 /\ delivered = <<>>

Send == sent' = sent + 1 /\ UNCHANGED delivered

Deliver == /\ \E n \in 1..sent : \E w \in [1..n -> Deliverable] :
                /\ \A i, j \in 1..n : i < j => w[i] < w[j]
                /\ delivered' = delivered \o w
           /\ UNCHANGED sent

Next == Send \/ Deliver

Spec == Init /\ [][Next]_<<sent, delivered>>
=============================================================================
