--------------------------- MODULE CommandChannel ---------------------------
(* What the driver's functions rely on (lr11xx_hal.h): a call hands the      *)
(* transactions of its program to the radio in order, each at most once and  *)
(* none left out, and says that it succeeded only when all of them were      *)
(* carried out. It may give up at any point, also after the last one.        *)
(* An Optional one, a pin or nothing at all, may have no effect.             *)
EXTENDS Integers, Sequences

CONSTANT Optional  \* kinds of transaction that succeed whether or not they take effect

VARIABLES program, \* of the running or the last call
          carried, \* the places in it that the radio carried out
          status   \* "none" before the first, "running", "ok" or "error"

vars == <<program, carried, status>>

\* Place i is carried out once everything before it is that cannot be skipped.
Settled(i) == \/ program[i].op \in Optional
              \/ \E k \in DOMAIN carried : carried[k] = i

IsNext(i) == /\ \A k \in DOMAIN carried : carried[k] < i
             /\ \A j \in DOMAIN program : j < i => Settled(j)

Init == carried = <<>> /\ status = "none"

\* With any program.
Begin == /\ status # "running"
         /\ carried' = <<>>
         /\ status' = "running"

AllSettled == \A i \in DOMAIN program : Settled(i)

\* The next transaction is carried out, or none; the call may end here, and well
\* only when nothing is left.
Proceed == /\ status = "running"
           /\ \/ \E i \in DOMAIN program : carried' = Append(carried, i) /\ IsNext(i)
              \/ UNCHANGED carried
           /\ status' \in {"running", "ok", "error"}
           /\ status' = "ok" => AllSettled'
           /\ UNCHANGED program

Next == Begin \/ Proceed

Spec == Init /\ [][Next]_vars
=============================================================================
