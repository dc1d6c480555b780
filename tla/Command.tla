------------------------------ MODULE Command ------------------------------
(* What the functions of the LR11xx driver are made of. A driver function is *)
(* modelled by its program: the sequence of the transactions it asks of the  *)
(* hardware abstraction layer (lr11xx_hal.h), in order. Every one of these   *)
(* functions gives up at the first transaction that fails. A value is the    *)
(* string of its bytes, most significant first, as the driver sends it; what *)
(* a function only prints or stores from an answer is left out.              *)
EXTENDS Integers, Sequences

(***************************************************************************)
(* A command is its opcode and the number of bytes its buffer is declared  *)
(* with, opcode included: cbuffer[CMD_LENGTH] = { OC >> 8, OC, ... }.      *)
(***************************************************************************)
Transaction(op, cmd, args, data, n) ==
  [op |-> op, oc |-> cmd[1], len |-> cmd[2],
   args |-> args, data |-> data, answer |-> n]

NoCommand == <<0, 0>>

\* lr11xx_hal_write without and with data, lr11xx_hal_read, lr11xx_hal_direct_read.
Write(cmd, args)           == <<Transaction("write", cmd, args, <<>>, 0)>>
WriteData(cmd, args, data) == <<Transaction("write", cmd, args, data, 0)>>
Read(cmd, args, n)         == <<Transaction("read", cmd, args, <<>>, n)>>
DirectRead(n)              == <<Transaction("direct", NoCommand, <<>>, <<>>, n)>>

\* lr11xx_hal_reset, lr11xx_hal_wakeup, lr11xx_hal_abort_blocking_cmd.
HalReset  == <<Transaction("reset", NoCommand, <<>>, <<>>, 0)>>
HalWakeup == <<Transaction("wakeup", NoCommand, <<>>, <<>>, 0)>>
HalAbort  == <<Transaction("abort", NoCommand, <<>>, <<>>, 0)>>

\* A function that returns LR11XX_STATUS_ERROR before it asks for anything.
Refuse == <<Transaction("refuse", NoCommand, <<>>, <<>>, 0)>>

(***************************************************************************)
(* Marshalling. Low(n, v) is what n casts of shifts to uint8_t keep of v.  *)
(***************************************************************************)
Low(n, v)   == SubSeq(v, Len(v) - n + 1, Len(v))
Bytes(n, v) == [i \in 1..n |-> (v \div 256^(n - i)) % 256]
Bit(b)      == IF b THEN 1 ELSE 0
Flag(b)     == <<Bit(b)>>

\* The left fold of a sequence, as a recursive function.
Folded(op(_, _), start, s) ==
  LET acc[i \in 0..Len(s)] == IF i = 0 THEN start ELSE op(acc[i - 1], s[i]) IN acc[Len(s)]

\* Sequences one after the other.
Joined(ss) == Folded(LAMBDA done, s : done \o s, <<>>, ss)

\* The number below 2^31 that a string of bytes stands for.
Value(v) == Folded(LAMBDA acc, b : 256 * acc + b, 0, v)

(***************************************************************************)
(* A loop that handles n items, at most size at a time: its programs one   *)
(* after the other, Piece(first, count) for the items from first, counted  *)
(* from zero.                                                              *)
(***************************************************************************)
Smaller(a, b) == IF a < b THEN a ELSE b

InPieces(n, size, Piece(_, _)) ==
  Joined([i \in 1..((n + size - 1) \div size) |->
            Piece(size * (i - 1), Smaller(size, n - size * (i - 1)))])
=============================================================================
