------------------------------- MODULE Lr1121 -------------------------------
(* The LR1121 radio as the program uses it: its mode, its interrupt status   *)
(* register, the DIO line that carries it and the kernel's queue of edges of *)
(* that line, and its two frame buffers.  The chip itself is hardware; what  *)
(* is modelled is what the driver's commands (src/src/lr11xx_*.c) ask of it  *)
(* and what the modes under cli/ rely on.                                    *)
(*                                                                           *)
(* A chip is a record                                                        *)
(*   mode    "STDBY", "RX", "TX", "CAD" (looking for activity on a channel)  *)
(*           or "CW" (a carrier or an endless preamble)                      *)
(*   air     ticks left until a transmission or a CAD ends                   *)
(*   lock    a frame is being received                                       *)
(*   irq     the bits set in the status register                             *)
(*   edge    an edge event of the DIO line waits in the kernel               *)
(*   txfifo  the frame that set_tx would send                                *)
(*   rxfifo  the last frame received                                         *)
(*   fresh   the host has not accepted rxfifo yet (not part of the chip: it  *)
(*           lets properties tell a frame from the same frame read again)    *)
EXTENDS Integers, Sequences

CONSTANT TOA  \* time on air of a frame, and time of a CAD, in ticks

ASSUME ToaAssumption == TOA \in Nat \ {0}

Roles == {"AIR", "GND", "NONE"}  \* NONE: not a frame of the bridge

Frame == [role : Roles, data : Seq(Nat)]

NoFrame == [role |-> "NONE", data |-> <<>>]

\* HEADER_ERROR stands for the bits of a reception that failed without RX_DONE,
\* ERROR for a transmission that failed.
IrqBits == {"TX_DONE", "RX_DONE", "CRC_ERROR", "HEADER_ERROR", "ERROR",
            "CAD_DONE", "CAD_DETECTED"}

Errors == {"CRC_ERROR", "HEADER_ERROR"}

Chip == [mode : {"STDBY", "RX", "TX", "CAD", "CW"}, air : 0..TOA, lock : BOOLEAN,
         irq : SUBSET IrqBits, edge : BOOLEAN, txfifo : Frame, rxfifo : Frame,
         fresh : BOOLEAN]

PowerOn == [mode |-> "STDBY", air |-> 0, lock |-> FALSE, irq |-> {},
            edge |-> FALSE, txfifo |-> NoFrame, rxfifo |-> NoFrame,
            fresh |-> FALSE]

(***************************************************************************)
(* Commands.                                                               *)
(***************************************************************************)
SetStandby(c) == [c EXCEPT !.mode = "STDBY", !.air = 0, !.lock = FALSE]

SetRx(c) == [c EXCEPT !.mode = "RX", !.air = 0, !.lock = FALSE]

SetTx(c) == [c EXCEPT !.mode = "TX", !.air = TOA, !.lock = FALSE]

SetCad(c) == [c EXCEPT !.mode = "CAD", !.air = TOA, !.lock = FALSE]

SetTxCw(c) == [c EXCEPT !.mode = "CW", !.air = 0, !.lock = FALSE]

\* The reset pin: nothing is left but the edges the kernel has queued.
Reset(c) == [PowerOn EXCEPT !.edge = c.edge]

WriteBuffer(c, f) == [c EXCEPT !.txfifo = f]

\* Clearing bits can only lower the line: it queues no edge and takes none back.
ClearIrq(c, bits) == [c EXCEPT !.irq = @ \ bits]

DrainEdges(c) == [c EXCEPT !.edge = FALSE]

(***************************************************************************)
(* Events.  The line rises, and the kernel queues an edge, only when the   *)
(* status register was empty: every bit used is enabled on the DIO.        *)
(***************************************************************************)
Raise(c, bits) == [c EXCEPT !.irq = @ \cup bits, !.edge = @ \/ c.irq = {}]

TxEnd(c) == Raise([c EXCEPT !.mode = "STDBY"], {"TX_DONE"})

TxFails(c) == Raise([c EXCEPT !.mode = "STDBY"], {"ERROR"})

CadEnd(c, detected) ==
  Raise([c EXCEPT !.mode = "STDBY"],
        {"CAD_DONE"} \cup (IF detected THEN {"CAD_DETECTED"} ELSE {}))

\* A frame was received, with the error bits the chip found.  Reception goes on.
RxEnd(c, f, errors) ==
  Raise([c EXCEPT !.lock = FALSE, !.rxfifo = f, !.fresh = TRUE],
        {"RX_DONE"} \cup errors)

\* The end of a reception that yields no frame.
RxFails(c) == Raise([c EXCEPT !.lock = FALSE], {"HEADER_ERROR"})

RxLost(c) == [c EXCEPT !.lock = FALSE]

Timed == {"TX", "CAD"}

Elapse(c) == IF c.mode \in Timed THEN [c EXCEPT !.air = @ - 1] ELSE c

MayElapse(c) == c.mode \in Timed => c.air > 0
=============================================================================
