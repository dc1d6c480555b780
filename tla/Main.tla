-------------------------------- MODULE Main --------------------------------
(* cli/main.c around the modes that the command line can choose, but for the *)
(* MAVLink bridge: the board is opened, the radio reset and configured, the  *)
(* mode runs, the board is closed.  And what the modes share: a wait for an  *)
(* edge of the radio's line, the reading of its interrupts, the way out.     *)
(*                                                                           *)
(* Each call that can change the radio's mode or its interrupts is a step of *)
(* its own; the calls in a row that only configure it are one.  LEDs and     *)
(* printing are left out.                                                    *)
EXTENDS Board

CONSTANT MayStop  \* whether Ctrl+C can be pressed

ASSUME StopAssumption == MayStop \in BOOLEAN

VARIABLES
  mode,    \* app.mode
  pc,      \* the next step of the process
  irq,     \* the mask of the last get_and_clear_irq_status
  left,    \* ticks until the running wait or sleep gives up
  g_stop,  \* set by the SIGINT handler
  rc       \* what the mode returns

mainVars == <<mode, pc, irq, left, g_stop, rc, chip, faults>>

Modes == {"status", "rx", "tx", "scan", "txtest"}

\* Where a mode's own steps begin, and where it takes up the interrupts read.
\* The status mode only reads, prints what it could read, and returns.
FirstStep == [status |-> "close", rx |-> "rx_clear", tx |-> "tx", scan |-> "scan",
              txtest |-> "test_start"]

IrqStep == [rx |-> "rx_handle", tx |-> "tx_handle", scan |-> "scan_handle"]

MainSteps == {"start", "reset", "configure", "read_irq", "clear_read", "standby",
              "close", "ended"}

(***************************************************************************)
(* Start.                                                                  *)
(***************************************************************************)
\* ctx_init; without the board the process ends.
CtxInit ==
  /\ pc = "start"
  /\ \E ok \in BOOLEAN :
       /\ HalRead(ok)
       /\ pc' = IF ok THEN "reset" ELSE "ended"
       /\ rc' = IF ok THEN rc ELSE "failed"
  /\ UNCHANGED <<mode, irq, left, g_stop, chip>>

\* A mode gives up: it returns -1 without a word to the radio.
Fails == pc' = "close" /\ rc' = "failed"

\* lr11xx_system_reset pulls the pin, whether or not BUSY falls afterwards.
ResetRadio ==
  /\ pc = "reset"
  /\ chip' = Reset(chip)
  /\ \E ok \in BOOLEAN : /\ HalRead(ok)
                         /\ IF ok THEN pc' = "configure" /\ UNCHANGED rc ELSE Fails
  /\ UNCHANGED <<mode, irq, left, g_stop>>

\* The rest of radio_common_init, and the modem, the amplifier and the DIO of
\* the mode: commands to a radio in standby, the first that fails ends it.
\* (The status mode only wakes the radio, which a reset has left in standby.)
Configure ==
  /\ pc = "configure"
  /\ \E ok \in BOOLEAN :
       /\ HalWrite(SetStandby(chip), ok)
       /\ IF ok THEN pc' = FirstStep[mode] /\ UNCHANGED rc ELSE Fails
  /\ UNCHANGED <<mode, irq, left, g_stop>>

(***************************************************************************)
(* What the modes share.                                                   *)
(***************************************************************************)
\* A command without which the mode gives up.
Command(step, c, next) ==
  /\ pc = step
  /\ \E ok \in BOOLEAN :
       /\ HalWrite(c, ok)
       /\ IF ok THEN pc' = next /\ UNCHANGED rc ELSE Fails
  /\ UNCHANGED <<mode, irq, g_stop>>

\* wait_irq_rising: an edge, the time-out, or an error, which Ctrl+C is too.
WaitIrqRising(step, onEdge, onTimeout, onError) ==
  /\ pc = step
  /\ \/ /\ chip.edge
        /\ chip' = DrainEdges(chip)
        /\ pc' = onEdge
        /\ UNCHANGED faults
     \/ /\ ~chip.edge /\ left = 0
        /\ pc' = onTimeout
        /\ UNCHANGED <<chip, faults>>
     \/ /\ HalRead(g_stop)
        /\ pc' = onError
        /\ UNCHANGED chip
  /\ UNCHANGED <<mode, irq, left, g_stop, rc>>

\* get_and_clear_irq_status: a failure leaves the caller's mask empty.
ReadIrq ==
  /\ pc = "read_irq"
  /\ \E ok \in BOOLEAN :
       /\ HalRead(ok)
       /\ IF ok /\ chip.irq # {}
            THEN irq' = chip.irq /\ pc' = "clear_read"
            ELSE irq' = {} /\ pc' = IrqStep[mode]
  /\ UNCHANGED <<mode, left, g_stop, rc, chip>>

ClearRead ==
  /\ pc = "clear_read"
  /\ \E ok \in BOOLEAN : /\ HalWrite(ClearIrq(chip, irq), ok)
                         /\ irq' = IF ok THEN irq ELSE {}
  /\ pc' = IrqStep[mode]
  /\ UNCHANGED <<mode, left, g_stop, rc>>

\* nanosleep, which Ctrl+C cuts short.
Sleep(step, next) ==
  /\ pc = step
  /\ left = 0 \/ g_stop
  /\ pc' = next
  /\ UNCHANGED <<mode, irq, left, g_stop, rc, chip, faults>>

(***************************************************************************)
(* End.                                                                    *)
(***************************************************************************)
\* A slip for the mutation runs: the way out without the standby command.
StandbyForgotten ==
  /\ pc = "standby"
  /\ pc' = "close"
  /\ UNCHANGED <<mode, irq, left, g_stop, rc, chip, faults>>

\* The modes' last command, whose result is not looked at.
Standby ==
  /\ pc = "standby"
  /\ \E ok \in BOOLEAN : HalWrite(SetStandby(chip), ok)
  /\ pc' = "close"
  /\ UNCHANGED <<mode, irq, left, g_stop, rc>>

\* ctx_deinit, and the exit status.
CtxDeinit ==
  /\ pc = "close"
  /\ pc' = "ended"
  /\ UNCHANGED <<mode, irq, left, g_stop, rc, chip, faults>>

MainHost == CtxInit \/ ResetRadio \/ Configure \/ ReadIrq \/ ClearRead \/ Standby \/ CtxDeinit

(***************************************************************************)
(* What happens around the process.                                        *)
(***************************************************************************)
CtrlC ==
  /\ MayStop
  /\ ~g_stop
  /\ g_stop' = TRUE
  /\ UNCHANGED <<mode, pc, irq, left, rc, chip, faults>>

Tick ==
  /\ MayElapse(chip)
  /\ chip' = Elapse(chip)
  /\ left' = IF left = 0 THEN 0 ELSE left - 1
  /\ UNCHANGED <<mode, pc, irq, g_stop, rc, faults>>

\* Somebody's frame, or what is left of it, while the radio receives.
Receives ==
  /\ chip.mode = "RX"
  /\ chip' \in {RxEnd(chip, NoFrame, {}), RxEnd(chip, NoFrame, {"CRC_ERROR"}), RxFails(chip)}
  /\ UNCHANGED <<mode, pc, irq, left, g_stop, rc, faults>>

\* What a program that ran before may have left: nothing, a carrier, or a
\* receiver with a frame that nobody fetched.
LeftBehind == {PowerOn, SetTxCw(PowerOn), [SetRx(PowerOn) EXCEPT !.irq = {"RX_DONE"}]}

MainInit ==
  /\ mode \in Modes
  /\ pc = "start"
  /\ irq = {}
  /\ left = 0
  /\ g_stop = FALSE
  /\ rc = "ok"
  /\ chip \in LeftBehind
  /\ faults = MaxFaults
=============================================================================
