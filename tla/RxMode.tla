------------------------------- MODULE RxMode -------------------------------
(* cli/mode_rx.c: the radio receives without end; each rising edge of its    *)
(* line makes the process look for a packet.                                 *)
EXTENDS Main

CONSTANTS RX_WAIT_MS,  \* how long one wait for an edge lasts (500 ms)
          RX_PAUSE_MS  \* the pause after anything unexpected (50 ms)

ASSUME RxAssumption == RX_WAIT_MS \in Nat /\ RX_PAUSE_MS \in Nat

RxSteps == {"rx_clear", "rx_start", "rx", "rx_wait", "rx_handle", "rx_payload", "rx_failed",
            "rx_pause"}

RxClear == Command("rx_clear", ClearIrq(chip, IrqBits), "rx_start") /\ UNCHANGED left

\* start_rx_continuous.
RxStart == Command("rx_start", SetRx(chip), "rx") /\ UNCHANGED left

RxReturns ==
  /\ pc = "rx"
  /\ g_stop
  /\ pc' = "standby"
  /\ UNCHANGED <<mode, irq, left, g_stop, rc, chip, faults>>

\* A slip for the mutation runs: the loop does not look at g_stop.
RxListenIgnoresStop ==
  /\ pc = "rx"
  /\ left' = RX_WAIT_MS
  /\ pc' = "rx_wait"
  /\ UNCHANGED <<mode, irq, g_stop, rc, chip, faults>>

RxListen ==
  /\ pc = "rx"
  /\ ~g_stop
  /\ left' = RX_WAIT_MS
  /\ pc' = "rx_wait"
  /\ UNCHANGED <<mode, irq, g_stop, rc, chip, faults>>

RxWait == WaitIrqRising("rx_wait", "read_irq", "rx", "rx_failed")

\* No interrupt, or none that could be read: a pause, and the next edge.
RxHandle ==
  /\ pc = "rx_handle"
  /\ pc' = CASE irq = {} -> "rx_failed"
             [] "RX_DONE" \in irq -> "rx_payload"
             [] OTHER -> "rx"
  /\ irq' = {}
  /\ UNCHANGED <<mode, left, g_stop, rc, chip, faults>>

\* The packet is fetched and printed, or an error is.
RxPayload ==
  /\ pc = "rx_payload"
  /\ \E ok \in BOOLEAN : /\ HalRead(ok)
                         /\ chip' = [chip EXCEPT !.fresh = @ /\ ~ok]
  /\ pc' = "rx"
  /\ UNCHANGED <<mode, irq, left, g_stop, rc>>

RxFailed ==
  /\ pc = "rx_failed"
  /\ left' = RX_PAUSE_MS
  /\ pc' = "rx_pause"
  /\ UNCHANGED <<mode, irq, g_stop, rc, chip, faults>>

RxPause == Sleep("rx_pause", "rx")

RxHost == \/ RxClear \/ RxStart \/ RxReturns \/ RxListen \/ RxWait
          \/ RxHandle \/ RxPayload \/ RxFailed \/ RxPause
=============================================================================
