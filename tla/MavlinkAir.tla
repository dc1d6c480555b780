----------------------------- MODULE MavlinkAir -----------------------------
(* run_air of cli/mode_mavlink.c: the drone side, master of the slots.  It   *)
(* sends a frame, listens until the slot is over, and starts again.          *)
EXTENDS MavlinkPort

Role == "AIR"
Peer == "GND"

AirSteps == HelperSteps \cup {"top", "sleep", "slot", "listen", "exit_standby", "ended"}

(***************************************************************************)
(* Phase 1: transmit.                                                      *)
(***************************************************************************)
\* A slip for the mutation runs: the loop goes round after Ctrl+C.
AirTopIgnoresStop ==
  /\ pc = "top"
  /\ pkt' = Packet(Filled, Role)
  /\ txbuf' = Unsent(Filled)
  /\ inq' = Undrained
  /\ led_tx' = TRUE
  /\ pc' = "send_standby"
  /\ UNCHANGED <<ret, irq, got, left, due, chip, outq, offered, g_stop, faults, aired>>

\* The head of the loop: one drain_transport, one frame, the LED.
AirTop ==
  /\ pc = "top"
  /\ ~g_stop
  /\ pkt' = Packet(Filled, Role)
  /\ txbuf' = Unsent(Filled)
  /\ inq' = Undrained
  /\ led_tx' = TRUE
  /\ pc' = "send_standby"
  /\ UNCHANGED <<ret, irq, got, left, due, chip, outq, offered, g_stop, faults, aired>>

\* The send did not start: the LED stays lit, the frame is gone and the slot
\* does not advance.
AirSendFailed ==
  /\ pc = "send_failed"
  /\ left' = RETRY_MS
  /\ pkt' = NoFrame
  /\ pc' = "sleep"
  /\ UNCHANGED <<ret, irq, txbuf, got, due, led_tx, chip, inq, outq, offered, g_stop,
                 faults, aired>>

AirRetry ==
  /\ pc = "sleep"
  /\ left = 0
  /\ pc' = "top"
  /\ UNCHANGED <<ret, irq, txbuf, got, left, due, pkt, led_tx, chip, inq, outq, offered,
                 g_stop, faults, aired>>

\* A slip for the mutation runs: the radio is not armed after the send.
AirSentSkipsRx ==
  /\ pc = "sent"
  /\ led_tx' = FALSE
  /\ irq' = {} /\ left' = 0 /\ pkt' = NoFrame
  /\ pc' = "slot"
  /\ UNCHANGED <<ret, txbuf, got, due, chip, inq, outq, offered, g_stop, faults, aired>>

\* wait_irq came back, with or without TX_DONE.
AirSent ==
  /\ pc = "sent"
  /\ led_tx' = FALSE
  /\ irq' = {} /\ left' = 0 /\ pkt' = NoFrame
  /\ ret' = "slot"
  /\ pc' = "rx_clear"
  /\ UNCHANGED <<txbuf, got, due, chip, inq, outq, offered, g_stop, faults,
                 aired>>

(***************************************************************************)
(* Phase 2: listen until the slot is over.                                 *)
(***************************************************************************)
AirSlot ==
  /\ pc = "slot"
  /\ due' = due + SLOT_MS
  /\ pc' = "listen"
  /\ UNCHANGED <<ret, irq, txbuf, got, left, pkt, led_tx, chip, inq, outq, offered, g_stop,
                 faults, aired>>

\* The slot is over; one that is over already starts the next one now.
AirSlotEnds ==
  /\ pc = "listen"
  /\ g_stop \/ due <= 0
  /\ due' = Greatest(due, 0)
  /\ got' = FALSE
  /\ pc' = "top"
  /\ UNCHANGED <<ret, irq, txbuf, left, pkt, led_tx, chip, inq, outq, offered, g_stop,
                 faults, aired>>

\* A slip for the mutation runs: got_gnd is not looked at.
AirPollAlways == pc = "listen" /\ ~g_stop /\ due > 0 /\ PollReturns(TRUE)

\* Once a ground frame was accepted, the radio's edges are left in the kernel.
AirPoll == pc = "listen" /\ ~g_stop /\ due > 0 /\ PollReturns(~got)

AirHandleIrq ==
  /\ pc = "handle_irq"
  /\ pc' = IF "RX_DONE" \in irq THEN "read" ELSE "listen"
  /\ irq' = {}
  /\ UNCHANGED <<ret, txbuf, got, left, due, pkt, led_tx, chip, inq, outq, offered,
                 g_stop, faults, aired>>

AirRead ==
  /\ pc = "read"
  /\ \E ok \in BOOLEAN : ReadPacket(Peer, ok) /\ got' = ok
  /\ ret' = "listen"
  /\ pc' = "rx_clear"
  /\ UNCHANGED <<irq, txbuf, left, due, pkt, led_tx, inq, offered, g_stop, aired>>

(***************************************************************************)
(* Ctrl+C: mode_mavlink puts the radio in standby, whether that works or   *)
(* not, and ends.                                                          *)
(***************************************************************************)
AirStops ==
  /\ pc = "top"
  /\ g_stop
  /\ pc' = "exit_standby"
  /\ UNCHANGED <<ret, irq, txbuf, got, left, due, pkt, led_tx, chip, inq, outq, offered,
                 g_stop, faults, aired>>

AirExit ==
  /\ pc = "exit_standby"
  /\ \E ok \in BOOLEAN : HalWrite(SetStandby(chip), ok)
  /\ led_tx' = FALSE
  /\ pc' = "ended"
  /\ UNCHANGED <<ret, irq, txbuf, got, left, due, pkt, inq, outq, offered, g_stop, aired>>

Host == \/ Helper
        \/ AirTop \/ AirSendFailed \/ AirRetry \/ AirSent
        \/ AirSlot \/ AirSlotEnds \/ AirPoll \/ AirHandleIrq \/ AirRead
        \/ AirStops \/ AirExit

\* The host has something to do now.
Ready == CASE pc = "wait"   -> g_stop \/ left = 0 \/ Readable \/ chip.edge
           [] pc = "listen" -> g_stop \/ due <= 0 \/ Readable \/ (chip.edge /\ ~got)
           [] pc = "sleep"  -> left = 0
           [] pc = "ended"  -> FALSE
           [] OTHER         -> TRUE

Tick == (Prompt => ~Ready) /\ Elapses

Init == PortInit("top", "none")

HeardFrames == [role : {Peer}, data : HeardData]

Radio == \/ TxDone
         \/ \E f \in HeardFrames : FrameEnds(f)
         \/ \E f \in HeardFrames, kind \in Noise : NoiseEnds(f, kind)

Next == Host \/ Radio \/ Tick \/ PeerWrites \/ PeerReads \/ CtrlC

Spec == Init /\ [][Next]_portVars

\* The scheduler runs the process, the clock goes on, the radio ends what it
\* began, and the program at the other end of the transport reads.
Fairness == /\ WF_portVars(Host)
            /\ WF_portVars(Tick)
            /\ WF_portVars(TxDone)
            /\ WF_portVars(PeerReads)

LiveSpec == Spec /\ Fairness

(***************************************************************************)
(* Properties.                                                             *)
(***************************************************************************)
TypeOK == /\ pc \in AirSteps
          /\ ret \in {"none", "wait", "listen", "slot"}
          /\ due \in -SLOT_MS..SLOT_MS
          /\ PortTypeOK

(***************************************************************************)
(* Why the safety properties hold.                                         *)
(***************************************************************************)
\* Where the process stands while the slot is running.
Listening == \/ pc \in {"listen", "handle_irq", "read"}
             \/ pc \in {"get_irq", "clear_irq", "rx_clear", "rx_set"} /\ ret = "listen"

\* Helpers return to who called them; the slot is over before the next send;
\* an accepted frame leaves nothing to do but wait.
Control == /\ ret = "none" <=> pc \notin {"get_irq", "clear_irq", "rx_clear", "rx_set"}
           /\ pc \in {"get_irq", "clear_irq"} => ret \in {"wait", "listen"}
           /\ pc \in {"rx_clear", "rx_set"} => ret \in {"slot", "listen"}
           /\ due > 0 => Listening \/ (g_stop /\ pc \in {"top", "exit_standby", "ended"})
           /\ got => Listening /\ pc \in {"listen", "rx_clear", "rx_set"}

Awaiting == pc = "wait" \/ (pc \in {"get_irq", "clear_irq"} /\ ret = "wait")

\* From the moment the interrupts are cleared, a TX_DONE is that of this send.
TxDoneIsOurs ==
  /\ pc \in {"send_clear", "send_buffer", "send_tx"} => chip.mode = "STDBY"
  /\ pc \in {"send_buffer", "send_tx"} => "TX_DONE" \notin chip.irq
  /\ Awaiting /\ "TX_DONE" \in chip.irq => aired
  /\ pc = "clear_irq" /\ ret = "wait" /\ "TX_DONE" \in irq => aired
  /\ pc = "sent" /\ "TX_DONE" \in irq => aired

\* Where an RX_DONE of an accepted frame may still be set.
Unclear == {"top", "send_standby", "send_clear", "send_failed", "sleep",
            "exit_standby", "ended"}

RxDoneIsNew ==
  /\ pc \notin Unclear /\ ~got /\ "RX_DONE" \in chip.irq => chip.fresh
  /\ pc \in {"clear_irq", "handle_irq"} /\ "RX_DONE" \in irq => chip.fresh
  /\ pc = "read" => chip.fresh

IInv == TypeOK /\ Control /\ TxDoneIsOurs /\ RxDoneIsNew

(***************************************************************************)
(* The stretches of a slot: sending, ending the transmission, and, having  *)
(* heard the ground, taking up its frame and arming the radio again.       *)
(***************************************************************************)
Prepares == Preparing({"top"}) /\ (pc \in Building => pkt.role = Role)
Sends == OnAir /\ chip.txfifo.role = Role
Ends == Ending("slot")

Rearming == /\ pc \in {"rx_clear", "rx_set"} /\ ret = "listen"
            /\ chip.mode = "RX" /\ Silent /\ due > 0

TakesUp == (TakingUp /\ ~got) \/ Rearming

(***************************************************************************)
(* Safety properties.                                                      *)
(***************************************************************************)
\* tx_pkts (mode_mavlink.c:363) counts a frame only when that very frame went
\* out whole: a TX_DONE left over from an earlier frame, an aborted send or a
\* failed call is never taken for the one being waited for.
CountedWasAired == (pc = "sent" /\ "TX_DONE" \in irq) => aired

\* A received frame is accepted at most once: whatever arrives or fails between
\* reading the interrupt status, clearing it and re-arming the radio,
\* process_rx_packet never writes the same frame to the transport a second time
\* (mode_mavlink.c:389-406).
NoFrameTwice == pc = "read" /\ ~chip.fresh => ~Accepts(chip.rxfifo, Peer)

\* At most one ground frame per slot reaches the transport (mode_mavlink.c:389):
\* got_gnd, once set, keeps every later frame out until the next slot begins.
OneFramePerSlot == [][got => Len(outq') <= Len(outq)]_portVars

\* After a bounded number of failed driver calls the air side keeps the slots
\* going: it starts a transmission again and again, whatever state a failure
\* left the process or the radio in.
KeepsSending == <>g_stop \/ []<><<SendTx>>_portVars

\* And it keeps listening: no failure leaves the radio deaf for good
\* (radio_rx's result is ignored, mode_mavlink.c:370 and 405).
KeepsListening == <>g_stop \/ []<>(chip.mode = "RX")

\* Ctrl+C ends the process from every point of the loop.
StopEnds == g_stop ~> pc = "ended"

\* The header promises that the air side "switches to RX immediately after
\* TX_DONE" (mode_mavlink.c:13): set_rx after a send never cuts the frame short.
\* It can: the edge of a frame nobody looked at, because it came after the
\* accepted one (mode_mavlink.c:389) or at the end of the slot, stays in the
\* kernel, ends the next wait_irq with an empty mask
\* (mode_mavlink.c:200-204), and radio_rx follows.
RxAfterTxDone == (pc = "rx_set" /\ ret = "slot") => chip.mode # "TX"
=============================================================================
