----------------------------- MODULE MavlinkGnd -----------------------------
(* run_gnd of cli/mode_mavlink.c: the ground side, slave of the slots.  It   *)
(* listens for a frame of the drone or until three slots have passed, waits  *)
(* for the guard time, looks whether its TCP client has left, and sends.     *)
EXTENDS MavlinkPort

CONSTANT Tcp  \* the transport is a TCP client, not a UART or a PTY

ASSUME TcpAssumption == Tcp \in BOOLEAN

VARIABLES link,  \* the connection: "up", "fin" (the client closed its end) or
                 \* "rst" (the kernel learnt that nobody reads any more)
          base   \* bytes offered by the clients before the current one

gndVars == <<portVars, link, base>>

conn == <<link, base>>

Role == "GND"
Peer == "AIR"

GndSteps == HelperSteps \cup {"top", "listen", "rearm", "guard", "probe", "accept",
                              "build", "exit_standby", "ended", "killed"}

(***************************************************************************)
(* Phase 1: wait for a frame of the drone.                                 *)
(***************************************************************************)
\* A slip for the mutation runs: the loop goes round after Ctrl+C.
GndTopIgnoresStop ==
  /\ pc = "top"
  /\ due' = 3 * SLOT_MS
  /\ got' = FALSE
  /\ pc' = "listen"
  /\ UNCHANGED <<ret, irq, txbuf, left, pkt, led_tx, chip, inq, outq, offered, g_stop,
                 faults, aired, conn>>

GndTop ==
  /\ pc = "top"
  /\ ~g_stop
  /\ due' = 3 * SLOT_MS
  /\ got' = FALSE
  /\ pc' = "listen"
  /\ UNCHANGED <<ret, irq, txbuf, left, pkt, led_tx, chip, inq, outq, offered, g_stop,
                 faults, aired, conn>>

GndListenEnds ==
  /\ pc = "listen"
  /\ g_stop \/ due <= 0
  /\ left' = GUARD_MS
  /\ due' = 0
  /\ pc' = "guard"
  /\ UNCHANGED <<ret, irq, txbuf, got, pkt, led_tx, chip, inq, outq, offered, g_stop,
                 faults, aired, conn>>

GndPoll == pc = "listen" /\ ~g_stop /\ due > 0 /\ PollReturns(TRUE) /\ UNCHANGED conn

GndHandleIrq ==
  /\ pc = "handle_irq"
  /\ pc' = CASE "RX_DONE" \in irq -> "read"
             [] "RX_DONE" \notin irq /\ irq \cap Errors # {} -> "rx_clear"
             [] OTHER -> "listen"
  /\ ret' = IF pc' = "rx_clear" THEN "listen" ELSE "none"
  /\ irq' = IF pc' = "read" THEN irq ELSE {}
  /\ UNCHANGED <<txbuf, got, left, due, pkt, led_tx, chip, inq, outq, offered, g_stop,
                 faults, aired, conn>>

Writes == chip.rxfifo.role = Peer /\ chip.rxfifo.data # <<>>

\* process_rx_packet writes to a client that has left: the kernel takes the
\* first write, and answers the next one with SIGPIPE.
WriteToNobody ==
  /\ HalRead(TRUE)
  /\ Writes
  /\ link = "fin" /\ link' = "rst"
  /\ chip' = [chip EXCEPT !.fresh = FALSE]
  /\ UNCHANGED outq

\* A slip for the mutation runs: a frame accepted does not end phase 1.
GndStaysInRx ==
  /\ got' = TRUE
  /\ ret' = "listen"
  /\ pc' = "rx_clear"
  /\ UNCHANGED <<left, due>>

\* A frame accepted ends phase 1; after any other the radio is re-armed, and
\* once more if an error bit came with it.
GndAccepted ==
  /\ got' = TRUE
  /\ left' = GUARD_MS
  /\ due' = 0
  /\ pc' = "guard"
  /\ UNCHANGED ret

GndRefused ==
  /\ pc' = "rx_clear"
  /\ ret' = IF irq \cap Errors # {} THEN "rearm" ELSE "listen"
  /\ UNCHANGED <<got, left, due>>

GndRead ==
  /\ pc = "read"
  /\ \/ /\ \E ok \in BOOLEAN :
             /\ ReadPacket(Peer, ok)
             /\ ok /\ Writes => link = "up"
             /\ IF ok THEN GndAccepted ELSE GndRefused
        /\ UNCHANGED link
     \/ WriteToNobody /\ GndAccepted
  /\ irq' = {}
  /\ UNCHANGED <<txbuf, pkt, led_tx, inq, offered, g_stop, aired, base>>

GndSigpipe ==
  /\ pc = "read"
  /\ link = "rst" /\ Writes
  /\ pc' = "killed"
  /\ UNCHANGED <<ret, irq, txbuf, got, left, due, pkt, led_tx, chip, inq, outq, offered,
                 g_stop, faults, aired, conn>>

GndRearm ==
  /\ pc = "rearm"
  /\ ret' = "listen"
  /\ pc' = "rx_clear"
  /\ UNCHANGED <<irq, txbuf, got, left, due, pkt, led_tx, chip, inq, outq, offered, g_stop,
                 faults, aired, conn>>

(***************************************************************************)
(* Phase 2: guard time, TCP reconnect, transmit.                           *)
(***************************************************************************)
\* One poll of the transport, which input, or the end of it, cuts short.
GndGuard ==
  /\ pc = "guard"
  /\ GUARD_MS > 0 => Readable \/ link # "up" \/ left = 0 \/ g_stop
  /\ IF GUARD_MS > 0 THEN DrainTransport ELSE UNCHANGED <<txbuf, inq>>
  /\ left' = 0
  /\ pc' = "probe"
  /\ UNCHANGED <<ret, irq, got, due, pkt, led_tx, chip, outq, offered, g_stop, faults,
                 aired, conn>>

\* The client is gone when its bytes are all read and no more can come.
GndProbe ==
  /\ pc = "probe"
  /\ pc' = IF Tcp /\ ~Readable /\ link # "up" THEN "accept" ELSE "build"
  /\ UNCHANGED <<ret, irq, txbuf, got, left, due, pkt, led_tx, chip, inq, outq, offered,
                 g_stop, faults, aired, conn>>

\* A slip for the mutation runs: no rb_reset.
GndReconnectedKeepsBytes ==
  /\ pc = "accept"
  /\ inq' = <<>>
  /\ outq' = <<>>
  /\ link' = "up"
  /\ base' = offered
  /\ pc' = "build"
  /\ UNCHANGED <<ret, irq, txbuf, got, left, due, pkt, led_tx, chip, offered, g_stop, faults,
                 aired>>

\* accept() returns with the next client, and rb_reset forgets the old one's
\* bytes.
GndReconnected ==
  /\ pc = "accept"
  /\ txbuf' = <<>>
  /\ inq' = <<>>
  /\ outq' = <<>>
  /\ link' = "up"
  /\ base' = offered
  /\ pc' = "build"
  /\ UNCHANGED <<ret, irq, got, left, due, pkt, led_tx, chip, offered, g_stop, faults, aired>>

\* No socket, no port, or accept fails: the loop is left.
GndAcceptFails ==
  /\ pc = "accept"
  /\ faults > 0
  /\ faults' = faults - 1
  /\ pc' = "exit_standby"
  /\ UNCHANGED <<ret, irq, txbuf, got, left, due, pkt, led_tx, chip, inq, outq, offered,
                 g_stop, aired, conn>>

GndBuild ==
  /\ pc = "build"
  /\ pkt' = Packet(txbuf, Role)
  /\ txbuf' = Unsent(txbuf)
  /\ led_tx' = TRUE
  /\ pc' = "send_standby"
  /\ UNCHANGED <<ret, irq, got, left, due, chip, inq, outq, offered, g_stop, faults, aired,
                 conn>>

\* The send did not start: back to receiving, the LED still lit.
GndSendFailed ==
  /\ pc = "send_failed"
  /\ left' = 0 /\ pkt' = NoFrame
  /\ ret' = "top"
  /\ pc' = "rx_clear"
  /\ UNCHANGED <<irq, txbuf, got, due, led_tx, chip, inq, outq, offered, g_stop,
                 faults, aired, conn>>

\* A slip for the mutation runs: the radio is not armed after the send.
GndSentSkipsRx ==
  /\ pc = "sent"
  /\ led_tx' = FALSE
  /\ irq' = {} /\ left' = 0 /\ pkt' = NoFrame
  /\ pc' = "top"
  /\ UNCHANGED <<ret, txbuf, got, due, chip, inq, outq, offered, g_stop, faults, aired,
                 conn>>

\* wait_irq came back, with or without TX_DONE.
GndSent ==
  /\ pc = "sent"
  /\ led_tx' = FALSE
  /\ irq' = {} /\ left' = 0 /\ pkt' = NoFrame
  /\ ret' = "top"
  /\ pc' = "rx_clear"
  /\ UNCHANGED <<txbuf, got, due, chip, inq, outq, offered, g_stop, faults,
                 aired, conn>>

(***************************************************************************)
(* Ctrl+C: mode_mavlink puts the radio in standby, whether that works or   *)
(* not, and ends.                                                          *)
(***************************************************************************)
GndStops ==
  /\ pc = "top"
  /\ g_stop
  /\ pc' = "exit_standby"
  /\ UNCHANGED <<ret, irq, txbuf, got, left, due, pkt, led_tx, chip, inq, outq, offered,
                 g_stop, faults, aired, conn>>

GndExit ==
  /\ pc = "exit_standby"
  /\ \E ok \in BOOLEAN : HalWrite(SetStandby(chip), ok)
  /\ led_tx' = FALSE
  /\ pc' = "ended"
  /\ UNCHANGED <<ret, irq, txbuf, got, left, due, pkt, inq, outq, offered, g_stop, aired,
                 conn>>

Host == \/ Helper /\ UNCHANGED conn
        \/ GndTop \/ GndListenEnds \/ GndPoll \/ GndHandleIrq
        \/ GndRead \/ GndSigpipe \/ GndRearm
        \/ GndGuard \/ GndProbe \/ GndAcceptFails \/ GndBuild
        \/ GndSendFailed \/ GndSent
        \/ GndStops \/ GndExit

\* The host has something to do now.
Ready == CASE pc = "wait"   -> g_stop \/ left = 0 \/ Readable \/ chip.edge
           [] pc = "listen" -> g_stop \/ due <= 0 \/ Readable \/ chip.edge
           [] pc = "guard"  -> GUARD_MS = 0 \/ left = 0 \/ Readable \/ link # "up" \/ g_stop
           [] pc \in {"accept", "ended", "killed"} -> FALSE
           [] OTHER         -> TRUE

Tick == (Prompt => ~Ready) /\ Elapses /\ UNCHANGED conn

(***************************************************************************)
(* The client.                                                             *)
(***************************************************************************)
ClientWrites == link = "up" /\ PeerWrites /\ UNCHANGED conn

ClientReads == link = "up" /\ PeerReads /\ UNCHANGED conn

\* The client closes its socket; what it has not read is lost.
ClientCloses ==
  /\ Tcp
  /\ link = "up"
  /\ link' = "fin"
  /\ outq' = <<>>
  /\ UNCHANGED <<Around, left, due, chip, inq, offered, g_stop, aired, base>>

GndInit == /\ PortInit("rx_clear", "top")
           /\ link = "up"
           /\ base = 0

HeardFrames == [role : {Peer}, data : HeardData]

Radio == /\ \/ TxDone
            \/ \E f \in HeardFrames : FrameEnds(f)
            \/ \E f \in HeardFrames, kind \in Noise : NoiseEnds(f, kind)
         /\ UNCHANGED conn

Next == \/ Host \/ GndReconnected
        \/ Radio \/ Tick
        \/ ClientWrites \/ ClientReads \/ ClientCloses
        \/ CtrlC /\ UNCHANGED conn

Spec == GndInit /\ [][Next]_gndVars

\* The scheduler runs the process, the clock goes on, the radio ends what it
\* began, and the client reads.  Nobody owes the process a new client.
Fairness == /\ WF_gndVars(Host)
            /\ WF_gndVars(Tick)
            /\ WF_gndVars(TxDone /\ UNCHANGED conn)
            /\ WF_gndVars(ClientReads)

LiveSpec == Spec /\ Fairness

(***************************************************************************)
(* Properties.                                                             *)
(***************************************************************************)
TypeOK == /\ pc \in GndSteps
          /\ ret \in {"none", "wait", "listen", "rearm", "top"}
          /\ due \in -SLOT_MS..3 * SLOT_MS
          /\ PortTypeOK
          /\ link \in {"up", "fin", "rst"}
          /\ base \in 0..MaxBytes

(***************************************************************************)
(* Why the safety properties hold.                                         *)
(***************************************************************************)
\* Helpers return to who called them; a frame exists only while it is sent.
Awaiting == pc = "wait" \/ (pc \in {"get_irq", "clear_irq"} /\ ret = "wait")

Sending == Awaiting \/ pc \in {"send_standby", "send_clear", "send_buffer", "send_tx",
                               "send_failed", "sent"}

Control == /\ ret = "none" <=> pc \notin {"get_irq", "clear_irq", "rx_clear", "rx_set"}
           /\ pc \in {"get_irq", "clear_irq"} => ret \in {"wait", "listen"}
           /\ pc \in {"rx_clear", "rx_set"} => ret \in {"listen", "rearm", "top"}
           /\ pc = "read" => "RX_DONE" \in irq
           /\ ~Sending => pkt = NoFrame

\* From the moment the interrupts are cleared, a TX_DONE is that of this send.
TxDoneIsOurs ==
  /\ pc \in {"send_clear", "send_buffer", "send_tx"} => chip.mode = "STDBY"
  /\ pc \in {"send_buffer", "send_tx"} => "TX_DONE" \notin chip.irq
  /\ Awaiting /\ "TX_DONE" \in chip.irq => aired
  /\ pc = "clear_irq" /\ ret = "wait" /\ "TX_DONE" \in irq => aired
  /\ pc = "sent" /\ "TX_DONE" \in irq => aired

\* An accepted frame's RX_DONE gets past the send's clear_irq_status only when a
\* call before it fails, and past radio_rx's only when that one fails too.
RxDoneIsNew ==
  /\ "RX_DONE" \in chip.irq /\ ~chip.fresh =>
       \/ pc \in {"guard", "probe", "accept", "build", "send_standby", "send_clear",
                  "exit_standby", "ended", "killed"}
       \/ (pc = "send_failed" \/ (pc = "rx_clear" /\ ret = "top")) /\ Failed >= 1
       \/ Failed >= 2
  /\ pc \in {"clear_irq", "handle_irq", "read"} /\ "RX_DONE" \in irq /\ ~chip.fresh =>
       Failed >= 2

\* Every byte in the process is the current client's.
OfThisClient(b) == \A i \in 1..Len(b) : b[i] > base

OneSession == /\ base <= offered
              /\ OfThisClient(inq) /\ OfThisClient(txbuf) /\ OfThisClient(pkt.data)

IInv == TypeOK /\ Control /\ TxDoneIsOurs /\ RxDoneIsNew /\ OneSession

(***************************************************************************)
(* The stretches of a slot: taking up the drone's frame, the guard time,   *)
(* sending, ending the transmission.                                       *)
(***************************************************************************)
TakesUp == TakingUp /\ chip.rxfifo.role = Peer
Guards == pc = "guard" /\ chip.mode = "RX" /\ Silent
Prepares == Preparing({"probe", "build"}) /\ (pc \in Building => pkt.role = Role)
Sends == OnAir /\ chip.txfifo.role = Role
Ends == Ending("top")

(***************************************************************************)
(* Safety properties.                                                      *)
(***************************************************************************)
\* tx_pkts (mode_mavlink.c:525) counts a frame only when that very frame went
\* out whole.
CountedWasAired == (pc = "sent" /\ "TX_DONE" \in irq) => aired

\* A received frame is written to the client at most once, also when a call of
\* the driver fails (mode_mavlink.c:456-480).  Two failures can break this: the
\* frame that ends between get_and_clear_irq_status and process_rx_packet is
\* written, its RX_DONE stays set when both the next send and the radio_rx after
\* it fail (mode_mavlink.c:513-516), and the frame is read again.
NoFrameTwice ==
  pc = "read" /\ ~chip.fresh /\ Accepts(chip.rxfifo, Peer) => Failed >= 2

\* The drone never gets a byte that a client wrote before the current one
\* connected (mode_mavlink.c:496-507): neither the transmit buffer nor the
\* frame being sent outlives the connection it was read from.
NoStaleSession ==
  pc \in {"send_standby", "send_clear", "send_buffer", "send_tx"} =>
    \A i \in 1..Len(pkt.data) : pkt.data[i] > base

(***************************************************************************)
(* Liveness.                                                               *)
(***************************************************************************)
\* After a bounded number of failed driver calls the ground side goes on
\* sending and listening for ever, whatever state a failure left the process or
\* the radio in: its time-out of three slots sends and re-arms the radio even
\* when no interrupt can come any more (mode_mavlink.c:439 and 483-531).  Only
\* the wait for a TCP client, its SIGPIPE and the end of the process stop it.
Halted == pc \in {"accept", "ended", "killed"}

KeepsSending == <>[]Halted \/ []<><<SendTx>>_gndVars

KeepsListening == <>[]Halted \/ []<>(chip.mode = "RX")

\* Ctrl+C ends the process from every point of the loop, unless it waits for a
\* TCP client: accept() is restarted after the signal.
StopEnds == g_stop ~> Halted

\* The header promises that the ground side "waits guard_ms and transmits"
\* (mode_mavlink.c:20-21), so that the drone has switched its radio round.  It
\* does not when the transport has something to read: the wait is one poll of it
\* (mode_mavlink.c:488-494).
GuardWaited == [][pc = "guard" /\ pc' # "guard" => left = 0]_gndVars
=============================================================================
