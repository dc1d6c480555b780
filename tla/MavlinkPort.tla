---------------------------- MODULE MavlinkPort ----------------------------
(* What both sides of the MAVLink bridge (cli/mode_mavlink.c) share: the     *)
(* process state, its transport and its radio, and the helpers build_packet, *)
(* radio_send, wait_irq, radio_rx and process_rx_packet.  Each call of the   *)
(* driver is one step, so that the radio, the transport, the clock and       *)
(* Ctrl+C can do anything between two of them.                               *)
(*                                                                           *)
(* The transmit buffer is the bounded FIFO queue that RingBuffer implements. *)
(* A local variable that goes out of scope gets its initial value back.      *)
(*                                                                           *)
(* Bytes are numbers: the n-th byte the peer program ever wrote is n, and    *)
(* Corrupt is a byte damaged on air.                                         *)
EXTENDS Board

CONSTANTS TXBUF_SIZE,    \* capacity of the transmit buffer
          READ_MAX,      \* bytes one drain_transport reads at most (512)
          MAX_PKT_DATA,  \* data bytes of a frame (250)
          SLOT_MS,       \* p->slot_ms, in ticks
          GUARD_MS,      \* p->guard_ms, in ticks
          TX_WAIT_MS,    \* how long wait_irq waits for TX_DONE (500 ms)
          RETRY_MS,      \* the pause of the air side after a failed send (50 ms)
          IN_CAP,        \* bytes the kernel holds for the process to read
          OUT_CAP,       \* bytes the kernel holds of what the process wrote
          MaxBytes,      \* bound: bytes written to the transport in a behaviour
          HeardData,     \* what the frames heard can carry
          Noise,         \* what else can be heard: "crc" a damaged frame, "foreign"
                         \* another sender's, "header" a damaged header
          MayStop,       \* whether Ctrl+C can be pressed
          Prompt         \* whether the host runs its steps in no time

ASSUME PortAssumption ==
  /\ \A n \in {TXBUF_SIZE, READ_MAX, MAX_PKT_DATA, IN_CAP, OUT_CAP} : n \in Nat \ {0}
  /\ \A n \in {SLOT_MS, GUARD_MS, TX_WAIT_MS, RETRY_MS, MaxBytes} : n \in Nat
  /\ \A d \in HeardData : d \in Seq(Nat)
  /\ Noise \subseteq {"crc", "foreign", "header"}
  /\ MayStop \in BOOLEAN /\ Prompt \in BOOLEAN

Corrupt == 0

VARIABLES
  pc,       \* the next step of the process
  ret,      \* where the running helper returns to, or "none"
  irq,      \* the mask of the last get_and_clear_irq_status
  txbuf,    \* bytes waiting for a frame
  got,      \* got_gnd or got_air
  left,     \* ticks until the running poll or sleep gives up
  due,      \* ticks until t_next_tx (air side) or deadline (ground side)
  pkt,      \* the frame built for radio_send
  led_tx,   \* the TX LED is lit
  inq,      \* bytes the transport has for the process
  outq,     \* bytes the process wrote that the peer program has not read
  offered,  \* how many bytes the peer program has written
  g_stop,   \* set by the SIGINT handler
  aired     \* the frame of the last set_tx went out whole (for properties)

portVars == <<pc, ret, irq, txbuf, got, left, due, pkt, led_tx, chip, inq, outq,
              offered, g_stop, faults, aired>>

HelperSteps == {"send_standby", "send_clear", "send_buffer", "send_tx",
                "send_failed", "wait", "sent", "get_irq", "clear_irq",
                "handle_irq", "read", "rx_clear", "rx_set"}

Least(m, n) == IF m < n THEN m ELSE n
Greatest(m, n) == IF m > n THEN m ELSE n

(***************************************************************************)
(* The transport.                                                          *)
(***************************************************************************)
Chunk == SubSeq(inq, 1, Least(READ_MAX, Len(inq)))

Undrained == SubSeq(inq, Len(Chunk) + 1, Len(inq))

\* A slip for the mutation runs: the push that does not look at the room left.
FilledUnchecked == txbuf \o Chunk

\* drain_transport: a chunk that does not fit is dropped whole.
Filled == IF Len(txbuf) + Len(Chunk) > TXBUF_SIZE THEN txbuf ELSE txbuf \o Chunk

DrainTransport == txbuf' = Filled /\ inq' = Undrained

\* A slip for the mutation runs: a frame whose length is that of its header.
PacketWithoutData(b, role) == [role |-> role, data |-> <<>>]

(***************************************************************************)
(* build_packet: b is the transmit buffer as the caller left it.  A frame  *)
(* without data is a beacon.                                               *)
(***************************************************************************)
Packet(b, role) ==
  [role |-> role, data |-> SubSeq(b, 1, Least(MAX_PKT_DATA, Len(b)))]

\* A slip for the mutation runs: a pop of a byte too few.
UnsentOneLess(b) == SubSeq(b, Greatest(Least(MAX_PKT_DATA, Len(b)), 1), Len(b))

Unsent(b) == SubSeq(b, Least(MAX_PKT_DATA, Len(b)) + 1, Len(b))

(***************************************************************************)
(* radio_send: standby, clear the interrupts, write the frame, transmit.   *)
(* The first call that fails ends it.                                      *)
(***************************************************************************)
SendCall(step, c, next) ==
  /\ pc = step
  /\ \E ok \in BOOLEAN : /\ HalWrite(c, ok)
                         /\ pc' = IF ok THEN next ELSE "send_failed"
  /\ UNCHANGED <<ret, irq, txbuf, got, due, pkt, led_tx, inq, outq, offered, g_stop>>

SendStandby == /\ SendCall("send_standby", SetStandby(chip), "send_clear")
               /\ UNCHANGED <<left, aired>>

\* A slip for the mutation runs: the interrupts are not cleared.
SendKeepsIrq == /\ SendCall("send_clear", chip, "send_buffer")
                /\ UNCHANGED <<left, aired>>

SendClear == /\ SendCall("send_clear", ClearIrq(chip, IrqBits), "send_buffer")
             /\ UNCHANGED <<left, aired>>

SendBuffer == /\ SendCall("send_buffer", WriteBuffer(chip, pkt), "send_tx")
              /\ UNCHANGED <<left, aired>>

\* set_tx; on success wait_irq begins, with its deadline.
SendTx == /\ SendCall("send_tx", SetTx(chip), "wait")
          /\ left' = TX_WAIT_MS
          /\ aired' = FALSE

(***************************************************************************)
(* wait_irq, polling the radio's line and the transport.                   *)
(***************************************************************************)
Readable == inq # <<>>

\* A slip for the mutation runs: the deadline is not looked at.
WaitEndsOnStop ==
  /\ pc = "wait"
  /\ g_stop
  /\ irq' = {}
  /\ pc' = "sent"
  /\ UNCHANGED <<ret, txbuf, got, left, due, pkt, led_tx, chip, inq, outq, offered,
                 g_stop, faults, aired>>

WaitEnds ==
  /\ pc = "wait"
  /\ g_stop \/ left = 0
  /\ irq' = {}
  /\ pc' = "sent"
  /\ UNCHANGED <<ret, txbuf, got, left, due, pkt, led_tx, chip, inq, outq, offered,
                 g_stop, faults, aired>>

\* What one return of poll does in all three polling loops: drain the transport
\* if it is readable, then, with an edge waiting and wanted, take the edges and
\* go on to the interrupt status.
PollReturns(wanted) ==
  /\ Readable \/ (wanted /\ chip.edge)
  /\ IF Readable THEN DrainTransport ELSE UNCHANGED <<txbuf, inq>>
  /\ IF wanted /\ chip.edge
       THEN chip' = DrainEdges(chip) /\ pc' = "get_irq" /\ ret' = pc
       ELSE UNCHANGED <<chip, pc, ret>>
  /\ UNCHANGED <<irq, got, left, due, pkt, led_tx, outq, offered, g_stop, faults, aired>>

WaitPoll == pc = "wait" /\ ~g_stop /\ left > 0 /\ PollReturns(TRUE)

(***************************************************************************)
(* lr11xx_system_get_and_clear_irq_status: read the mask, then clear the   *)
(* bits read.  wait_irq goes on polling after a failure and returns any    *)
(* mask it gets, an empty one too; the listening loops carry on with an    *)
(* empty mask.                                                             *)
(***************************************************************************)
IrqReturns(ok, mask) ==
  /\ irq' = IF ok THEN mask ELSE {}
  /\ ret' = "none"
  /\ pc' = IF ret = "wait" THEN (IF ok THEN "sent" ELSE "wait") ELSE "handle_irq"

GetIrq ==
  /\ pc = "get_irq"
  /\ \E ok \in BOOLEAN :
       /\ HalRead(ok)
       /\ IF ok /\ chip.irq # {}
            THEN irq' = chip.irq /\ pc' = "clear_irq" /\ UNCHANGED ret
            ELSE IrqReturns(ok, {})
  /\ UNCHANGED <<txbuf, got, left, due, pkt, led_tx, chip, inq, outq, offered,
                 g_stop, aired>>

ClearIrqRead ==
  /\ pc = "clear_irq"
  /\ \E ok \in BOOLEAN : /\ HalWrite(ClearIrq(chip, irq), ok)
                         /\ IrqReturns(ok, irq)
  /\ UNCHANGED <<txbuf, got, left, due, pkt, led_tx, inq, outq, offered,
                 g_stop, aired>>

(***************************************************************************)
(* radio_rx: clear the interrupts, then receive until told otherwise.  Its *)
(* result is never looked at.                                              *)
(***************************************************************************)
\* A slip for the mutation runs: radio_rx does not clear the interrupts.
RxKeepsIrq ==
  /\ pc = "rx_clear"
  /\ pc' = "rx_set"
  /\ UNCHANGED <<ret, irq, txbuf, got, left, due, pkt, led_tx, chip, inq, outq, offered,
                 g_stop, faults, aired>>

RxClear ==
  /\ pc = "rx_clear"
  /\ \E ok \in BOOLEAN : /\ HalWrite(ClearIrq(chip, IrqBits), ok)
                         /\ IF ok THEN pc' = "rx_set" /\ UNCHANGED ret
                                  ELSE pc' = ret /\ ret' = "none"
  /\ UNCHANGED <<irq, txbuf, got, left, due, pkt, led_tx, inq, outq, offered,
                 g_stop, aired>>

RxSet ==
  /\ pc = "rx_set"
  /\ \E ok \in BOOLEAN : HalWrite(SetRx(chip), ok)
  /\ pc' = ret
  /\ ret' = "none"
  /\ UNCHANGED <<irq, txbuf, got, left, due, pkt, led_tx, inq, outq, offered,
                 g_stop, aired>>

Helper == \/ SendStandby \/ SendClear \/ SendBuffer \/ SendTx
          \/ WaitEnds \/ WaitPoll
          \/ GetIrq \/ ClearIrqRead
          \/ RxClear \/ RxSet

(***************************************************************************)
(* process_rx_packet, up to its write: ok is whether it accepts the frame. *)
(* It takes the radio's word that there is one, whatever CRC_ERROR says.   *)
(* write() takes as much as fits; nothing of a frame with data is a        *)
(* failure, and what did not fit is gone.                                  *)
(***************************************************************************)
Writable(f) == Least(Len(f.data), OUT_CAP - Len(outq))

Accepts(f, role) == f.role = role /\ (f.data # <<>> => Writable(f) > 0)

ReadPacket(role, ok) ==
  \/ /\ ~ok
     /\ HalRead(FALSE)
     /\ UNCHANGED <<chip, outq>>
  \/ /\ ok = Accepts(chip.rxfifo, role)
     /\ HalRead(TRUE)
     /\ chip' = [chip EXCEPT !.fresh = @ /\ ~ok]
     /\ outq' = IF ok THEN outq \o SubSeq(chip.rxfifo.data, 1, Writable(chip.rxfifo))
                      ELSE outq

(***************************************************************************)
(* What happens around the process.                                        *)
(***************************************************************************)
Around == <<pc, ret, irq, txbuf, got, pkt, led_tx, faults>>

\* The peer program writes its next byte.
PeerWrites ==
  /\ offered < MaxBytes
  /\ Len(inq) < IN_CAP
  /\ offered' = offered + 1
  /\ inq' = Append(inq, offered + 1)
  /\ UNCHANGED <<Around, left, due, chip, outq, g_stop, aired>>

PeerReads ==
  /\ outq # <<>>
  /\ outq' = Tail(outq)
  /\ UNCHANGED <<Around, left, due, chip, inq, offered, g_stop, aired>>

CtrlC ==
  /\ MayStop
  /\ ~g_stop
  /\ g_stop' = TRUE
  /\ UNCHANGED <<Around, left, due, chip, inq, outq, offered, aired>>

TxDone ==
  /\ chip.mode = "TX"
  /\ chip.air = 0
  /\ chip' = TxEnd(chip)
  /\ aired' = TRUE
  /\ UNCHANGED <<Around, left, due, inq, outq, offered, g_stop>>

\* A tick of the clock.  due goes below zero when the air side is late, and
\* no further than the next slot can bring back above zero.
Elapses ==
  /\ MayElapse(chip)
  /\ chip' = Elapse(chip)
  /\ left' = Greatest(left - 1, 0)
  /\ due' = Greatest(due - 1, -SLOT_MS)
  /\ UNCHANGED <<Around, inq, outq, offered, g_stop, aired>>

(***************************************************************************)
(* The other side of the link, when it is not modelled: any frame of it,   *)
(* at any time, and noise.                                                 *)
(***************************************************************************)
Damaged(f) == [f EXCEPT !.data = [i \in DOMAIN f.data |-> Corrupt]]

Chips == <<Around, left, due, inq, outq, offered, g_stop, aired>>

FrameEnds(f) ==
  /\ chip.mode = "RX"
  /\ chip' = RxEnd(chip, f, {})
  /\ UNCHANGED Chips

NoiseEnds(f, kind) ==
  /\ chip.mode = "RX"
  /\ chip' = CASE kind = "crc"     -> RxEnd(chip, Damaged(f), {"CRC_ERROR"})
                [] kind = "foreign" -> RxEnd(chip, NoFrame, {})
                [] kind = "header"  -> RxFails(chip)
  /\ UNCHANGED Chips

PortInit(step, back) ==
  /\ pc = step
  /\ ret = back
  /\ irq = {}
  /\ txbuf = <<>>
  /\ got = FALSE
  /\ left = 0
  /\ due = 0
  /\ pkt = NoFrame
  /\ led_tx = FALSE
  /\ chip = PowerOn
  /\ inq = <<>>
  /\ outq = <<>>
  /\ offered = 0
  /\ g_stop = FALSE
  /\ faults = MaxFaults
  /\ aired = FALSE

(***************************************************************************)
(* The part of the type invariants that both sides share.                  *)
(***************************************************************************)
PortTypeOK == /\ irq \subseteq IrqBits
              /\ txbuf \in Seq(Nat) /\ Len(txbuf) <= TXBUF_SIZE
              /\ got \in BOOLEAN
              /\ left \in Nat
              /\ pkt \in Frame /\ Len(pkt.data) <= MAX_PKT_DATA
              /\ led_tx \in BOOLEAN
              /\ chip \in Chip
              /\ inq \in Seq(Nat)
              /\ outq \in Seq(Nat) /\ Len(outq) <= OUT_CAP
              /\ offered \in 0..MaxBytes
              /\ g_stop \in BOOLEAN
              /\ faults \in 0..MaxFaults
              /\ aired \in BOOLEAN

(***************************************************************************)
(* Why the bytes of a direction stay in order: those that wait for the air *)
(* lie in the order they were written, from the frame to the transport.    *)
(***************************************************************************)
Bytes(s) == {s[i] : i \in 1..Len(s)}

Increasing(s) == \A i, j \in 1..Len(s) : i < j => s[i] < s[j]

Before(S, T) == \A a \in S, b \in T : a < b

\* A frame is built and set_tx has not been called yet.
Building == {"send_standby", "send_clear", "send_buffer", "send_tx"}

Queued == Bytes(txbuf) \cup Bytes(inq)

\* The bytes of the frame built, and of the frame that is or was on the air.
Built == IF pc \in Building THEN Bytes(pkt.data) ELSE {}
Sent == Bytes(chip.txfifo.data)

\* The bytes that may still be heard at the other end.
Pending == Queued \cup Built \cup IF chip.mode = "TX" THEN Sent ELSE {}

Ordered == /\ Increasing(inq) /\ Increasing(txbuf) /\ Increasing(pkt.data)
           /\ Increasing(chip.txfifo.data)
           /\ Before(Bytes(txbuf), Bytes(inq)) /\ Before(Built, Queued) /\ Before(Sent, Queued)
           /\ pc = "send_tx" => chip.txfifo = pkt
           /\ pc # "send_tx" => Before(Sent, Built)
           /\ Queued \cup Built \cup Sent \subseteq 1..offered

\* The bytes in S are among those written, and those still to be heard come after them.
Behind(S) == S \subseteq 1..offered /\ Before(S, Pending)

(***************************************************************************)
(* Why a slot goes as planned while every call works: the stretches of a   *)
(* slot, by where the process and its radio stand.                         *)
(***************************************************************************)
Silent == chip.irq = {} /\ ~chip.edge

\* From the steps in first on, up to set_tx.
Preparing(first) == /\ pc \in first \cup Building
                    /\ chip.mode # "TX" /\ ~chip.edge
                    /\ pc \in {"send_buffer", "send_tx"} => chip.irq = {}

OnAir == pc = "wait" /\ chip.mode = "TX" /\ Silent /\ left > chip.air

\* An interrupt, from its edge to its clearing, in the polling loop at step.
Interrupted(step, bit) ==
  /\ pc = step \/ (pc \in {"get_irq", "clear_irq"} /\ ret = step)
  /\ chip.edge <=> pc = step
  /\ chip.irq = {bit}
  /\ pc = "clear_irq" => irq = {bit}

\* The frame is out: from TX_DONE to the step last, with the radio receiving again.
Ending(last) ==
  \/ chip.mode = "STDBY" /\ Interrupted("wait", "TX_DONE") /\ left > 0
  \/ /\ chip.mode = "STDBY" /\ Silent
     /\ pc = "sent" \/ (pc \in {"rx_clear", "rx_set"} /\ ret = last)
  \/ chip.mode = "RX" /\ Silent /\ pc = last

Idle == pc = "listen" /\ chip.mode = "RX" /\ Silent

\* A frame was heard and is looked at.
TakingUp == /\ chip.mode = "RX" /\ due > 0
            /\ \/ Interrupted("listen", "RX_DONE")
               \/ Silent /\ pc = "handle_irq" /\ irq = {"RX_DONE"}
               \/ Silent /\ pc = "read"

=============================================================================
