---------------------------- MODULE MavlinkLink ----------------------------
(* The bridge as a whole: a drone running run_air, a ground station running  *)
(* run_gnd, and the half-duplex radio channel between them, on one clock.    *)
(* A frame is heard by a radio that was receiving when it began and did      *)
(* nothing else until it ended, so two frames at once are both lost.         *)
EXTENDS Integers, Sequences

CONSTANTS TOA, TXBUF_SIZE, READ_MAX, MAX_PKT_DATA, SLOT_MS, GUARD_MS, TX_WAIT_MS,
          RETRY_MS, IN_CAP, OUT_CAP, Prompt, Tcp,
          AirBytes,  \* bound: bytes the flight controller writes
          GndBytes,  \* bound: bytes the ground station's client writes
          AirFaults, \* bound: driver calls that fail on the drone
          GndFaults, \* bound: driver calls that fail on the ground
          MaxLosses, \* bound: frames the channel loses
          Aligned    \* whether the first frame of the drone ends before the ground
                     \* side first gives up listening

ASSUME LinkAssumption ==
  /\ \A n \in {TOA, TXBUF_SIZE, READ_MAX, MAX_PKT_DATA, IN_CAP, OUT_CAP} : n \in Nat \ {0}
  /\ \A n \in {SLOT_MS, GUARD_MS, TX_WAIT_MS, RETRY_MS, AirBytes, GndBytes, AirFaults,
               GndFaults, MaxLosses} : n \in Nat
  /\ \A b \in {Prompt, Tcp, Aligned} : b \in BOOLEAN

VARIABLES a_pc, a_ret, a_irq, a_txbuf, a_got, a_left, a_due, a_pkt, a_led, a_chip,
          a_inq, a_outq, a_offered, a_stop, a_faults, a_aired,
          g_pc, g_ret, g_irq, g_txbuf, g_got, g_left, g_due, g_pkt, g_led, g_chip,
          g_inq, g_outq, g_offered, g_stop, g_faults, g_aired, g_link, g_base,
          airUp,  \* the drone has been switched on
          losses, \* frames the channel may still lose
          down,   \* every byte written to the ground client, in order
          up      \* every byte written to the flight controller, in order

A == INSTANCE MavlinkAir WITH
       MaxBytes <- AirBytes, MaxFaults <- AirFaults, HeardData <- {}, Noise <- {}, MayStop <- FALSE,
       pc <- a_pc, ret <- a_ret, irq <- a_irq, txbuf <- a_txbuf,
       got <- a_got, left <- a_left, due <- a_due, pkt <- a_pkt, led_tx <- a_led,
       chip <- a_chip, inq <- a_inq, outq <- a_outq, offered <- a_offered,
       g_stop <- a_stop, faults <- a_faults, aired <- a_aired

G == INSTANCE MavlinkGnd WITH
       MaxBytes <- GndBytes, MaxFaults <- GndFaults, HeardData <- {}, Noise <- {}, MayStop <- FALSE,
       pc <- g_pc, ret <- g_ret, irq <- g_irq, txbuf <- g_txbuf,
       got <- g_got, left <- g_left, due <- g_due, pkt <- g_pkt, led_tx <- g_led,
       chip <- g_chip, inq <- g_inq, outq <- g_outq, offered <- g_offered,
       g_stop <- g_stop, faults <- g_faults, aired <- g_aired, link <- g_link,
       base <- g_base

\* The variables of one side but for its radio.
airOnly == <<a_pc, a_ret, a_irq, a_txbuf, a_got, a_left, a_due, a_pkt, a_led, a_inq,
             a_outq, a_offered, a_stop, a_faults, a_aired>>
gndOnly == <<g_pc, g_ret, g_irq, g_txbuf, g_got, g_left, g_due, g_pkt, g_led, g_inq,
             g_outq, g_offered, g_stop, g_faults, g_aired, g_link, g_base>>

linkVars == <<airOnly, gndOnly, a_chip, g_chip, airUp, losses, down, up>>

(***************************************************************************)
(* The channel.                                                            *)
(***************************************************************************)
\* What radio p, at the other end, makes of radio c becoming c2: it may lock on
\* a frame that begins, and loses one that is cut short.
Overhears(c, c2, p) ==
  CASE c.mode # "TX" /\ c2.mode = "TX" -> [p EXCEPT !.lock = p.mode = "RX"]
    [] c.mode = "TX" /\ c2.mode # "TX" -> [p EXCEPT !.lock = FALSE]
    [] OTHER -> p

\* Radio p, now q, hears frame f end, or nothing if the channel lost it.
Hears(p, q, f) ==
  \/ q = (IF p.lock THEN A!RxEnd(p, f, {}) ELSE p) /\ UNCHANGED losses
  \/ p.lock /\ losses > 0 /\ losses' = losses - 1 /\ q \in {A!RxLost(p), A!RxFails(p)}

\* What a step adds to the bytes written to a transport.
Written(before, after) ==
  IF Len(after) > Len(before) THEN SubSeq(after, Len(before) + 1, Len(after)) ELSE <<>>

(***************************************************************************)
(* Steps.                                                                  *)
(***************************************************************************)
AirBoots == /\ ~airUp
            /\ Aligned => g_pc = "listen" /\ g_due > TOA
            /\ airUp' = TRUE
            /\ UNCHANGED <<airOnly, gndOnly, a_chip, g_chip, losses, down, up>>

AirHost == /\ airUp
           /\ A!Host
           /\ g_chip' = Overhears(a_chip, a_chip', g_chip)
           /\ up' = up \o Written(a_outq, a_outq')
           /\ UNCHANGED <<gndOnly, airUp, losses, down>>

GndHost == /\ G!Host \/ G!GndReconnected
           /\ a_chip' = Overhears(g_chip, g_chip', a_chip)
           /\ down' = down \o Written(g_outq, g_outq')
           /\ UNCHANGED <<airOnly, airUp, losses, up>>

AirTxDone == /\ A!TxDone
             /\ Hears(g_chip, g_chip', a_chip.txfifo)
             /\ UNCHANGED <<gndOnly, airUp, down, up>>

GndTxDone == /\ G!TxDone /\ UNCHANGED <<g_link, g_base>>
             /\ Hears(a_chip, a_chip', g_chip.txfifo)
             /\ UNCHANGED <<airOnly, airUp, down, up>>

AirProgram == /\ airUp
              /\ A!PeerWrites \/ A!PeerReads
              /\ UNCHANGED <<gndOnly, g_chip, airUp, losses, down, up>>

GndProgram == /\ G!ClientWrites \/ G!ClientReads \/ G!ClientCloses
              /\ UNCHANGED <<airOnly, a_chip, airUp, losses, down, up>>

Tick == /\ IF airUp THEN A!Tick
                    ELSE /\ Aligned => g_due > TOA + 1
                         /\ UNCHANGED <<airOnly, a_chip>>
        /\ G!Tick
        /\ UNCHANGED <<airUp, losses, down, up>>

Init == /\ A!Init
        /\ G!GndInit
        /\ airUp = FALSE
        /\ losses = MaxLosses
        /\ down = <<>>
        /\ up = <<>>

Next == \/ AirBoots \/ AirHost \/ GndHost
        \/ AirTxDone \/ GndTxDone
        \/ AirProgram \/ GndProgram
        \/ Tick

Spec == Init /\ [][Next]_linkVars

\* Both processes are scheduled, the radios end what they began, time passes and
\* the drone is switched on at last.
Fairness == /\ WF_linkVars(AirBoots)
            /\ WF_linkVars(AirHost)
            /\ WF_linkVars(GndHost)
            /\ WF_linkVars(AirTxDone)
            /\ WF_linkVars(GndTxDone)
            /\ WF_linkVars(Tick)

LiveSpec == Spec /\ Fairness

(***************************************************************************)
(* Why both directions keep their order.                                   *)
(***************************************************************************)
\* What was delivered and what was heard lie behind all that is to be heard, and a
\* frame heard and not yet looked at lies behind nothing but what was delivered.
DownOrder == /\ down \in Seq(Nat) /\ A!Increasing(down)
             /\ A!Behind(A!Bytes(down)) /\ A!Behind(A!Bytes(g_chip.rxfifo.data))
             /\ A!Increasing(g_chip.rxfifo.data)
             /\ g_chip.fresh => A!Before(A!Bytes(down), A!Bytes(g_chip.rxfifo.data))

UpOrder == /\ up \in Seq(Nat) /\ G!Increasing(up)
           /\ G!Behind(G!Bytes(up)) /\ G!Behind(G!Bytes(a_chip.rxfifo.data))
           /\ G!Increasing(a_chip.rxfifo.data)
           /\ a_chip.fresh => G!Before(G!Bytes(up), G!Bytes(a_chip.rxfifo.data))

OrderInv == A!IInv /\ G!IInv /\ A!Ordered /\ G!Ordered /\ UpOrder
            /\ (GndFaults <= 1 => DownOrder)

(***************************************************************************)
(* Why the two sides keep step.  The ground side listens whenever the      *)
(* drone sends; it answers and listens again before the slot is over.      *)
(***************************************************************************)
\* What the promises about the slots take for granted: no call of the driver has
\* failed,
NoCallFailed == a_faults = AirFaults /\ g_faults = GndFaults

\* and nothing else keeps the ground from answering: no frame was lost, its client
\* is there and reads before the transport is full.
Undisturbed ==
  /\ losses = MaxLosses
  /\ g_link = "up"
  /\ g_pc = "read" /\ g_chip.rxfifo.data # <<>> => Len(g_outq) < OUT_CAP

\* The ground's stretches of a slot, with rest ticks to go.
Answering(rest) ==
  \/ G!TakesUp /\ rest = SLOT_MS - TOA
  \/ G!Guards /\ rest = SLOT_MS - TOA - GUARD_MS + g_left
  \/ G!Prepares /\ rest >= SLOT_MS - TOA - GUARD_MS
  \/ G!Sends /\ rest >= SLOT_MS - TOA - GUARD_MS - TOA + g_chip.air

\* Ticks until the drone's frame ends: the ground listens for longer than that.
FrameDue == a_due + TOA

\* The drone sends, or is about to; its frame ends; the ground answers; the answer
\* is out, and the ground listens again.
DroneSends ==
  /\ G!Idle /\ g_due > FrameDue
  /\ \/ A!Prepares /\ a_due = 0
     \/ A!Sends /\ FrameDue = a_chip.air /\ g_chip.lock
     \/ (A!Idle /\ a_due >= 0) \/ A!TakesUp

FrameEnded == /\ A!Ends /\ FrameDue = 0
              /\ Answering(a_due + SLOT_MS) /\ (G!Sends => g_chip.air = TOA)

GroundAnswers == A!Idle /\ ~a_got /\ Answering(a_due)

AnswerEnded == ((A!Idle /\ a_due > 0) \/ A!TakesUp) /\ G!Ends

InStep == DroneSends \/ FrameEnded \/ GroundAnswers \/ AnswerEnded

\* Before the drone is switched on, the ground side only arms its radio and listens.
Booting == ~airUp /\ A!Init /\ ((G!Idle /\ g_due > TOA) \/ G!Ends)

Paced == ~a_stop /\ ~g_stop /\ (NoCallFailed => Booting \/ (airUp /\ InStep))

\* While the client is silent the answer, a beacon, comes after the guard time, when
\* the drone listens.
Answered ==
  /\ G!Prepares \/ G!Sends => A!Idle
  /\ G!Sends => a_chip.lock
  /\ A!TakesUp => a_got \/ a_chip.rxfifo = [role |-> "GND", data |-> <<>>]
  /\ A!Rearming \/ (A!Idle /\ (G!Ends \/ G!Idle)) => a_got

Heeded == NoCallFailed /\ g_offered = 0 /\ airUp => Answered

(***************************************************************************)
(* Properties.                                                             *)
(***************************************************************************)
\* Both directions keep what OrderedPipe promises: whatever the channel loses,
\* whatever call of the driver fails and whenever the client leaves, no byte is
\* delivered twice, out of order or altered.  Downwards until a second call fails
\* on the ground: it may then take up a frame again (MavlinkGnd, NoFrameTwice).
DownPipe == INSTANCE OrderedPipe WITH sent <- a_offered, delivered <- down
UpPipe == INSTANCE OrderedPipe WITH sent <- g_offered, delivered <- up

DownInOrder == DownPipe!Spec
UpInOrder == UpPipe!Spec

\* Time division: once in step, the two sides never transmit at the same time
\* (mode_mavlink.c:3-9), provided a slot is longer than the two frames and the
\* guard time (cli/main.c:119-120) and no frame is lost; not even when a byte of
\* the client cuts the guard time short.
NoOverlap == ~(a_chip.mode = "TX" /\ g_chip.mode = "TX")

OverlapsNever == NoCallFailed => NoOverlap

\* Every slot of the drone brings one answer of the ground side
\* (mode_mavlink.c:18-22), when no frame is lost: neither side misses the
\* other's frame because it switches its radio too late. As long as the client
\* is silent: a guard time cut short by its byte can cost the answer.
SlotAnswered == a_pc = "listen" /\ a_pc' = "top" => a_got

EverySlotAnswered == [][NoCallFailed /\ g_offered = 0 => SlotAnswered]_linkVars

\* The two sides fall in step by themselves, whenever the drone is switched on
\* and whatever call of the driver failed on either side: in the end they never
\* again transmit at the same time and every slot is answered.
OverlapEnds == <>[]NoOverlap

FallsInStep == <>[][SlotAnswered]_linkVars

\* Without losses every byte the flight controller writes reaches the client.
AllDelivered ==
  \A n \in 1..AirBytes : a_offered >= n ~> Len(down) >= n \/ ~NoCallFailed
=============================================================================
