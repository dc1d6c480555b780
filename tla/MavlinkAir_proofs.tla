-------------------------- MODULE MavlinkAir_proofs --------------------------
(* The safety of the air side of the bridge, for every slot and buffer size, *)
(* every bound on bytes and failing calls and every set of frames it hears.  *)
EXTENDS MavlinkAir, MavlinkPort_proofs

LEMMA TimesType == /\ SLOT_MS \in Nat /\ RETRY_MS \in Nat
                   /\ Role \in Roles /\ Peer \in Roles
BY PortAssumption DEF Role, Peer, Roles

\* Every frame heard is a frame.
LEMMA HeardAreFrames ==
  ASSUME NEW f \in HeardFrames
  PROVE  f \in Frame
BY PortAssumption, TimesType DEF HeardFrames, Frame

(***************************************************************************)
(* Type correctness.                                                       *)
(***************************************************************************)
LEMMA AirStepType ==
  ASSUME PortTypeOK, Next
  PROVE  PortTypeOK'
<1>1. CASE Helper
  BY <1>1, HelperType
<1>2. CASE AirTop
  <2>1. Filled \in Seq(Nat) /\ Len(Filled) <= TXBUF_SIZE
    BY FilledType DEF PortTypeOK
  <2>2. /\ Packet(Filled, Role) \in Frame
        /\ Len(Packet(Filled, Role).data) <= MAX_PKT_DATA
        /\ Unsent(Filled) \in Seq(Nat) /\ Len(Unsent(Filled)) <= Len(Filled)
    BY <2>1, PacketType, TimesType
  <2>3. Undrained \in Seq(Nat)
    BY ChunkType DEF PortTypeOK
  <2>4. Len(Unsent(Filled)) <= TXBUF_SIZE
    BY <2>1, <2>2, PortAssumption
  <2>. QED  BY <1>2, <2>2, <2>3, <2>4 DEF AirTop, PortTypeOK
<1>3. CASE AirSendFailed \/ AirSent
  <2>1. NoFrame \in Frame /\ Len(NoFrame.data) = 0 /\ MAX_PKT_DATA \in Nat
    BY PortAssumption DEF NoFrame, Frame, Roles
  <2>2. pkt' \in Frame /\ Len(pkt'.data) <= MAX_PKT_DATA
    BY <1>3, <2>1 DEF AirSendFailed, AirSent
  <2>3. left' \in Nat
    BY <1>3, TimesType DEF AirSendFailed, AirSent
  <2>4. CASE AirSendFailed
    BY <2>2, <2>3, <2>4 DEF AirSendFailed, PortTypeOK
  <2>5. CASE AirSent
    BY <2>2, <2>3, <2>5 DEF AirSent, PortTypeOK
  <2>. QED  BY <1>3, <2>4, <2>5
<1>4. CASE AirRetry \/ AirSlot \/ AirSlotEnds \/ AirHandleIrq \/ AirStops
  BY <1>4 DEF AirRetry, AirSlot, AirSlotEnds, AirHandleIrq, AirStops, PortTypeOK
<1>5. CASE AirPoll
  BY <1>5, PollType DEF AirPoll
<1>6. CASE AirRead
  <2>1. PICK ok \in BOOLEAN : ReadPacket(Peer, ok) /\ got' = ok
    BY <1>6 DEF AirRead
  <2>2. /\ chip' \in Chip /\ faults' \in 0..MaxFaults
        /\ outq' \in Seq(Nat) /\ Len(outq') <= OUT_CAP
    BY <2>1, ReadType
  <2>. QED  BY <1>6, <2>1, <2>2 DEF AirRead, PortTypeOK
<1>7. CASE AirExit
  <2>1. chip' \in Chip /\ faults' \in 0..MaxFaults
    BY <1>7, HalType, CommandsType DEF AirExit, PortTypeOK
  <2>. QED  BY <1>7, <2>1 DEF AirExit, PortTypeOK
<1>8. CASE Radio
  BY <1>8, HeardAreFrames, HeardType, SurroundingsType DEF Radio
<1>9. CASE Tick \/ PeerWrites \/ PeerReads \/ CtrlC
  BY <1>9, SurroundingsType DEF Tick
<1>. QED
  BY <1>1, <1>2, <1>3, <1>4, <1>5, <1>6, <1>7, <1>8, <1>9 DEF Next, Host

(***************************************************************************)
(* Where the process stands.                                               *)
(***************************************************************************)
Places == /\ pc \in AirSteps
          /\ ret \in {"none", "wait", "listen", "slot"}
          /\ due \in -SLOT_MS..SLOT_MS

LEMMA StepsAround ==
  ASSUME Radio \/ Tick \/ PeerWrites \/ PeerReads \/ CtrlC
  PROVE  /\ UNCHANGED <<pc, ret, irq, txbuf, got, pkt, led_tx, faults>>
         /\ g_stop => g_stop'
BY DEF Radio, TxDone, FrameEnds, NoiseEnds, Chips, Tick, Elapses, PeerWrites, PeerReads,
       CtrlC, Around

LEMMA ControlStep ==
  ASSUME TypeOK, Control, Next
  PROVE  Places' /\ Control'
<1>. Places /\ SLOT_MS \in Nat
  BY TimesType DEF TypeOK, Places
<1>. USE DEF Places, Control, Listening, AirSteps, HelperSteps
<1>1. CASE Radio \/ Tick \/ PeerWrites \/ PeerReads \/ CtrlC
  <2>1. UNCHANGED <<pc, ret, got>> /\ (g_stop => g_stop')
    BY <1>1, StepsAround
  <2>2. due' \in -SLOT_MS..SLOT_MS /\ (due' > 0 => due > 0)
    BY <1>1 DEF Radio, TxDone, FrameEnds, NoiseEnds, Chips, Around, Tick, Elapses,
                PeerWrites, PeerReads, CtrlC, Greatest
  <2>. QED  BY <2>1, <2>2
<1>2. CASE SendStandby \/ SendClear \/ SendBuffer \/ SendTx
  BY <1>2 DEF SendStandby, SendClear, SendBuffer, SendTx, SendCall
<1>3. CASE WaitEnds \/ WaitPoll
  BY <1>3 DEF WaitEnds, WaitPoll, PollReturns
<1>4. CASE GetIrq
  BY <1>4 DEF GetIrq, IrqReturns
<1>5. CASE ClearIrqRead
  BY <1>5 DEF ClearIrqRead, IrqReturns
<1>6. CASE RxClear
  BY <1>6 DEF RxClear
<1>7. CASE RxSet
  BY <1>7 DEF RxSet
<1>8. CASE AirTop \/ AirSendFailed \/ AirRetry \/ AirSent
  BY <1>8 DEF AirTop, AirSendFailed, AirRetry, AirSent
<1>9. CASE AirSlot \/ AirSlotEnds
  BY <1>9 DEF AirSlot, AirSlotEnds, Greatest
<1>10. CASE AirPoll
  BY <1>10 DEF AirPoll, PollReturns
<1>11. CASE AirHandleIrq
  BY <1>11 DEF AirHandleIrq
<1>12. CASE AirRead
  BY <1>12 DEF AirRead
<1>13. CASE AirStops \/ AirExit
  BY <1>13 DEF AirStops, AirExit
<1>. QED
  BY <1>1, <1>2, <1>3, <1>4, <1>5, <1>6, <1>7, <1>8, <1>9, <1>10, <1>11, <1>12, <1>13
     DEF Next, Host, Helper

(***************************************************************************)
(* The TX_DONE that ends a wait belongs to the frame that was sent.        *)
(***************************************************************************)
LEMMA RadioAround ==
  ASSUME TypeOK, Radio \/ Tick \/ PeerWrites \/ PeerReads \/ CtrlC
  PROVE  SameOrNewer
<1>1. CASE Radio
  BY <1>1, HeardAreFrames, ChipHears, ChipAround DEF Radio, TypeOK, PortTypeOK
<1>2. CASE Tick \/ PeerWrites \/ PeerReads \/ CtrlC
  BY <1>2, ChipAround DEF Tick, TypeOK, PortTypeOK
<1>. QED  BY <1>1, <1>2

LEMMA TxDoneStep ==
  ASSUME TypeOK, Control, TxDoneIsOurs, Next
  PROVE  TxDoneIsOurs'
<1>. chip \in Chip /\ "TX_DONE" \in IrqBits
  BY DEF TypeOK, PortTypeOK, IrqBits
<1>. USE DEF TxDoneIsOurs, Awaiting
<1>1. CASE Radio \/ Tick \/ PeerWrites \/ PeerReads \/ CtrlC
  BY <1>1, StepsAround, RadioAround DEF SameOrNewer
<1>2. CASE SendStandby
  BY <1>2, HalOutcome, CommandEffects DEF SendStandby, SendCall
<1>3. CASE SendClear
  BY <1>3, HalOutcome, CommandEffects DEF SendClear, SendCall
<1>4. CASE SendBuffer
  BY <1>4, HalOutcome, CommandEffects DEF SendBuffer, SendCall
<1>5. CASE SendTx
  BY <1>5, HalOutcome, CommandEffects DEF SendTx, SendCall
<1>6. CASE WaitEnds \/ WaitPoll
  BY <1>6, CommandEffects DEF WaitEnds, WaitPoll, PollReturns
<1>7. CASE GetIrq
  BY <1>7 DEF GetIrq, IrqReturns
<1>8. CASE ClearIrqRead
  BY <1>8, HalOutcome, CommandEffects DEF ClearIrqRead, IrqReturns
<1>9. CASE RxClear \/ RxSet
  BY <1>9 DEF RxClear, RxSet, Control
<1>10. CASE AirTop \/ AirSendFailed \/ AirRetry \/ AirSent \/ AirSlot \/ AirSlotEnds
  BY <1>10 DEF AirTop, AirSendFailed, AirRetry, AirSent, AirSlot, AirSlotEnds
<1>11. CASE AirPoll
  BY <1>11 DEF AirPoll, PollReturns
<1>12. CASE AirHandleIrq \/ AirRead \/ AirStops \/ AirExit
  BY <1>12 DEF AirHandleIrq, AirRead, AirStops, AirExit
<1>. QED
  BY <1>1, <1>2, <1>3, <1>4, <1>5, <1>6, <1>7, <1>8, <1>9, <1>10, <1>11, <1>12
     DEF Next, Host, Helper

(***************************************************************************)
(* The RX_DONE that makes the process read is that of a new frame.         *)
(***************************************************************************)
LEMMA RxDoneStep ==
  ASSUME TypeOK, Control, RxDoneIsNew, Next
  PROVE  RxDoneIsNew'
<1>. chip \in Chip /\ "RX_DONE" \in IrqBits /\ pc \in AirSteps
  BY DEF TypeOK, PortTypeOK, IrqBits
<1>. USE DEF RxDoneIsNew, Unclear
<1>1. CASE Radio \/ Tick \/ PeerWrites \/ PeerReads \/ CtrlC
  BY <1>1, StepsAround, RadioAround DEF SameOrNewer
<1>2. CASE SendStandby
  BY <1>2, HalOutcome, CommandEffects DEF SendStandby, SendCall
<1>3. CASE SendClear
  BY <1>3, HalOutcome, CommandEffects DEF SendClear, SendCall
<1>4. CASE SendBuffer
  BY <1>4, HalOutcome, CommandEffects DEF SendBuffer, SendCall
<1>5. CASE SendTx
  BY <1>5, HalOutcome, CommandEffects DEF SendTx, SendCall
<1>6. CASE WaitEnds \/ WaitPoll
  BY <1>6, CommandEffects DEF WaitEnds, WaitPoll, PollReturns
<1>7. CASE GetIrq
  BY <1>7 DEF GetIrq, IrqReturns, Control, Listening
<1>8. CASE ClearIrqRead
  BY <1>8, HalOutcome, CommandEffects DEF ClearIrqRead, IrqReturns
<1>9. CASE RxClear
  BY <1>9, HalOutcome, CommandEffects DEF RxClear, Control
<1>10. CASE RxSet
  BY <1>10, HalOutcome, CommandEffects DEF RxSet, Control
<1>11. CASE AirTop \/ AirSendFailed \/ AirRetry
  BY <1>11 DEF AirTop, AirSendFailed, AirRetry
<1>12. CASE AirSent \/ AirSlot \/ AirSlotEnds
  BY <1>12 DEF AirSent, AirSlot, AirSlotEnds
<1>13. CASE AirPoll
  BY <1>13, CommandEffects DEF AirPoll, PollReturns
<1>14. CASE AirHandleIrq
  BY <1>14 DEF AirHandleIrq
<1>15. CASE AirRead
  <2>1. PICK ok \in BOOLEAN : ReadPacket(Peer, ok) /\ got' = ok
    BY <1>15 DEF AirRead
  <2>2. chip'.irq = chip.irq /\ (~ok => chip'.fresh = chip.fresh)
    BY <2>1 DEF ReadPacket, Chip
  <2>3. pc = "read" /\ pc' = "rx_clear" /\ ~got
    BY <1>15 DEF AirRead, Control, Listening
  <2>. QED  BY <2>1, <2>2, <2>3
<1>16. CASE AirStops \/ AirExit
  BY <1>16 DEF AirStops, AirExit
<1>. QED
  BY <1>1, <1>2, <1>3, <1>4, <1>5, <1>6, <1>7, <1>8, <1>9, <1>10, <1>11, <1>12, <1>13,
     <1>14, <1>15, <1>16
     DEF Next, Host, Helper

(***************************************************************************)
(* The invariant, and what follows from it.                                *)
(***************************************************************************)
LEMMA InitIInv == Init => IInv
<1>. SUFFICES ASSUME Init PROVE IInv
  OBVIOUS
<1>1. PortTypeOK
  BY PortInitType DEF Init
<1>2. pc = "top" /\ ret = "none" /\ due = 0 /\ got = FALSE
  BY DEF Init, PortInit
<1>3. TypeOK
  BY <1>1, <1>2, TimesType DEF TypeOK, AirSteps
<1>. QED
  BY <1>2, <1>3 DEF IInv, Control, TxDoneIsOurs, Awaiting, RxDoneIsNew, Unclear

LEMMA NextIInv == IInv /\ [Next]_portVars => IInv'
<1>. SUFFICES ASSUME IInv, [Next]_portVars PROVE IInv'
  OBVIOUS
<1>1. CASE Next
  BY <1>1, AirStepType, ControlStep, TxDoneStep, RxDoneStep DEF IInv, TypeOK, Places
<1>2. CASE UNCHANGED portVars
  BY <1>2 DEF portVars, IInv, TypeOK, PortTypeOK, Control, Listening, TxDoneIsOurs,
              Awaiting, RxDoneIsNew
<1>. QED  BY <1>1, <1>2

LEMMA AirIInv == Spec => []IInv
BY InitIInv, NextIInv, PTL DEF Spec

\* Every variable of the air side keeps its type and its bound: the transmit
\* buffer never holds more than TXBUF_SIZE bytes, the transport never more than
\* the kernel takes, and the slot's end is never further away than a slot.
THEOREM AirTypeOK == Spec => []TypeOK
<1>1. IInv => TypeOK
  BY DEF IInv
<1>. QED  BY <1>1, AirIInv, PTL

\* tx_pkts counts a frame only when that very frame went out whole, whatever
\* calls failed or returned late before (mode_mavlink.c:357-368).
THEOREM AirCountedWasAired == Spec => []CountedWasAired
<1>1. IInv => CountedWasAired
  BY DEF IInv, TxDoneIsOurs, CountedWasAired
<1>. QED  BY <1>1, AirIInv, PTL

\* No ground frame is accepted twice, however many driver calls fail
\* (mode_mavlink.c:389-406).
THEOREM AirNoFrameTwice == Spec => []NoFrameTwice
<1>1. IInv => NoFrameTwice
  BY DEF IInv, RxDoneIsNew, NoFrameTwice
<1>. QED  BY <1>1, AirIInv, PTL

\* At most one ground frame of a slot reaches the flight controller
\* (mode_mavlink.c:389).
THEOREM AirOneFramePerSlot == Spec => OneFramePerSlot
<1>1. ASSUME IInv, Next, got
      PROVE  Len(outq') <= Len(outq)
  <2>. outq \in Seq(Nat) /\ Len(outq) <= Len(outq) /\ ~AirRead
    BY <1>1 DEF IInv, TypeOK, PortTypeOK, Control, AirRead
  <2>1. CASE PeerReads
    BY <2>1 DEF PeerReads
  <2>2. CASE Helper
    BY <2>2 DEF Helper, SendStandby, SendClear, SendBuffer, SendTx, SendCall, WaitEnds,
                WaitPoll, PollReturns, GetIrq, ClearIrqRead, RxClear, RxSet
  <2>3. CASE Host /\ ~Helper
    BY <2>3 DEF Host, AirTop, AirSendFailed, AirRetry, AirSent, AirSlot, AirSlotEnds,
                AirPoll, PollReturns, AirHandleIrq, AirStops, AirExit
  <2>4. CASE Radio \/ Tick \/ PeerWrites \/ CtrlC
    BY <2>4 DEF Radio, TxDone, FrameEnds, NoiseEnds, Chips, Tick, Elapses, PeerWrites,
                CtrlC
  <2>. QED  BY <1>1, <2>1, <2>2, <2>3, <2>4 DEF Next
<1>2. IInv /\ [Next]_portVars => [got => Len(outq') <= Len(outq)]_portVars
  BY <1>1
<1>. QED  BY <1>2, AirIInv, PTL DEF Spec, OneFramePerSlot

(***************************************************************************)
(* The bytes of a direction stay in order (for MavlinkLink).               *)
(***************************************************************************)
LEMMA InitInOrder ==
  ASSUME Init
  PROVE  /\ Ordered /\ Pending = {}
         /\ chip.rxfifo.data = <<>> /\ outq = <<>> /\ offered = 0
<1>1. /\ pc = "top" /\ txbuf = <<>> /\ inq = <<>> /\ pkt = NoFrame
      /\ chip = PowerOn /\ outq = <<>> /\ offered = 0
  BY DEF Init, PortInit
<1>2. /\ Queued = {} /\ Built = {} /\ Sent = {}
      /\ chip.rxfifo.data = <<>> /\ chip.txfifo.data = <<>> /\ chip.mode = "STDBY"
      /\ pkt.data = <<>>
  BY <1>1, EmptyInOrder DEF Queued, Built, Sent, Building, NoFrame, PowerOn
<1>3. Ordered
  BY <1>1, <1>2, EmptyInOrder DEF Ordered, Before
<1>. QED  BY <1>1, <1>2, <1>3 DEF Pending

\* The head of the loop takes a frame from the front of the queue.
LEMMA TopInOrder ==
  ASSUME IInv, Ordered, AirTop
  PROVE  Ordered' /\ Flow
<1>1. PortTypeOK /\ Filled \in Seq(Nat)
  BY FilledType DEF IInv, TypeOK, PortTypeOK
<1>2. /\ pc = "top" /\ pc' = "send_standby"
      /\ pkt' = Packet(Filled, Role) /\ txbuf' = Unsent(Filled) /\ inq' = Undrained
      /\ UNCHANGED <<chip, offered>>
  BY DEF AirTop
<1>3. /\ Increasing(Filled) /\ Increasing(inq')
      /\ Before(Bytes(Filled), Bytes(inq'))
      /\ Bytes(Filled) \subseteq Queued /\ Bytes(inq') \subseteq Queued
  BY <1>1, <1>2, DrainInOrder DEF Ordered
<1>4. /\ Increasing(pkt'.data) /\ Increasing(txbuf')
      /\ Before(Bytes(pkt'.data), Bytes(txbuf'))
      /\ Bytes(pkt'.data) \subseteq Bytes(Filled) /\ Bytes(txbuf') \subseteq Bytes(Filled)
  BY <1>1, <1>2, <1>3, PacketInOrder
<1>5. /\ Built' = Bytes(pkt'.data) /\ Sent' = Sent
      /\ Queued' = Bytes(txbuf') \cup Bytes(inq')
  BY <1>2 DEF Built, Building, Sent, Queued
<1>6. Built' \subseteq Queued /\ Queued' \subseteq Queued
  BY <1>3, <1>4, <1>5
<1>7. Before(Bytes(txbuf'), Bytes(inq')) /\ Before(Built', Queued')
  BY <1>3, <1>4, <1>5 DEF Before
<1>8. Before(Sent', Queued') /\ Before(Sent', Built')
  BY <1>5, <1>6 DEF Ordered, Before
<1>9. (Queued \cup Built \cup Sent)' \subseteq 1..offered'
  BY <1>2, <1>5, <1>6 DEF Ordered
<1>10. Ordered'
  BY <1>2, <1>3, <1>4, <1>7, <1>8, <1>9 DEF Ordered
<1>11. Pending' \subseteq Pending
  BY <1>2, <1>5, <1>6 DEF Pending
<1>. QED  BY <1>2, <1>10, <1>11 DEF Flow

LEMMA HostInOrder ==
  ASSUME IInv, Ordered, Host
  PROVE  Ordered' /\ Flow
<1>. PortTypeOK /\ chip \in Chip
  BY DEF IInv, TypeOK, PortTypeOK
<1>1. CASE Helper
  BY <1>1, HelperInOrder DEF IInv, TypeOK, TxDoneIsOurs, Building
<1>2. CASE AirTop
  BY <1>2, TopInOrder
<1>3. CASE AirPoll
  <2>1. Carries
    BY <1>3, PollCarries DEF AirPoll, Building
  <2>. QED  BY <2>1, CarriesInOrder
<1>4. CASE AirRead
  <2>1. chip'.txfifo = chip.txfifo /\ chip'.mode = chip.mode
    BY <1>4 DEF AirRead, ReadPacket, Chip
  <2>2. Carries
    BY <1>4, <2>1 DEF AirRead, Carries, Building
  <2>. QED  BY <2>2, CarriesInOrder
<1>5. CASE AirExit
  <2>1. chip'.txfifo = chip.txfifo /\ (chip'.mode = "TX" => chip.mode = "TX")
    BY <1>5, HalOutcome, CommandEffects, CommandsCarry DEF AirExit
  <2>2. Carries
    BY <1>5, <2>1 DEF AirExit, Carries, Building
  <2>. QED  BY <2>2, CarriesInOrder
<1>6. CASE AirSendFailed \/ AirRetry \/ AirSent \/ AirSlot
  <2>1. Carries
    BY <1>6 DEF AirSendFailed, AirRetry, AirSent, AirSlot, Carries, Building
  <2>. QED  BY <2>1, CarriesInOrder
<1>7. CASE AirSlotEnds \/ AirHandleIrq \/ AirStops
  <2>1. Carries
    BY <1>7 DEF AirSlotEnds, AirHandleIrq, AirStops, Carries, Building
  <2>. QED  BY <2>1, CarriesInOrder
<1>. QED
  BY <1>1, <1>2, <1>3, <1>4, <1>5, <1>6, <1>7 DEF Host

LEMMA HostTakes ==
  ASSUME IInv, Host
  PROVE  Takes
<1>. PortTypeOK /\ chip \in Chip /\ outq \in Seq(Nat)
  BY DEF IInv, TypeOK, PortTypeOK
<1>1. CASE Helper
  BY <1>1, HelperTakes
<1>2. CASE AirRead
  BY <1>2, ReadTakes DEF AirRead, IInv, RxDoneIsNew
<1>3. CASE AirPoll
  BY <1>3, PollTakes DEF AirPoll
<1>4. CASE AirExit
  <2>1. chip'.rxfifo = chip.rxfifo /\ chip'.fresh = chip.fresh
    BY <1>4, HalOutcome, CommandsTakeNothing DEF AirExit
  <2>. QED  BY <1>4, <2>1, SilentTakes DEF AirExit
<1>5. CASE AirTop \/ AirSendFailed \/ AirRetry \/ AirSent \/ AirSlot \/ AirSlotEnds
           \/ AirHandleIrq \/ AirStops
  BY <1>5, SilentTakes
     DEF AirTop, AirSendFailed, AirRetry, AirSent, AirSlot, AirSlotEnds, AirHandleIrq,
         AirStops
<1>. QED  BY <1>1, <1>2, <1>3, <1>4, <1>5 DEF Host

\* The other radio, and the channel, disturb nothing of this side.
LEMMA HearingIInv ==
  ASSUME IInv, Ordered, NEW f \in Frame, Hearing(f)
  PROVE  IInv' /\ Ordered' /\ Pending' = Pending
<1>1. /\ PortTypeOK' /\ SameOrNewer /\ Ordered' /\ Pending' = Pending
      /\ UNCHANGED <<pc, ret, irq, got, due, g_stop, aired>>
  BY HearingInOrder DEF IInv, TypeOK, Hearing
<1>2. TypeOK' /\ Control'
  BY <1>1 DEF IInv, TypeOK, Control, Listening
<1>3. TxDoneIsOurs'
  BY <1>1 DEF IInv, TxDoneIsOurs, Awaiting, SameOrNewer
<1>4. RxDoneIsNew'
  BY <1>1 DEF IInv, RxDoneIsNew, Unclear, SameOrNewer
<1>. QED  BY <1>1, <1>2, <1>3, <1>4 DEF IInv

(***************************************************************************)
(* One step of the drone's process, by the stretch of the slot it is in.   *)
(***************************************************************************)
Works == IInv /\ Ordered /\ Host /\ UNCHANGED faults /\ ~g_stop

LEMMA Preparation ==
  ASSUME Works, Prepares, TX_WAIT_MS > TOA
  PROVE  /\ UNCHANGED <<due, got>>
         /\ \/ Prepares'
            \/ Sends' /\ chip'.air = TOA /\ chip.mode # "TX"
<1>1. PortTypeOK
  BY DEF Works, IInv, TypeOK
<1>2. CASE Helper
  <2>1. pc \in Building
    BY <1>2 DEF Prepares, Preparing, Helper, SendStandby, SendClear, SendBuffer, SendTx,
           SendCall, WaitEnds, WaitPoll, GetIrq, ClearIrqRead, RxClear, RxSet
  <2>. QED  BY <1>1, <1>2, <2>1, Prepared DEF Works, Ordered, Prepares, Sends, HelperSteps
<1>3. CASE AirTop
  BY <1>3 DEF AirTop, Prepares, Preparing, Building, Packet
<1>. QED
  BY <1>2, <1>3 DEF Works, Host, Prepares, Preparing, Building, AirSendFailed, AirRetry,
     AirSent, AirSlot, AirSlotEnds, AirPoll, AirHandleIrq, AirRead, AirStops, AirExit

LEMMA Transmission ==
  ASSUME Works, Sends
  PROVE  Sends' /\ UNCHANGED <<due, got, chip>>
<1>1. PortTypeOK
  BY DEF Works, IInv, TypeOK
<1>2. Helper
  BY DEF Works, Sends, OnAir, Host, AirTop, AirSendFailed, AirRetry, AirSent, AirSlot,
         AirSlotEnds, AirPoll, AirHandleIrq, AirRead, AirStops, AirExit
<1>. QED  BY <1>1, <1>2, StaysOnAir DEF Works, Sends

LEMMA Completion ==
  ASSUME Works, Ends
  PROVE  \/ Ends' /\ UNCHANGED <<due, got>>
         \/ Idle' /\ ~got' /\ due' = due + SLOT_MS
<1>1. PortTypeOK
  BY DEF Works, IInv, TypeOK
<1>2. CASE Helper
  BY <1>1, <1>2, Ended DEF Works, Ends
<1>3. CASE AirSent
  <2>1. pc = "sent" /\ pc' = "rx_clear" /\ ret' = "slot" /\ UNCHANGED <<chip, due, got>>
    BY <1>3 DEF AirSent
  <2>. QED  BY <2>1 DEF Ends, Ending, Interrupted, Silent
<1>4. CASE AirSlot
  <2>1. pc = "slot" /\ pc' = "listen" /\ due' = due + SLOT_MS /\ UNCHANGED <<chip, got>>
    BY <1>4 DEF AirSlot
  <2>2. ~got
    BY <2>1 DEF Works, IInv, Control
  <2>. QED  BY <2>1, <2>2 DEF Ends, Ending, Interrupted, Silent, Idle
<1>. QED
  BY <1>2, <1>3, <1>4 DEF Works, Host, Ends, Ending, Interrupted, AirTop, AirSendFailed,
     AirRetry, AirSlotEnds, AirPoll, AirHandleIrq, AirRead, AirStops, AirExit

LEMMA Listens ==
  ASSUME Works, Idle
  PROVE  \/ Idle' /\ UNCHANGED <<due, got, chip>>
         \/ Prepares' /\ due <= 0 /\ due' = Greatest(due, 0) /\ UNCHANGED chip
<1>1. AirPoll \/ AirSlotEnds
  BY DEF Works, Idle, Host, Helper, SendStandby, SendClear, SendBuffer, SendTx, SendCall,
         WaitEnds, WaitPoll, GetIrq, ClearIrqRead, RxClear, RxSet, AirTop, AirSendFailed,
         AirRetry, AirSent, AirSlot, AirHandleIrq, AirRead, AirStops, AirExit
<1>2. CASE AirPoll
  BY <1>2, IdlePoll DEF AirPoll
<1>3. CASE AirSlotEnds
  BY <1>3 DEF Works, AirSlotEnds, Idle, Silent, Prepares, Preparing, Building
<1>. QED  BY <1>1, <1>2, <1>3

LEMMA Reception ==
  ASSUME Works, TakesUp
  PROVE  /\ due' = due /\ chip'.rxfifo = chip.rxfifo
         /\ \/ Idle' /\ got' = got /\ Rearming
            \/ Rearming' /\ got' = got /\ Rearming
            \/ Rearming' /\ (Accepts(chip.rxfifo, Peer) => got') /\ ~Rearming
            \/ TakingUp' /\ ~got' /\ ~Rearming
<1>1. PortTypeOK /\ chip \in Chip /\ faults \in Nat
  BY FaultsAssumption DEF Works, IInv, TypeOK, PortTypeOK
<1>2. CASE Rearming
  <2>1. RxClear \/ RxSet
    BY <1>2 DEF Works, Rearming, Host, Helper, SendStandby, SendClear, SendBuffer, SendTx,
           SendCall, WaitEnds, WaitPoll, GetIrq, ClearIrqRead, AirTop, AirSendFailed,
           AirRetry, AirSent, AirSlot, AirSlotEnds, AirPoll, AirHandleIrq, AirRead, AirStops,
           AirExit
  <2>. QED  BY <1>1, <1>2, <2>1, Rearms DEF Works, Rearming, Idle
<1>3. CASE TakingUp /\ ~got
  <2>0. ~Rearming
    BY <1>3 DEF TakingUp, Interrupted, Rearming
  <2>1. CASE Helper
    BY <1>1, <1>3, <2>0, <2>1, TakenUp DEF Works
  <2>2. CASE AirPoll
    <3>1. PollReturns(TRUE) /\ pc = "listen"
      BY <1>3, <2>2 DEF AirPoll, PollReturns
    <3>. QED  BY <1>1, <1>3, <2>0, <3>1, TakenUpPoll
  <2>3. CASE AirHandleIrq
    <3>1. irq = {"RX_DONE"} /\ Silent /\ chip.mode = "RX" /\ due > 0
      BY <1>3, <2>3 DEF TakingUp, Interrupted, AirHandleIrq
    <3>. QED  BY <1>3, <2>0, <2>3, <3>1 DEF AirHandleIrq, TakingUp, Silent
  <2>4. CASE AirRead
    <3>1. Silent /\ chip.mode = "RX" /\ due > 0
      BY <1>3, <2>4 DEF TakingUp, Interrupted, AirRead
    <3>2. PICK ok \in BOOLEAN : ReadPacket(Peer, ok) /\ got' = ok
      BY <2>4 DEF AirRead
    <3>3. ok = Accepts(chip.rxfifo, Peer) /\ chip' = [chip EXCEPT !.fresh = @ /\ ~ok]
      BY <1>1, <3>2, CallWorks DEF Works, ReadPacket
    <3>4. /\ chip'.mode = chip.mode /\ chip'.irq = chip.irq /\ chip'.edge = chip.edge
          /\ chip'.rxfifo = chip.rxfifo
      BY <1>1, <3>3 DEF Chip
    <3>. QED  BY <2>4, <3>1, <3>2, <3>3, <3>4 DEF AirRead, Rearming, Silent
  <2>5. ~AirSlotEnds
    <3>1. due \in Int /\ due > 0
      BY <1>3, TimesType DEF Works, IInv, TypeOK, TakingUp
    <3>. QED  BY <3>1 DEF Works, AirSlotEnds
  <2>. QED
    BY <1>3, <2>1, <2>2, <2>3, <2>4, <2>5
    DEF Works, Host, TakingUp, Interrupted, AirTop, AirSendFailed, AirRetry, AirSent, AirSlot,
        AirStops, AirExit
<1>. QED  BY <1>2, <1>3 DEF TakesUp


\* What happens around the process, by the stretch it comes in.
LEMMA Overhearing ==
  ASSUME IInv, NEW l \in BOOLEAN, chip' = [chip EXCEPT !.lock = l],
         UNCHANGED <<pc, ret, irq, got, left, due, pkt>>
  PROVE  /\ Prepares => Prepares'
         /\ Sends => Sends'
         /\ Ends => Ends'
         /\ Idle => Idle'
         /\ TakesUp => TakesUp'
         /\ Rearming => Rearming'
         /\ chip'.mode = chip.mode /\ chip'.air = chip.air /\ chip'.rxfifo = chip.rxfifo
         /\ chip'.lock = l
<1>1. chip \in Chip
  BY DEF IInv, TypeOK, PortTypeOK
<1>2. chip'.air = chip.air /\ chip'.lock = l
  BY <1>1 DEF Chip
<1>. QED  BY <1>1, <1>2, LockOnly DEF Prepares, Sends, Ends, TakesUp, Rearming

LEMMA FrameOut ==
  ASSUME IInv, Sends, TxDone
  PROVE  Ends' /\ chip.air = 0 /\ UNCHANGED <<due, got>>
BY Out DEF IInv, TypeOK, Sends, Ends

LEMMA FrameHeard ==
  ASSUME IInv, Idle, due > 0, ~got, NEW f, chip' = RxEnd(chip, f, {}),
         UNCHANGED <<pc, ret, irq, got, left, due, pkt>>
  PROVE  TakesUp' /\ ~Rearming' /\ chip'.rxfifo = f
BY Heard DEF IInv, TypeOK, PortTypeOK, TakesUp, Rearming

\* Time passes on the air and in the listening loop, and nowhere else.
LEMMA Ticking ==
  ASSUME IInv, Tick, Prompt
  PROVE  /\ ~Prepares /\ ~Ends /\ ~TakesUp
         /\ due' = Greatest(due - 1, -SLOT_MS)
         /\ Sends => Sends' /\ chip.air > 0 /\ chip'.air = chip.air - 1
         /\ Idle => Idle' /\ UNCHANGED <<chip, got>> /\ due > 0
<1>1. Elapses /\ ~Ready /\ PortTypeOK /\ due \in Int
  BY TimesType DEF Tick, IInv, TypeOK
<1>2. ~Prepares /\ ~Ends /\ ~TakesUp
  BY <1>1 DEF Ready, Prepares, Preparing, Building, Ends, Ending, TakesUp, TakingUp, Rearming,
     Interrupted
<1>3. ASSUME Sends
      PROVE  Sends' /\ chip.air > 0 /\ chip'.air = chip.air - 1
  BY <1>1, <1>3, TickOnAir DEF Sends
<1>4. ASSUME Idle
      PROVE  Idle' /\ UNCHANGED <<chip, got>> /\ due > 0
  BY <1>1, <1>4, TickReceiving DEF Idle, Silent, Ready
<1>. QED  BY <1>1, <1>2, <1>3, <1>4 DEF Elapses

\* A stretch is where it is, and only one of them transmits.
LEMMA Stretches ==
  ASSUME IInv
  PROVE  /\ Prepares \/ Ends \/ Idle \/ TakesUp => chip.mode # "TX"
         /\ Sends \/ Ends \/ Prepares \/ TakesUp => ~Idle /\ (got => Rearming)
         /\ TakesUp => due > 0
         /\ Rearming => TakesUp
         /\ chip.air \in 0..TOA /\ due \in -SLOT_MS..SLOT_MS
<1>1. /\ chip.air \in 0..TOA /\ due \in -SLOT_MS..SLOT_MS
  BY DEF IInv, TypeOK, PortTypeOK, Chip
<1>. QED
  BY <1>1 DEF IInv, Control, Listening, Prepares, Preparing, Building, Sends, OnAir, Ends, Ending,
     Interrupted, Idle, Silent, TakesUp, TakingUp, Rearming

\* Nobody presses Ctrl+C, and a call that fails is counted.
LEMMA Bystanders ==
  ASSUME IInv, Host \/ TxDone \/ Tick \/ PeerWrites \/ PeerReads
  PROVE  g_stop' = g_stop /\ faults' \in {faults, faults - 1}
<1>1. CASE Host
  <2>1. \A ok \in BOOLEAN : \A c : HalWrite(c, ok) \/ HalRead(ok) => faults' \in {faults, faults - 1}
    BY DEF HalWrite, HalRead
  <2>2. ASSUME NEW ok \in BOOLEAN, ReadPacket(Peer, ok)
        PROVE  faults' \in {faults, faults - 1}
    BY <2>1, <2>2 DEF ReadPacket
  <2>3. ASSUME NEW wanted, PollReturns(wanted)
        PROVE  UNCHANGED <<g_stop, faults>>
    BY <2>3 DEF PollReturns
  <2>. QED
    BY <1>1, <2>1, <2>2, <2>3 DEF Host, Helper, SendStandby, SendClear, SendBuffer, SendTx,
       SendCall, WaitEnds, WaitPoll, GetIrq, ClearIrqRead, RxClear, RxSet, AirTop,
       AirSendFailed, AirRetry, AirSent, AirSlot, AirSlotEnds, AirPoll, AirHandleIrq, AirRead,
       AirStops, AirExit
<1>2. CASE TxDone \/ Tick \/ PeerWrites \/ PeerReads
  BY <1>2 DEF TxDone, Tick, Elapses, PeerWrites, PeerReads, Around
<1>. QED  BY <1>1, <1>2

=============================================================================
