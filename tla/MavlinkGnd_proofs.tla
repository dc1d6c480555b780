-------------------------- MODULE MavlinkGnd_proofs --------------------------
(* The safety of the ground side of the bridge, for every slot, guard time   *)
(* and buffer size, every bound on bytes and failing calls, every set of     *)
(* frames it hears and every transport.                                      *)
EXTENDS MavlinkGnd, MavlinkPort_proofs

LEMMA TimesType == /\ SLOT_MS \in Nat /\ GUARD_MS \in Nat
                   /\ Role \in Roles /\ Peer \in Roles
BY PortAssumption DEF Role, Peer, Roles

LEMMA HeardAreFrames ==
  ASSUME NEW f \in HeardFrames
  PROVE  f \in Frame
BY PortAssumption, TimesType DEF HeardFrames, Frame

\* The steps of the surroundings, and of the client.
Outside == Radio \/ Tick \/ ClientWrites \/ ClientReads \/ ClientCloses \/ (CtrlC /\ UNCHANGED conn)

(***************************************************************************)
(* Type correctness.                                                       *)
(***************************************************************************)
LEMMA EmptyType == /\ NoFrame \in Frame /\ NoFrame.data = <<>>
                   /\ <<>> \in Seq(Nat) /\ Len(<<>>) = 0
                   /\ TXBUF_SIZE \in Nat /\ MAX_PKT_DATA \in Nat /\ OUT_CAP \in Nat
BY PortAssumption DEF NoFrame, Frame, Roles

LEMMA GndStepType ==
  ASSUME PortTypeOK, Next
  PROVE  PortTypeOK'
<1>1. CASE Helper
  BY <1>1, HelperType
<1>2. CASE GndTop \/ GndListenEnds \/ GndRearm \/ GndProbe \/ GndStops \/ GndSigpipe
  BY <1>2, TimesType
     DEF GndTop, GndListenEnds, GndRearm, GndProbe, GndStops, GndSigpipe, PortTypeOK
<1>3. CASE GndPoll
  BY <1>3, PollType DEF GndPoll
<1>4. CASE GndHandleIrq
  <2>1. irq' \subseteq IrqBits
    BY <1>4 DEF GndHandleIrq, PortTypeOK
  <2>. QED  BY <1>4, <2>1 DEF GndHandleIrq, PortTypeOK
<1>5. CASE GndRead
  <2>1. /\ chip' \in Chip /\ faults' \in 0..MaxFaults
        /\ outq' \in Seq(Nat) /\ Len(outq') <= OUT_CAP
    <3>1. CASE \E ok \in BOOLEAN : ReadPacket(Peer, ok)
      BY <3>1, ReadType
    <3>2. CASE WriteToNobody
      BY <3>2 DEF WriteToNobody, HalRead, PortTypeOK, Chip
    <3>. QED  BY <1>5, <3>1, <3>2 DEF GndRead
  <2>2. got' \in BOOLEAN /\ left' \in Nat
    BY <1>5, TimesType DEF GndRead, GndAccepted, GndRefused, PortTypeOK
  <2>. QED  BY <1>5, <2>1, <2>2 DEF GndRead, PortTypeOK
<1>6. CASE GndGuard
  <2>1. txbuf' \in Seq(Nat) /\ Len(txbuf') <= TXBUF_SIZE /\ inq' \in Seq(Nat)
    BY <1>6, FilledType, ChunkType DEF GndGuard, DrainTransport, PortTypeOK
  <2>. QED  BY <1>6, <2>1 DEF GndGuard, PortTypeOK
<1>7. CASE GndReconnected
  <2>1. /\ txbuf' \in Seq(Nat) /\ Len(txbuf') <= TXBUF_SIZE
        /\ inq' \in Seq(Nat)
        /\ outq' \in Seq(Nat) /\ Len(outq') <= OUT_CAP
    BY <1>7, EmptyType DEF GndReconnected
  <2>. QED  BY <1>7, <2>1 DEF GndReconnected, PortTypeOK
<1>8. CASE GndAcceptFails
  <2>1. faults' \in 0..MaxFaults
    BY <1>8, FaultsAssumption DEF GndAcceptFails, PortTypeOK
  <2>. QED  BY <1>8, <2>1 DEF GndAcceptFails, PortTypeOK
<1>9. CASE GndBuild
  <2>1. /\ Packet(txbuf, Role) \in Frame
        /\ Len(Packet(txbuf, Role).data) <= MAX_PKT_DATA
        /\ Unsent(txbuf) \in Seq(Nat) /\ Len(Unsent(txbuf)) <= Len(txbuf)
    BY PacketType, TimesType DEF PortTypeOK
  <2>2. Len(Unsent(txbuf)) <= TXBUF_SIZE
    BY <2>1, EmptyType DEF PortTypeOK
  <2>. QED  BY <1>9, <2>1, <2>2 DEF GndBuild, PortTypeOK
<1>10. CASE GndSendFailed \/ GndSent
  <2>1. pkt' \in Frame /\ Len(pkt'.data) <= MAX_PKT_DATA /\ left' \in Nat
    BY <1>10, EmptyType DEF GndSendFailed, GndSent
  <2>2. CASE GndSendFailed
    BY <2>1, <2>2 DEF GndSendFailed, PortTypeOK
  <2>3. CASE GndSent
    BY <2>1, <2>3 DEF GndSent, PortTypeOK
  <2>. QED  BY <1>10, <2>2, <2>3
<1>11. CASE GndExit
  <2>1. chip' \in Chip /\ faults' \in 0..MaxFaults
    BY <1>11, HalType, CommandsType DEF GndExit, PortTypeOK
  <2>. QED  BY <1>11, <2>1 DEF GndExit, PortTypeOK
<1>12. CASE Radio
  BY <1>12, HeardAreFrames, HeardType, SurroundingsType DEF Radio
<1>13. CASE Tick \/ ClientWrites \/ ClientReads \/ CtrlC
  BY <1>13, SurroundingsType DEF Tick, ClientWrites, ClientReads
<1>14. CASE ClientCloses
  <2>1. outq' \in Seq(Nat) /\ Len(outq') <= OUT_CAP
    BY <1>14, EmptyType DEF ClientCloses
  <2>. QED  BY <1>14, <2>1 DEF ClientCloses, Around, PortTypeOK
<1>. QED
  BY <1>1, <1>2, <1>3, <1>4, <1>5, <1>6, <1>7, <1>8, <1>9, <1>10, <1>11, <1>12, <1>13,
     <1>14 DEF Next, Host

(***************************************************************************)
(* Where the process stands.                                               *)
(***************************************************************************)
Places == /\ pc \in GndSteps
          /\ ret \in {"none", "wait", "listen", "rearm", "top"}
          /\ due \in -SLOT_MS..3 * SLOT_MS
          /\ link \in {"up", "fin", "rst"}
          /\ base \in 0..MaxBytes

LEMMA StepsAround ==
  ASSUME Outside
  PROVE  UNCHANGED <<pc, ret, irq, txbuf, got, pkt, led_tx, faults, base>>
BY DEF Outside, Radio, TxDone, FrameEnds, NoiseEnds, Chips, Tick, Elapses, ClientWrites,
       ClientReads, ClientCloses, PeerWrites, PeerReads, CtrlC, Around, conn

LEMMA ControlStep ==
  ASSUME TypeOK, Control, Next
  PROVE  Places' /\ Control'
<1>. Places /\ SLOT_MS \in Nat /\ offered \in 0..MaxBytes
  BY TimesType DEF TypeOK, Places, PortTypeOK
<1>. USE DEF Places, Control, Sending, Awaiting, GndSteps, HelperSteps, conn
<1>1. CASE Outside
  <2>1. UNCHANGED <<pc, ret, irq, pkt, base>>
    BY <1>1, StepsAround
  <2>2. due' \in -SLOT_MS..3 * SLOT_MS /\ link' \in {"up", "fin", "rst"}
    BY <1>1 DEF Outside, Radio, TxDone, FrameEnds, NoiseEnds, Chips, Around, Tick, Elapses,
                ClientWrites, ClientReads, ClientCloses, PeerWrites, PeerReads, CtrlC,
                Greatest
  <2>. QED  BY <2>1, <2>2
<1>2. CASE (SendStandby \/ SendClear \/ SendBuffer \/ SendTx) /\ UNCHANGED conn
  BY <1>2 DEF SendStandby, SendClear, SendBuffer, SendTx, SendCall
<1>3. CASE (WaitEnds \/ WaitPoll) /\ UNCHANGED conn
  BY <1>3 DEF WaitEnds, WaitPoll, PollReturns
<1>4. CASE GetIrq /\ UNCHANGED conn
  BY <1>4 DEF GetIrq, IrqReturns
<1>5. CASE ClearIrqRead /\ UNCHANGED conn
  BY <1>5 DEF ClearIrqRead, IrqReturns
<1>6. CASE (RxClear \/ RxSet) /\ UNCHANGED conn
  BY <1>6 DEF RxClear, RxSet
<1>7. CASE GndTop \/ GndListenEnds
  BY <1>7 DEF GndTop, GndListenEnds
<1>8. CASE GndPoll
  BY <1>8 DEF GndPoll, PollReturns
<1>9. CASE GndHandleIrq
  BY <1>9 DEF GndHandleIrq
<1>10. CASE GndRead
  <2>1. link' \in {"up", "fin", "rst"}
    BY <1>10 DEF GndRead, WriteToNobody
  <2>. QED  BY <1>10, <2>1 DEF GndRead, GndAccepted, GndRefused
<1>11. CASE GndSigpipe \/ GndRearm \/ GndGuard \/ GndProbe
  BY <1>11 DEF GndSigpipe, GndRearm, GndGuard, GndProbe
<1>12. CASE GndReconnected \/ GndAcceptFails \/ GndBuild
  BY <1>12 DEF GndReconnected, GndAcceptFails, GndBuild
<1>13. CASE GndSendFailed \/ GndSent \/ GndStops \/ GndExit
  BY <1>13 DEF GndSendFailed, GndSent, GndStops, GndExit
<1>. QED
  BY <1>1, <1>2, <1>3, <1>4, <1>5, <1>6, <1>7, <1>8, <1>9, <1>10, <1>11, <1>12, <1>13
     DEF Next, Host, Helper, Outside

(***************************************************************************)
(* The TX_DONE that ends a wait belongs to the frame that was sent.        *)
(***************************************************************************)
LEMMA OutsideChip ==
  ASSUME TypeOK, Outside
  PROVE  SameOrNewer
<1>. chip \in Chip
  BY DEF TypeOK, PortTypeOK
<1>1. CASE Radio
  BY <1>1, HeardAreFrames, ChipHears, ChipAround DEF Radio
<1>2. CASE Tick \/ ClientWrites \/ ClientReads \/ CtrlC
  BY <1>2, ChipAround DEF Tick, ClientWrites, ClientReads
<1>3. CASE ClientCloses
  BY <1>3 DEF ClientCloses, SameOrNewer
<1>. QED  BY <1>1, <1>2, <1>3 DEF Outside

LEMMA TxDoneStep ==
  ASSUME TypeOK, Control, TxDoneIsOurs, Next
  PROVE  TxDoneIsOurs'
<1>. chip \in Chip /\ "TX_DONE" \in IrqBits
  BY DEF TypeOK, PortTypeOK, IrqBits
<1>. USE DEF TxDoneIsOurs, Awaiting
<1>1. CASE Outside
  BY <1>1, StepsAround, OutsideChip DEF SameOrNewer
<1>2. CASE SendStandby
  BY <1>2, HalOutcome, CommandEffects DEF SendStandby, SendCall
<1>3. CASE SendClear
  BY <1>3, HalOutcome, CommandEffects DEF SendClear, SendCall
<1>4. CASE SendBuffer
  BY <1>4, HalOutcome, CommandEffects DEF SendBuffer, SendCall
<1>5. CASE SendTx
  BY <1>5, HalOutcome, CommandEffects DEF SendTx, SendCall
<1>6. CASE WaitEnds \/ WaitPoll
  BY <1>6, CommandEffects DEF WaitEnds, WaitPoll, PollReturns
<1>7. CASE GetIrq
  BY <1>7 DEF GetIrq, IrqReturns
<1>8. CASE ClearIrqRead
  BY <1>8, HalOutcome, CommandEffects DEF ClearIrqRead, IrqReturns
<1>9. CASE RxClear \/ RxSet
  BY <1>9 DEF RxClear, RxSet, Control
<1>10. CASE GndTop \/ GndListenEnds \/ GndRearm \/ GndSigpipe \/ GndStops \/ GndExit
  BY <1>10 DEF GndTop, GndListenEnds, GndRearm, GndSigpipe, GndStops, GndExit
<1>11. CASE GndPoll
  BY <1>11 DEF GndPoll, PollReturns
<1>12. CASE GndHandleIrq
  BY <1>12 DEF GndHandleIrq
<1>13. CASE GndRead
  BY <1>13 DEF GndRead, GndAccepted, GndRefused
<1>14. CASE GndGuard \/ GndProbe \/ GndReconnected \/ GndAcceptFails \/ GndBuild
  BY <1>14 DEF GndGuard, GndProbe, GndReconnected, GndAcceptFails, GndBuild
<1>15. CASE GndSendFailed \/ GndSent
  BY <1>15 DEF GndSendFailed, GndSent
<1>. QED
  BY <1>1, <1>2, <1>3, <1>4, <1>5, <1>6, <1>7, <1>8, <1>9, <1>10, <1>11, <1>12, <1>13,
     <1>14, <1>15 DEF Next, Host, Helper, Outside

(***************************************************************************)
(* The RX_DONE that makes the process read is that of a new frame, unless  *)
(* two calls have failed.                                                  *)
(***************************************************************************)
LEMMA RxDoneStep ==
  ASSUME TypeOK, Control, RxDoneIsNew, Next
  PROVE  RxDoneIsNew'
<1>. /\ chip \in Chip /\ "RX_DONE" \in IrqBits /\ pc \in GndSteps
     /\ faults \in 0..MaxFaults /\ MaxFaults \in Nat
  BY FaultsAssumption DEF TypeOK, PortTypeOK, IrqBits
<1>. USE DEF RxDoneIsNew, Failed
<1>1. CASE Outside
  BY <1>1, StepsAround, OutsideChip DEF SameOrNewer
<1>2. CASE SendStandby
  BY <1>2, HalOutcome, CommandEffects DEF SendStandby, SendCall
<1>3. CASE SendClear
  BY <1>3, HalOutcome, CommandEffects DEF SendClear, SendCall
<1>4. CASE SendBuffer
  BY <1>4, HalOutcome, CommandEffects DEF SendBuffer, SendCall, Control
<1>5. CASE SendTx
  BY <1>5, HalOutcome, CommandEffects DEF SendTx, SendCall, Control
<1>6. CASE WaitEnds \/ WaitPoll
  BY <1>6, CommandEffects DEF WaitEnds, WaitPoll, PollReturns, Control
<1>7. CASE GetIrq
  BY <1>7 DEF GetIrq, HalRead, IrqReturns, Control
<1>8. CASE ClearIrqRead
  BY <1>8, HalOutcome, CommandEffects DEF ClearIrqRead, IrqReturns, Control
<1>9. CASE RxClear
  BY <1>9, HalOutcome, CommandEffects DEF RxClear, Control
<1>10. CASE RxSet
  BY <1>10, HalOutcome, CommandEffects DEF RxSet, Control
<1>11. CASE GndTop \/ GndListenEnds \/ GndRearm \/ GndSigpipe \/ GndStops
  BY <1>11 DEF GndTop, GndListenEnds, GndRearm, GndSigpipe, GndStops, Control
<1>12. CASE GndPoll
  BY <1>12, CommandEffects DEF GndPoll, PollReturns, Control
<1>13. CASE GndHandleIrq
  BY <1>13 DEF GndHandleIrq, Control
<1>14. CASE GndRead
  <2>1. CASE pc' = "guard"
    BY <1>14, <2>1 DEF GndRead
  <2>2. CASE pc' # "guard"
    <3>1. ReadPacket(Peer, FALSE) /\ GndRefused /\ pc = "read"
      BY <1>14, <2>2 DEF GndRead, GndAccepted
    <3>2. chip'.irq = chip.irq /\ (chip.fresh => chip'.fresh)
      BY <3>1 DEF ReadPacket, Chip
    <3>3. faults' = faults \/ faults' = faults - 1
      BY <3>1 DEF ReadPacket, HalRead
    <3>4. ~chip'.fresh => MaxFaults - faults >= 2
      BY <3>1, <3>2 DEF Control
    <3>5. ~chip'.fresh => MaxFaults - faults' >= 2
      BY <3>3, <3>4
    <3>6. pc' = "rx_clear"
      BY <3>1 DEF GndRefused
    <3>. QED  BY <3>5, <3>6
  <2>. QED  BY <2>1, <2>2
<1>15. CASE GndGuard \/ GndProbe \/ GndReconnected \/ GndAcceptFails \/ GndBuild
  BY <1>15 DEF GndGuard, GndProbe, GndReconnected, GndAcceptFails, GndBuild, Control
<1>16. CASE GndSendFailed
  BY <1>16 DEF GndSendFailed, Control
<1>17. CASE GndSent
  BY <1>17 DEF GndSent, Control
<1>18. CASE GndExit
  BY <1>18 DEF GndExit
<1>. QED
  BY <1>1, <1>2, <1>3, <1>4, <1>5, <1>6, <1>7, <1>8, <1>9, <1>10, <1>11, <1>12, <1>13,
     <1>14, <1>15, <1>16, <1>17, <1>18 DEF Next, Host, Helper, Outside

(***************************************************************************)
(* Every byte in the process is the current client's.                      *)
(***************************************************************************)
LEMMA PartsOfThisClient ==
  ASSUME NEW b \in Seq(Nat), OfThisClient(b), NEW m \in Nat, NEW n \in Nat,
         n <= Len(b)
  PROVE  OfThisClient(SubSeq(b, m + 1, n))
<1>1. \A i \in 1..Len(SubSeq(b, m + 1, n)) : i + m \in 1..Len(b)
                                             /\ SubSeq(b, m + 1, n)[i] = b[i + m]
  OBVIOUS
<1>. QED  BY <1>1 DEF OfThisClient

LEMMA DrainOfThisClient ==
  ASSUME PortTypeOK, OfThisClient(inq), OfThisClient(txbuf)
  PROVE  OfThisClient(Filled) /\ OfThisClient(Undrained)
<1>. inq \in Seq(Nat) /\ txbuf \in Seq(Nat)
  BY DEF PortTypeOK
<1>1. Least(READ_MAX, Len(inq)) \in 0..Len(inq)
  BY PortAssumption DEF Least
<1>2. OfThisClient(Chunk)
  BY <1>1, PartsOfThisClient DEF Chunk
<1>3. OfThisClient(Undrained)
  <2>1. Len(Chunk) \in Nat
    BY ChunkType
  <2>. QED  BY <2>1, PartsOfThisClient DEF Undrained
<1>4. OfThisClient(txbuf \o Chunk)
  <2>. DEFINE c == Chunk
  <2>1. c \in Seq(Nat)
    BY ChunkType
  <2>2. OfThisClient(c)
    BY <1>2
  <2>. HIDE DEF c
  <2>3. OfThisClient(txbuf \o c)
    BY <2>1, <2>2 DEF OfThisClient
  <2>. QED  BY <2>3 DEF c
<1>. QED  BY <1>3, <1>4 DEF Filled

LEMMA PacketOfThisClient ==
  ASSUME PortTypeOK, OfThisClient(txbuf)
  PROVE  OfThisClient(Packet(txbuf, Role).data) /\ OfThisClient(Unsent(txbuf))
<1>. txbuf \in Seq(Nat)
  BY DEF PortTypeOK
<1>1. Least(MAX_PKT_DATA, Len(txbuf)) \in 0..Len(txbuf)
  BY PortAssumption DEF Least
<1>. QED  BY <1>1, PartsOfThisClient DEF Packet, Unsent

LEMMA SessionStep ==
  ASSUME TypeOK, Control, OneSession, Next
  PROVE  OneSession'
<1>. /\ PortTypeOK /\ offered \in Nat /\ base \in Nat
     /\ inq \in Seq(Nat)
  BY PortAssumption DEF TypeOK, PortTypeOK
<1>. DEFINE Same == UNCHANGED <<inq, txbuf, pkt, base, offered>>
<1>1. Same => OneSession'
  BY DEF OneSession, OfThisClient
<1>2. ASSUME txbuf' \in {txbuf, Filled}, inq' \in {inq, Undrained},
             UNCHANGED <<pkt, base, offered>>
      PROVE  OneSession'
  BY <1>2, DrainOfThisClient DEF OneSession, OfThisClient
<1>3. CASE Helper /\ UNCHANGED conn
  <2>1. CASE WaitPoll
    BY <1>2, <1>3, <2>1 DEF WaitPoll, PollReturns, DrainTransport, conn
  <2>2. CASE ~WaitPoll
    BY <1>1, <1>3, <2>2
       DEF Helper, SendStandby, SendClear, SendBuffer, SendTx, SendCall, WaitEnds, GetIrq,
           ClearIrqRead, RxClear, RxSet, conn
  <2>. QED  BY <2>1, <2>2
<1>4. CASE GndPoll
  BY <1>2, <1>4 DEF GndPoll, PollReturns, DrainTransport, conn
<1>5. CASE GndGuard
  BY <1>2, <1>5 DEF GndGuard, DrainTransport, conn
<1>6. CASE GndBuild
  BY <1>6, PacketOfThisClient DEF GndBuild, OneSession, OfThisClient, conn
<1>7. CASE GndReconnected
  <2>1. pkt.data = <<>>
    BY <1>7 DEF GndReconnected, Control, Sending, Awaiting, NoFrame
  <2>2. /\ txbuf' = <<>> /\ inq' = <<>> /\ pkt'.data = <<>>
        /\ base' = offered /\ offered' = offered
    BY <1>7, <2>1 DEF GndReconnected
  <2>. QED  BY <2>2 DEF OneSession, OfThisClient
<1>8. CASE GndSendFailed \/ GndSent
  <2>1. /\ pkt'.data = <<>>
        /\ UNCHANGED <<txbuf, inq, base, offered>>
    BY <1>8 DEF GndSendFailed, GndSent, NoFrame, conn
  <2>. QED  BY <2>1 DEF OneSession, OfThisClient
<1>9. CASE ClientWrites
  <2>1. /\ inq' = Append(inq, offered + 1) /\ offered' = offered + 1
        /\ UNCHANGED <<txbuf, pkt, base>>
    BY <1>9 DEF ClientWrites, PeerWrites, Around, conn
  <2>. QED  BY <2>1 DEF OneSession, OfThisClient
<1>10. CASE Radio \/ Tick \/ ClientReads \/ ClientCloses \/ (CtrlC /\ UNCHANGED conn)
  <2>1. UNCHANGED <<inq, offered>>
    BY <1>10 DEF Radio, TxDone, FrameEnds, NoiseEnds, Chips, Tick, Elapses, ClientReads,
                 PeerReads, ClientCloses, CtrlC
  <2>. QED  BY <1>1, <1>10, <2>1, StepsAround DEF Outside
<1>11. CASE GndTop \/ GndListenEnds \/ GndHandleIrq \/ GndRead \/ GndSigpipe \/ GndRearm
  BY <1>1, <1>11
     DEF GndTop, GndListenEnds, GndHandleIrq, GndRead, GndSigpipe, GndRearm, conn
<1>12. CASE GndProbe \/ GndAcceptFails \/ GndStops \/ GndExit
  BY <1>1, <1>12 DEF GndProbe, GndAcceptFails, GndStops, GndExit, conn
<1>. QED
  BY <1>3, <1>4, <1>5, <1>6, <1>7, <1>8, <1>9, <1>10, <1>11, <1>12 DEF Next, Host

(***************************************************************************)
(* The invariant, and what follows from it.                                *)
(***************************************************************************)
LEMMA InitIInv == GndInit => IInv
<1>. SUFFICES ASSUME GndInit PROVE IInv
  OBVIOUS
<1>1. PortTypeOK
  BY PortInitType DEF GndInit
<1>2. /\ pc = "rx_clear" /\ ret = "top" /\ due = 0 /\ irq = {} /\ chip = PowerOn
      /\ pkt = NoFrame /\ inq = <<>> /\ txbuf = <<>> /\ offered = 0 /\ base = 0
      /\ link = "up"
  BY DEF GndInit, PortInit
<1>3. TypeOK
  BY <1>1, <1>2, TimesType, PortAssumption DEF TypeOK, GndSteps, HelperSteps
<1>4. Control /\ TxDoneIsOurs
  BY <1>2 DEF Control, Sending, TxDoneIsOurs, Awaiting
<1>5. RxDoneIsNew
  BY <1>2 DEF RxDoneIsNew, PowerOn
<1>6. OneSession
  BY <1>2 DEF OneSession, OfThisClient, NoFrame
<1>. QED  BY <1>3, <1>4, <1>5, <1>6 DEF IInv

LEMMA NextIInv == IInv /\ [Next]_gndVars => IInv'
<1>. SUFFICES ASSUME IInv, [Next]_gndVars PROVE IInv'
  OBVIOUS
<1>1. CASE Next
  BY <1>1, GndStepType, ControlStep, TxDoneStep, RxDoneStep, SessionStep
     DEF IInv, TypeOK, Places
<1>2. CASE UNCHANGED gndVars
  BY <1>2 DEF gndVars, portVars, IInv, TypeOK, PortTypeOK, Control, Sending, Awaiting,
              TxDoneIsOurs, RxDoneIsNew, Failed, OneSession, OfThisClient
<1>. QED  BY <1>1, <1>2

LEMMA GndIInv == Spec => []IInv
BY InitIInv, NextIInv, PTL DEF Spec

\* Every variable of the ground side keeps its type and its bound: the transmit
\* buffer never holds more than TXBUF_SIZE bytes, the transport never more than
\* the kernel takes, and the time-out is never further away than three slots.
THEOREM GndTypeOK == Spec => []TypeOK
<1>1. IInv => TypeOK
  BY DEF IInv
<1>. QED  BY <1>1, GndIInv, PTL

\* tx_pkts counts a frame only when that very frame went out whole
\* (mode_mavlink.c:519-528).
THEOREM GndCountedWasAired == Spec => []CountedWasAired
<1>1. IInv => CountedWasAired
  BY DEF IInv, TxDoneIsOurs, CountedWasAired
<1>. QED  BY <1>1, GndIInv, PTL

\* Until two driver calls have failed no frame of the drone is accepted twice
\* (mode_mavlink.c:456-480).
THEOREM GndNoFrameTwice == Spec => []NoFrameTwice
<1>1. IInv => NoFrameTwice
  BY DEF IInv, Control, RxDoneIsNew, NoFrameTwice
<1>. QED  BY <1>1, GndIInv, PTL

\* No byte of an earlier TCP client is ever sent, however clients come and go
\* (mode_mavlink.c:496-507).
THEOREM GndNoStaleSession == Spec => []NoStaleSession
<1>1. IInv => NoStaleSession
  BY DEF IInv, OneSession, OfThisClient, NoStaleSession
<1>. QED  BY <1>1, GndIInv, PTL

(***************************************************************************)
(* The bytes of a direction stay in order (for MavlinkLink).               *)
(***************************************************************************)
LEMMA InitInOrder ==
  ASSUME GndInit
  PROVE  /\ Ordered /\ Pending = {}
         /\ chip.rxfifo.data = <<>> /\ outq = <<>> /\ offered = 0
<1>1. /\ pc = "rx_clear" /\ txbuf = <<>> /\ inq = <<>> /\ pkt = NoFrame
      /\ chip = PowerOn /\ outq = <<>> /\ offered = 0
  BY DEF GndInit, PortInit
<1>2. /\ Queued = {} /\ Built = {} /\ Sent = {}
      /\ chip.rxfifo.data = <<>> /\ chip.txfifo.data = <<>> /\ chip.mode = "STDBY"
      /\ pkt.data = <<>>
  BY <1>1, EmptyInOrder DEF Queued, Built, Sent, Building, NoFrame, PowerOn
<1>3. Ordered
  BY <1>1, <1>2, EmptyInOrder DEF Ordered, Before
<1>. QED  BY <1>1, <1>2, <1>3 DEF Pending

\* The frame is taken from the front of the transmit buffer.
LEMMA BuildInOrder ==
  ASSUME IInv, Ordered, GndBuild
  PROVE  Ordered' /\ Flow
<1>1. txbuf \in Seq(Nat)
  BY DEF IInv, TypeOK, PortTypeOK
<1>2. /\ pc = "build" /\ pc' = "send_standby"
      /\ pkt' = Packet(txbuf, Role) /\ txbuf' = Unsent(txbuf)
      /\ UNCHANGED <<chip, inq, offered>>
  BY DEF GndBuild
<1>3. /\ Increasing(pkt'.data) /\ Increasing(txbuf')
      /\ Before(Bytes(pkt'.data), Bytes(txbuf'))
      /\ Bytes(pkt'.data) \subseteq Bytes(txbuf) /\ Bytes(txbuf') \subseteq Bytes(txbuf)
  BY <1>1, <1>2, PacketInOrder DEF Ordered
<1>4. /\ Built' = Bytes(pkt'.data) /\ Sent' = Sent
      /\ Queued' = Bytes(txbuf') \cup Bytes(inq) /\ Bytes(inq') = Bytes(inq)
  BY <1>2 DEF Built, Building, Sent, Queued
<1>5. Built' \subseteq Queued /\ Queued' \subseteq Queued
  BY <1>3, <1>4 DEF Queued
<1>6. Before(Bytes(txbuf'), Bytes(inq')) /\ Before(Built', Queued')
  BY <1>3, <1>4 DEF Ordered, Before
<1>7. Before(Sent', Queued') /\ Before(Sent', Built')
  BY <1>4, <1>5 DEF Ordered, Before
<1>8. (Queued \cup Built \cup Sent)' \subseteq 1..offered'
  BY <1>2, <1>4, <1>5 DEF Ordered
<1>9. Increasing(inq') /\ Increasing(chip'.txfifo.data)
  BY <1>2 DEF Ordered
<1>10. Ordered'
  BY <1>2, <1>3, <1>6, <1>7, <1>8, <1>9 DEF Ordered
<1>11. Pending' \subseteq Pending
  BY <1>2, <1>4, <1>5 DEF Pending
<1>. QED  BY <1>2, <1>10, <1>11 DEF Flow

\* A new client starts with empty queues.
LEMMA ReconnectedInOrder ==
  ASSUME IInv, Ordered, GndReconnected
  PROVE  Ordered' /\ Flow
<1>1. /\ pc = "accept" /\ pc' = "build" /\ txbuf' = <<>> /\ inq' = <<>>
      /\ UNCHANGED <<pkt, chip, offered>>
  BY DEF GndReconnected
<1>2. /\ Queued' = {} /\ Built' = {} /\ Sent' = Sent
      /\ Bytes(txbuf') = {} /\ Increasing(txbuf') /\ Increasing(inq')
  BY <1>1, EmptyInOrder DEF Queued, Built, Building, Sent
<1>3. Ordered'
  BY <1>1, <1>2 DEF Ordered, Before
<1>4. Pending' \subseteq Pending
  BY <1>1, <1>2 DEF Pending
<1>. QED  BY <1>1, <1>3, <1>4 DEF Flow

LEMMA HostInOrder ==
  ASSUME IInv, Ordered, Host \/ GndReconnected
  PROVE  Ordered' /\ Flow
<1>. PortTypeOK /\ chip \in Chip
  BY DEF IInv, TypeOK, PortTypeOK
<1>1. CASE Helper
  BY <1>1, HelperInOrder DEF IInv, TypeOK, TxDoneIsOurs, Building
<1>2. CASE GndBuild \/ GndReconnected
  BY <1>2, BuildInOrder, ReconnectedInOrder
<1>3. CASE GndPoll
  <2>1. Carries
    BY <1>3, PollCarries DEF GndPoll, Building
  <2>. QED  BY <2>1, CarriesInOrder
<1>4. CASE GndRead
  <2>1. chip'.txfifo = chip.txfifo /\ chip'.mode = chip.mode
    BY <1>4 DEF GndRead, WriteToNobody, ReadPacket, Chip
  <2>2. pc' \in {"guard", "rx_clear"}
    BY <1>4 DEF GndRead, GndAccepted, GndRefused
  <2>3. Carries
    BY <1>4, <2>1, <2>2 DEF GndRead, Carries, Building
  <2>. QED  BY <2>3, CarriesInOrder
<1>5. CASE GndExit
  <2>1. chip'.txfifo = chip.txfifo /\ (chip'.mode = "TX" => chip.mode = "TX")
    BY <1>5, HalOutcome, CommandEffects, CommandsCarry DEF GndExit
  <2>2. Carries
    BY <1>5, <2>1 DEF GndExit, Carries, Building
  <2>. QED  BY <2>2, CarriesInOrder
<1>6. CASE GndGuard
  <2>1. Carries
    BY <1>6 DEF GndGuard, DrainTransport, Carries, Building
  <2>. QED  BY <2>1, CarriesInOrder
<1>7. CASE GndTop \/ GndListenEnds \/ GndHandleIrq \/ GndSigpipe \/ GndRearm
  <2>1. Carries
    BY <1>7 DEF GndTop, GndListenEnds, GndHandleIrq, GndSigpipe, GndRearm, Carries, Building
  <2>. QED  BY <2>1, CarriesInOrder
<1>8. CASE GndProbe \/ GndAcceptFails \/ GndSendFailed \/ GndSent \/ GndStops
  <2>1. Carries
    BY <1>8 DEF GndProbe, GndAcceptFails, GndSendFailed, GndSent, GndStops, Carries, Building
  <2>. QED  BY <2>1, CarriesInOrder
<1>. QED
  BY <1>1, <1>2, <1>3, <1>4, <1>5, <1>6, <1>7, <1>8 DEF Host

LEMMA HostTakes ==
  ASSUME IInv, Host \/ GndReconnected, Failed < 2
  PROVE  Takes
<1>. PortTypeOK /\ chip \in Chip /\ outq \in Seq(Nat)
  BY DEF IInv, TypeOK, PortTypeOK
<1>1. CASE Helper
  BY <1>1, HelperTakes
<1>2. CASE GndRead
  <2>1. chip.fresh
    <3>1. faults \in Nat /\ MaxFaults \in Nat /\ ~(Failed >= 2)
      BY FaultsAssumption DEF PortTypeOK, Failed
    <3>. QED  BY <1>2, <3>1 DEF GndRead, IInv, Control, RxDoneIsNew
  <2>2. CASE \E ok \in BOOLEAN : ReadPacket(Peer, ok)
    BY <2>1, <2>2, ReadTakes
  <2>3. CASE WriteToNobody
    BY <2>3, SilentTakes DEF WriteToNobody, Chip
  <2>. QED  BY <1>2, <2>2, <2>3 DEF GndRead
<1>3. CASE GndPoll
  BY <1>3, PollTakes DEF GndPoll
<1>4. CASE GndExit
  <2>1. chip'.rxfifo = chip.rxfifo /\ chip'.fresh = chip.fresh
    BY <1>4, HalOutcome, CommandsTakeNothing DEF GndExit
  <2>. QED  BY <1>4, <2>1, SilentTakes DEF GndExit
<1>5. CASE GndReconnected
  BY <1>5 DEF GndReconnected, Takes
<1>6. CASE GndTop \/ GndListenEnds \/ GndHandleIrq \/ GndSigpipe \/ GndRearm \/ GndGuard
  BY <1>6, SilentTakes
     DEF GndTop, GndListenEnds, GndHandleIrq, GndSigpipe, GndRearm, GndGuard
<1>7. CASE GndProbe \/ GndAcceptFails \/ GndBuild \/ GndSendFailed \/ GndSent \/ GndStops
  BY <1>7, SilentTakes
     DEF GndProbe, GndAcceptFails, GndBuild, GndSendFailed, GndSent, GndStops
<1>. QED
  BY <1>1, <1>2, <1>3, <1>4, <1>5, <1>6, <1>7 DEF Host

\* What the client does, and the clock.
LEMMA ClientInOrder ==
  ASSUME IInv, Ordered, ClientWrites \/ ClientReads \/ ClientCloses
  PROVE  /\ Ordered' /\ Flow
         /\ UNCHANGED chip
<1>. PortTypeOK
  BY DEF IInv, TypeOK
<1>1. CASE ClientWrites
  BY <1>1, PeerWritesInOrder DEF ClientWrites, PeerWrites
<1>2. CASE ClientReads
  BY <1>2, SurroundingsInOrder DEF ClientReads, PeerReads
<1>3. CASE ClientCloses
  <2>1. Carries
    BY <1>3 DEF ClientCloses, Around, Carries
  <2>. QED  BY <1>3, <2>1, CarriesInOrder DEF ClientCloses
<1>. QED  BY <1>1, <1>2, <1>3

\* The other radio, and the channel, disturb nothing of this side.
LEMMA HearingIInv ==
  ASSUME IInv, Ordered, NEW f \in Frame, Hearing(f), UNCHANGED conn
  PROVE  IInv' /\ Ordered' /\ Pending' = Pending
<1>1. /\ PortTypeOK' /\ SameOrNewer /\ Ordered' /\ Pending' = Pending
      /\ UNCHANGED <<pc, ret, irq, txbuf, inq, pkt, due, aired, faults, offered, link, base>>
  BY HearingInOrder DEF IInv, TypeOK, Hearing, conn
<1>2. TypeOK' /\ Control'
  BY <1>1 DEF IInv, TypeOK, Control, Sending, Awaiting
<1>3. TxDoneIsOurs'
  BY <1>1 DEF IInv, TxDoneIsOurs, Awaiting, SameOrNewer
<1>4. RxDoneIsNew'
  BY <1>1 DEF IInv, RxDoneIsNew, Failed, SameOrNewer
<1>5. OneSession'
  BY <1>1 DEF IInv, OneSession, OfThisClient
<1>. QED  BY <1>1, <1>2, <1>3, <1>4, <1>5 DEF IInv

(***************************************************************************)
(* One step of the ground's process, by the stretch of the slot it is in.  *)
(***************************************************************************)
Works == IInv /\ Ordered /\ Host /\ UNCHANGED faults /\ ~g_stop

LEMMA Preparation ==
  ASSUME Works, Prepares, link = "up", TX_WAIT_MS > TOA
  PROVE  \/ Prepares'
         \/ Sends' /\ chip'.air = TOA /\ chip.mode # "TX" /\ pc = "send_tx"
<1>1. PortTypeOK
  BY DEF Works, IInv, TypeOK
<1>2. CASE Helper
  <2>1. pc \in Building
    BY <1>2 DEF Prepares, Preparing, Helper, SendStandby, SendClear, SendBuffer, SendTx,
           SendCall, WaitEnds, WaitPoll, GetIrq, ClearIrqRead, RxClear, RxSet
  <2>. QED  BY <1>1, <1>2, <2>1, Prepared DEF Works, Ordered, Prepares, Sends, HelperSteps
<1>3. CASE GndProbe
  BY <1>3 DEF GndProbe, Prepares, Preparing, Building
<1>4. CASE GndBuild
  BY <1>4 DEF GndBuild, Prepares, Preparing, Building, Packet
<1>. QED
  BY <1>2, <1>3, <1>4 DEF Works, Host, Prepares, Preparing, Building, GndTop, GndListenEnds,
     GndPoll, GndHandleIrq, GndRead, GndSigpipe, GndRearm, GndGuard, GndAcceptFails,
     GndSendFailed, GndSent, GndStops, GndExit

LEMMA Transmission ==
  ASSUME Works, Sends
  PROVE  Sends' /\ UNCHANGED chip
<1>1. PortTypeOK
  BY DEF Works, IInv, TypeOK
<1>2. Helper
  BY DEF Works, Sends, OnAir, Host, GndTop, GndListenEnds, GndPoll, GndHandleIrq, GndRead,
         GndSigpipe, GndRearm, GndGuard, GndProbe, GndAcceptFails, GndBuild, GndSendFailed,
         GndSent, GndStops, GndExit
<1>. QED  BY <1>1, <1>2, StaysOnAir DEF Works, Sends

LEMMA Completion ==
  ASSUME Works, Ends
  PROVE  (Ends' /\ due' = due) \/ (Idle' /\ due' = 3 * SLOT_MS)
<1>1. PortTypeOK
  BY DEF Works, IInv, TypeOK
<1>2. CASE Helper
  BY <1>1, <1>2, Ended DEF Works, Ends
<1>3. CASE GndSent
  <2>1. pc = "sent" /\ pc' = "rx_clear" /\ ret' = "top" /\ UNCHANGED <<chip, due>>
    BY <1>3 DEF GndSent
  <2>. QED  BY <2>1 DEF Ends, Ending, Interrupted, Silent
<1>4. CASE GndTop
  <2>1. pc = "top" /\ pc' = "listen" /\ due' = 3 * SLOT_MS /\ UNCHANGED chip
    BY <1>4 DEF GndTop
  <2>. QED  BY <2>1 DEF Ends, Ending, Interrupted, Silent, Idle
<1>. QED
  BY <1>2, <1>3, <1>4 DEF Works, Host, Ends, Ending, Interrupted, GndListenEnds, GndPoll,
     GndHandleIrq, GndRead, GndSigpipe, GndRearm, GndGuard, GndProbe, GndAcceptFails,
     GndBuild, GndSendFailed, GndStops, GndExit

LEMMA Listens ==
  ASSUME Works, Idle, due > 0
  PROVE  Idle' /\ UNCHANGED <<due, chip>>
<1>1. due \in Int
  BY PortAssumption DEF Works, IInv, TypeOK
<1>2. GndPoll
  BY <1>1 DEF Works, Idle, Host, Helper, SendStandby, SendClear, SendBuffer, SendTx, SendCall,
         WaitEnds, WaitPoll, GetIrq, ClearIrqRead, RxClear, RxSet, GndTop, GndListenEnds,
         GndHandleIrq, GndRead, GndSigpipe, GndRearm, GndGuard, GndProbe, GndAcceptFails,
         GndBuild, GndSendFailed, GndSent, GndStops, GndExit
<1>. QED  BY <1>2, IdlePoll DEF GndPoll

LEMMA Reception ==
  ASSUME Works, TakesUp, link = "up",
         pc = "read" /\ chip.rxfifo.data # <<>> => Len(outq) < OUT_CAP
  PROVE  TakesUp' \/ (Guards' /\ left' = GUARD_MS)
<1>1. PortTypeOK /\ chip \in Chip /\ faults \in Nat /\ due \in Int
  BY FaultsAssumption, PortAssumption DEF Works, IInv, TypeOK, PortTypeOK
<1>2. TakingUp /\ chip.rxfifo.role = Peer
  BY DEF TakesUp
<1>3. CASE Helper
  BY <1>1, <1>2, <1>3, TakenUp DEF Works, TakesUp
<1>4. CASE GndPoll
  BY <1>1, <1>2, <1>4, TakenUpPoll DEF GndPoll, TakesUp
<1>5. CASE GndHandleIrq
  <2>1. irq = {"RX_DONE"} /\ Silent /\ chip.mode = "RX" /\ due > 0
    BY <1>2, <1>5 DEF TakingUp, Interrupted, GndHandleIrq
  <2>. QED  BY <1>2, <1>5, <2>1 DEF GndHandleIrq, TakingUp, TakesUp, Silent
<1>6. CASE GndRead
  <2>1. Silent /\ chip.mode = "RX"
    BY <1>2, <1>6 DEF TakingUp, Interrupted, GndRead
  <2>2. PICK ok \in BOOLEAN : ReadPacket(Peer, ok) /\ IF ok THEN GndAccepted ELSE GndRefused
    BY <1>6 DEF GndRead, WriteToNobody
  <2>3. ok = Accepts(chip.rxfifo, Peer) /\ chip' = [chip EXCEPT !.fresh = @ /\ ~ok]
    BY <1>1, <2>2, CallWorks DEF Works, ReadPacket
  <2>4. Accepts(chip.rxfifo, Peer)
    <3>1. ASSUME chip.rxfifo.data # <<>>
          PROVE  Writable(chip.rxfifo) > 0
      <4>1. chip.rxfifo.data \in Seq(Nat) /\ Len(outq) \in Nat /\ OUT_CAP \in Nat
        <5>1. chip \in Chip /\ outq \in Seq(Nat)
          BY <1>1 DEF PortTypeOK
        <5>2. OUT_CAP \in Nat
          BY PortAssumption
        <5>. QED  BY <5>1, <5>2 DEF Chip, Frame
      <4>2. Len(chip.rxfifo.data) > 0
        BY <3>1, <4>1
      <4>. QED  BY <1>6, <3>1, <4>1, <4>2 DEF GndRead, Writable, Least
    <3>. QED  BY <1>2, <3>1 DEF Accepts
  <2>5. chip'.mode = chip.mode /\ chip'.irq = chip.irq /\ chip'.edge = chip.edge
    BY <1>1, <2>3 DEF Chip
  <2>. QED  BY <2>1, <2>2, <2>3, <2>4, <2>5 DEF GndAccepted, Guards, Silent
<1>. QED
  BY <1>1, <1>2, <1>3, <1>4, <1>5, <1>6
  DEF Works, Host, TakingUp, Interrupted, GndTop, GndListenEnds, GndSigpipe, GndRearm,
      GndGuard, GndProbe, GndAcceptFails, GndBuild, GndSendFailed, GndSent, GndStops, GndExit

LEMMA Guarding ==
  ASSUME Works, Guards, link = "up"
  PROVE  Prepares' /\ pc' = "probe" /\ (GUARD_MS = 0 \/ Readable \/ left = 0)
<1>1. GUARD_MS \in Nat
  BY PortAssumption
<1>2. GndGuard
  BY DEF Works, Guards, Host, Helper, SendStandby, SendClear, SendBuffer, SendTx, SendCall,
         WaitEnds, WaitPoll, GetIrq, ClearIrqRead, RxClear, RxSet, GndTop, GndListenEnds,
         GndPoll, GndHandleIrq, GndRead, GndSigpipe, GndRearm, GndProbe, GndAcceptFails,
         GndBuild, GndSendFailed, GndSent, GndStops, GndExit
<1>. QED  BY <1>1, <1>2 DEF Works, GndGuard, Guards, Silent, Prepares, Preparing, Building


\* What happens around the process, by the stretch it comes in.
LEMMA Overhearing ==
  ASSUME IInv, NEW l \in BOOLEAN, chip' = [chip EXCEPT !.lock = l],
         UNCHANGED <<pc, ret, irq, left, due, pkt>>
  PROVE  /\ TakesUp => TakesUp'
         /\ Guards => Guards'
         /\ Prepares => Prepares'
         /\ Sends => Sends'
         /\ Ends => Ends'
         /\ Idle => Idle'
         /\ chip'.mode = chip.mode /\ chip'.air = chip.air /\ chip'.lock = l
<1>1. chip \in Chip
  BY DEF IInv, TypeOK, PortTypeOK
<1>2. chip'.air = chip.air /\ chip'.lock = l
  BY <1>1 DEF Chip
<1>. QED  BY <1>1, <1>2, LockOnly DEF TakesUp, Guards, Prepares, Sends, Ends

LEMMA FrameOut ==
  ASSUME IInv, Sends, TxDone
  PROVE  Ends' /\ chip.air = 0
BY Out DEF IInv, TypeOK, Sends, Ends

LEMMA FrameHeard ==
  ASSUME IInv, Idle, due > 0, NEW f, f.role = Peer, chip' = RxEnd(chip, f, {}),
         UNCHANGED <<pc, ret, irq, left, due, pkt>>
  PROVE  TakesUp'
BY Heard DEF IInv, TypeOK, PortTypeOK, TakesUp

\* Time passes in the listening loop, in the guard time and on the air.
LEMMA Ticking ==
  ASSUME IInv, Tick, Prompt
  PROVE  /\ ~TakesUp /\ ~Prepares /\ ~Ends
         /\ due' = Greatest(due - 1, -SLOT_MS)
         /\ Idle => Idle' /\ UNCHANGED chip
         /\ Guards => Guards' /\ left > 0 /\ left' = left - 1 /\ UNCHANGED chip
         /\ Sends => Sends' /\ chip.air > 0 /\ chip'.air = chip.air - 1
<1>1. Elapses /\ ~Ready /\ PortTypeOK /\ left \in Nat
  BY DEF Tick, IInv, TypeOK, PortTypeOK
<1>2. ~TakesUp /\ ~Prepares /\ ~Ends
  BY <1>1 DEF Ready, Prepares, Preparing, Building, Ends, Ending, TakesUp, TakingUp,
     Interrupted
<1>3. ASSUME Sends
      PROVE  Sends' /\ chip.air > 0 /\ chip'.air = chip.air - 1
  BY <1>1, <1>3, TickOnAir DEF Sends
<1>4. ASSUME Idle
      PROVE  Idle' /\ UNCHANGED chip
  BY <1>1, <1>4, TickReceiving DEF Idle, Silent
<1>5. ASSUME Guards
      PROVE  Guards' /\ left > 0 /\ left' = left - 1 /\ UNCHANGED chip
  BY <1>1, <1>5, TickReceiving DEF Guards, Silent, Ready, Elapses, Greatest
<1>. QED  BY <1>1, <1>2, <1>3, <1>4, <1>5 DEF Elapses

\* A stretch is where it is, and only one of them transmits.
LEMMA Stretches ==
  ASSUME IInv
  PROVE  /\ Prepares \/ Ends \/ Idle \/ TakesUp \/ Guards => chip.mode # "TX"
         /\ Idle \/ TakesUp \/ Guards => chip.mode = "RX"
         /\ Prepares \/ Sends \/ Ends \/ Idle \/ TakesUp \/ Guards => pc # "accept"
         /\ Prepares \/ Ends \/ TakesUp \/ Guards => ~Idle /\ ~Sends
         /\ chip.air \in 0..TOA /\ left \in Nat /\ due \in Int
<1>1. chip.air \in 0..TOA /\ left \in Nat /\ due \in Int
  BY PortAssumption DEF IInv, TypeOK, PortTypeOK, Chip
<1>. QED
  BY <1>1 DEF Prepares, Preparing, Building, Sends, OnAir, Ends, Ending, Interrupted, Idle,
     Silent, TakesUp, TakingUp, Guards

\* Nobody presses Ctrl+C, and a call that fails is counted.
LEMMA Bystanders ==
  ASSUME IInv, \/ Host \/ GndReconnected \/ TxDone \/ Tick
               \/ ClientWrites \/ ClientReads \/ ClientCloses
  PROVE  g_stop' = g_stop /\ faults' \in {faults, faults - 1}
<1>1. CASE Host
  <2>1. \A ok \in BOOLEAN : \A c : HalWrite(c, ok) \/ HalRead(ok) => faults' \in {faults, faults - 1}
    BY DEF HalWrite, HalRead
  <2>2. ASSUME NEW ok \in BOOLEAN, ReadPacket(Peer, ok)
        PROVE  faults' \in {faults, faults - 1}
    BY <2>1, <2>2 DEF ReadPacket
  <2>3. ASSUME NEW wanted, PollReturns(wanted)
        PROVE  UNCHANGED <<g_stop, faults>>
    BY <2>3 DEF PollReturns
  <2>4. CASE Helper
    BY <2>1, <2>3, <2>4 DEF Helper, SendStandby, SendClear, SendBuffer, SendTx,
       SendCall, WaitEnds, WaitPoll, GetIrq, ClearIrqRead, RxClear, RxSet
  <2>5. CASE GndRead
    BY <2>1, <2>2, <2>5 DEF GndRead, WriteToNobody
  <2>. QED
    BY <1>1, <2>1, <2>3, <2>4, <2>5 DEF Host, GndTop, GndListenEnds, GndPoll, GndHandleIrq,
       GndSigpipe, GndRearm, GndGuard, GndProbe, GndAcceptFails, GndBuild, GndSendFailed,
       GndSent, GndStops, GndExit
<1>2. CASE TxDone \/ Tick \/ GndReconnected \/ ClientWrites \/ ClientReads \/ ClientCloses
  BY <1>2 DEF TxDone, Tick, Elapses, GndReconnected, ClientWrites, ClientReads, ClientCloses,
     PeerWrites, PeerReads, Around
<1>. QED  BY <1>1, <1>2

=============================================================================
