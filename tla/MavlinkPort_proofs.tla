------------------------- MODULE MavlinkPort_proofs -------------------------
(* What the helpers of the bridge, the transport, the radio and the clock do *)
(* to the state both sides share, for every value of the constants.          *)
EXTENDS MavlinkPort, SequenceTheorems, TLAPS

(***************************************************************************)
(* The radio keeps its types, and what a call does.                        *)
(***************************************************************************)
\* A command to the radio leaves it a radio.
LEMMA CommandsType ==
  ASSUME NEW c \in Chip
  PROVE  /\ SetStandby(c) \in Chip
         /\ SetRx(c) \in Chip
         /\ SetTx(c) \in Chip
         /\ SetCad(c) \in Chip
         /\ SetTxCw(c) \in Chip
         /\ Reset(c) \in Chip
         /\ \A f \in Frame : WriteBuffer(c, f) \in Chip
         /\ \A bits : ClearIrq(c, bits) \in Chip
         /\ DrainEdges(c) \in Chip
<1>1. 0 \in 0..TOA /\ TOA \in 0..TOA
  BY ToaAssumption
<1>2. SetStandby(c) \in Chip /\ SetRx(c) \in Chip /\ SetTx(c) \in Chip
  BY <1>1 DEF Chip, SetStandby, SetRx, SetTx
<1>3. (\A f \in Frame : WriteBuffer(c, f) \in Chip) /\ DrainEdges(c) \in Chip
  BY DEF Chip, WriteBuffer, DrainEdges
<1>4. \A bits : ClearIrq(c, bits) \in Chip
  BY DEF Chip, ClearIrq
<1>5. SetCad(c) \in Chip /\ SetTxCw(c) \in Chip
  BY <1>1 DEF Chip, SetCad, SetTxCw
<1>6. Reset(c) \in Chip
  <2>1. NoFrame \in Frame
    BY DEF NoFrame, Frame, Roles
  <2>. QED  BY <1>1, <2>1 DEF Chip, Reset, PowerOn
<1>. QED  BY <1>2, <1>3, <1>4, <1>5, <1>6

\* So does what the radio does by itself.
LEMMA EventsType ==
  ASSUME NEW c \in Chip
  PROVE  /\ TxEnd(c) \in Chip
         /\ \A f \in Frame : \A e \in SUBSET IrqBits : RxEnd(c, f, e) \in Chip
         /\ RxFails(c) \in Chip
         /\ TxFails(c) \in Chip
         /\ \A found \in BOOLEAN : CadEnd(c, found) \in Chip
         /\ MayElapse(c) => Elapse(c) \in Chip
<1>1. \A d \in Chip : \A bits \in SUBSET IrqBits : Raise(d, bits) \in Chip
  BY DEF Chip, Raise
<1>2. TxEnd(c) \in Chip /\ RxFails(c) \in Chip /\ TxFails(c) \in Chip
  <2>1. [c EXCEPT !.mode = "STDBY"] \in Chip /\ [c EXCEPT !.lock = FALSE] \in Chip
    BY DEF Chip
  <2>2. /\ {"TX_DONE"} \in SUBSET IrqBits
       /\ {"HEADER_ERROR"} \in SUBSET IrqBits
       /\ {"ERROR"} \in SUBSET IrqBits
    BY DEF IrqBits
  <2>. QED  BY <1>1, <2>1, <2>2 DEF TxEnd, RxFails, TxFails
<1>3. ASSUME NEW f \in Frame, NEW e \in SUBSET IrqBits
      PROVE  RxEnd(c, f, e) \in Chip
  <2>1. [c EXCEPT !.lock = FALSE, !.rxfifo = f, !.fresh = TRUE] \in Chip
    BY DEF Chip
  <2>2. {"RX_DONE"} \cup e \in SUBSET IrqBits
    BY DEF IrqBits
  <2>. QED  BY <1>1, <2>1, <2>2 DEF RxEnd
<1>4. MayElapse(c) => Elapse(c) \in Chip
  BY ToaAssumption DEF Chip, MayElapse, Elapse
<1>5. ASSUME NEW found \in BOOLEAN
      PROVE  CadEnd(c, found) \in Chip
  <2>. DEFINE bits == {"CAD_DONE"} \cup (IF found THEN {"CAD_DETECTED"} ELSE {})
  <2>1. [c EXCEPT !.mode = "STDBY"] \in Chip
    BY DEF Chip
  <2>2. bits \in SUBSET IrqBits
    BY DEF IrqBits
  <2>. HIDE DEF bits
  <2>3. Raise([c EXCEPT !.mode = "STDBY"], bits) \in Chip
    BY <1>1, <2>1, <2>2
  <2>. QED  BY <2>3 DEF CadEnd, bits
<1>. QED  BY <1>2, <1>3, <1>4, <1>5

\* A call that succeeds is carried out; one that fails may be.
LEMMA HalEffect ==
  ASSUME faults \in 0..MaxFaults, NEW ok \in BOOLEAN
  PROVE  /\ \A c : HalWrite(c, ok) =>
              /\ faults' \in 0..MaxFaults
              /\ chip' \in {chip, c}
              /\ ok => chip' = c
              /\ faults' = IF ok THEN faults ELSE faults - 1
         /\ HalRead(ok) => /\ faults' \in 0..MaxFaults
                           /\ faults' = IF ok THEN faults ELSE faults - 1
<1>1. MaxFaults \in Nat
  BY FaultsAssumption
<1>2. CASE ok
  BY <1>1, <1>2 DEF HalWrite, HalRead
<1>3. CASE ~ok
  BY <1>1, <1>3 DEF HalWrite, HalRead
<1>. QED  BY <1>2, <1>3

(***************************************************************************)
(* The byte queues.                                                        *)
(***************************************************************************)
LEMMA ChunkType ==
  ASSUME inq \in Seq(Nat)
  PROVE  /\ Chunk \in Seq(Nat) /\ Len(Chunk) = Least(READ_MAX, Len(inq))
         /\ Undrained \in Seq(Nat)
<1>1. READ_MAX \in Nat \ {0}
  BY PortAssumption
<1>2. Least(READ_MAX, Len(inq)) \in 0..Len(inq)
  BY <1>1 DEF Least
<1>. QED  BY <1>2 DEF Chunk, Undrained

LEMMA FilledType ==
  ASSUME inq \in Seq(Nat), txbuf \in Seq(Nat), Len(txbuf) <= TXBUF_SIZE
  PROVE  Filled \in Seq(Nat) /\ Len(Filled) <= TXBUF_SIZE
BY ChunkType, PortAssumption DEF Filled

LEMMA PacketType ==
  ASSUME NEW b \in Seq(Nat), NEW role \in Roles
  PROVE  /\ Packet(b, role) \in Frame
         /\ Len(Packet(b, role).data) <= MAX_PKT_DATA
         /\ Unsent(b) \in Seq(Nat)
         /\ Len(Unsent(b)) <= Len(b)
<1>. DEFINE n == Least(MAX_PKT_DATA, Len(b))
<1>1. n \in 0..Len(b) /\ n <= MAX_PKT_DATA /\ MAX_PKT_DATA \in Nat
  BY PortAssumption DEF Least
<1>. HIDE DEF n
<1>2. SubSeq(b, 1, n) \in Seq(Nat) /\ Len(SubSeq(b, 1, n)) = n
  BY <1>1
<1>3. SubSeq(b, n + 1, Len(b)) \in Seq(Nat) /\ Len(SubSeq(b, n + 1, Len(b))) = Len(b) - n
  BY <1>1
<1>. QED  BY <1>1, <1>2, <1>3 DEF n, Packet, Unsent, Frame

LEMMA WrittenType ==
  ASSUME PortTypeOK, NEW f \in Frame
  PROVE  /\ outq \o SubSeq(f.data, 1, Writable(f)) \in Seq(Nat)
         /\ Len(outq \o SubSeq(f.data, 1, Writable(f))) <= OUT_CAP
<1>. DEFINE n == Writable(f)
<1>1. f.data \in Seq(Nat) /\ outq \in Seq(Nat) /\ Len(outq) <= OUT_CAP /\ OUT_CAP \in Nat
  BY PortAssumption DEF PortTypeOK, Frame
<1>2. n \in 0..Len(f.data) /\ n <= OUT_CAP - Len(outq)
  BY <1>1 DEF Writable, Least
<1>. HIDE DEF n
<1>3. SubSeq(f.data, 1, n) \in Seq(Nat) /\ Len(SubSeq(f.data, 1, n)) = n
  BY <1>1, <1>2
<1>. QED  BY <1>1, <1>2, <1>3 DEF n

(***************************************************************************)
(* The steps.                                                              *)
(***************************************************************************)
LEMMA HalType ==
  ASSUME PortTypeOK, NEW ok \in BOOLEAN
  PROVE  /\ \A c \in Chip : HalWrite(c, ok) => chip' \in Chip /\ faults' \in 0..MaxFaults
         /\ HalRead(ok) => faults' \in 0..MaxFaults
BY HalEffect DEF PortTypeOK

LEMMA SendType ==
  ASSUME PortTypeOK, SendStandby \/ SendClear \/ SendBuffer \/ SendTx
  PROVE  PortTypeOK'
<1>1. chip \in Chip /\ pkt \in Frame /\ TX_WAIT_MS \in Nat
  BY PortAssumption DEF PortTypeOK
<1>. DEFINE Rest == UNCHANGED <<irq, txbuf, got, pkt, led_tx, inq, outq, offered, g_stop>>
<1>2. ASSUME NEW c \in Chip, NEW step, NEW next, SendCall(step, c, next)
      PROVE  chip' \in Chip /\ faults' \in 0..MaxFaults /\ Rest
  BY <1>2, HalType DEF SendCall
<1>3. CASE SendStandby
  <2>. chip' \in Chip /\ faults' \in 0..MaxFaults /\ Rest
    BY <1>1, <1>2, <1>3, CommandsType DEF SendStandby
  <2>. QED  BY <1>3 DEF SendStandby, PortTypeOK
<1>4. CASE SendClear
  <2>. chip' \in Chip /\ faults' \in 0..MaxFaults /\ Rest
    BY <1>1, <1>2, <1>4, CommandsType DEF SendClear
  <2>. QED  BY <1>4 DEF SendClear, PortTypeOK
<1>5. CASE SendBuffer
  <2>. chip' \in Chip /\ faults' \in 0..MaxFaults /\ Rest
    BY <1>1, <1>2, <1>5, CommandsType DEF SendBuffer
  <2>. QED  BY <1>5 DEF SendBuffer, PortTypeOK
<1>6. CASE SendTx
  <2>. chip' \in Chip /\ faults' \in 0..MaxFaults /\ Rest
    BY <1>1, <1>2, <1>6, CommandsType DEF SendTx
  <2>. QED  BY <1>1, <1>6 DEF SendTx, PortTypeOK
<1>. QED  BY <1>3, <1>4, <1>5, <1>6

LEMMA PollType ==
  ASSUME PortTypeOK, NEW wanted, PollReturns(wanted)
  PROVE  PortTypeOK'
<1>1. /\ Filled \in Seq(Nat) /\ Len(Filled) <= TXBUF_SIZE
      /\ Undrained \in Seq(Nat)
      /\ DrainEdges(chip) \in Chip
  BY ChunkType, FilledType, CommandsType DEF PortTypeOK
<1>2. /\ txbuf' \in Seq(Nat) /\ Len(txbuf') <= TXBUF_SIZE
      /\ inq' \in Seq(Nat)
      /\ chip' \in Chip
  BY <1>1 DEF PollReturns, DrainTransport, PortTypeOK
<1>. QED  BY <1>2 DEF PollReturns, PortTypeOK

LEMMA HelperType ==
  ASSUME PortTypeOK, Helper
  PROVE  PortTypeOK'
<1>1. chip \in Chip /\ irq \subseteq IrqBits /\ chip.irq \subseteq IrqBits
  BY DEF PortTypeOK, Chip
<1>2. CASE SendStandby \/ SendClear \/ SendBuffer \/ SendTx
  BY <1>2, SendType
<1>3. CASE WaitEnds
  BY <1>3 DEF WaitEnds, PortTypeOK
<1>4. CASE WaitPoll
  BY <1>4, PollType DEF WaitPoll
<1>5. CASE GetIrq
  <2>1. irq' \subseteq IrqBits /\ faults' \in 0..MaxFaults
    BY <1>1, <1>5, HalType DEF GetIrq, IrqReturns
  <2>. QED  BY <1>5, <2>1 DEF GetIrq, PortTypeOK
<1>6. CASE ClearIrqRead
  <2>1. irq' \subseteq IrqBits /\ chip' \in Chip /\ faults' \in 0..MaxFaults
    BY <1>1, <1>6, HalType, CommandsType DEF ClearIrqRead, IrqReturns
  <2>. QED  BY <1>6, <2>1 DEF ClearIrqRead, PortTypeOK
<1>7. CASE RxClear
  <2>1. chip' \in Chip /\ faults' \in 0..MaxFaults
    BY <1>1, <1>7, HalType, CommandsType DEF RxClear
  <2>. QED  BY <1>7, <2>1 DEF RxClear, PortTypeOK
<1>8. CASE RxSet
  <2>1. chip' \in Chip /\ faults' \in 0..MaxFaults
    BY <1>1, <1>8, HalType, CommandsType DEF RxSet
  <2>. QED  BY <1>8, <2>1 DEF RxSet, PortTypeOK
<1>. QED  BY <1>2, <1>3, <1>4, <1>5, <1>6, <1>7, <1>8 DEF Helper

LEMMA ReadType ==
  ASSUME PortTypeOK, NEW role, NEW ok \in BOOLEAN, ReadPacket(role, ok)
  PROVE  /\ chip' \in Chip /\ faults' \in 0..MaxFaults
         /\ outq' \in Seq(Nat) /\ Len(outq') <= OUT_CAP
<1>1. chip \in Chip /\ chip.rxfifo \in Frame /\ outq \in Seq(Nat) /\ Len(outq) <= OUT_CAP
  BY DEF PortTypeOK, Chip
<1>2. faults' \in 0..MaxFaults
  BY HalType DEF ReadPacket
<1>3. chip' \in Chip
  BY <1>1 DEF ReadPacket, Chip
<1>4. outq' \in Seq(Nat) /\ Len(outq') <= OUT_CAP
  BY <1>1, WrittenType DEF ReadPacket
<1>. QED  BY <1>2, <1>3, <1>4

\* The peer program, Ctrl+C, the end of a transmission and the clock.
LEMMA SurroundingsType ==
  ASSUME PortTypeOK, PeerWrites \/ PeerReads \/ CtrlC \/ TxDone \/ Elapses
  PROVE  PortTypeOK'
<1>1. CASE PeerWrites
  <2>1. MaxBytes \in Nat
    BY PortAssumption
  <2>2. offered' \in 0..MaxBytes
    BY <1>1, <2>1 DEF PeerWrites, PortTypeOK
  <2>3. inq' \in Seq(Nat)
    BY <1>1, <2>1 DEF PeerWrites, PortTypeOK
  <2>. QED  BY <1>1, <2>2, <2>3 DEF PeerWrites, Around, PortTypeOK
<1>2. CASE PeerReads
  <2>1. outq' \in Seq(Nat) /\ Len(outq') <= OUT_CAP
    <3>1. outq \in Seq(Nat) /\ Len(outq) <= OUT_CAP /\ outq # <<>> /\ outq' = Tail(outq)
      BY <1>2 DEF PeerReads, PortTypeOK
    <3>2. OUT_CAP \in Nat
      BY PortAssumption
    <3>. QED  BY <3>1, <3>2
  <2>. QED  BY <1>2, <2>1 DEF PeerReads, Around, PortTypeOK
<1>3. CASE CtrlC
  BY <1>3 DEF CtrlC, Around, PortTypeOK
<1>4. CASE TxDone
  <2>1. chip' \in Chip
    BY <1>4, EventsType DEF TxDone, PortTypeOK
  <2>. QED  BY <1>4, <2>1 DEF TxDone, Around, PortTypeOK
<1>5. CASE Elapses
  <2>1. chip' \in Chip
    BY <1>5, EventsType DEF Elapses, PortTypeOK
  <2>2. left' \in Nat
    BY <1>5 DEF Elapses, Greatest, PortTypeOK
  <2>. QED  BY <1>5, <2>1, <2>2 DEF Elapses, Around, PortTypeOK
<1>. QED  BY <1>1, <1>2, <1>3, <1>4, <1>5

LEMMA HeardType ==
  ASSUME PortTypeOK, NEW f \in Frame,
         FrameEnds(f) \/ (\E kind \in Noise : NoiseEnds(f, kind))
  PROVE  PortTypeOK'
<1>1. chip \in Chip
  BY DEF PortTypeOK
<1>2. Damaged(f) \in Frame /\ NoFrame \in Frame
  <2>1. [f EXCEPT !.data = [i \in DOMAIN f.data |-> Corrupt]] \in Frame
    <3>1. f.data \in Seq(Nat) /\ Corrupt \in Nat
      BY DEF Frame, Corrupt
    <3>2. [i \in DOMAIN f.data |-> Corrupt] \in Seq(Nat)
      BY <3>1
    <3>. QED  BY <3>2 DEF Frame
  <2>. QED  BY <2>1 DEF Damaged, NoFrame, Frame, Roles
<1>3. {} \in SUBSET IrqBits /\ {"CRC_ERROR"} \in SUBSET IrqBits
  BY DEF IrqBits
<1>4. chip' \in Chip
  <2>1. CASE FrameEnds(f)
    BY <1>1, <1>3, <2>1, EventsType DEF FrameEnds
  <2>2. ASSUME NEW kind \in Noise, NoiseEnds(f, kind)
        PROVE  chip' \in Chip
    <3>1. kind \in {"crc", "foreign", "header"}
      BY PortAssumption
    <3>. QED  BY <1>1, <1>2, <1>3, <2>2, <3>1, EventsType DEF NoiseEnds
  <2>. QED  BY <2>1, <2>2
<1>5. UNCHANGED <<irq, txbuf, got, left, pkt, led_tx, inq, outq, offered, g_stop,
                  faults, aired>>
  BY DEF FrameEnds, NoiseEnds, Chips, Around
<1>. QED  BY <1>4, <1>5 DEF PortTypeOK

LEMMA PortInitType ==
  ASSUME NEW step, NEW back, PortInit(step, back)
  PROVE  PortTypeOK
<1>1. NoFrame \in Frame /\ Len(NoFrame.data) = 0
  BY DEF NoFrame, Frame, Roles
<1>2. PowerOn \in Chip
  BY <1>1, ToaAssumption DEF PowerOn, Chip
<1>3. /\ TXBUF_SIZE \in Nat /\ MAX_PKT_DATA \in Nat /\ OUT_CAP \in Nat
      /\ MaxBytes \in Nat /\ MaxFaults \in Nat
  BY PortAssumption, FaultsAssumption
<1>4. /\ irq \subseteq IrqBits /\ got \in BOOLEAN /\ left \in Nat /\ led_tx \in BOOLEAN
      /\ chip \in Chip /\ g_stop \in BOOLEAN /\ aired \in BOOLEAN
  BY <1>2 DEF PortInit
<1>5. /\ txbuf \in Seq(Nat) /\ Len(txbuf) <= TXBUF_SIZE
      /\ inq \in Seq(Nat)
      /\ outq \in Seq(Nat) /\ Len(outq) <= OUT_CAP
  BY <1>3 DEF PortInit
<1>6. pkt \in Frame /\ Len(pkt.data) <= MAX_PKT_DATA
  BY <1>1, <1>3 DEF PortInit
<1>7. offered \in 0..MaxBytes /\ faults \in 0..MaxFaults
  BY <1>3 DEF PortInit
<1>. QED  BY <1>4, <1>5, <1>6, <1>7 DEF PortTypeOK

(***************************************************************************)
(* What commands and events do to the interrupt status.                    *)
(***************************************************************************)
\* A command either took place or, failing, perhaps did not.
LEMMA HalOutcome ==
  ASSUME NEW c, NEW ok \in BOOLEAN, HalWrite(c, ok)
  PROVE  /\ ok => chip' = c /\ faults' = faults
         /\ ~ok => chip' \in {chip, c} /\ faults > 0 /\ faults' = faults - 1
BY DEF HalWrite

LEMMA CommandEffects ==
  ASSUME NEW c \in Chip
  PROVE  /\ SetStandby(c).mode = "STDBY" /\ SetStandby(c).irq = c.irq
         /\ SetStandby(c).fresh = c.fresh
         /\ SetRx(c).irq = c.irq /\ SetRx(c).fresh = c.fresh
         /\ SetTx(c).irq = c.irq /\ SetTx(c).fresh = c.fresh
         /\ \A f : /\ WriteBuffer(c, f).irq = c.irq /\ WriteBuffer(c, f).mode = c.mode
                   /\ WriteBuffer(c, f).fresh = c.fresh
         /\ \A bits : /\ ClearIrq(c, bits).irq = c.irq \ bits
                      /\ ClearIrq(c, bits).mode = c.mode
                      /\ ClearIrq(c, bits).fresh = c.fresh
         /\ DrainEdges(c).irq = c.irq /\ DrainEdges(c).mode = c.mode
         /\ DrainEdges(c).fresh = c.fresh
BY DEF Chip, SetStandby, SetRx, SetTx, WriteBuffer, ClearIrq, DrainEdges

\* What happens around the process never leaves standby, sets TX_DONE only for
\* the frame that went out and RX_DONE only for a new frame.
SameOrNewer ==
  /\ chip.mode = "STDBY" => chip'.mode = "STDBY"
  /\ "TX_DONE" \in chip'.irq => "TX_DONE" \in chip.irq \/ (chip.mode = "TX" /\ aired')
  /\ aired => aired'
  /\ "RX_DONE" \in chip'.irq /\ "RX_DONE" \notin chip.irq => chip'.fresh
  /\ chip.fresh => chip'.fresh

LEMMA ChipAround ==
  ASSUME chip \in Chip, TxDone \/ Elapses \/ PeerWrites \/ PeerReads \/ CtrlC
  PROVE  SameOrNewer
<1>1. CASE TxDone
  <2>1. chip'.irq = chip.irq \cup {"TX_DONE"} /\ chip'.fresh = chip.fresh
    BY <1>1 DEF TxDone, TxEnd, Raise, Chip
  <2>. QED  BY <1>1, <2>1 DEF TxDone, SameOrNewer
<1>2. CASE Elapses
  <2>1. chip'.mode = chip.mode /\ chip'.irq = chip.irq /\ chip'.fresh = chip.fresh
    BY <1>2 DEF Elapses, Elapse, Chip
  <2>. QED  BY <1>2, <2>1 DEF Elapses, SameOrNewer
<1>3. CASE PeerWrites \/ PeerReads \/ CtrlC
  BY <1>3 DEF PeerWrites, PeerReads, CtrlC, SameOrNewer
<1>. QED  BY <1>1, <1>2, <1>3

LEMMA ChipHears ==
  ASSUME chip \in Chip, NEW f \in Frame,
         FrameEnds(f) \/ (\E kind \in Noise : NoiseEnds(f, kind))
  PROVE  SameOrNewer
<1>1. CASE FrameEnds(f)
  BY <1>1 DEF FrameEnds, RxEnd, Raise, Chips, Chip, SameOrNewer
<1>2. ASSUME NEW kind \in Noise, NoiseEnds(f, kind)
      PROVE  SameOrNewer
  <2>1. kind \in {"crc", "foreign", "header"}
    BY PortAssumption
  <2>. QED  BY <1>2, <2>1 DEF NoiseEnds, RxEnd, RxFails, Raise, Chips, Chip, SameOrNewer
<1>. QED  BY <1>1, <1>2

(***************************************************************************)
(* Queues in order: their parts and what is joined from them.              *)
(***************************************************************************)
LEMMA EmptyInOrder == Bytes(<<>>) = {} /\ Increasing(<<>>)
BY DEF Bytes, Increasing

LEMMA PartInOrder ==
  ASSUME NEW s \in Seq(Nat), NEW m \in Nat, NEW n \in Nat, n <= Len(s)
  PROVE  /\ Bytes(SubSeq(s, m + 1, n)) \subseteq Bytes(s)
         /\ Increasing(s) => Increasing(SubSeq(s, m + 1, n))
<1>. DEFINE t == SubSeq(s, m + 1, n)
<1>1. /\ Len(t) = (IF m + 1 <= n THEN n - m ELSE 0)
      /\ \A i \in 1..n - m : t[i] = s[i + m]
  <2>1. \A i \in m + 1..n : i \in 1..Len(s)
    OBVIOUS
  <2>2. t \in Seq(Nat) /\ Len(t) = (IF m + 1 <= n THEN n - m ELSE 0)
    BY <2>1
  <2>3. ASSUME NEW i \in 1..n - m
        PROVE  t[i] = s[i + m]
    <3>1. i \in 1..(n - (m + 1)) + 1 /\ (m + 1) + i - 1 = i + m
      OBVIOUS
    <3>. QED  BY <2>1, <3>1
  <2>. QED  BY <2>2, <2>3
<1>. HIDE DEF t
<1>4. \A i \in 1..Len(t) : i + m \in 1..Len(s) /\ t[i] = s[i + m]
  BY <1>1
<1>2. Bytes(t) \subseteq Bytes(s)
  BY <1>4 DEF Bytes
<1>3. ASSUME Increasing(s)
      PROVE  Increasing(t)
  BY <1>1, <1>3, <1>4 DEF Increasing
<1>. QED  BY <1>2, <1>3 DEF t

LEMMA SplitInOrder ==
  ASSUME NEW s \in Seq(Nat), Increasing(s), NEW n \in 0..Len(s)
  PROVE  Before(Bytes(SubSeq(s, 1, n)), Bytes(SubSeq(s, n + 1, Len(s))))
<1>. DEFINE t == SubSeq(s, 1, n)
            u == SubSeq(s, n + 1, Len(s))
<1>1. /\ Len(t) = n /\ \A i \in 1..n : t[i] = s[i]
      /\ Len(u) = Len(s) - n /\ \A i \in 1..Len(s) - n : u[i] = s[i + n]
  <2>1. /\ \A i \in 1..n : s[i] \in Nat
        /\ \A i \in n + 1..Len(s) : s[i] \in Nat
    OBVIOUS
  <2>2. Len(t) = n /\ \A i \in 1..n : t[i] = s[i]
    BY <2>1, SubSeqProperties
  <2>3. Len(u) = Len(s) - n /\ \A i \in 1..Len(s) - n : u[i] = s[i + n]
    BY <2>1, SubSeqProperties
  <2>. QED  BY <2>2, <2>3
<1>. HIDE DEF t, u
<1>2. ASSUME NEW i \in 1..Len(t), NEW j \in 1..Len(u)
      PROVE  t[i] < u[j]
  <2>1. i \in 1..Len(s) /\ j + n \in 1..Len(s) /\ i < j + n
    BY <1>1
  <2>. QED  BY <1>1, <2>1 DEF Increasing
<1>. QED  BY <1>2 DEF Before, Bytes, t, u

LEMMA JoinInOrder ==
  ASSUME NEW s \in Seq(Nat), NEW t \in Seq(Nat)
  PROVE  /\ Bytes(s \o t) = Bytes(s) \cup Bytes(t)
         /\ Increasing(s) /\ Increasing(t) /\ Before(Bytes(s), Bytes(t)) => Increasing(s \o t)
<1>. DEFINE u == s \o t
<1>1. /\ Len(u) = Len(s) + Len(t) /\ Len(s) \in Nat /\ Len(t) \in Nat
      /\ \A i \in 1..Len(s) : u[i] = s[i]
      /\ \A i \in 1..Len(t) : u[i + Len(s)] = t[i]
      /\ \A i \in 1..Len(u) : i > Len(s) => u[i] = t[i - Len(s)]
  OBVIOUS
<1>. HIDE DEF u
<1>2. Bytes(u) \subseteq Bytes(s) \cup Bytes(t)
  <2>1. ASSUME NEW i \in 1..Len(u)
        PROVE  u[i] \in Bytes(s) \cup Bytes(t)
    <3>1. CASE i <= Len(s)
      BY <1>1, <3>1 DEF Bytes
    <3>2. CASE i > Len(s)
      <4>1. i - Len(s) \in 1..Len(t)
        BY <1>1, <3>2
      <4>. QED  BY <1>1, <3>2, <4>1 DEF Bytes
    <3>. QED  BY <1>1, <3>1, <3>2
  <2>. QED  BY <2>1 DEF Bytes
<1>3. Bytes(s) \subseteq Bytes(u)
  <2>1. \A i \in 1..Len(s) : i \in 1..Len(u)
    BY <1>1
  <2>. QED  BY <1>1, <2>1 DEF Bytes
<1>4. Bytes(t) \subseteq Bytes(u)
  <2>1. \A i \in 1..Len(t) : i + Len(s) \in 1..Len(u)
    BY <1>1
  <2>. QED  BY <1>1, <2>1 DEF Bytes
<1>5. ASSUME Increasing(s), Increasing(t), Before(Bytes(s), Bytes(t)),
             NEW i \in 1..Len(u), NEW j \in 1..Len(u), i < j
      PROVE  u[i] < u[j]
  <2>1. CASE j <= Len(s)
    <3>1. i \in 1..Len(s) /\ j \in 1..Len(s) /\ u[i] = s[i] /\ u[j] = s[j]
      BY <1>1, <1>5, <2>1
    <3>. QED  BY <1>5, <3>1 DEF Increasing
  <2>2. CASE i > Len(s)
    <3>1. i - Len(s) \in 1..Len(t) /\ j - Len(s) \in 1..Len(t) /\ i - Len(s) < j - Len(s)
      BY <1>1, <1>5, <2>2
    <3>2. u[i] = t[i - Len(s)] /\ u[j] = t[j - Len(s)]
      BY <1>1, <1>5, <2>2
    <3>. QED  BY <1>5, <3>1, <3>2 DEF Increasing
  <2>3. CASE i <= Len(s) /\ j > Len(s)
    <3>1. i \in 1..Len(s) /\ u[i] = s[i]
      BY <1>1, <2>3
    <3>2. j - Len(s) \in 1..Len(t) /\ u[j] = t[j - Len(s)]
      BY <1>1, <2>3
    <3>. QED  BY <1>5, <3>1, <3>2 DEF Before, Bytes
  <2>. QED  BY <1>1, <2>1, <2>2, <2>3
<1>. QED  BY <1>2, <1>3, <1>4, <1>5 DEF Increasing, u

LEMMA AppendInOrder ==
  ASSUME NEW s \in Seq(Nat), NEW b \in Nat
  PROVE  /\ Bytes(Append(s, b)) = Bytes(s) \cup {b}
         /\ Increasing(s) /\ Before(Bytes(s), {b}) => Increasing(Append(s, b))
<1>1. /\ <<b>> \in Seq(Nat) /\ Append(s, b) = s \o <<b>>
      /\ Bytes(<<b>>) = {b} /\ Increasing(<<b>>)
  BY DEF Bytes, Increasing
<1>. QED  BY <1>1, JoinInOrder

\* What drain_transport leaves: nothing overtakes anything.
LEMMA DrainInOrder ==
  ASSUME PortTypeOK, Increasing(inq), Increasing(txbuf), Before(Bytes(txbuf), Bytes(inq))
  PROVE  /\ Increasing(Filled) /\ Increasing(Undrained)
         /\ Before(Bytes(Filled), Bytes(Undrained))
         /\ Bytes(Filled) \subseteq Queued /\ Bytes(Undrained) \subseteq Queued
<1>. DEFINE n == Least(READ_MAX, Len(inq))
            c == SubSeq(inq, 1, n)
            u == SubSeq(inq, n + 1, Len(inq))
<1>1. inq \in Seq(Nat) /\ txbuf \in Seq(Nat) /\ n \in 0..Len(inq)
  BY PortAssumption DEF PortTypeOK, Least
<1>2. c = Chunk /\ c \in Seq(Nat) /\ Len(c) = n /\ u = Undrained
  BY <1>1, ChunkType DEF Chunk, Undrained
<1>3. Bytes(c) \subseteq Bytes(inq) /\ Increasing(c)
  <2>1. c = SubSeq(inq, 0 + 1, n)
    OBVIOUS
  <2>. QED  BY <1>1, <2>1, PartInOrder
<1>4. Bytes(u) \subseteq Bytes(inq) /\ Increasing(u)
  BY <1>1, PartInOrder
<1>5. Before(Bytes(c), Bytes(u))
  BY <1>1, SplitInOrder
<1>. HIDE DEF n, c, u
<1>6. /\ Bytes(txbuf \o c) = Bytes(txbuf) \cup Bytes(c)
      /\ Increasing(txbuf \o c)
  <2>1. Before(Bytes(txbuf), Bytes(c))
    BY <1>3 DEF Before
  <2>. QED  BY <1>1, <1>2, <1>3, <2>1, JoinInOrder
<1>7. Before(Bytes(txbuf), Bytes(u)) /\ Before(Bytes(txbuf \o c), Bytes(u))
  BY <1>4, <1>5, <1>6 DEF Before
<1>8. Filled \in {txbuf, txbuf \o c}
  BY <1>2 DEF Filled
<1>. QED  BY <1>2, <1>3, <1>4, <1>6, <1>7, <1>8 DEF Queued

LEMMA PacketInOrder ==
  ASSUME NEW b \in Seq(Nat), Increasing(b), NEW role
  PROVE  /\ Increasing(Packet(b, role).data) /\ Increasing(Unsent(b))
         /\ Before(Bytes(Packet(b, role).data), Bytes(Unsent(b)))
         /\ Bytes(Packet(b, role).data) \subseteq Bytes(b)
         /\ Bytes(Unsent(b)) \subseteq Bytes(b)
<1>. DEFINE n == Least(MAX_PKT_DATA, Len(b))
            d == SubSeq(b, 1, n)
<1>1. n \in 0..Len(b)
  BY PortAssumption DEF Least
<1>2. Packet(b, role).data = d /\ Unsent(b) = SubSeq(b, n + 1, Len(b))
  BY DEF Packet, Unsent
<1>3. Bytes(d) \subseteq Bytes(b) /\ Increasing(d)
  <2>1. d = SubSeq(b, 0 + 1, n)
    OBVIOUS
  <2>. QED  BY <1>1, <2>1, PartInOrder
<1>4. Bytes(SubSeq(b, n + 1, Len(b))) \subseteq Bytes(b) /\ Increasing(SubSeq(b, n + 1, Len(b)))
  BY <1>1, PartInOrder
<1>5. Before(Bytes(d), Bytes(SubSeq(b, n + 1, Len(b))))
  BY <1>1, SplitInOrder
<1>. QED  BY <1>2, <1>3, <1>4, <1>5

(***************************************************************************)
(* The steps keep the order.                                               *)
(***************************************************************************)
\* Nothing but a new byte becomes pending.
Flow == /\ offered' \in {offered, offered + 1}
        /\ \A b \in Pending' : b \in Pending \/ b > offered

\* A step that takes up no frame and loads none into the radio.
Carries == /\ \/ UNCHANGED <<txbuf, inq>>
              \/ txbuf' = Filled /\ inq' = Undrained
           /\ UNCHANGED offered
           /\ pkt' \in {pkt, NoFrame}
           /\ chip'.txfifo = chip.txfifo
           /\ chip'.mode = "TX" => chip.mode = "TX"
           /\ pc' \in Building => pc \in Building /\ pkt' = pkt
           /\ pc' = "send_tx" => pc = "send_tx"
           /\ pc = "send_tx" => pc' = "send_tx" \/ pc' \notin Building

LEMMA CarriesInOrder ==
  ASSUME PortTypeOK, Ordered, Carries
  PROVE  Ordered' /\ Flow
<1>1. /\ Increasing(txbuf') /\ Increasing(inq')
      /\ Before(Bytes(txbuf'), Bytes(inq'))
      /\ Queued' \subseteq Queued
  BY DrainInOrder DEF Carries, Ordered, Queued
<1>2. Increasing(pkt'.data) /\ Increasing(chip'.txfifo.data)
  BY EmptyInOrder DEF Carries, Ordered, NoFrame
<1>3. Built' \subseteq Built /\ Sent' = Sent
  BY DEF Carries, Built, Sent
<1>4. Before(Built', Queued') /\ Before(Sent', Queued')
  BY <1>1, <1>3 DEF Ordered, Before
<1>5. pc' = "send_tx" => chip'.txfifo = pkt'
  BY DEF Carries, Ordered, Building
<1>6. pc' # "send_tx" => Before(Sent', Built')
  <2>1. CASE pc = "send_tx" /\ pc' # "send_tx"
    BY <2>1 DEF Carries, Built, Before
  <2>2. CASE pc # "send_tx"
    BY <1>3, <2>2 DEF Ordered, Before
  <2>. QED  BY <2>1, <2>2
<1>7. (Queued \cup Built \cup Sent)' \subseteq 1..offered'
  BY <1>1, <1>3 DEF Carries, Ordered
<1>8. Ordered'
  BY <1>1, <1>2, <1>4, <1>5, <1>6, <1>7 DEF Ordered
<1>9. Pending' \subseteq Pending
  BY <1>1, <1>3 DEF Carries, Pending
<1>. QED  BY <1>8, <1>9 DEF Carries, Flow

\* The commands of a helper load no frame into the radio but WriteBuffer, and none
\* but SetTx makes it transmit.
LEMMA CommandsCarry ==
  ASSUME NEW c \in Chip
  PROVE  /\ SetStandby(c).txfifo = c.txfifo
         /\ SetRx(c).txfifo = c.txfifo /\ SetRx(c).mode = "RX"
         /\ SetTx(c).txfifo = c.txfifo
         /\ \A f : WriteBuffer(c, f).txfifo = f
         /\ \A bits : ClearIrq(c, bits).txfifo = c.txfifo
         /\ DrainEdges(c).txfifo = c.txfifo
BY DEF Chip, SetStandby, SetRx, SetTx, WriteBuffer, ClearIrq, DrainEdges

LEMMA PollCarries ==
  ASSUME PortTypeOK, NEW wanted, PollReturns(wanted), pc \notin Building
  PROVE  Carries
<1>1. chip'.txfifo = chip.txfifo /\ chip'.mode = chip.mode
  BY CommandsCarry, CommandEffects DEF PollReturns, PortTypeOK
<1>. QED  BY <1>1 DEF PollReturns, DrainTransport, Carries, Building

LEMMA HelperInOrder ==
  ASSUME PortTypeOK, Ordered, Helper, ret \notin Building,
         pc \in {"send_clear", "send_buffer", "send_tx"} => chip.mode = "STDBY"
  PROVE  Ordered' /\ Flow
<1>. /\ chip \in Chip /\ Len(chip.txfifo.data) \in Nat /\ Len(pkt.data) \in Nat
     /\ "send_tx" \in Building /\ "send_buffer" \in Building
  BY DEF PortTypeOK, Chip, Frame, Building
<1>. DEFINE Rest == UNCHANGED <<txbuf, inq, offered, pkt>>
<1>1. CASE SendStandby
  <2>1. chip'.txfifo = chip.txfifo /\ (chip'.mode = "TX" => chip.mode = "TX")
    BY <1>1, HalOutcome, CommandEffects, CommandsCarry DEF SendStandby, SendCall
  <2>2. Carries
    BY <1>1, <2>1 DEF SendStandby, SendCall, Carries, Building
  <2>. QED  BY <2>2, CarriesInOrder
<1>2. CASE SendClear
  <2>1. chip'.txfifo = chip.txfifo /\ (chip'.mode = "TX" => chip.mode = "TX")
    BY <1>2, HalOutcome, CommandEffects, CommandsCarry DEF SendClear, SendCall
  <2>2. Carries
    BY <1>2, <2>1 DEF SendClear, SendCall, Carries, Building
  <2>. QED  BY <2>2, CarriesInOrder
<1>3. CASE SendBuffer
  <2>1. PICK ok \in BOOLEAN : /\ HalWrite(WriteBuffer(chip, pkt), ok)
                              /\ pc' = IF ok THEN "send_tx" ELSE "send_failed"
    BY <1>3 DEF SendBuffer, SendCall
  <2>2. /\ Rest /\ pc = "send_buffer" /\ pc' \in {"send_tx", "send_failed"}
        /\ chip.mode = "STDBY" /\ chip'.mode = "STDBY"
        /\ chip'.txfifo \in {chip.txfifo, pkt}
        /\ pc' = "send_tx" => chip'.txfifo = pkt
    BY <1>3, <2>1, HalOutcome, CommandEffects, CommandsCarry DEF SendBuffer, SendCall
  <2>3. /\ Built = Bytes(pkt.data) /\ Built' \subseteq Built
        /\ Sent' \in {Sent, Built} /\ Queued' = Queued
    BY <2>2 DEF Built, Building, Sent, Queued
  <2>4. Before(Sent', Queued') /\ Before(Built', Queued')
    BY <2>3 DEF Ordered, Before
  <2>5. pc' # "send_tx" => Before(Sent', Built')
    BY <2>2 DEF Built, Building, Before
  <2>6. (Queued \cup Built \cup Sent)' \subseteq 1..offered'
    BY <2>2, <2>3 DEF Ordered
  <2>7. Ordered'
    BY <2>2, <2>4, <2>5, <2>6 DEF Ordered
  <2>8. Pending' \subseteq Pending
    BY <2>2, <2>3 DEF Pending
  <2>. QED  BY <2>2, <2>7, <2>8 DEF Flow
<1>4. CASE SendTx
  <2>1. /\ Rest /\ pc = "send_tx" /\ pc' \in {"wait", "send_failed"}
        /\ chip'.txfifo = chip.txfifo /\ chip.txfifo = pkt
    BY <1>4, HalOutcome, CommandsCarry DEF SendTx, SendCall, Ordered
  <2>2. Built' = {} /\ Sent' = Sent /\ Built = Sent /\ Queued' = Queued
    BY <2>1 DEF Built, Building, Sent, Queued
  <2>3. Ordered'
    BY <2>1, <2>2 DEF Ordered, Before
  <2>4. Pending' \subseteq Pending
    BY <2>2 DEF Pending
  <2>. QED  BY <2>1, <2>3, <2>4 DEF Flow
<1>5. CASE WaitEnds
  <2>1. Carries
    BY <1>5 DEF WaitEnds, Carries, Building
  <2>. QED  BY <2>1, CarriesInOrder
<1>6. CASE WaitPoll
  <2>1. Carries
    BY <1>6, PollCarries DEF WaitPoll, Building
  <2>. QED  BY <2>1, CarriesInOrder
<1>7. CASE GetIrq
  <2>1. Carries
    BY <1>7 DEF GetIrq, IrqReturns, Carries, Building
  <2>. QED  BY <2>1, CarriesInOrder
<1>8. CASE ClearIrqRead
  <2>1. chip'.txfifo = chip.txfifo /\ chip'.mode = chip.mode
    BY <1>8, HalOutcome, CommandEffects, CommandsCarry DEF ClearIrqRead
  <2>2. Carries
    BY <1>8, <2>1 DEF ClearIrqRead, IrqReturns, Carries, Building
  <2>. QED  BY <2>2, CarriesInOrder
<1>9. CASE RxClear
  <2>1. chip'.txfifo = chip.txfifo /\ chip'.mode = chip.mode
    BY <1>9, HalOutcome, CommandEffects, CommandsCarry DEF RxClear
  <2>2. Carries
    BY <1>9, <2>1 DEF RxClear, Carries, Building
  <2>. QED  BY <2>2, CarriesInOrder
<1>10. CASE RxSet
  <2>1. chip'.txfifo = chip.txfifo /\ (chip'.mode = "TX" => chip.mode = "TX")
    BY <1>10, HalOutcome, CommandEffects, CommandsCarry DEF RxSet
  <2>2. Carries
    BY <1>10, <2>1 DEF RxSet, Carries, Building
  <2>. QED  BY <2>2, CarriesInOrder
<1>. QED
  BY <1>1, <1>2, <1>3, <1>4, <1>5, <1>6, <1>7, <1>8, <1>9, <1>10 DEF Helper

\* The peer program's byte comes after all that were written before.
LEMMA PeerWritesInOrder ==
  ASSUME PortTypeOK, Ordered, PeerWrites
  PROVE  Ordered' /\ Flow
<1>1. /\ inq \in Seq(Nat) /\ offered \in Nat
      /\ inq' = Append(inq, offered + 1) /\ offered' = offered + 1
      /\ UNCHANGED <<pc, txbuf, pkt, chip>>
  BY PortAssumption DEF PortTypeOK, PeerWrites, Around
<1>2. Queued \cup Built \cup Sent \subseteq 1..offered
  BY DEF Ordered
<1>3. Before(Queued \cup Built \cup Sent, {offered + 1})
  BY <1>1, <1>2 DEF Before
<1>4. Bytes(inq') = Bytes(inq) \cup {offered + 1} /\ Increasing(inq')
  <2>1. Before(Bytes(inq), {offered + 1})
    BY <1>3 DEF Queued, Before
  <2>. QED  BY <1>1, <2>1, AppendInOrder DEF Ordered
<1>5. /\ Queued' = Queued \cup {offered + 1} /\ Built' = Built /\ Sent' = Sent
      /\ Bytes(txbuf') = Bytes(txbuf)
  BY <1>1, <1>4 DEF Queued, Built, Sent
<1>6. /\ Before(Bytes(txbuf'), Bytes(inq'))
      /\ Before(Built', Queued') /\ Before(Sent', Queued')
  BY <1>3, <1>4, <1>5 DEF Ordered, Before, Queued
<1>7. (Queued \cup Built \cup Sent)' \subseteq 1..offered'
  BY <1>1, <1>2, <1>5
<1>8. Ordered'
  BY <1>1, <1>4, <1>5, <1>6, <1>7 DEF Ordered
<1>9. Pending' = Pending \cup {offered + 1}
  BY <1>1, <1>5 DEF Pending
<1>. QED  BY <1>1, <1>8, <1>9 DEF Flow

\* The other steps of the surroundings.
LEMMA SurroundingsInOrder ==
  ASSUME PortTypeOK, Ordered, PeerReads \/ CtrlC \/ TxDone \/ Elapses
  PROVE  Ordered' /\ Flow
<1>. chip \in Chip
  BY DEF PortTypeOK
<1>1. chip'.txfifo = chip.txfifo /\ (chip'.mode = "TX" => chip.mode = "TX")
  BY DEF PeerReads, CtrlC, TxDone, TxEnd, Raise, Elapses, Elapse, Chip
<1>2. Carries
  BY <1>1 DEF PeerReads, CtrlC, TxDone, Elapses, Around, Carries
<1>. QED  BY <1>2, CarriesInOrder

\* A frame that went out whole comes before all that is to be heard after it.
LEMMA TxDoneInOrder ==
  ASSUME PortTypeOK, Ordered, TxDone, pc = "send_tx" => chip.mode = "STDBY"
  PROVE  /\ Sent \subseteq 1..offered' /\ Before(Sent, Pending')
         /\ Sent \subseteq Pending /\ Increasing(chip.txfifo.data)
<1>1. /\ pc # "send_tx" /\ chip.mode = "TX" /\ chip'.mode = "STDBY"
      /\ UNCHANGED <<pc, txbuf, inq, pkt, offered>>
  BY DEF TxDone, TxEnd, Raise, Around, PortTypeOK, Chip
<1>2. Pending' = Queued \cup Built
  BY <1>1 DEF Pending, Queued, Built
<1>. QED  BY <1>1, <1>2 DEF Ordered, Before, Pending

\* What can become of a radio that only listens to the other one.
Hearing(f) == /\ \/ chip' \in {chip, RxEnd(chip, f, {}), RxLost(chip), RxFails(chip)}
                 \/ \E l \in BOOLEAN : chip' = [chip EXCEPT !.lock = l]
              /\ UNCHANGED <<pc, ret, irq, txbuf, got, left, due, pkt, led_tx, inq, outq,
                             offered, g_stop, faults, aired>>

LEMMA HearingInOrder ==
  ASSUME PortTypeOK, Ordered, NEW f \in Frame, Hearing(f)
  PROVE  /\ PortTypeOK' /\ SameOrNewer
         /\ Ordered' /\ Pending' = Pending
<1>. chip \in Chip /\ {} \subseteq IrqBits
  BY DEF PortTypeOK
<1>. DEFINE Heard == /\ chip' \in Chip /\ SameOrNewer
                     /\ chip'.mode = chip.mode /\ chip'.txfifo = chip.txfifo
<1>1. Heard
  <2>1. CASE chip' = chip
    BY <2>1 DEF SameOrNewer, Hearing
  <2>2. CASE chip' = RxEnd(chip, f, {})
    <3>1. chip' \in Chip
      BY <2>2, EventsType
    <3>. QED  BY <2>2, <3>1 DEF RxEnd, Raise, Chip, Hearing, SameOrNewer
  <2>3. CASE chip' = RxFails(chip)
    <3>1. chip' \in Chip
      BY <2>3, EventsType
    <3>. QED  BY <2>3, <3>1 DEF RxFails, Raise, Chip, Hearing, SameOrNewer
  <2>4. ASSUME NEW l \in BOOLEAN, chip' = [chip EXCEPT !.lock = l]
        PROVE  Heard
    BY <2>4 DEF Chip, Hearing, SameOrNewer
  <2>5. CASE chip' = RxLost(chip)
    BY <2>5 DEF RxLost, Chip, Hearing, SameOrNewer
  <2>. QED  BY <2>1, <2>2, <2>3, <2>4, <2>5 DEF Hearing
<1>2. UNCHANGED <<pc, txbuf, inq, pkt, offered>>
  BY DEF Hearing
<1>3. PortTypeOK'
  BY <1>1 DEF Hearing, PortTypeOK
<1>4. Carries
  BY <1>1, <1>2 DEF Carries, Building
<1>5. Pending' = Pending
  BY <1>1, <1>2 DEF Pending, Queued, Built, Sent
<1>. QED  BY <1>1, <1>3, <1>4, <1>5, CarriesInOrder

\* A step that writes nothing to the transport, or some of the frame received, which
\* nobody had accepted before.
Takes == /\ chip'.rxfifo = chip.rxfifo
         /\ chip'.fresh => chip.fresh
         /\ \/ Len(outq') <= Len(outq)
            \/ /\ chip.fresh /\ ~chip'.fresh
               /\ \E n \in 0..Len(chip.rxfifo.data) :
                    outq' = outq \o SubSeq(chip.rxfifo.data, 1, n)

LEMMA CommandsTakeNothing ==
  ASSUME NEW c \in Chip
  PROVE  /\ SetStandby(c).rxfifo = c.rxfifo /\ SetStandby(c).fresh = c.fresh
         /\ SetRx(c).rxfifo = c.rxfifo /\ SetRx(c).fresh = c.fresh
         /\ SetTx(c).rxfifo = c.rxfifo /\ SetTx(c).fresh = c.fresh
         /\ \A f : WriteBuffer(c, f).rxfifo = c.rxfifo /\ WriteBuffer(c, f).fresh = c.fresh
         /\ \A bits : ClearIrq(c, bits).rxfifo = c.rxfifo /\ ClearIrq(c, bits).fresh = c.fresh
         /\ DrainEdges(c).rxfifo = c.rxfifo /\ DrainEdges(c).fresh = c.fresh
BY DEF Chip, SetStandby, SetRx, SetTx, WriteBuffer, ClearIrq, DrainEdges

LEMMA SilentTakes ==
  ASSUME outq \in Seq(Nat), UNCHANGED outq,
         chip'.rxfifo = chip.rxfifo, chip'.fresh => chip.fresh
  PROVE  Takes
<1>. Len(outq) \in Nat
  OBVIOUS
<1>. QED  BY DEF Takes

LEMMA PollTakes ==
  ASSUME PortTypeOK, NEW wanted, PollReturns(wanted)
  PROVE  Takes
<1>1. chip'.rxfifo = chip.rxfifo /\ chip'.fresh = chip.fresh
  BY CommandsTakeNothing DEF PollReturns, PortTypeOK
<1>. QED  BY <1>1, SilentTakes DEF PollReturns, PortTypeOK

LEMMA HelperTakes ==
  ASSUME PortTypeOK, Helper
  PROVE  Takes
<1>. chip \in Chip /\ outq \in Seq(Nat)
  BY DEF PortTypeOK
<1>1. UNCHANGED outq
  BY DEF Helper, SendStandby, SendClear, SendBuffer, SendTx, SendCall, WaitEnds, WaitPoll,
         PollReturns, GetIrq, ClearIrqRead, RxClear, RxSet
<1>2. CASE SendStandby \/ SendClear \/ SendBuffer \/ SendTx
  <2>1. chip'.rxfifo = chip.rxfifo /\ chip'.fresh = chip.fresh
    BY <1>2, HalOutcome, CommandsTakeNothing
       DEF SendStandby, SendClear, SendBuffer, SendTx, SendCall
  <2>. QED  BY <1>1, <2>1, SilentTakes
<1>3. CASE WaitEnds \/ GetIrq
  BY <1>1, <1>3, SilentTakes DEF WaitEnds, GetIrq
<1>4. CASE WaitPoll
  BY <1>4, PollTakes DEF WaitPoll
<1>5. CASE ClearIrqRead \/ RxClear \/ RxSet
  <2>1. chip'.rxfifo = chip.rxfifo /\ chip'.fresh = chip.fresh
    BY <1>5, HalOutcome, CommandsTakeNothing DEF ClearIrqRead, RxClear, RxSet
  <2>. QED  BY <1>1, <2>1, SilentTakes
<1>. QED  BY <1>2, <1>3, <1>4, <1>5 DEF Helper

LEMMA ReadTakes ==
  ASSUME PortTypeOK, NEW role, NEW ok \in BOOLEAN, ReadPacket(role, ok), chip.fresh
  PROVE  Takes
<1>. chip \in Chip /\ outq \in Seq(Nat)
  BY DEF PortTypeOK
<1>1. CASE ~ok
  BY <1>1, SilentTakes DEF ReadPacket, Chip
<1>2. CASE ok
  <2>1. /\ chip'.rxfifo = chip.rxfifo /\ ~chip'.fresh
        /\ outq' = outq \o SubSeq(chip.rxfifo.data, 1, Writable(chip.rxfifo))
    BY <1>2 DEF ReadPacket, Chip
  <2>2. Writable(chip.rxfifo) \in 0..Len(chip.rxfifo.data)
    <3>1. /\ Len(chip.rxfifo.data) \in Nat /\ OUT_CAP \in Nat
          /\ Len(outq) \in Nat /\ Len(outq) <= OUT_CAP
      <4>1. chip.rxfifo.data \in Seq(Nat)
        BY DEF Chip, Frame
      <4>2. OUT_CAP \in Nat /\ Len(outq) <= OUT_CAP
        BY PortAssumption DEF PortTypeOK
      <4>. QED  BY <4>1, <4>2
    <3>. QED  BY <3>1 DEF Writable, Least
  <2>. QED  BY <2>1, <2>2 DEF Takes
<1>. QED  BY <1>1, <1>2

(***************************************************************************)
(* The stretches of a slot, while every call works.                        *)
(***************************************************************************)
\* A poll without an edge changes nothing but the buffers.
LEMMA PollSilent ==
  ASSUME NEW wanted, PollReturns(wanted), ~chip.edge
  PROVE  UNCHANGED <<pc, ret, irq, got, left, due, pkt, chip, faults>>
BY DEF PollReturns

\* A poll with an edge takes it and goes on to read the status.
LEMMA PollEdge ==
  ASSUME chip \in Chip, PollReturns(TRUE), chip.edge
  PROVE  /\ pc' = "get_irq" /\ ret' = pc
         /\ chip' = [chip EXCEPT !.edge = FALSE]
         /\ UNCHANGED <<irq, got, left, due, pkt, faults>>
BY DEF PollReturns, DrainEdges

\* A call that works does what it is told.
LEMMA CallWorks ==
  ASSUME faults \in Nat, UNCHANGED faults, NEW ok \in BOOLEAN
  PROVE  /\ HalRead(ok) => ok
         /\ \A c : HalWrite(c, ok) => ok /\ chip' = c
BY DEF HalRead, HalWrite

LEMMA Prepared ==
  ASSUME PortTypeOK, TX_WAIT_MS > TOA, NEW first, first \cap HelperSteps = {},
         Preparing(first), Helper, UNCHANGED faults
  PROVE  /\ UNCHANGED <<due, got, pkt>>
         /\ \/ Preparing(first)'
            \/ /\ OnAir' /\ chip'.air = TOA /\ chip.mode # "TX"
               /\ pc = "send_tx" /\ chip'.txfifo = chip.txfifo
         /\ chip'.rxfifo = chip.rxfifo
<1>1. faults \in Nat /\ chip \in Chip /\ TX_WAIT_MS \in Nat /\ TOA \in Nat
  BY PortAssumption, ToaAssumption DEF PortTypeOK
<1>2. pc \in Building
  BY DEF Preparing, Helper, HelperSteps, SendStandby, SendClear, SendBuffer, SendTx,
         SendCall, WaitEnds, WaitPoll, GetIrq, ClearIrqRead, RxClear, RxSet
<1>3. ASSUME NEW step, NEW c, NEW next, SendCall(step, c, next)
      PROVE  pc = step /\ chip' = c /\ pc' = next /\ UNCHANGED <<due, got, pkt>>
  BY <1>1, <1>3, CallWorks DEF SendCall
<1>4. CASE SendStandby
  <2>1. /\ pc = "send_standby" /\ chip' = SetStandby(chip) /\ pc' = "send_clear"
        /\ UNCHANGED <<due, got, pkt>>
    BY <1>3, <1>4 DEF SendStandby
  <2>. QED  BY <1>1, <2>1 DEF SetStandby, Chip, Preparing, Building
<1>5. CASE SendClear
  <2>1. /\ pc = "send_clear" /\ chip' = ClearIrq(chip, IrqBits) /\ pc' = "send_buffer"
        /\ UNCHANGED <<due, got, pkt>>
    BY <1>3, <1>5 DEF SendClear
  <2>2. chip'.irq = {}
    BY <1>1, <2>1 DEF ClearIrq, Chip
  <2>. QED  BY <1>1, <2>1, <2>2 DEF ClearIrq, Chip, Preparing, Building
<1>6. CASE SendBuffer
  <2>1. /\ pc = "send_buffer" /\ chip' = WriteBuffer(chip, pkt) /\ pc' = "send_tx"
        /\ UNCHANGED <<due, got, pkt>>
    BY <1>3, <1>6 DEF SendBuffer
  <2>. QED  BY <1>1, <2>1 DEF WriteBuffer, Chip, Preparing, Building
<1>7. CASE SendTx
  <2>1. /\ pc = "send_tx" /\ chip' = SetTx(chip) /\ pc' = "wait" /\ left' = TX_WAIT_MS
        /\ UNCHANGED <<due, got, pkt>>
    BY <1>3, <1>7 DEF SendTx
  <2>2. /\ chip'.mode = "TX" /\ chip'.air = TOA /\ chip'.irq = chip.irq
        /\ chip'.edge = chip.edge /\ chip'.rxfifo = chip.rxfifo
        /\ chip'.txfifo = chip.txfifo
    BY <1>1, <2>1 DEF SetTx, Chip
  <2>. QED  BY <1>1, <2>1, <2>2 DEF Preparing, OnAir, Silent
<1>. QED
  BY <1>2, <1>4, <1>5, <1>6, <1>7
  DEF Building, Helper, WaitEnds, WaitPoll, GetIrq, ClearIrqRead, RxClear, RxSet

LEMMA StaysOnAir ==
  ASSUME PortTypeOK, OnAir, Helper, ~g_stop
  PROVE  OnAir' /\ UNCHANGED <<due, got, pkt, chip>>
<1>1. chip.air \in Nat
  BY ToaAssumption DEF PortTypeOK, Chip
<1>2. WaitPoll
  BY <1>1 DEF OnAir, Helper, SendStandby, SendClear, SendBuffer, SendTx, SendCall,
             WaitEnds, GetIrq, ClearIrqRead, RxClear, RxSet
<1>3. UNCHANGED <<pc, left, due, got, pkt, chip>>
  BY <1>2, PollSilent DEF WaitPoll, OnAir, Silent
<1>. QED  BY <1>3 DEF OnAir, Silent

\* What the two commands of get_and_clear_irq_status do with an interrupt.
LEMMA InterruptTaken ==
  ASSUME PortTypeOK, NEW step \in {"wait", "listen"}, NEW bit, Interrupted(step, bit),
         GetIrq \/ ClearIrqRead, UNCHANGED faults
  PROVE  /\ UNCHANGED <<due, got, left, pkt>>
         /\ chip'.mode = chip.mode /\ chip'.rxfifo = chip.rxfifo
         /\ \/ Interrupted(step, bit)' /\ pc' = "clear_irq"
            \/ /\ Silent' /\ irq' = {bit} /\ ret' = "none"
               /\ pc' = IF ret = "wait" THEN "sent" ELSE "handle_irq"
<1>1. faults \in Nat /\ chip \in Chip
  BY PortAssumption DEF PortTypeOK
<1>2. CASE GetIrq
  <2>1. HalRead(TRUE) /\ irq' = chip.irq /\ pc' = "clear_irq" /\ UNCHANGED <<ret, chip>>
    BY <1>1, <1>2, CallWorks DEF GetIrq, Interrupted
  <2>. QED  BY <1>2, <2>1 DEF GetIrq, Interrupted
<1>3. CASE ClearIrqRead
  <2>1. chip' = ClearIrq(chip, irq) /\ IrqReturns(TRUE, irq)
    BY <1>1, <1>3, CallWorks DEF ClearIrqRead
  <2>2. chip'.irq = {} /\ chip'.edge = chip.edge
    BY <1>1, <1>3, <2>1 DEF ClearIrqRead, Interrupted, ClearIrq, Chip
  <2>3. ~chip.edge
    BY <1>3 DEF ClearIrqRead, Interrupted
  <2>. QED  BY <1>1, <1>3, <2>1, <2>2, <2>3
       DEF ClearIrqRead, Interrupted, ClearIrq, Chip, IrqReturns, Silent
<1>. QED  BY <1>2, <1>3


\* Armed again, the radio receives.
LEMMA Rearms ==
  ASSUME PortTypeOK, Silent, chip.mode \in {"STDBY", "RX"}, RxClear \/ RxSet, UNCHANGED faults
  PROVE  /\ UNCHANGED <<due, got, left, pkt>>
         /\ Silent' /\ chip'.rxfifo = chip.rxfifo
         /\ \/ /\ pc = "rx_clear" /\ pc' = "rx_set" /\ ret' = ret
               /\ chip'.mode = chip.mode
            \/ pc = "rx_set" /\ pc' = ret /\ ret' = "none" /\ chip'.mode = "RX"
<1>1. faults \in Nat /\ chip \in Chip
  BY PortAssumption DEF PortTypeOK
<1>2. CASE RxClear
  <2>1. /\ chip' = ClearIrq(chip, IrqBits) /\ pc = "rx_clear" /\ pc' = "rx_set" /\ ret' = ret
        /\ UNCHANGED <<due, got, left, pkt>>
    BY <1>1, <1>2, CallWorks DEF RxClear
  <2>. QED  BY <1>1, <2>1 DEF ClearIrq, Chip, Silent
<1>3. CASE RxSet
  <2>1. /\ chip' = SetRx(chip) /\ pc = "rx_set" /\ pc' = ret /\ ret' = "none"
        /\ UNCHANGED <<due, got, left, pkt>>
    BY <1>1, <1>3, CallWorks DEF RxSet
  <2>. QED  BY <1>1, <2>1 DEF SetRx, Chip, Silent
<1>. QED  BY <1>2, <1>3

LEMMA Ended ==
  ASSUME PortTypeOK, NEW last \in {"slot", "top"}, Ending(last), Helper, UNCHANGED faults,
         ~g_stop
  PROVE  Ending(last)' /\ UNCHANGED <<due, got, pkt>> /\ chip'.rxfifo = chip.rxfifo
<1>1. chip \in Chip
  BY DEF PortTypeOK
<1>2. CASE chip.mode = "STDBY" /\ Interrupted("wait", "TX_DONE") /\ left > 0
  <2>1. WaitPoll \/ GetIrq \/ ClearIrqRead
    BY <1>2 DEF Interrupted, Helper, SendStandby, SendClear, SendBuffer, SendTx, SendCall,
                WaitEnds, RxClear, RxSet
  <2>2. CASE WaitPoll
    <3>1. chip.edge /\ pc = "wait" /\ PollReturns(TRUE)
      BY <1>2, <2>2 DEF WaitPoll, Interrupted
    <3>2. /\ pc' = "get_irq" /\ ret' = "wait"
          /\ chip' = [chip EXCEPT !.edge = FALSE]
          /\ UNCHANGED <<irq, got, left, due, pkt>>
      BY <1>1, <3>1, PollEdge
    <3>. QED  BY <1>1, <1>2, <3>2 DEF Ending, Interrupted, Chip
  <2>3. CASE GetIrq \/ ClearIrqRead
    <3>1. ret = "wait"
      BY <1>2, <2>3 DEF Interrupted, GetIrq, ClearIrqRead
    <3>. QED  BY <1>2, <2>3, <3>1, InterruptTaken DEF Ending
  <2>. QED  BY <2>1, <2>2, <2>3
<1>3. CASE chip.mode = "STDBY" /\ Silent /\ (pc = "sent" \/ (pc \in {"rx_clear", "rx_set"} /\ ret = last))
  <2>1. RxClear \/ RxSet
    BY <1>3 DEF Helper, SendStandby, SendClear, SendBuffer, SendTx, SendCall,
                WaitEnds, WaitPoll, GetIrq, ClearIrqRead
  <2>2. ret = last
    BY <1>3, <2>1 DEF RxClear, RxSet
  <2>. QED  BY <1>3, <2>1, <2>2, Rearms DEF Ending
<1>4. CASE chip.mode = "RX" /\ Silent /\ pc = last
  BY <1>4 DEF Helper, SendStandby, SendClear, SendBuffer, SendTx, SendCall,
              WaitEnds, WaitPoll, GetIrq, ClearIrqRead, RxClear, RxSet
<1>. QED  BY <1>2, <1>3, <1>4 DEF Ending

LEMMA TakenUp ==
  ASSUME PortTypeOK, TakingUp, Helper, UNCHANGED faults
  PROVE  TakingUp' /\ UNCHANGED <<due, got>> /\ chip'.rxfifo = chip.rxfifo
<1>1. chip \in Chip
  BY DEF PortTypeOK
<1>2. GetIrq \/ ClearIrqRead
  BY DEF TakingUp, Interrupted, Helper, SendStandby, SendClear, SendBuffer, SendTx, SendCall,
         WaitEnds, WaitPoll, RxClear, RxSet
<1>3. Interrupted("listen", "RX_DONE") /\ ret = "listen" /\ chip.mode = "RX" /\ due > 0
  BY <1>2 DEF TakingUp, Interrupted, GetIrq, ClearIrqRead
<1>. QED  BY <1>2, <1>3, InterruptTaken DEF TakingUp

\* The poll of a loop that listens, with nothing to hear and with a frame heard.
LEMMA IdlePoll ==
  ASSUME Idle, NEW wanted, PollReturns(wanted)
  PROVE  Idle' /\ UNCHANGED <<due, got, chip>>
<1>1. UNCHANGED <<pc, due, got, chip>>
  BY PollSilent DEF Idle, Silent
<1>. QED  BY <1>1 DEF Idle, Silent

LEMMA TakenUpPoll ==
  ASSUME PortTypeOK, TakingUp, pc = "listen", PollReturns(TRUE)
  PROVE  TakingUp' /\ UNCHANGED <<due, got>> /\ chip'.rxfifo = chip.rxfifo
<1>1. chip \in Chip
  BY DEF PortTypeOK
<1>2. Interrupted("listen", "RX_DONE") /\ chip.mode = "RX" /\ due > 0 /\ chip.edge
  BY DEF TakingUp, Interrupted
<1>3. /\ pc' = "get_irq" /\ ret' = "listen"
      /\ chip' = [chip EXCEPT !.edge = FALSE]
      /\ UNCHANGED <<irq, got, due>>
  BY <1>1, <1>2, PollEdge
<1>. QED  BY <1>1, <1>2, <1>3 DEF TakingUp, Interrupted, Chip

\* What the other radio does to this one: a stretch knows nothing of lock.
LEMMA LockOnly ==
  ASSUME UNCHANGED <<pc, ret, irq, left, due>>, NEW l \in BOOLEAN,
         chip \in Chip, chip' = [chip EXCEPT !.lock = l]
  PROVE  /\ Silent => Silent'
         /\ OnAir => OnAir' /\ chip'.air = chip.air
         /\ Idle => Idle'
         /\ TakingUp => TakingUp'
         /\ \A first : Preparing(first) => Preparing(first)'
         /\ \A last : Ending(last) => Ending(last)'
         /\ chip'.mode = chip.mode /\ chip'.rxfifo = chip.rxfifo /\ chip'.txfifo = chip.txfifo
<1>1. /\ chip'.mode = chip.mode /\ chip'.irq = chip.irq /\ chip'.edge = chip.edge
      /\ chip'.air = chip.air /\ chip'.rxfifo = chip.rxfifo /\ chip'.txfifo = chip.txfifo
  BY DEF Chip
<1>. QED
  BY <1>1 DEF Silent, OnAir, Idle, TakingUp, Interrupted, Preparing, Ending


LEMMA Heard ==
  ASSUME UNCHANGED <<pc, ret, irq, left, due>>, chip \in Chip, NEW f,
         chip' = RxEnd(chip, f, {}), Idle, due > 0
  PROVE  TakingUp' /\ pc' = "listen" /\ chip'.rxfifo = f
<1>1. /\ chip'.mode = chip.mode /\ chip'.irq = {"RX_DONE"} /\ chip'.edge
      /\ chip'.rxfifo = f
  BY DEF Idle, Silent, RxEnd, Raise, Chip
<1>. QED  BY <1>1 DEF Idle, TakingUp, Interrupted

LEMMA Out ==
  ASSUME PortTypeOK, TxDone, OnAir
  PROVE  /\ \A last : Ending(last)'
         /\ chip.air = 0 /\ chip'.rxfifo = chip.rxfifo /\ UNCHANGED <<due, got>>
<1>1. chip \in Chip
  BY DEF PortTypeOK
<1>2. chip.air = 0 /\ left > 0 /\ chip' = TxEnd(chip) /\ UNCHANGED <<Around, left, due>>
  BY DEF TxDone, OnAir
<1>3. /\ chip'.mode = "STDBY" /\ chip'.irq = {"TX_DONE"} /\ chip'.edge
      /\ chip'.rxfifo = chip.rxfifo
  BY <1>1, <1>2 DEF OnAir, Silent, TxEnd, Raise, Chip
<1>. QED  BY <1>2, <1>3 DEF Around, OnAir, Ending, Interrupted

\* A tick of the clock, on the air and off it.
LEMMA TickOnAir ==
  ASSUME PortTypeOK, Elapses, OnAir
  PROVE  OnAir' /\ chip.air > 0 /\ chip'.air = chip.air - 1 /\ chip'.txfifo = chip.txfifo
<1>1. chip \in Chip /\ chip.air \in Nat /\ left \in Nat
  BY ToaAssumption DEF PortTypeOK, Chip
<1>2. chip.air > 0 /\ chip' = [chip EXCEPT !.air = @ - 1]
  BY <1>1 DEF Elapses, MayElapse, Elapse, OnAir, Timed
<1>3. /\ chip'.mode = chip.mode /\ chip'.irq = chip.irq /\ chip'.edge = chip.edge
      /\ chip'.air = chip.air - 1 /\ chip'.txfifo = chip.txfifo
  BY <1>1, <1>2 DEF Chip
<1>. QED  BY <1>1, <1>2, <1>3 DEF Elapses, Around, Greatest, OnAir, Silent

LEMMA TickReceiving ==
  ASSUME Elapses, chip.mode = "RX"
  PROVE  UNCHANGED <<chip, pc, ret, irq, got>>
BY DEF Elapses, Elapse, Timed, Around

=============================================================================
