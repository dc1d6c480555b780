----------------------------- MODULE Cli_proofs -----------------------------
(* The safety of the modes other than the MAVLink bridge, for every count of *)
(* packets, channels and sweeps, every length of the waits and every number  *)
(* of failing calls.                                                         *)
EXTENDS Cli, TLAPS

(***************************************************************************)
(* The chip.                                                               *)
(***************************************************************************)
\* A command to the radio leaves it a radio.
LEMMA CommandsType ==
  ASSUME NEW c \in Chip
  PROVE  /\ SetStandby(c) \in Chip
         /\ SetRx(c) \in Chip
         /\ SetTx(c) \in Chip
         /\ SetCad(c) \in Chip
         /\ SetTxCw(c) \in Chip
         /\ Reset(c) \in Chip
         /\ \A f \in Frame : WriteBuffer(c, f) \in Chip
         /\ \A bits : ClearIrq(c, bits) \in Chip
         /\ DrainEdges(c) \in Chip
<1>1. 0 \in 0..TOA /\ TOA \in 0..TOA
  BY ToaAssumption
<1>2. SetStandby(c) \in Chip /\ SetRx(c) \in Chip /\ SetTx(c) \in Chip
  BY <1>1 DEF Chip, SetStandby, SetRx, SetTx
<1>3. (\A f \in Frame : WriteBuffer(c, f) \in Chip) /\ DrainEdges(c) \in Chip
  BY DEF Chip, WriteBuffer, DrainEdges
<1>4. \A bits : ClearIrq(c, bits) \in Chip
  BY DEF Chip, ClearIrq
<1>5. SetCad(c) \in Chip /\ SetTxCw(c) \in Chip
  BY <1>1 DEF Chip, SetCad, SetTxCw
<1>6. Reset(c) \in Chip
  <2>1. NoFrame \in Frame
    BY DEF NoFrame, Frame, Roles
  <2>. QED  BY <1>1, <2>1 DEF Chip, Reset, PowerOn
<1>. QED  BY <1>2, <1>3, <1>4, <1>5, <1>6

\* So does what the radio does by itself.
LEMMA EventsType ==
  ASSUME NEW c \in Chip
  PROVE  /\ TxEnd(c) \in Chip
         /\ \A f \in Frame : \A e \in SUBSET IrqBits : RxEnd(c, f, e) \in Chip
         /\ RxFails(c) \in Chip
         /\ TxFails(c) \in Chip
         /\ \A found \in BOOLEAN : CadEnd(c, found) \in Chip
         /\ MayElapse(c) => Elapse(c) \in Chip
<1>1. \A d \in Chip : \A bits \in SUBSET IrqBits : Raise(d, bits) \in Chip
  BY DEF Chip, Raise
<1>2. TxEnd(c) \in Chip /\ RxFails(c) \in Chip /\ TxFails(c) \in Chip
  <2>1. [c EXCEPT !.mode = "STDBY"] \in Chip /\ [c EXCEPT !.lock = FALSE] \in Chip
    BY DEF Chip
  <2>2. /\ {"TX_DONE"} \in SUBSET IrqBits
       /\ {"HEADER_ERROR"} \in SUBSET IrqBits
       /\ {"ERROR"} \in SUBSET IrqBits
    BY DEF IrqBits
  <2>. QED  BY <1>1, <2>1, <2>2 DEF TxEnd, RxFails, TxFails
<1>3. ASSUME NEW f \in Frame, NEW e \in SUBSET IrqBits
      PROVE  RxEnd(c, f, e) \in Chip
  <2>1. [c EXCEPT !.lock = FALSE, !.rxfifo = f, !.fresh = TRUE] \in Chip
    BY DEF Chip
  <2>2. {"RX_DONE"} \cup e \in SUBSET IrqBits
    BY DEF IrqBits
  <2>. QED  BY <1>1, <2>1, <2>2 DEF RxEnd
<1>4. MayElapse(c) => Elapse(c) \in Chip
  BY ToaAssumption DEF Chip, MayElapse, Elapse
<1>5. ASSUME NEW found \in BOOLEAN
      PROVE  CadEnd(c, found) \in Chip
  <2>. DEFINE bits == {"CAD_DONE"} \cup (IF found THEN {"CAD_DETECTED"} ELSE {})
  <2>1. [c EXCEPT !.mode = "STDBY"] \in Chip
    BY DEF Chip
  <2>2. bits \in SUBSET IrqBits
    BY DEF IrqBits
  <2>. HIDE DEF bits
  <2>3. Raise([c EXCEPT !.mode = "STDBY"], bits) \in Chip
    BY <1>1, <2>1, <2>2
  <2>. QED  BY <2>3 DEF CadEnd, bits
<1>. QED  BY <1>2, <1>3, <1>4, <1>5

\* What the commands and events do to the mode, the interrupts and the edges.
LEMMA CommandsEffect ==
  ASSUME NEW c \in Chip
  PROVE  /\ SetStandby(c).mode = "STDBY" /\ SetStandby(c).irq = c.irq
         /\ SetStandby(c).edge = c.edge
         /\ SetRx(c).mode = "RX" /\ SetRx(c).irq = c.irq /\ SetRx(c).edge = c.edge
         /\ SetTx(c).mode = "TX" /\ SetTx(c).irq = c.irq /\ SetTx(c).edge = c.edge
         /\ SetCad(c).mode = "CAD" /\ SetCad(c).irq = c.irq /\ SetCad(c).edge = c.edge
         /\ SetCad(c).air = TOA
         /\ SetTxCw(c).mode = "CW" /\ SetTxCw(c).irq = c.irq /\ SetTxCw(c).edge = c.edge
         /\ Reset(c).mode = "STDBY" /\ Reset(c).irq = {} /\ Reset(c).edge = c.edge
         /\ WriteBuffer(c, NoFrame).mode = c.mode /\ WriteBuffer(c, NoFrame).irq = c.irq
         /\ WriteBuffer(c, NoFrame).edge = c.edge
         /\ \A bits : /\ ClearIrq(c, bits).mode = c.mode
                      /\ ClearIrq(c, bits).irq = c.irq \ bits
                      /\ ClearIrq(c, bits).edge = c.edge
         /\ DrainEdges(c).mode = c.mode /\ DrainEdges(c).irq = c.irq
         /\ DrainEdges(c).edge = FALSE
BY DEF Chip, SetStandby, SetRx, SetTx, SetCad, SetTxCw, Reset, PowerOn, WriteBuffer,
       ClearIrq, DrainEdges

LEMMA EventsEffect ==
  ASSUME NEW c \in Chip
  PROVE  /\ TxEnd(c).mode = "STDBY" /\ TxEnd(c).irq = c.irq \cup {"TX_DONE"}
         /\ TxEnd(c).edge = (c.edge \/ c.irq = {})
         /\ TxFails(c).mode = "STDBY" /\ TxFails(c).irq = c.irq \cup {"ERROR"}
         /\ TxFails(c).edge = (c.edge \/ c.irq = {})
         /\ \A found \in BOOLEAN :
              /\ CadEnd(c, found).mode = "STDBY"
              /\ "CAD_DETECTED" \in CadEnd(c, found).irq <=> found \/ "CAD_DETECTED" \in c.irq
              /\ CadEnd(c, found).edge = (c.edge \/ c.irq = {})
         /\ \A f, e : /\ RxEnd(c, f, e).mode = c.mode
                      /\ RxEnd(c, f, e).irq = c.irq \cup {"RX_DONE"} \cup e
                      /\ RxEnd(c, f, e).edge = (c.edge \/ c.irq = {})
         /\ RxFails(c).mode = c.mode /\ RxFails(c).irq = c.irq \cup {"HEADER_ERROR"}
         /\ RxFails(c).edge = (c.edge \/ c.irq = {})
         /\ Elapse(c).mode = c.mode /\ Elapse(c).irq = c.irq /\ Elapse(c).edge = c.edge
         /\ c.mode \in Timed => Elapse(c).air = c.air - 1
BY DEF Chip, Raise, TxEnd, TxFails, CadEnd, RxEnd, RxFails, Elapse

(***************************************************************************)
(* The calls.                                                              *)
(***************************************************************************)
\* A call that succeeds is carried out; one that fails may be.
LEMMA HalEffect ==
  ASSUME faults \in 0..MaxFaults, NEW ok \in BOOLEAN
  PROVE  /\ \A c : HalWrite(c, ok) =>
              /\ faults' \in 0..MaxFaults
              /\ chip' \in {chip, c}
              /\ ok => chip' = c
              /\ faults' = IF ok THEN faults ELSE faults - 1
         /\ HalRead(ok) => /\ faults' \in 0..MaxFaults
                           /\ faults' = IF ok THEN faults ELSE faults - 1
<1>1. MaxFaults \in Nat
  BY FaultsAssumption
<1>2. CASE ok
  BY <1>1, <1>2 DEF HalWrite, HalRead
<1>3. CASE ~ok
  BY <1>1, <1>3 DEF HalWrite, HalRead
<1>. QED  BY <1>2, <1>3

(***************************************************************************)
(* The places of the program.                                              *)
(***************************************************************************)
Steps == MainSteps \cup TxSteps \cup RxSteps \cup ScanSteps \cup TestSteps

LEMMA TimesType == /\ COUNT \in Nat /\ INTERVAL_MS \in Nat /\ TX_WAIT_MS \in Nat
                   /\ RX_WAIT_MS \in Nat /\ RX_PAUSE_MS \in Nat
                   /\ CAD_WAIT_MS \in Nat /\ N_CH \in Nat \ {0} /\ MaxFaults \in Nat
BY TxAssumption, RxAssumption, ScanAssumption, FaultsAssumption

LEMMA FirstStepType == \A m \in Modes : FirstStep[m] \in Steps
BY DEF Modes, FirstStep, Steps, MainSteps, TxSteps, RxSteps, ScanSteps, TestSteps

LEMMA IrqStepType ==
  ASSUME TypeOK, Control, pc \in {"read_irq", "clear_read"}
  PROVE  IrqStep[mode] \in Steps
<1>1. mode \in {"tx", "rx", "scan"}
  BY DEF Control
<1>. QED  BY <1>1 DEF IrqStep, Steps, TxSteps, RxSteps, ScanSteps

LEMMA FrameType == NoFrame \in Frame
BY DEF NoFrame, Frame, Roles

(***************************************************************************)
(* Type correctness.                                                       *)
(***************************************************************************)
\* A driver call that writes keeps the types, whatever it does.
LEMMA WriteType ==
  ASSUME TypeOK, NEW c \in Chip, NEW ok \in BOOLEAN, HalWrite(c, ok)
  PROVE  chip' \in Chip /\ faults' \in 0..MaxFaults
BY HalEffect DEF TypeOK

LEMMA ReadType ==
  ASSUME TypeOK, NEW ok \in BOOLEAN, HalRead(ok)
  PROVE  faults' \in 0..MaxFaults
BY HalEffect DEF TypeOK

LEMMA CommandType ==
  ASSUME TypeOK, NEW c \in Chip, NEW step, NEW next \in Steps, Command(step, c, next)
  PROVE  /\ chip' \in Chip /\ faults' \in 0..MaxFaults
         /\ pc' \in Steps /\ rc' \in {"ok", "failed"}
         /\ UNCHANGED <<mode, irq, g_stop>>
<1>1. PICK ok \in BOOLEAN :
        /\ HalWrite(c, ok)
        /\ IF ok THEN pc' = next /\ UNCHANGED rc ELSE Fails
  BY DEF Command
<1>2. chip' \in Chip /\ faults' \in 0..MaxFaults
  BY <1>1, WriteType
<1>. QED  BY <1>1, <1>2 DEF Command, Fails, Steps, MainSteps, TypeOK

LEMMA WaitType ==
  ASSUME TypeOK, NEW step, NEW a \in Steps, NEW b \in Steps, NEW c \in Steps,
         WaitIrqRising(step, a, b, c)
  PROVE  /\ chip' \in Chip /\ faults' \in 0..MaxFaults /\ pc' \in Steps
         /\ UNCHANGED <<mode, irq, left, g_stop, rc>>
<1>1. DrainEdges(chip) \in Chip /\ (HalRead(g_stop) => faults' \in 0..MaxFaults)
  BY CommandsType, ReadType DEF TypeOK
<1>. QED  BY <1>1 DEF WaitIrqRising, TypeOK

LEMMA MainStepType ==
  ASSUME TypeOK, Control, MainHost, UNCHANGED <<txVars, scanVars>>
  PROVE  TypeOK'
<1>. USE DEF txVars, scanVars
<1>1. CASE CtxInit
  <2>1. PICK ok \in BOOLEAN : HalRead(ok) /\ pc' = IF ok THEN "reset" ELSE "ended"
    BY <1>1 DEF CtxInit
  <2>2. faults' \in 0..MaxFaults
    BY <2>1, ReadType
  <2>. QED  BY <1>1, <2>1, <2>2 DEF CtxInit, TypeOK, MainSteps
<1>2. CASE ResetRadio
  <2>1. PICK ok \in BOOLEAN : HalRead(ok)
    BY <1>2 DEF ResetRadio
  <2>2. faults' \in 0..MaxFaults
    BY <2>1, ReadType
  <2>3. chip' \in Chip
    BY <1>2, CommandsType DEF ResetRadio, TypeOK
  <2>4. pc' \in {"configure", "close"} /\ rc' \in {"ok", "failed"}
    BY <1>2 DEF ResetRadio, Fails, TypeOK
  <2>. QED  BY <1>2, <2>2, <2>3, <2>4 DEF ResetRadio, TypeOK, MainSteps
<1>3. CASE Configure
  <2>1. PICK ok \in BOOLEAN : /\ HalWrite(SetStandby(chip), ok)
                              /\ IF ok THEN pc' = FirstStep[mode] /\ UNCHANGED rc ELSE Fails
    BY <1>3 DEF Configure
  <2>2. chip' \in Chip /\ faults' \in 0..MaxFaults
    BY <2>1, WriteType, CommandsType DEF TypeOK
  <2>3. pc' \in Steps /\ rc' \in {"ok", "failed"}
    BY <2>1, FirstStepType DEF Fails, TypeOK, Steps, MainSteps
  <2>. QED  BY <1>3, <2>2, <2>3 DEF Configure, TypeOK, Steps
<1>4. CASE ReadIrq
  <2>1. PICK ok \in BOOLEAN : HalRead(ok)
    BY <1>4 DEF ReadIrq
  <2>2. faults' \in 0..MaxFaults
    BY <2>1, ReadType
  <2>3. irq' \in {{}, chip.irq} /\ chip.irq \subseteq IrqBits
    BY <1>4 DEF ReadIrq, TypeOK, Chip
  <2>4. pc' \in Steps
    BY <1>4, IrqStepType DEF ReadIrq, Steps, MainSteps
  <2>. QED  BY <1>4, <2>2, <2>3, <2>4 DEF ReadIrq, TypeOK, Steps
<1>5. CASE ClearRead
  <2>1. PICK ok \in BOOLEAN : HalWrite(ClearIrq(chip, irq), ok) /\ irq' = IF ok THEN irq ELSE {}
    BY <1>5 DEF ClearRead
  <2>2. chip' \in Chip /\ faults' \in 0..MaxFaults
    BY <2>1, WriteType, CommandsType DEF TypeOK
  <2>3. pc' \in Steps
    BY <1>5, IrqStepType DEF ClearRead
  <2>. QED  BY <1>5, <2>1, <2>2, <2>3 DEF ClearRead, TypeOK, Steps
<1>6. CASE Standby
  <2>1. chip' \in Chip /\ faults' \in 0..MaxFaults
    BY <1>6, WriteType, CommandsType DEF Standby, TypeOK
  <2>. QED  BY <1>6, <2>1 DEF Standby, TypeOK, MainSteps
<1>7. CASE CtxDeinit
  BY <1>7 DEF CtxDeinit, TypeOK, MainSteps
<1>. QED  BY <1>1, <1>2, <1>3, <1>4, <1>5, <1>6, <1>7 DEF MainHost

LEMMA TxStepType ==
  ASSUME TypeOK, TxHost, UNCHANGED scanVars
  PROVE  TypeOK'
<1>. USE DEF scanVars
<1>1. CASE TxReturns
  BY <1>1 DEF TxReturns, txVars, TypeOK, MainSteps
<1>2. CASE TxClear
  <2>1. ClearIrq(chip, IrqBits) \in Chip /\ "tx_write" \in Steps
    BY CommandsType DEF TypeOK, Steps, TxSteps
  <2>. QED  BY <1>2, <2>1, CommandType DEF TxClear, txVars, TypeOK, Steps
<1>3. CASE TxWrite
  <2>1. WriteBuffer(chip, NoFrame) \in Chip /\ "tx_start" \in Steps
    BY CommandsType, FrameType DEF TypeOK, Steps, TxSteps
  <2>. QED  BY <1>3, <2>1, CommandType DEF TxWrite, txVars, TypeOK, Steps
<1>4. CASE TxStart
  <2>1. SetTx(chip) \in Chip /\ "tx_wait" \in Steps
    BY CommandsType DEF TypeOK, Steps, TxSteps
  <2>. QED  BY <1>4, <2>1, CommandType, TimesType DEF TxStart, txVars, TypeOK, Steps
<1>5. CASE TxWait
  <2>1. "read_irq" \in Steps /\ "standby" \in Steps
    BY DEF Steps, MainSteps
  <2>. QED  BY <1>5, <2>1, WaitType DEF TxWait, txVars, TypeOK, Steps
<1>6. CASE TxHandle
  BY <1>6, TimesType DEF TxHandle, txVars, TypeOK, MainSteps, TxSteps
<1>7. CASE TxSleep
  BY <1>7 DEF TxSleep, Sleep, txVars, TypeOK, TxSteps
<1>. QED  BY <1>1, <1>2, <1>3, <1>4, <1>5, <1>6, <1>7 DEF TxHost

LEMMA RxStepType ==
  ASSUME TypeOK, RxHost \/ TestHost, UNCHANGED <<txVars, scanVars>>
  PROVE  TypeOK'
<1>. USE DEF txVars, scanVars
<1>1. CASE RxClear
  <2>1. ClearIrq(chip, IrqBits) \in Chip /\ "rx_start" \in Steps
    BY CommandsType DEF TypeOK, Steps, RxSteps
  <2>. QED  BY <1>1, <2>1, CommandType DEF RxClear, TypeOK, Steps
<1>2. CASE RxStart
  <2>1. SetRx(chip) \in Chip /\ "rx" \in Steps
    BY CommandsType DEF TypeOK, Steps, RxSteps
  <2>. QED  BY <1>2, <2>1, CommandType DEF RxStart, TypeOK, Steps
<1>3. CASE RxReturns \/ RxListen \/ RxFailed \/ RxPause
  BY <1>3, TimesType DEF RxReturns, RxListen, RxFailed, RxPause, Sleep, TypeOK, MainSteps,
                         RxSteps
<1>4. CASE RxWait
  <2>1. "read_irq" \in Steps /\ "rx" \in Steps /\ "rx_failed" \in Steps
    BY DEF Steps, MainSteps, RxSteps
  <2>. QED  BY <1>4, <2>1, WaitType DEF RxWait, TypeOK, Steps
<1>5. CASE RxHandle
  <2>1. pc' \in {"rx_failed", "rx_payload", "rx"}
    BY <1>5 DEF RxHandle
  <2>. QED  BY <1>5, <2>1 DEF RxHandle, TypeOK, RxSteps
<1>6. CASE RxPayload
  <2>1. PICK ok \in BOOLEAN : HalRead(ok) /\ chip' = [chip EXCEPT !.fresh = @ /\ ~ok]
    BY <1>6 DEF RxPayload
  <2>2. faults' \in 0..MaxFaults
    BY <2>1, ReadType
  <2>3. chip' \in Chip
    BY <2>1 DEF Chip, TypeOK
  <2>. QED  BY <1>6, <2>2, <2>3 DEF RxPayload, TypeOK, RxSteps
<1>7. CASE TestStart
  <2>1. SetTxCw(chip) \in Chip /\ "test" \in Steps
    BY CommandsType DEF TypeOK, Steps, TestSteps
  <2>. QED  BY <1>7, <2>1, CommandType DEF TestStart, TypeOK, Steps
<1>8. CASE TestStops
  BY <1>8 DEF TestStops, TypeOK, MainSteps
<1>. QED  BY <1>1, <1>2, <1>3, <1>4, <1>5, <1>6, <1>7, <1>8 DEF RxHost, TestHost

LEMMA ScanCommandType ==
  ASSUME TypeOK, NEW c \in Chip, NEW step, NEW next \in Steps, ScanCommand(step, c, next)
  PROVE  /\ chip' \in Chip /\ faults' \in 0..MaxFaults /\ pc' \in Steps
         /\ UNCHANGED <<mode, irq, g_stop, rc, ci, pass, hits, detected>>
<1>1. PICK ok \in BOOLEAN : HalWrite(c, ok) /\ pc' = IF ok THEN next ELSE "standby"
  BY DEF ScanCommand
<1>2. chip' \in Chip /\ faults' \in 0..MaxFaults
  BY <1>1, WriteType
<1>. QED  BY <1>1, <1>2 DEF ScanCommand, Steps, MainSteps

\* The sweep never goes past the place after the last channel.
LEMMA ScanStepType ==
  ASSUME TypeOK, Control, ScanHost, UNCHANGED txVars
  PROVE  TypeOK'
<1>. USE DEF txVars
<1>1. CASE ScanTune
  <2>1. chip \in Chip /\ "scan_clear" \in Steps
    BY DEF TypeOK, Steps, ScanSteps
  <2>. QED  BY <1>1, <2>1, ScanCommandType DEF ScanTune, TypeOK, Steps
<1>2. CASE ScanSweepEnds
  BY <1>2, TimesType DEF ScanSweepEnds, TypeOK, MainSteps, ScanSteps
<1>3. CASE ScanClear
  <2>1. ClearIrq(chip, IrqBits) \in Chip /\ "scan_cad" \in Steps
    BY CommandsType DEF TypeOK, Steps, ScanSteps
  <2>. QED  BY <1>3, <2>1, ScanCommandType DEF ScanClear, TypeOK, Steps
<1>4. CASE ScanCad
  <2>1. SetCad(chip) \in Chip /\ "scan_wait" \in Steps
    BY CommandsType DEF TypeOK, Steps, ScanSteps
  <2>2. ci \in Channel
    BY <1>4 DEF ScanCad, ScanCommand, Control, AtChannel, ScanSteps
  <2>. QED  BY <1>4, <2>1, <2>2, ScanCommandType, TimesType DEF ScanCad, TypeOK, Steps
<1>5. CASE ScanWait
  <2>1. "read_irq" \in Steps
    BY DEF Steps, MainSteps
  <2>. QED  BY <1>5, <2>1, WaitType DEF ScanWait, scanVars, TypeOK, Steps
<1>7. CASE ScanRefuses
  BY <1>7 DEF ScanRefuses, Fails, scanVars, TypeOK, MainSteps
<1>6. CASE ScanHandle
  <2>1. ci \in Channel
    BY <1>6 DEF ScanHandle, Control, AtChannel, ScanSteps
  <2>2. ci + 1 \in 1..N_CH + 1
    BY <2>1, TimesType DEF Channel
  <2>3. hits' \in [Channel -> Nat]
    BY <1>6, <2>1 DEF ScanHandle, TypeOK
  <2>. QED  BY <1>6, <2>2, <2>3 DEF ScanHandle, TypeOK, ScanSteps
<1>. QED  BY <1>1, <1>2, <1>3, <1>4, <1>5, <1>6, <1>7 DEF ScanHost

\* What the radio, the clock and the user do.
Around == \/ RadioEnds
          \/ Clock
          \/ (Receives \/ CtrlC) /\ UNCHANGED <<txVars, scanVars>>

LEMMA AroundStepType ==
  ASSUME TypeOK, Around
  PROVE  TypeOK'
<1>. USE DEF txVars, scanVars
<1>. chip \in Chip
  BY DEF TypeOK
<1>1. CASE TxEnds /\ UNCHANGED scanVars
  <2>1. chip' \in Chip
    BY <1>1, EventsType DEF TxEnds
  <2>2. onAir' \in Nat
    BY <1>1 DEF TxEnds, TypeOK
  <2>. QED  BY <1>1, <2>1, <2>2 DEF TxEnds, TypeOK
<1>2. CASE CadEnds /\ UNCHANGED txVars
  <2>1. PICK found \in BOOLEAN :
          /\ chip' = CadEnd(chip, found)
          /\ detected' = [detected EXCEPT ![cadOn] = IF found THEN @ + 1 ELSE @]
    BY <1>2 DEF CadEnds
  <2>2. chip' \in Chip
    BY <2>1, EventsType
  <2>3. detected' \in [Channel -> Nat]
    BY <2>1 DEF TypeOK
  <2>. QED  BY <1>2, <2>2, <2>3 DEF CadEnds, TypeOK
<1>3. CASE Clock
  <2>1. chip' \in Chip
    BY <1>3, EventsType DEF Clock, Tick
  <2>2. left' \in Nat
    BY <1>3 DEF Clock, Tick, TypeOK
  <2>. QED  BY <1>3, <2>1, <2>2 DEF Clock, Tick, TypeOK
<1>4. CASE Receives /\ UNCHANGED <<txVars, scanVars>>
  <2>1. {} \in SUBSET IrqBits /\ {"CRC_ERROR"} \in SUBSET IrqBits
    BY DEF IrqBits
  <2>2. chip' \in Chip
    BY <1>4, <2>1, EventsType, FrameType DEF Receives
  <2>. QED  BY <1>4, <2>2 DEF Receives, TypeOK
<1>5. CASE CtrlC /\ UNCHANGED <<txVars, scanVars>>
  BY <1>5 DEF CtrlC, TypeOK
<1>. QED  BY <1>1, <1>2, <1>3, <1>4, <1>5 DEF Around, RadioEnds

LEMMA TypeStep ==
  ASSUME TypeOK, Control, Next
  PROVE  TypeOK'
<1>1. CASE MainHost /\ UNCHANGED <<txVars, scanVars>>
  BY <1>1, MainStepType
<1>2. CASE (RxHost \/ TestHost) /\ UNCHANGED <<txVars, scanVars>>
  BY <1>2, RxStepType
<1>3. CASE TxHost /\ UNCHANGED scanVars
  BY <1>3, TxStepType
<1>4. CASE ScanHost /\ UNCHANGED txVars
  BY <1>4, ScanStepType
<1>5. CASE Around
  BY <1>5, AroundStepType
<1>. QED  BY <1>1, <1>2, <1>3, <1>4, <1>5 DEF Next, Host, Around

LEMMA TypeInit == Init => TypeOK
<1>. SUFFICES ASSUME Init PROVE TypeOK
  OBVIOUS
<1>1. PowerOn \in Chip
  BY FrameType, ToaAssumption DEF PowerOn, Chip
<1>2. chip \in Chip
  <2>1. [SetRx(PowerOn) EXCEPT !.irq = {"RX_DONE"}] \in Chip
    BY <1>1, CommandsType DEF Chip, IrqBits
  <2>2. SetTxCw(PowerOn) \in Chip
    BY <1>1, CommandsType
  <2>. QED  BY <1>1, <2>1, <2>2 DEF Init, MainInit, LeftBehind
<1>3. ci \in 1..N_CH + 1 /\ cadOn \in Channel /\ faults \in 0..MaxFaults
  BY TimesType DEF Init, MainInit, ScanInit, Channel
<1>. QED  BY <1>2, <1>3 DEF Init, MainInit, TxInit, ScanInit, TypeOK, MainSteps

(***************************************************************************)
(* What a step does to the radio and to the count of failures.             *)
(***************************************************************************)
LEMMA FailedType ==
  ASSUME TypeOK
  PROVE  /\ Failed \in Nat
         /\ TypeOK' => /\ Failed' \in Nat
                       /\ faults' = faults => Failed' = Failed
                       /\ faults' = faults - 1 => Failed' = Failed + 1
BY TimesType DEF TypeOK, Failed

LEMMA WriteEffect ==
  ASSUME TypeOK, TypeOK', NEW c, NEW ok \in BOOLEAN, HalWrite(c, ok)
  PROVE  \/ ok /\ chip' = c /\ Failed' = Failed
         \/ ~ok /\ chip' \in {chip, c} /\ Failed' = Failed + 1
BY HalEffect, FailedType DEF TypeOK

LEMMA ReadEffect ==
  ASSUME TypeOK, TypeOK', NEW ok \in BOOLEAN, HalRead(ok)
  PROVE  Failed' = IF ok THEN Failed ELSE Failed + 1
BY HalEffect, FailedType DEF TypeOK

LEMMA StandbyEffect ==
  ASSUME TypeOK, TypeOK', NEW ok \in BOOLEAN, HalWrite(SetStandby(chip), ok)
  PROVE  /\ chip'.irq = chip.irq /\ chip'.edge = chip.edge
         /\ \/ chip'.mode = "STDBY" /\ Failed' = Failed
            \/ chip'.mode \in {chip.mode, "STDBY"} /\ Failed' = Failed + 1
<1>1. chip \in Chip
  BY DEF TypeOK
<1>2. /\ SetStandby(chip).mode = "STDBY" /\ SetStandby(chip).irq = chip.irq
      /\ SetStandby(chip).edge = chip.edge
  BY <1>1, CommandsEffect
<1>3. \/ ok /\ chip' = SetStandby(chip) /\ Failed' = Failed
      \/ ~ok /\ chip' \in {chip, SetStandby(chip)} /\ Failed' = Failed + 1
  BY WriteEffect
<1>. QED  BY <1>2, <1>3

LEMMA ClearEffect ==
  ASSUME TypeOK, TypeOK', NEW bits, NEW ok \in BOOLEAN, HalWrite(ClearIrq(chip, bits), ok)
  PROVE  /\ chip'.mode = chip.mode /\ chip'.edge = chip.edge
         /\ \/ ok /\ chip'.irq = chip.irq \ bits /\ Failed' = Failed
            \/ ~ok /\ chip'.irq \in {chip.irq, chip.irq \ bits} /\ Failed' = Failed + 1
<1>1. chip \in Chip
  BY DEF TypeOK
<1>2. /\ ClearIrq(chip, bits).mode = chip.mode /\ ClearIrq(chip, bits).irq = chip.irq \ bits
      /\ ClearIrq(chip, bits).edge = chip.edge
  BY <1>1 DEF ClearIrq, Chip
<1>3. \/ ok /\ chip' = ClearIrq(chip, bits) /\ Failed' = Failed
      \/ ~ok /\ chip' \in {chip, ClearIrq(chip, bits)} /\ Failed' = Failed + 1
  BY WriteEffect
<1>. QED  BY <1>2, <1>3

LEMMA CommandEffect ==
  ASSUME TypeOK, TypeOK', NEW c, NEW step, NEW next, Command(step, c, next)
  PROVE  /\ pc = step
         /\ UNCHANGED <<mode, irq, g_stop>>
         /\ \/ pc' = next /\ chip' = c /\ Failed' = Failed
            \/ pc' = "close" /\ chip' \in {chip, c} /\ Failed' = Failed + 1
<1>1. PICK ok \in BOOLEAN :
        /\ HalWrite(c, ok)
        /\ IF ok THEN pc' = next /\ UNCHANGED rc ELSE Fails
  BY DEF Command
<1>2. \/ ok /\ chip' = c /\ Failed' = Failed
      \/ ~ok /\ chip' \in {chip, c} /\ Failed' = Failed + 1
  BY <1>1, WriteEffect
<1>. QED  BY <1>1, <1>2 DEF Command, Fails

LEMMA ScanCommandEffect ==
  ASSUME TypeOK, TypeOK', NEW c, NEW step, NEW next, ScanCommand(step, c, next)
  PROVE  /\ pc = step
         /\ UNCHANGED <<mode, irq, g_stop, ci, hits, detected>>
         /\ \/ pc' = next /\ chip' = c /\ Failed' = Failed
            \/ pc' = "standby" /\ chip' \in {chip, c} /\ Failed' = Failed + 1
<1>1. PICK ok \in BOOLEAN : HalWrite(c, ok) /\ pc' = IF ok THEN next ELSE "standby"
  BY DEF ScanCommand
<1>2. \/ ok /\ chip' = c /\ Failed' = Failed
      \/ ~ok /\ chip' \in {chip, c} /\ Failed' = Failed + 1
  BY <1>1, WriteEffect
<1>. QED  BY <1>1, <1>2 DEF ScanCommand

\* A wait ends with an edge, which it takes, or with its time, or with an error,
\* which is a failing call or Ctrl+C.
LEMMA WaitEffect ==
  ASSUME TypeOK, TypeOK', NEW step, NEW a, NEW b, NEW c, WaitIrqRising(step, a, b, c)
  PROVE  /\ pc = step
         /\ UNCHANGED <<mode, irq, left, g_stop, rc>>
         /\ \/ pc' = a /\ chip.edge /\ chip' = DrainEdges(chip) /\ Failed' = Failed
            \/ pc' = b /\ ~chip.edge /\ left = 0 /\ chip' = chip /\ Failed' = Failed
            \/ pc' = c /\ chip' = chip /\ Failed' = IF g_stop THEN Failed ELSE Failed + 1
<1>1. HalRead(g_stop) => Failed' = IF g_stop THEN Failed ELSE Failed + 1
  BY ReadEffect DEF TypeOK
<1>2. faults' = faults => Failed' = Failed
  BY FailedType
<1>. QED  BY <1>1, <1>2 DEF WaitIrqRising

(***************************************************************************)
(* Each mode keeps to its steps and to the radio's modes that it uses.     *)
(***************************************************************************)
LEMMA MainControl ==
  ASSUME TypeOK, TypeOK', Control, MainHost, UNCHANGED <<txVars, scanVars>>
  PROVE  Control'
<1>. USE DEF txVars, scanVars, Control, AtChannel, TxSteps, RxSteps, ScanSteps, TestSteps
<1>. chip \in Chip /\ mode \in Modes
  BY DEF TypeOK
<1>1. CASE CtxInit
  BY <1>1 DEF CtxInit
<1>2. CASE ResetRadio
  BY <1>2, CommandsEffect DEF ResetRadio, Fails
<1>3. CASE Configure
  <2>1. PICK ok \in BOOLEAN : /\ HalWrite(SetStandby(chip), ok)
                              /\ IF ok THEN pc' = FirstStep[mode] /\ UNCHANGED rc ELSE Fails
    BY <1>3 DEF Configure
  <2>2. chip'.mode = chip.mode \/ chip'.mode = "STDBY"
    BY <2>1, StandbyEffect
  <2>3. \/ pc' = "close"
        \/ mode = "rx" /\ pc' = "rx_clear"
        \/ mode = "tx" /\ pc' = "tx"
        \/ mode = "scan" /\ pc' = "scan"
        \/ mode = "txtest" /\ pc' = "test_start"
    BY <2>1 DEF Fails, FirstStep, Modes
  <2>. QED  BY <1>3, <2>2, <2>3 DEF Configure
<1>4. CASE ReadIrq \/ ClearRead
  <2>1. mode \in {"tx", "rx", "scan"}
    BY <1>4 DEF ReadIrq, ClearRead
  <2>2. \/ pc' = "clear_read"
        \/ mode = "rx" /\ pc' = "rx_handle"
        \/ mode = "tx" /\ pc' = "tx_handle"
        \/ mode = "scan" /\ pc' = "scan_handle"
    BY <1>4, <2>1 DEF ReadIrq, ClearRead, IrqStep
  <2>3. chip'.mode = chip.mode
    <3>1. CASE ReadIrq
      BY <3>1 DEF ReadIrq
    <3>2. CASE ClearRead
      <4>1. PICK ok \in BOOLEAN : HalWrite(ClearIrq(chip, irq), ok)
        BY <3>2 DEF ClearRead
      <4>. QED  BY <4>1, ClearEffect
    <3>. QED  BY <1>4, <3>1, <3>2
  <2>. QED  BY <1>4, <2>2, <2>3 DEF ReadIrq, ClearRead
<1>5. CASE Standby
  <2>1. PICK ok \in BOOLEAN : HalWrite(SetStandby(chip), ok)
    BY <1>5 DEF Standby
  <2>2. chip'.mode = chip.mode \/ chip'.mode = "STDBY"
    BY <2>1, StandbyEffect
  <2>. QED  BY <1>5, <2>2 DEF Standby
<1>6. CASE CtxDeinit
  BY <1>6 DEF CtxDeinit
<1>. QED  BY <1>1, <1>2, <1>3, <1>4, <1>5, <1>6 DEF MainHost

LEMMA TxControl ==
  ASSUME TypeOK, TypeOK', Control, TxHost, UNCHANGED scanVars
  PROVE  Control'
<1>. USE DEF txVars, scanVars, Control, AtChannel, TxSteps, RxSteps, ScanSteps, TestSteps
<1>1. chip \in Chip
  BY DEF TypeOK
<1>2. CASE TxReturns \/ TxHandle \/ TxSleep
  BY <1>2 DEF TxReturns, TxHandle, TxSleep, Sleep
<1>3. CASE TxClear
  <2>1. ClearIrq(chip, IrqBits).mode = chip.mode
    BY <1>1 DEF ClearIrq, Chip
  <2>2. /\ pc = "tx" /\ mode' = mode
        /\ \/ pc' = "tx_write" /\ chip' = ClearIrq(chip, IrqBits)
           \/ pc' = "close" /\ chip' \in {chip, ClearIrq(chip, IrqBits)}
    BY <1>3, CommandEffect DEF TxClear
  <2>. QED  BY <1>3, <2>1, <2>2 DEF TxClear
<1>4. CASE TxWrite
  <2>1. WriteBuffer(chip, NoFrame).mode = chip.mode
    BY <1>1, CommandsEffect
  <2>2. /\ pc = "tx_write" /\ mode' = mode
        /\ \/ pc' = "tx_start" /\ chip' = WriteBuffer(chip, NoFrame)
           \/ pc' = "close" /\ chip' \in {chip, WriteBuffer(chip, NoFrame)}
    BY <1>4, CommandEffect DEF TxWrite
  <2>. QED  BY <1>4, <2>1, <2>2 DEF TxWrite
<1>5. CASE TxStart
  <2>1. SetTx(chip).mode = "TX"
    BY <1>1, CommandsEffect
  <2>2. /\ pc = "tx_start" /\ mode' = mode
        /\ \/ pc' = "tx_wait" /\ chip' = SetTx(chip)
           \/ pc' = "close" /\ chip' \in {chip, SetTx(chip)}
    BY <1>5, CommandEffect DEF TxStart
  <2>. QED  BY <1>5, <2>1, <2>2 DEF TxStart
<1>6. CASE TxWait
  <2>1. DrainEdges(chip).mode = chip.mode
    BY <1>1, CommandsEffect
  <2>2. /\ pc = "tx_wait" /\ mode' = mode /\ pc' \in {"read_irq", "standby"}
        /\ chip' \in {chip, DrainEdges(chip)}
    BY <1>6, WaitEffect DEF TxWait
  <2>. QED  BY <1>6, <2>1, <2>2 DEF TxWait
<1>. QED  BY <1>2, <1>3, <1>4, <1>5, <1>6 DEF TxHost

LEMMA RxControl ==
  ASSUME TypeOK, TypeOK', Control, RxHost \/ TestHost, UNCHANGED <<txVars, scanVars>>
  PROVE  Control'
<1>. USE DEF txVars, scanVars, Control, AtChannel, TxSteps, RxSteps, ScanSteps, TestSteps
<1>1. chip \in Chip
  BY DEF TypeOK
<1>2. CASE RxReturns \/ RxListen \/ RxFailed \/ RxPause \/ TestStops
  BY <1>2 DEF RxReturns, RxListen, RxFailed, RxPause, Sleep, TestStops
<1>3. CASE RxHandle
  <2>1. pc' \in {"rx_failed", "rx_payload", "rx"}
    BY <1>3 DEF RxHandle
  <2>. QED  BY <1>3, <2>1 DEF RxHandle
<1>4. CASE RxPayload
  <2>1. chip'.mode = chip.mode
    BY <1>1, <1>4 DEF RxPayload, Chip
  <2>. QED  BY <1>4, <2>1 DEF RxPayload
<1>5. CASE RxClear
  <2>1. ClearIrq(chip, IrqBits).mode = chip.mode
    BY <1>1 DEF ClearIrq, Chip
  <2>2. /\ pc = "rx_clear" /\ mode' = mode
        /\ \/ pc' = "rx_start" /\ chip' = ClearIrq(chip, IrqBits)
           \/ pc' = "close" /\ chip' \in {chip, ClearIrq(chip, IrqBits)}
    BY <1>5, CommandEffect DEF RxClear
  <2>. QED  BY <1>5, <2>1, <2>2 DEF RxClear
<1>6. CASE RxStart
  <2>1. SetRx(chip).mode = "RX"
    BY <1>1, CommandsEffect
  <2>2. /\ pc = "rx_start" /\ mode' = mode
        /\ \/ pc' = "rx" /\ chip' = SetRx(chip)
           \/ pc' = "close" /\ chip' \in {chip, SetRx(chip)}
    BY <1>6, CommandEffect DEF RxStart
  <2>. QED  BY <1>6, <2>1, <2>2 DEF RxStart
<1>7. CASE RxWait
  <2>1. DrainEdges(chip).mode = chip.mode
    BY <1>1, CommandsEffect
  <2>2. /\ pc = "rx_wait" /\ mode' = mode /\ pc' \in {"read_irq", "rx", "rx_failed"}
        /\ chip' \in {chip, DrainEdges(chip)}
    BY <1>7, WaitEffect DEF RxWait
  <2>. QED  BY <1>7, <2>1, <2>2 DEF RxWait
<1>8. CASE TestStart
  <2>1. SetTxCw(chip).mode = "CW"
    BY <1>1, CommandsEffect
  <2>2. /\ pc = "test_start" /\ mode' = mode
        /\ \/ pc' = "test" /\ chip' = SetTxCw(chip)
           \/ pc' = "close" /\ chip' \in {chip, SetTxCw(chip)}
    BY <1>8, CommandEffect DEF TestStart
  <2>. QED  BY <1>8, <2>1, <2>2 DEF TestStart
<1>. QED  BY <1>2, <1>3, <1>4, <1>5, <1>6, <1>7, <1>8 DEF RxHost, TestHost

LEMMA ScanControl ==
  ASSUME TypeOK, TypeOK', Control, ScanHost, UNCHANGED txVars
  PROVE  Control'
<1>. USE DEF txVars, scanVars, Control, AtChannel, TxSteps, RxSteps, ScanSteps, TestSteps
<1>1. chip \in Chip
  BY DEF TypeOK
<1>2. CASE ScanRefuses \/ ScanSweepEnds \/ ScanHandle
  BY <1>2 DEF ScanRefuses, Fails, ScanSweepEnds, ScanHandle
<1>3. CASE ScanTune
  <2>1. /\ pc = "scan" /\ mode' = mode /\ chip' = chip /\ ci' = ci
        /\ pc' \in {"scan_clear", "standby"}
    BY <1>3, ScanCommandEffect DEF ScanTune
  <2>2. ci \in Channel
    BY <1>3, TimesType DEF ScanTune, TypeOK, Channel
  <2>. QED  BY <1>3, <2>1, <2>2 DEF ScanTune
<1>4. CASE ScanClear
  <2>1. ClearIrq(chip, IrqBits).mode = chip.mode
    BY <1>1 DEF ClearIrq, Chip
  <2>2. /\ pc = "scan_clear" /\ mode' = mode /\ pc' \in {"scan_cad", "standby"} /\ ci' = ci
        /\ chip' \in {chip, ClearIrq(chip, IrqBits)}
    BY <1>4, ScanCommandEffect DEF ScanClear
  <2>. QED  BY <1>4, <2>1, <2>2 DEF ScanClear
<1>5. CASE ScanCad
  <2>1. SetCad(chip).mode = "CAD"
    BY <1>1, CommandsEffect
  <2>2. /\ pc = "scan_cad" /\ mode' = mode /\ pc' \in {"scan_wait", "standby"} /\ ci' = ci
        /\ chip' \in {chip, SetCad(chip)}
    BY <1>5, ScanCommandEffect DEF ScanCad
  <2>. QED  BY <1>5, <2>1, <2>2 DEF ScanCad
<1>6. CASE ScanWait
  <2>1. DrainEdges(chip).mode = chip.mode
    BY <1>1, CommandsEffect
  <2>2. /\ pc = "scan_wait" /\ mode' = mode /\ pc' = "read_irq"
        /\ chip' \in {chip, DrainEdges(chip)}
    BY <1>6, WaitEffect DEF ScanWait
  <2>. QED  BY <1>6, <2>1, <2>2 DEF ScanWait
<1>. QED  BY <1>2, <1>3, <1>4, <1>5, <1>6 DEF ScanHost

LEMMA AroundControl ==
  ASSUME TypeOK, TypeOK', Control, Around
  PROVE  Control'
<1>. USE DEF txVars, scanVars, Control, AtChannel
<1>1. chip \in Chip
  BY DEF TypeOK
<1>2. CASE TxEnds /\ UNCHANGED scanVars
  <2>1. chip'.mode = "STDBY"
    BY <1>1, <1>2, EventsEffect DEF TxEnds
  <2>. QED  BY <1>2, <2>1 DEF TxEnds
<1>3. CASE CadEnds /\ UNCHANGED txVars
  <2>1. chip'.mode = "STDBY"
    BY <1>1, <1>3, EventsEffect DEF CadEnds
  <2>. QED  BY <1>3, <2>1 DEF CadEnds
<1>4. CASE Clock
  <2>1. chip'.mode = chip.mode
    BY <1>1, <1>4, EventsEffect DEF Clock, Tick
  <2>. QED  BY <1>4, <2>1 DEF Clock, Tick
<1>5. CASE Receives /\ UNCHANGED <<txVars, scanVars>>
  <2>1. chip'.mode = chip.mode
    BY <1>1, <1>5, EventsEffect DEF Receives
  <2>. QED  BY <1>5, <2>1 DEF Receives
<1>6. CASE CtrlC /\ UNCHANGED <<txVars, scanVars>>
  BY <1>6 DEF CtrlC
<1>. QED  BY <1>2, <1>3, <1>4, <1>5, <1>6 DEF Around, RadioEnds

(***************************************************************************)
(* How a run begins and ends.                                              *)
(***************************************************************************)
\* Only the first step leads to the reset; only a failure, the standby command, at
\* the end or in the configuration, or a refused scan leads to the closing of the
\* board.
Outcome == \/ CtxInit
           \/ CtxDeinit
           \/ ScanRefuses
           \/ pc' \notin {"start", "reset", "close", "ended"}
           \/ pc' = "close" /\ Failed' = Failed + 1
           \/ pc' = "close" /\ (Failed' = Failed => chip'.mode = "STDBY")

LEMMA CommandOutcome ==
  ASSUME TypeOK, TypeOK', NEW c, NEW step, NEW next, Command(step, c, next),
         next \notin {"start", "reset", "close", "ended"}
  PROVE  Outcome
BY CommandEffect DEF Outcome

LEMMA WaitOutcome ==
  ASSUME NEW step, NEW a, NEW b, NEW c, WaitIrqRising(step, a, b, c),
         {a, b, c} \cap {"start", "reset", "close", "ended"} = {}
  PROVE  Outcome
BY DEF WaitIrqRising, Outcome

LEMMA ScanCommandOutcome ==
  ASSUME NEW c, NEW step, NEW next, ScanCommand(step, c, next),
         next \notin {"start", "reset", "close", "ended"}
  PROVE  Outcome
BY DEF ScanCommand, Outcome

LEMMA HostOutcome ==
  ASSUME TypeOK, TypeOK', Control, Host
  PROVE  Outcome
<1>1. CASE MainHost
  <2>1. CASE CtxInit \/ CtxDeinit
    BY <2>1 DEF Outcome
  <2>2. CASE ResetRadio
    <3>1. PICK ok \in BOOLEAN :
            /\ HalRead(ok)
            /\ IF ok THEN pc' = "configure" /\ UNCHANGED rc ELSE Fails
      BY <2>2 DEF ResetRadio
    <3>2. Failed' = IF ok THEN Failed ELSE Failed + 1
      BY <3>1, ReadEffect
    <3>. QED  BY <3>1, <3>2 DEF Fails, Outcome
  <2>3. CASE Configure
    <3>1. PICK ok \in BOOLEAN : /\ HalWrite(SetStandby(chip), ok)
                                /\ IF ok THEN pc' = FirstStep[mode] /\ UNCHANGED rc ELSE Fails
      BY <2>3 DEF Configure
    <3>2. \/ chip'.mode = "STDBY" /\ Failed' = Failed
          \/ Failed' = Failed + 1
      BY <3>1, StandbyEffect
    <3>3. FirstStep[mode] \notin {"start", "reset", "ended"}
      BY DEF FirstStep, Modes, TypeOK
    <3>. QED  BY <3>1, <3>2, <3>3, FailedType DEF Fails, Outcome
  <2>4. CASE ReadIrq \/ ClearRead
    <3>1. IrqStep[mode] \in {"rx_handle", "tx_handle", "scan_handle"}
      <4>1. mode \in {"tx", "rx", "scan"}
        BY <2>4 DEF ReadIrq, ClearRead, Control
      <4>. QED  BY <4>1 DEF IrqStep
    <3>2. pc' = "clear_read" \/ pc' = IrqStep[mode]
      BY <2>4 DEF ReadIrq, ClearRead
    <3>. QED  BY <3>1, <3>2 DEF Outcome
  <2>5. CASE Standby
    <3>1. PICK ok \in BOOLEAN : HalWrite(SetStandby(chip), ok)
      BY <2>5 DEF Standby
    <3>2. \/ chip'.mode = "STDBY" /\ Failed' = Failed
          \/ Failed' = Failed + 1
      BY <3>1, StandbyEffect
    <3>. QED  BY <2>5, <3>2 DEF Standby, Outcome
  <2>. QED  BY <1>1, <2>1, <2>2, <2>3, <2>4, <2>5 DEF MainHost
<1>2. CASE TxHost
  BY <1>2, CommandOutcome, WaitOutcome
     DEF TxHost, TxReturns, TxClear, TxWrite, TxStart, TxWait, TxHandle, TxSleep, Sleep,
         Outcome
<1>3. CASE RxHost \/ TestHost
  <2>1. CASE RxHandle
    <3>1. pc' \in {"rx_failed", "rx_payload", "rx"}
      BY <2>1 DEF RxHandle
    <3>. QED  BY <3>1 DEF Outcome
  <2>. QED  BY <1>3, <2>1, CommandOutcome, WaitOutcome
               DEF RxHost, RxClear, RxStart, RxReturns, RxListen, RxWait, RxPayload,
                   RxFailed, RxPause, Sleep, TestHost, TestStart, TestStops, Outcome
<1>4. CASE ScanHost
  BY <1>4, ScanCommandOutcome, WaitOutcome
     DEF ScanHost, ScanTune, ScanSweepEnds, ScanClear, ScanCad, ScanWait, ScanHandle, Outcome
<1>. QED  BY <1>1, <1>2, <1>3, <1>4 DEF Host

\* Nothing happens to a radio in standby but the passing of time.
LEMMA AroundStandby ==
  ASSUME TypeOK, Around
  PROVE  /\ pc' = pc /\ faults' = faults /\ mode' = mode /\ rc' = rc
         /\ chip.mode = "STDBY" => chip' = chip
<1>1. CASE (TxEnds /\ UNCHANGED scanVars) \/ (CadEnds /\ UNCHANGED txVars)
  BY <1>1 DEF TxEnds, CadEnds
<1>2. CASE Clock
  BY <1>2 DEF Clock, Tick, Elapse, Timed
<1>3. CASE Receives \/ CtrlC
  BY <1>3 DEF Receives, CtrlC
<1>. QED  BY <1>1, <1>2, <1>3 DEF Around, RadioEnds

\* A step makes at most one call, which fails or not.
LEMMA OneCall ==
  ASSUME TypeOK, TypeOK', Host \/ Around
  PROVE  Failed' = Failed \/ Failed' = Failed + 1
<1>1. \A ok \in BOOLEAN :
        /\ HalRead(ok) => faults' = faults \/ faults' = faults - 1
        /\ \A c : HalWrite(c, ok) => faults' = faults \/ faults' = faults - 1
  BY DEF HalRead, HalWrite
<1>2. faults' = faults \/ faults' = faults - 1
  <2>1. CASE MainHost
    BY <1>1, <2>1 DEF MainHost, CtxInit, ResetRadio, Configure, ReadIrq, ClearRead, Standby,
                      CtxDeinit
  <2>2. CASE TxHost
    BY <1>1, <2>2 DEF TypeOK, TxHost, TxReturns, TxClear, TxWrite, TxStart, TxWait, TxHandle,
                      TxSleep, Sleep, Command, WaitIrqRising
  <2>3. CASE RxHost \/ TestHost
    BY <1>1, <2>3 DEF TypeOK, RxHost, RxClear, RxStart, RxReturns, RxListen, RxWait, RxHandle,
                      RxPayload, RxFailed, RxPause, Sleep, TestHost, TestStart, TestStops,
                      Command, WaitIrqRising
  <2>4. CASE ScanHost
    BY <1>1, <2>4 DEF TypeOK, ScanHost, ScanRefuses, ScanTune, ScanSweepEnds, ScanClear,
                      ScanCad, ScanWait, ScanHandle, ScanCommand, WaitIrqRising
  <2>5. CASE Around
    BY <2>5, AroundStandby
  <2>. QED  BY <2>1, <2>2, <2>3, <2>4, <2>5 DEF Host
<1>. QED  BY <1>2, FailedType

LEMMA NoOldEdgeStep ==
  ASSUME TypeOK, TypeOK', Control, NoOldEdge, Host \/ Around
  PROVE  NoOldEdge'
<1>1. chip \in Chip
  BY DEF TypeOK
<1>2. CASE Host
  BY <1>2, HostOutcome DEF Outcome, NoOldEdge, CtxInit, CtxDeinit, ScanRefuses, Fails
<1>3. CASE Around
  <2>1. CASE (TxEnds /\ UNCHANGED scanVars) \/ (CadEnds /\ UNCHANGED txVars)
    BY <2>1 DEF TxEnds, CadEnds, NoOldEdge, Timed
  <2>2. CASE Clock
    BY <2>2 DEF Clock, Tick, Elapse, NoOldEdge
  <2>3. CASE Receives
    <3>1. chip'.mode = chip.mode /\ chip'.edge = (chip.edge \/ chip.irq = {})
      BY <1>1, <2>3, EventsEffect DEF Receives
    <3>2. "RX_DONE" \in chip'.irq \/ "HEADER_ERROR" \in chip'.irq
      BY <1>1, <2>3, EventsEffect DEF Receives
    <3>3. chip.mode = "RX" /\ pc' = pc
      BY <2>3 DEF Receives
    <3>. QED  BY <3>1, <3>2, <3>3 DEF NoOldEdge
  <2>4. CASE CtrlC
    BY <2>4 DEF CtrlC, NoOldEdge
  <2>. QED  BY <1>3, <2>1, <2>2, <2>3, <2>4 DEF Around, RadioEnds
<1>. QED  BY <1>2, <1>3

LEMMA QuietStep ==
  ASSUME TypeOK, TypeOK', Control, Quiet, Host \/ Around
  PROVE  Quiet'
<1>1. Failed \in Nat /\ (Failed' = Failed \/ Failed' = Failed + 1)
  BY OneCall, FailedType
<1>2. CASE Host
  <2>1. CASE CtxInit
    <3>1. PICK ok \in BOOLEAN : HalRead(ok) /\ pc' = IF ok THEN "reset" ELSE "ended"
      BY <2>1 DEF CtxInit
    <3>2. Failed' = IF ok THEN Failed ELSE Failed + 1
      BY <3>1, ReadEffect
    <3>. QED  BY <1>1, <3>1, <3>2 DEF Quiet
  <2>2. CASE CtxDeinit
    <3>1. Failed' = Failed
      BY <2>2 DEF CtxDeinit, Failed
    <3>. QED  BY <2>2, <3>1 DEF CtxDeinit, Quiet, Refused
  <2>3. CASE ScanRefuses
    <3>1. mode' = "scan" /\ rc' = "failed"
      BY <2>3 DEF ScanRefuses, Fails
    <3>. QED  BY <3>1 DEF Quiet, Refused
  <2>. QED  BY <1>1, <1>2, <2>1, <2>2, <2>3, HostOutcome DEF Outcome, Quiet
<1>3. CASE Around
  <2>1. Failed' = Failed
    BY <1>3, AroundStandby DEF Failed
  <2>. QED  BY <1>3, <2>1, AroundStandby DEF Quiet, Refused
<1>. QED  BY <1>2, <1>3

(***************************************************************************)
(* The transmit mode counts what it sent.                                  *)
(***************************************************************************)
LEMMA CountingTypes ==
  ASSUME TypeOK, TypeOK'
  PROVE  /\ sent \in Nat /\ onAir \in Nat /\ sent' \in Nat /\ onAir' \in Nat
         /\ COUNT \in Nat /\ Failed \in Nat /\ Failed' \in Nat
         /\ chip \in Chip /\ chip' \in Chip
BY TimesType, FailedType DEF TypeOK

LEMMA MainCounting ==
  ASSUME TypeOK, TypeOK', Control, NoOldEdge, Counting, mode = "tx",
         MainHost, UNCHANGED <<txVars, scanVars>>
  PROVE  Counting'
<1>. USE CountingTypes DEF txVars, Counting, InFlight, Sending, Answering, Seen
<1>1. CASE CtxInit
  <2>1. Failed' = Failed \/ Failed' = Failed + 1
    BY <1>1, OneCall DEF Host, txVars, MainHost
  <2>2. chip.mode # "TX" /\ chip' = chip
    BY <1>1 DEF CtxInit, NoOldEdge, Timed
  <2>. QED  BY <1>1, <2>1, <2>2 DEF CtxInit
<1>2. CASE ResetRadio
  <2>1. chip'.mode = "STDBY" /\ ~chip'.edge
    BY <1>2, CommandsEffect DEF ResetRadio, NoOldEdge
  <2>. QED  BY <1>2, <2>1 DEF ResetRadio, Fails
<1>3. CASE Configure
  <2>1. PICK ok \in BOOLEAN : /\ HalWrite(SetStandby(chip), ok)
                              /\ IF ok THEN pc' = FirstStep[mode] /\ UNCHANGED rc ELSE Fails
    BY <1>3 DEF Configure
  <2>2. chip'.mode \in {chip.mode, "STDBY"} /\ chip'.edge = chip.edge
    BY <2>1, StandbyEffect
  <2>3. pc' \in {"tx", "close"}
    BY <2>1 DEF FirstStep, Fails
  <2>. QED  BY <1>3, <2>2, <2>3 DEF Configure
<1>4. CASE ReadIrq
  <2>1. PICK ok \in BOOLEAN :
          /\ HalRead(ok)
          /\ IF ok /\ chip.irq # {}
               THEN irq' = chip.irq /\ pc' = "clear_read"
               ELSE irq' = {} /\ pc' = IrqStep[mode]
    BY <1>4 DEF ReadIrq
  <2>2. Failed' = IF ok THEN Failed ELSE Failed + 1
    BY <2>1, ReadEffect
  <2>3. IrqStep[mode] = "tx_handle"
    BY DEF IrqStep
  <2>. QED  BY <1>4, <2>1, <2>2, <2>3 DEF ReadIrq
<1>5. CASE ClearRead
  <2>1. PICK ok \in BOOLEAN : HalWrite(ClearIrq(chip, irq), ok) /\ irq' = IF ok THEN irq ELSE {}
    BY <1>5 DEF ClearRead
  <2>2. /\ chip'.mode = chip.mode /\ chip'.edge = chip.edge
        /\ Failed' = IF ok THEN Failed ELSE Failed + 1
    BY <2>1, ClearEffect
  <2>3. IrqStep[mode] = "tx_handle"
    BY DEF IrqStep
  <2>. QED  BY <1>5, <2>1, <2>2, <2>3 DEF ClearRead
<1>6. CASE Standby
  <2>1. PICK ok \in BOOLEAN : HalWrite(SetStandby(chip), ok)
    BY <1>6 DEF Standby
  <2>2. /\ chip'.mode \in {chip.mode, "STDBY"}
        /\ Failed' = Failed \/ Failed' = Failed + 1
    BY <2>1, StandbyEffect
  <2>. QED  BY <1>6, <2>2 DEF Standby
<1>7. CASE CtxDeinit
  <2>1. Failed' = Failed
    BY <1>7 DEF CtxDeinit, Failed
  <2>. QED  BY <1>7, <2>1 DEF CtxDeinit
<1>. QED  BY <1>1, <1>2, <1>3, <1>4, <1>5, <1>6, <1>7 DEF MainHost

LEMMA TxCounting ==
  ASSUME TypeOK, TypeOK', Control, Counting, mode = "tx", TxHost, UNCHANGED scanVars
  PROVE  Counting'
<1>. USE CountingTypes DEF txVars, Counting, InFlight, Sending, Answering, Seen, More
<1>1. CASE TxReturns \/ TxSleep
  <2>1. Failed' = Failed
    BY <1>1 DEF TxReturns, TxSleep, Sleep, Failed
  <2>. QED  BY <1>1, <2>1 DEF TxReturns, TxSleep, Sleep
<1>2. CASE TxClear
  <2>1. /\ ClearIrq(chip, IrqBits).mode = chip.mode /\ ClearIrq(chip, IrqBits).edge = chip.edge
        /\ "TX_DONE" \notin ClearIrq(chip, IrqBits).irq
    BY DEF ClearIrq, Chip, IrqBits
  <2>2. /\ pc = "tx"
        /\ UNCHANGED <<mode, irq, g_stop>>
        /\ \/ pc' = "tx_write" /\ chip' = ClearIrq(chip, IrqBits) /\ Failed' = Failed
           \/ /\ pc' = "close" /\ chip' \in {chip, ClearIrq(chip, IrqBits)}
              /\ Failed' = Failed + 1
    BY <1>2, CommandEffect DEF TxClear
  <2>. QED  BY <1>2, <2>1, <2>2 DEF TxClear
<1>3. CASE TxWrite
  <2>1. /\ WriteBuffer(chip, NoFrame).mode = chip.mode
        /\ WriteBuffer(chip, NoFrame).edge = chip.edge
        /\ WriteBuffer(chip, NoFrame).irq = chip.irq
    BY CommandsEffect
  <2>2. /\ pc = "tx_write"
        /\ UNCHANGED <<mode, irq, g_stop>>
        /\ \/ pc' = "tx_start" /\ chip' = WriteBuffer(chip, NoFrame) /\ Failed' = Failed
           \/ /\ pc' = "close" /\ chip' \in {chip, WriteBuffer(chip, NoFrame)}
              /\ Failed' = Failed + 1
    BY <1>3, CommandEffect DEF TxWrite
  <2>. QED  BY <1>3, <2>1, <2>2 DEF TxWrite
<1>4. CASE TxStart
  <2>1. SetTx(chip).mode = "TX" /\ SetTx(chip).edge = chip.edge /\ SetTx(chip).irq = chip.irq
    BY CommandsEffect
  <2>2. /\ pc = "tx_start"
        /\ UNCHANGED <<mode, irq, g_stop>>
        /\ \/ pc' = "tx_wait" /\ chip' = SetTx(chip) /\ Failed' = Failed
           \/ pc' = "close" /\ chip' \in {chip, SetTx(chip)} /\ Failed' = Failed + 1
    BY <1>4, CommandEffect DEF TxStart
  <2>. QED  BY <1>4, <2>1, <2>2 DEF TxStart
<1>5. CASE TxWait
  <2>1. /\ DrainEdges(chip).mode = chip.mode /\ DrainEdges(chip).irq = chip.irq
        /\ DrainEdges(chip).edge = FALSE
    BY CommandsEffect
  <2>2. /\ pc = "tx_wait"
        /\ UNCHANGED <<mode, irq>>
        /\ \/ pc' = "read_irq" /\ chip.edge /\ chip' = DrainEdges(chip) /\ Failed' = Failed
           \/ pc' = "standby" /\ chip' = chip /\ (Failed' = Failed \/ Failed' = Failed + 1)
    BY <1>5, WaitEffect DEF TxWait
  <2>. QED  BY <1>5, <2>1, <2>2 DEF TxWait
<1>6. CASE TxHandle
  <2>1. Failed' = Failed
    BY <1>6 DEF TxHandle, Failed
  <2>. QED  BY <1>6, <2>1 DEF TxHandle
<1>. QED  BY <1>1, <1>2, <1>3, <1>4, <1>5, <1>6 DEF TxHost

LEMMA AroundCounting ==
  ASSUME TypeOK, TypeOK', Control, NoOldEdge, Counting, mode = "tx", Around
  PROVE  Counting'
<1>. USE CountingTypes DEF txVars, Counting, InFlight, Sending, Answering, Seen
<1>1. Failed' = Failed /\ pc' = pc /\ mode' = mode
  BY AroundStandby DEF Failed
<1>2. CASE TxEnds /\ UNCHANGED scanVars
  <2>1. chip.mode = "TX" /\ irq' = irq /\ sent' = sent /\ pc \notin {"start", "reset"}
    BY <1>2 DEF TxEnds, NoOldEdge, Timed
  <2>2. /\ chip'.mode = "STDBY"
        /\ \/ chip'.irq = chip.irq \cup {"TX_DONE"} /\ onAir' = onAir + 1
           \/ chip'.irq = chip.irq \cup {"ERROR"} /\ onAir' = onAir
    BY <1>2, EventsEffect DEF TxEnds
  <2>3. "TX_DONE" \in chip'.irq =>
           onAir' = onAir + 1 \/ (onAir' = onAir /\ "TX_DONE" \in chip.irq)
    BY <2>2
  <2>4. "TX_DONE" \notin chip'.irq => onAir' = onAir /\ "TX_DONE" \notin chip.irq
    BY <2>2
  <2>. QED  BY <1>1, <2>1, <2>2, <2>3, <2>4
<1>3. CASE CadEnds /\ UNCHANGED txVars
  BY <1>3 DEF CadEnds, Control
<1>4. CASE Clock
  <2>1. chip'.mode = chip.mode /\ chip'.irq = chip.irq /\ chip'.edge = chip.edge
    BY <1>4, EventsEffect DEF Clock, Tick
  <2>. QED  BY <1>1, <1>4, <2>1 DEF Clock, Tick
<1>5. CASE Receives /\ UNCHANGED <<txVars, scanVars>>
  <2>1. chip'.mode = chip.mode
    BY <1>5, EventsEffect DEF Receives
  <2>2. pc \in {"start", "reset", "close", "ended"}
    BY <1>5 DEF Receives, Control
  <2>. QED  BY <1>1, <1>5, <2>1, <2>2 DEF Receives
<1>6. CASE CtrlC /\ UNCHANGED <<txVars, scanVars>>
  BY <1>1, <1>6 DEF CtrlC
<1>. QED  BY <1>2, <1>3, <1>4, <1>5, <1>6 DEF Around, RadioEnds

\* A step of the scan is taken by the scan alone.
LEMMA ScanOnly ==
  ASSUME Control, ScanHost
  PROVE  mode = "scan" /\ mode' = mode
<1>1. CASE ScanRefuses
  BY <1>1 DEF ScanRefuses
<1>2. CASE ScanHost /\ ~ScanRefuses
  <2>1. pc \in ScanSteps /\ mode' = mode
    BY <1>2 DEF ScanHost, ScanTune, ScanSweepEnds, ScanClear, ScanCad, ScanWait, ScanHandle,
                ScanCommand, WaitIrqRising, ScanSteps
  <2>. QED  BY <2>1 DEF Control
<1>. QED  BY <1>1, <1>2

LEMMA CountingStep ==
  ASSUME TypeOK, TypeOK', Control, Control', NoOldEdge, Counting, Host \/ Around
  PROVE  Counting'
<1>1. CASE mode' # "tx"
  BY <1>1, CountingTypes DEF Control, Counting
<1>2. CASE mode' = "tx"
  <2>1. CASE MainHost /\ UNCHANGED <<txVars, scanVars>>
    <3>1. mode = "tx"
      BY <1>2, <2>1 DEF MainHost, CtxInit, ResetRadio, Configure, ReadIrq, ClearRead, Standby,
                        CtxDeinit
    <3>. QED  BY <2>1, <3>1, MainCounting
  <2>2. CASE TxHost /\ UNCHANGED scanVars
    <3>1. pc \in TxSteps
      BY <2>2 DEF TxHost, TxReturns, TxClear, TxWrite, TxStart, TxWait, TxHandle, TxSleep,
                  Sleep, Command, WaitIrqRising, TxSteps
    <3>. QED  BY <2>2, <3>1, TxCounting DEF Control
  <2>3. CASE RxHost \/ TestHost
    <3>1. pc \in RxSteps \cup TestSteps /\ mode' = mode
      BY <2>3 DEF RxHost, RxClear, RxStart, RxReturns, RxListen, RxWait, RxHandle, RxPayload,
                  RxFailed, RxPause, Sleep, TestHost, TestStart, TestStops, Command,
                  WaitIrqRising, RxSteps, TestSteps
    <3>. QED  BY <1>2, <3>1 DEF Control
  <2>4. CASE ScanHost
    <3>1. mode = "scan" /\ mode' = mode
      BY <2>4, ScanOnly
    <3>. QED  BY <1>2, <3>1
  <2>5. CASE Around
    BY <1>2, <2>5, AroundCounting, AroundStandby
  <2>. QED  BY <2>1, <2>2, <2>3, <2>4, <2>5 DEF Host
<1>. QED  BY <1>1, <1>2
(***************************************************************************)
(* The scan counts what was detected.                                      *)
(***************************************************************************)
LEMMA DetectingTypes ==
  ASSUME TypeOK, TypeOK', Failed' = 0, Host \/ Around
  PROVE  /\ hits \in [Channel -> Nat] /\ detected \in [Channel -> Nat]
         /\ chip \in Chip /\ chip' \in Chip /\ left \in Nat
         /\ Failed = 0
<1>1. Failed = 0
  BY OneCall, FailedType
<1>. QED  BY <1>1 DEF TypeOK

LEMMA NothingTaken ==
  ASSUME hits \in [Channel -> Nat]
  PROVE  Taken({}) = hits
BY DEF Taken

LEMMA MainDetecting ==
  ASSUME TypeOK, TypeOK', Control, NoOldEdge, Detecting, mode = "scan", Failed' = 0,
         MainHost, UNCHANGED <<txVars, scanVars>>
  PROVE  Detecting'
<1>. USE DEF scanVars, Ready
<1>0. /\ hits \in [Channel -> Nat] /\ detected \in [Channel -> Nat]
      /\ chip \in Chip /\ Failed = 0
  BY DetectingTypes DEF Host
<1>a. /\ \A c \in Channel : hits[c] <= detected[c]
      /\ UNCHANGED <<ci, hits, cadOn, detected>>
  BY <1>0 DEF Detecting
<1>1. CASE CtxInit
  BY <1>0, <1>a, <1>1 DEF CtxInit, Detecting
<1>2. CASE ResetRadio
  <2>1. chip'.mode = "STDBY" /\ ~chip'.edge
    BY <1>0, <1>2, CommandsEffect DEF ResetRadio, NoOldEdge
  <2>2. hits = detected /\ pc' \in {"configure", "close"}
    BY <1>0, <1>2 DEF ResetRadio, Fails, Detecting
  <2>. QED  BY <1>a, <2>1, <2>2 DEF Detecting
<1>3. CASE Configure
  <2>1. PICK ok \in BOOLEAN : /\ HalWrite(SetStandby(chip), ok)
                              /\ IF ok THEN pc' = FirstStep[mode] /\ UNCHANGED rc ELSE Fails
    BY <1>3 DEF Configure
  <2>2. chip'.mode \in {chip.mode, "STDBY"} /\ chip'.edge = chip.edge
    BY <2>1, StandbyEffect
  <2>3. pc' \in {"scan", "close"}
    BY <2>1 DEF FirstStep, Fails
  <2>4. hits = detected /\ Ready
    BY <1>0, <1>3 DEF Configure, Detecting
  <2>. QED  BY <1>a, <2>2, <2>3, <2>4 DEF Detecting
<1>4. CASE ReadIrq
  <2>1. PICK ok \in BOOLEAN :
          /\ HalRead(ok)
          /\ IF ok /\ chip.irq # {}
               THEN irq' = chip.irq /\ pc' = "clear_read"
               ELSE irq' = {} /\ pc' = IrqStep[mode]
    BY <1>4 DEF ReadIrq
  <2>2. ok
    BY <1>0, <2>1, ReadEffect
  <2>3. irq' = chip.irq /\ pc' \in {"clear_read", "scan_handle"}
    BY <2>1, <2>2 DEF IrqStep
  <2>4. Taken(chip.irq) = detected /\ (~g_stop => Ready)
    BY <1>0, <1>4 DEF ReadIrq, Detecting
  <2>5. Taken(irq)' = detected'
    BY <1>a, <2>3, <2>4 DEF Taken
  <2>6. \A c \in Channel : Taken(irq)'[c] <= detected'[c]
    BY <1>0, <1>a, <2>5
  <2>. QED  BY <1>4, <1>a, <2>3, <2>4, <2>5, <2>6 DEF ReadIrq, Detecting
<1>5. CASE ClearRead
  <2>1. PICK ok \in BOOLEAN : HalWrite(ClearIrq(chip, irq), ok) /\ irq' = IF ok THEN irq ELSE {}
    BY <1>5 DEF ClearRead
  <2>2. ok /\ chip'.mode = chip.mode /\ chip'.edge = chip.edge
    BY <1>0, <2>1, ClearEffect
  <2>3. irq' = irq /\ pc' = "scan_handle" /\ g_stop' = g_stop
    BY <1>5, <2>1, <2>2 DEF ClearRead, IrqStep
  <2>4. /\ \A c \in Channel : Taken(irq)[c] <= detected[c]
        /\ ~g_stop => Taken(irq) = detected /\ Ready
    BY <1>0, <1>5 DEF ClearRead, Detecting
  <2>5. Taken(irq)' = Taken(irq)
    BY <1>a, <2>3 DEF Taken
  <2>. QED  BY <1>a, <2>2, <2>3, <2>4, <2>5 DEF Detecting
<1>6. CASE Standby \/ CtxDeinit
  <2>1. pc' \in {"close", "ended"}
    BY <1>6 DEF Standby, CtxDeinit
  <2>. QED  BY <1>a, <2>1 DEF Detecting
<1>. QED  BY <1>1, <1>2, <1>3, <1>4, <1>5, <1>6 DEF MainHost

\* A CAD ends before the wait for it does, so that each is over, and counted, when
\* the next begins.
LEMMA ScanDetecting ==
  ASSUME CAD_WAIT_MS > TOA,
         TypeOK, TypeOK', Control, Detecting, mode = "scan", Failed' = 0,
         ScanHost, UNCHANGED txVars
  PROVE  Detecting'
<1>. USE DEF Ready
<1>0. /\ hits \in [Channel -> Nat] /\ detected \in [Channel -> Nat]
      /\ chip \in Chip /\ Failed = 0 /\ left \in Nat
  BY DetectingTypes DEF Host
<1>a. \A c \in Channel : hits[c] <= detected[c]
  BY <1>0 DEF Detecting
<1>7. CASE ScanRefuses
  <2>1. pc' = "close" /\ UNCHANGED <<hits, detected>>
    BY <1>7 DEF ScanRefuses, Fails, scanVars
  <2>. QED  BY <1>a, <2>1 DEF Detecting
<1>1. CASE ScanTune
  <2>1. /\ pc = "scan" /\ ~g_stop /\ pc' = "scan_clear" /\ chip' = chip
        /\ UNCHANGED <<hits, detected>>
    BY <1>0, <1>1, ScanCommandEffect DEF ScanTune
  <2>. QED  BY <1>0, <1>a, <2>1 DEF Detecting
<1>2. CASE ScanSweepEnds
  BY <1>0, <1>a, <1>2 DEF ScanSweepEnds, Detecting
<1>3. CASE ScanClear
  <2>1. /\ pc = "scan_clear" /\ pc' = "scan_cad" /\ chip' = ClearIrq(chip, IrqBits)
        /\ UNCHANGED <<hits, detected>>
    BY <1>0, <1>3, ScanCommandEffect DEF ScanClear
  <2>2. chip'.mode = chip.mode /\ chip'.edge = chip.edge /\ chip'.irq = {}
    BY <1>0, <2>1 DEF ClearIrq, Chip
  <2>. QED  BY <1>0, <1>a, <2>1, <2>2 DEF Detecting
<1>4. CASE ScanCad
  <2>1. /\ pc = "scan_cad" /\ pc' = "scan_wait" /\ chip' = SetCad(chip)
        /\ UNCHANGED <<ci, hits, detected>> /\ cadOn' = ci /\ left' = CAD_WAIT_MS
    BY <1>0, <1>4, ScanCommandEffect DEF ScanCad
  <2>2. chip'.mode = "CAD" /\ chip'.edge = FALSE /\ chip'.irq = {} /\ chip'.air = TOA
    <3>1. chip.edge = FALSE /\ chip.irq = {}
      BY <1>0, <2>1 DEF Detecting, Chip
    <3>. QED  BY <1>0, <2>1, <3>1, CommandsEffect DEF SetCad, Chip
  <2>3. hits = detected
    BY <1>0, <2>1 DEF Detecting
  <2>4. Taken(chip.irq)' = detected'
    BY <1>0, <2>1, <2>2, <2>3 DEF Taken
  <2>. QED  BY <1>a, <2>1, <2>2, <2>3, <2>4 DEF Detecting
<1>5. CASE ScanWait
  <2>1. /\ pc = "scan_wait" /\ pc' = "read_irq" /\ UNCHANGED <<irq, g_stop>>
        /\ UNCHANGED <<ci, hits, cadOn, detected>>
        /\ \/ chip.edge /\ chip' = DrainEdges(chip)
           \/ ~chip.edge /\ left = 0 /\ chip' = chip
           \/ g_stop /\ chip' = chip
    BY <1>0, <1>5, WaitEffect DEF ScanWait, scanVars, TypeOK
  <2>2. /\ cadOn = ci /\ Taken(chip.irq) = detected
        /\ chip.mode = "CAD" => chip.irq = {} /\ left > chip.air
        /\ chip.edge = (chip.mode # "CAD")
    BY <1>0, <2>1 DEF Detecting
  <2>3. ~(~chip.edge /\ left = 0)
    BY <1>0, <2>2 DEF Chip
  <2>4. /\ DrainEdges(chip).mode = chip.mode /\ DrainEdges(chip).irq = chip.irq
        /\ DrainEdges(chip).edge = FALSE
    BY <1>0, CommandsEffect
  <2>5. chip'.irq = chip.irq /\ chip'.mode = chip.mode
    BY <2>1, <2>4
  <2>6. Taken(chip.irq)' = detected'
    BY <2>1, <2>2, <2>5 DEF Taken
  <2>7. ~g_stop' => Ready'
    BY <2>1, <2>2, <2>3, <2>4
  <2>. QED  BY <1>a, <2>1, <2>2, <2>5, <2>6, <2>7 DEF Detecting
<1>6. CASE ScanHandle
  <2>1. /\ pc = "scan_handle" /\ pc' = "scan" /\ hits' = Taken(irq)
        /\ UNCHANGED <<g_stop, chip, detected>>
    BY <1>6 DEF ScanHandle, Taken
  <2>. QED  BY <1>0, <2>1 DEF Detecting
<1>. QED  BY <1>1, <1>2, <1>3, <1>4, <1>5, <1>6, <1>7 DEF ScanHost

LEMMA AroundDetecting ==
  ASSUME TypeOK, TypeOK', Control, NoOldEdge', Detecting, mode = "scan", Failed' = 0, Around
  PROVE  Detecting'
<1>. USE DEF Ready
<1>0. /\ hits \in [Channel -> Nat] /\ detected \in [Channel -> Nat]
      /\ chip \in Chip /\ Failed = 0 /\ left \in Nat /\ cadOn \in Channel
  BY DetectingTypes DEF TypeOK
<1>a. \A c \in Channel : hits[c] <= detected[c]
  BY <1>0 DEF Detecting
<1>b. pc' = pc /\ mode' = mode
  BY AroundStandby
<1>1. CASE TxEnds /\ UNCHANGED scanVars
  BY <1>1 DEF TxEnds, Control
<1>2. CASE CadEnds /\ UNCHANGED txVars
  <2>1. PICK found \in BOOLEAN :
          /\ chip' = CadEnd(chip, found)
          /\ detected' = [detected EXCEPT ![cadOn] = IF found THEN @ + 1 ELSE @]
    BY <1>2 DEF CadEnds
  <2>2. chip.mode = "CAD" /\ UNCHANGED <<irq, left, g_stop, ci, hits, cadOn>>
    BY <1>2 DEF CadEnds
  <2>3. /\ chip'.mode = "STDBY"
        /\ "CAD_DETECTED" \in chip'.irq <=> found \/ "CAD_DETECTED" \in chip.irq
        /\ chip'.edge = (chip.edge \/ chip.irq = {})
    BY <1>0, <2>1, EventsEffect
  <2>4. \A c \in Channel : detected[c] <= detected'[c]
    BY <1>0, <2>1
  <2>5. \A c \in Channel : hits'[c] <= detected'[c]
    BY <1>0, <1>a, <2>1, <2>2
  <2>6. CASE pc \in {"scan_wait", "read_irq"}
    <3>1. chip.irq = {} /\ cadOn = ci /\ Taken({}) = detected
      BY <1>0, <2>2, <2>6 DEF Detecting
    <3>2. hits = detected
      BY <1>0, <3>1, NothingTaken
    <3>3. "CAD_DETECTED" \in chip'.irq <=> found
      BY <2>3, <3>1
    <3>4. Taken(chip.irq)' = detected'
      BY <2>1, <2>2, <3>1, <3>2, <3>3 DEF Taken
    <3>5. pc = "read_irq" => g_stop
      BY <1>0, <2>2 DEF Detecting
    <3>. QED  BY <1>b, <2>2, <2>3, <2>5, <2>6, <3>1, <3>4, <3>5 DEF Detecting
  <2>7. CASE pc \in {"clear_read", "scan_handle"}
    <3>1. g_stop
      BY <1>0, <2>2, <2>7 DEF Detecting
    <3>2. \A c \in Channel : Taken(irq)[c] <= detected[c]
      BY <1>0, <2>7 DEF Detecting
    <3>3. Taken(irq)' = Taken(irq)
      BY <2>2 DEF Taken
    <3>4. Taken(irq) \in [Channel -> Nat] /\ detected' \in [Channel -> Nat]
      <4>1. ci \in Channel /\ hits[ci] \in Nat /\ detected[cadOn] \in Nat
        BY <1>0, <2>7 DEF Control, AtChannel
      <4>2. Taken(irq) \in [Channel -> Nat]
        <5>1. (IF "CAD_DETECTED" \in irq THEN hits[ci] + 1 ELSE hits[ci]) \in Nat
          BY <4>1
        <5>. QED  BY <1>0, <5>1 DEF Taken
      <4>3. detected' \in [Channel -> Nat]
        <5>1. (IF found THEN detected[cadOn] + 1 ELSE detected[cadOn]) \in Nat
          BY <4>1
        <5>. QED  BY <1>0, <2>1, <5>1
      <4>. QED  BY <4>2, <4>3
    <3>5. \A c \in Channel : Taken(irq)'[c] <= detected'[c]
      BY <1>0, <2>4, <3>2, <3>3, <3>4
    <3>. QED  BY <1>b, <2>2, <2>5, <2>7, <3>1, <3>5 DEF Detecting
  <2>8. CASE pc \notin {"scan_wait", "read_irq", "clear_read", "scan_handle"}
    <3>1. pc \notin {"start", "reset", "configure", "scan_clear", "scan_cad"}
      BY <1>0, <2>2 DEF Detecting
    <3>2. pc = "scan" => g_stop
      BY <1>0, <2>2 DEF Detecting
    <3>. QED  BY <1>b, <2>2, <2>5, <2>8, <3>1, <3>2 DEF Detecting
  <2>. QED  BY <2>6, <2>7, <2>8
<1>3. CASE Clock
  <2>1. /\ chip'.mode = chip.mode /\ chip'.irq = chip.irq /\ chip'.edge = chip.edge
        /\ chip.mode = "CAD" => chip'.air = chip.air - 1 /\ chip.air > 0
    BY <1>0, <1>3, EventsEffect DEF Clock, Tick, MayElapse, Timed
  <2>2. /\ UNCHANGED <<irq, g_stop, ci, hits, cadOn, detected>>
        /\ left' = IF left = 0 THEN 0 ELSE left - 1
    BY <1>3 DEF Clock, Tick, scanVars
  <2>3. chip.mode = "CAD" /\ left > chip.air => left' > chip'.air
    BY <1>0, <2>1, <2>2 DEF Chip
  <2>4. Taken(irq)' = Taken(irq) /\ Taken(chip.irq)' = Taken(chip.irq)
    BY <2>1, <2>2 DEF Taken
  <2>. QED  BY <1>0, <1>b, <2>1, <2>2, <2>3, <2>4 DEF Detecting
<1>4. CASE Receives /\ UNCHANGED <<txVars, scanVars>>
  <2>1. pc \in {"start", "reset", "close", "ended"} /\ chip'.mode = "RX"
    BY <1>0, <1>4, EventsEffect DEF Receives, Control
  <2>2. UNCHANGED <<hits, detected>>
    BY <1>4 DEF scanVars
  <2>. QED  BY <1>0, <1>a, <1>b, <2>1, <2>2 DEF Detecting, NoOldEdge
<1>5. CASE CtrlC /\ UNCHANGED <<txVars, scanVars>>
  <2>1. /\ UNCHANGED <<irq, left, chip, ci, hits, cadOn, detected>>
        /\ g_stop'
    BY <1>5 DEF CtrlC, scanVars
  <2>2. Taken(irq)' = Taken(irq) /\ Taken(chip.irq)' = Taken(chip.irq)
    BY <2>1 DEF Taken
  <2>. QED  BY <1>0, <1>b, <2>1, <2>2 DEF Detecting
<1>. QED  BY <1>1, <1>2, <1>3, <1>4, <1>5 DEF Around, RadioEnds

LEMMA IdleStep ==
  ASSUME TypeOK, TypeOK', Control, Idle, Host \/ Around
  PROVE  Idle'
<1>1. CASE MainHost /\ UNCHANGED <<txVars, scanVars>>
  BY <1>1 DEF Idle, scanVars, MainHost, CtxInit, ResetRadio, Configure, ReadIrq, ClearRead,
              Standby, CtxDeinit
<1>2. CASE (RxHost \/ TestHost) /\ UNCHANGED <<txVars, scanVars>>
  BY <1>2 DEF Idle, scanVars, RxHost, RxClear, RxStart, RxReturns, RxListen, RxWait, RxHandle,
              RxPayload, RxFailed, RxPause, Sleep, TestHost, TestStart, TestStops, Command,
              WaitIrqRising
<1>3. CASE TxHost /\ UNCHANGED scanVars
  BY <1>3 DEF Idle, scanVars, TxHost, TxReturns, TxClear, TxWrite, TxStart, TxWait, TxHandle,
              TxSleep, Sleep, Command, WaitIrqRising
<1>4. CASE ScanHost
  BY <1>4, ScanOnly DEF Idle
<1>5. CASE CadEnds
  BY <1>5 DEF CadEnds, Control, Idle
<1>6. CASE Around /\ ~CadEnds
  <2>1. UNCHANGED <<mode, hits, detected>>
    BY <1>6 DEF Around, RadioEnds, TxEnds, Clock, Tick, Receives, CtrlC, scanVars
  <2>. QED  BY <2>1 DEF Idle
<1>. QED  BY <1>1, <1>2, <1>3, <1>4, <1>5, <1>6 DEF Host

LEMMA DetectingStep ==
  ASSUME CAD_WAIT_MS > TOA,
         TypeOK, TypeOK', Control, NoOldEdge, NoOldEdge', Detecting, Host \/ Around
  PROVE  Detecting'
<1>1. CASE mode' # "scan" \/ Failed' # 0
  BY <1>1 DEF Detecting
<1>2. CASE mode' = "scan" /\ Failed' = 0
  <2>1. CASE MainHost /\ UNCHANGED <<txVars, scanVars>>
    <3>1. mode = "scan"
      BY <1>2, <2>1 DEF MainHost, CtxInit, ResetRadio, Configure, ReadIrq, ClearRead, Standby,
                        CtxDeinit
    <3>. QED  BY <1>2, <2>1, <3>1, MainDetecting
  <2>2. CASE ScanHost /\ UNCHANGED txVars
    <3>1. mode = "scan"
      BY <2>2, ScanOnly
    <3>. QED  BY <1>2, <2>2, <3>1, ScanDetecting
  <2>3. CASE RxHost \/ TestHost
    <3>1. pc \in RxSteps \cup TestSteps /\ mode' = mode
      BY <2>3 DEF RxHost, RxClear, RxStart, RxReturns, RxListen, RxWait, RxHandle, RxPayload,
                  RxFailed, RxPause, Sleep, TestHost, TestStart, TestStops, Command,
                  WaitIrqRising, RxSteps, TestSteps
    <3>. QED  BY <1>2, <3>1 DEF Control
  <2>4. CASE TxHost
    <3>1. pc \in TxSteps /\ mode' = mode
      BY <2>4 DEF TxHost, TxReturns, TxClear, TxWrite, TxStart, TxWait, TxHandle, TxSleep,
                  Sleep, Command, WaitIrqRising, TxSteps
    <3>. QED  BY <1>2, <3>1 DEF Control
  <2>5. CASE Around
    BY <1>2, <2>5, AroundDetecting, AroundStandby
  <2>. QED  BY <2>1, <2>2, <2>3, <2>4, <2>5 DEF Host
<1>. QED  BY <1>1, <1>2

(***************************************************************************)
(* The invariant is inductive.                                             *)
(***************************************************************************)
LEMMA ControlStep ==
  ASSUME TypeOK, TypeOK', Control, Host \/ Around
  PROVE  Control'
BY MainControl, TxControl, RxControl, ScanControl, AroundControl DEF Host

LEMMA InitIInv == Init => IInv /\ ScanInv
<1>. SUFFICES ASSUME Init PROVE IInv /\ ScanInv
  OBVIOUS
<1>1. TypeOK /\ Failed = 0
  BY TypeInit, TimesType DEF Failed, Init, MainInit
<1>2. /\ pc = "start" /\ irq = {} /\ sent = 0 /\ onAir = 0 /\ ci = 1
      /\ hits = [c \in Channel |-> 0] /\ detected = [c \in Channel |-> 0]
  BY DEF Init, MainInit, TxInit, ScanInit
<1>3. chip.mode \in {"STDBY", "CW", "RX"} /\ ~chip.edge /\ (chip.mode = "RX" => chip.irq # {})
  <2>1. chip \in LeftBehind
    BY DEF Init, MainInit
  <2>2. PowerOn.mode = "STDBY" /\ PowerOn.edge = FALSE
    BY DEF PowerOn
  <2>3. SetTxCw(PowerOn).mode = "CW" /\ SetTxCw(PowerOn).edge = FALSE
    BY DEF PowerOn, SetTxCw
  <2>4. /\ [SetRx(PowerOn) EXCEPT !.irq = {"RX_DONE"}].mode = "RX"
        /\ [SetRx(PowerOn) EXCEPT !.irq = {"RX_DONE"}].edge = FALSE
        /\ [SetRx(PowerOn) EXCEPT !.irq = {"RX_DONE"}].irq = {"RX_DONE"}
    BY DEF PowerOn, SetRx
  <2>. QED  BY <2>1, <2>2, <2>3, <2>4 DEF LeftBehind
<1>4. Control
  BY <1>2, <1>3 DEF Control, AtChannel, TxSteps, RxSteps, ScanSteps, TestSteps
<1>5. NoOldEdge
  BY <1>3 DEF NoOldEdge, Timed
<1>6. Counting
  BY <1>2, TimesType DEF Counting, Sending, Answering
<1>7. ScanInv
  BY <1>2, <1>3 DEF ScanInv, Idle, Detecting, Ready
<1>8. Quiet
  BY <1>2 DEF Quiet
<1>. QED  BY <1>1, <1>4, <1>5, <1>6, <1>7, <1>8 DEF IInv

LEMMA NextIInv == IInv /\ [Next]_vars => IInv'
<1>. SUFFICES ASSUME IInv, [Next]_vars PROVE IInv'
  OBVIOUS
<1>1. CASE Next
  <2>1. Host \/ Around
    BY <1>1 DEF Next, Around
  <2>2. TypeOK'
    BY <1>1, TypeStep DEF IInv
  <2>3. Control'
    BY <2>1, <2>2, ControlStep DEF IInv
  <2>. QED  BY <2>1, <2>2, <2>3, NoOldEdgeStep, CountingStep, QuietStep DEF IInv
<1>2. CASE UNCHANGED vars
  <2>. USE <1>2 DEF vars, mainVars, txVars, scanVars
  <2>1. TypeOK' /\ Control' /\ NoOldEdge'
    BY DEF IInv, TypeOK, Control, AtChannel, NoOldEdge
  <2>2. Counting' /\ Quiet'
    BY DEF IInv, Counting, InFlight, Sending, Answering, Seen, Quiet, Refused,
           Failed, More
  <2>. QED  BY <2>1, <2>2 DEF IInv
<1>. QED  BY <1>1, <1>2

LEMMA NextScanInv ==
  ASSUME CAD_WAIT_MS > TOA
  PROVE  IInv /\ IInv' /\ ScanInv /\ [Next]_vars => ScanInv'
<1>. SUFFICES ASSUME IInv, IInv', ScanInv, [Next]_vars PROVE ScanInv'
  OBVIOUS
<1>1. CASE Next
  <2>1. Host \/ Around
    BY <1>1 DEF Next, Around
  <2>. QED  BY <2>1, IdleStep, DetectingStep DEF IInv, ScanInv
<1>2. CASE UNCHANGED vars
  BY <1>2 DEF vars, mainVars, txVars, scanVars, ScanInv, Idle, Detecting, Taken, Ready, Failed
<1>. QED  BY <1>1, <1>2

LEMMA Invariance == Spec => []IInv
BY InitIInv, NextIInv, PTL DEF Spec

(***************************************************************************)
(* The theorems.                                                           *)
(***************************************************************************)
\* Every mode keeps its state within its types, whatever calls fail.
THEOREM CliTypeOK == Spec => []TypeOK
<1>1. IInv => TypeOK
  BY DEF IInv
<1>. QED  BY <1>1, Invariance, PTL

\* The transmit mode never reports a packet that did not go out whole, and puts
\* no more than COUNT packets on the air, one more for each call that failed
\* (mode_tx.c:68-108).
THEOREM CliCountKept == Spec => []CountKept
<1>1. IInv => CountKept
  <2>. SUFFICES ASSUME IInv PROVE CountKept
    OBVIOUS
  <2>. sent \in Nat /\ onAir \in Nat /\ COUNT \in Nat /\ Failed \in Nat
    BY TimesType, FailedType DEF IInv, TypeOK
  <2>1. sent <= onAir
    BY DEF IInv, Counting
  <2>2. ASSUME COUNT > 0 PROVE onAir <= COUNT + Failed
    <3>1. CASE mode # "tx"
      BY <3>1 DEF IInv, Control
    <3>2. CASE mode = "tx"
      <4>1. /\ pc \in {"start", "reset", "configure"} \/ Sending \/ Answering
               \/ pc \in {"standby", "close", "ended"}
        BY <3>2 DEF IInv, TypeOK, Control, Sending, Answering, MainSteps, TxSteps, RxSteps,
                    ScanSteps, TestSteps
      <4>2. CASE pc \in {"start", "reset", "configure"}
        BY <3>2, <4>2 DEF IInv, Counting
      <4>3. CASE Sending
        BY <2>2, <3>2, <4>3 DEF IInv, Counting
      <4>4. CASE Answering
        BY <2>2, <3>2, <4>4 DEF IInv, Counting, More, InFlight
      <4>5. CASE pc \in {"standby", "close", "ended"}
        BY <2>2, <3>2, <4>5 DEF IInv, Counting, InFlight
      <4>. QED  BY <4>1, <4>2, <4>3, <4>4, <4>5
    <3>. QED  BY <3>1, <3>2
  <2>. QED  BY <2>1, <2>2 DEF CountKept
<1>. QED  BY <1>1, Invariance, PTL

\* Unless a call failed or the scan was refused before it touched the radio
\* (mode_scan.c:216-219), the radio is in standby when the program has ended
\* (mode_txtest.c:131).
THEOREM CliQuietAtEnd == Spec => []QuietAtEnd
<1>1. IInv => QuietAtEnd
  BY DEF IInv, Quiet, QuietAtEnd
<1>. QED  BY <1>1, Invariance, PTL

\* When a CAD ends before the wait for it does and no call fails, the hits of the
\* channels are what was detected on them (mode_scan.c:280-301).
THEOREM CliHitsAreDetections ==
  ASSUME CAD_WAIT_MS > TOA
  PROVE  Spec => []HitsAreDetections
<1>1. IInv /\ ScanInv /\ [Next]_vars => ScanInv'
  BY NextIInv, NextScanInv
<1>2. IInv /\ ScanInv => HitsAreDetections
  <2>. SUFFICES ASSUME IInv, ScanInv, Failed = 0 PROVE
         /\ \A c \in Channel : hits[c] <= detected[c]
         /\ pc = "scan" /\ ~g_stop => hits = detected
    BY DEF HitsAreDetections
  <2>1. CASE mode # "scan"
    BY <2>1 DEF IInv, TypeOK, ScanInv, Idle
  <2>2. CASE mode = "scan"
    BY <2>2 DEF ScanInv, Detecting
  <2>. QED  BY <2>1, <2>2
<1>. QED  BY <1>1, <1>2, InitIInv, Invariance, PTL DEF Spec
=============================================================================
