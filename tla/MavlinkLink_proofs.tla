------------------------- MODULE MavlinkLink_proofs -------------------------
(* That the two sides of the bridge and the channel between them implement   *)
(* OrderedPipe in each direction, for every value of the constants.  What    *)
(* each side contributes is proved beside it, in MavlinkPort_proofs,         *)
(* MavlinkAir_proofs and MavlinkGnd_proofs, and is used here of the drone    *)
(* and of the ground station by instantiating those modules.                 *)
EXTENDS MavlinkLink, SequenceTheorems, FiniteSetTheorems, TLAPS

AP == INSTANCE MavlinkAir_proofs WITH
        MaxBytes <- AirBytes, MaxFaults <- AirFaults, HeardData <- {}, Noise <- {},
        MayStop <- FALSE,
        pc <- a_pc, ret <- a_ret, irq <- a_irq, txbuf <- a_txbuf, got <- a_got,
        left <- a_left, due <- a_due, pkt <- a_pkt, led_tx <- a_led, chip <- a_chip,
        inq <- a_inq, outq <- a_outq, offered <- a_offered, g_stop <- a_stop,
        faults <- a_faults, aired <- a_aired

GP == INSTANCE MavlinkGnd_proofs WITH
        MaxBytes <- GndBytes, MaxFaults <- GndFaults, HeardData <- {}, Noise <- {},
        MayStop <- FALSE,
        pc <- g_pc, ret <- g_ret, irq <- g_irq, txbuf <- g_txbuf, got <- g_got,
        left <- g_left, due <- g_due, pkt <- g_pkt, led_tx <- g_led, chip <- g_chip,
        inq <- g_inq, outq <- g_outq, offered <- g_offered, g_stop <- g_stop,
        faults <- g_faults, aired <- g_aired, link <- g_link, base <- g_base

(***************************************************************************)
(* A and AP, G and GP are the same definitions, with and without theorems. *)
(***************************************************************************)
LEMMA AirActions ==
  /\ A!Init <=> AP!Init
  /\ A!Host <=> AP!Host
  /\ A!TxDone <=> AP!TxDone
  /\ A!Tick <=> AP!Tick
  /\ A!PeerWrites <=> AP!PeerWrites
  /\ A!PeerReads <=> AP!PeerReads
BY
  DEF A!Init, A!Host, A!TxDone, A!Tick, A!PeerWrites, A!PeerReads, A!PortInit, A!Helper,
      A!AirTop, A!AirSendFailed, A!AirRetry, A!AirSent, A!AirSlot, A!AirSlotEnds,
      A!AirPoll, A!AirHandleIrq, A!AirRead, A!AirStops, A!AirExit, A!TxEnd, A!Around,
      A!Ready, A!Elapses, A!NoFrame, A!PowerOn, A!SendStandby, A!SendClear,
      A!SendBuffer, A!SendTx, A!WaitEnds, A!WaitPoll, A!GetIrq, A!ClearIrqRead,
      A!RxClear, A!RxSet, A!Packet, A!Filled, A!Role, A!Unsent, A!Undrained, A!Greatest,
      A!PollReturns, A!ReadPacket, A!Peer, A!HalWrite, A!SetStandby, A!Raise,
      A!Readable, A!MayElapse, A!Elapse, A!SendCall, A!ClearIrq, A!IrqBits,
      A!WriteBuffer, A!SetTx, A!HalRead, A!IrqReturns, A!SetRx, A!Least, A!Chunk,
      A!DrainTransport, A!DrainEdges, A!Accepts, A!Writable, A!Timed, AP!Init, AP!Host,
      AP!TxDone, AP!Tick, AP!PeerWrites, AP!PeerReads, AP!PortInit, AP!Helper,
      AP!AirTop, AP!AirSendFailed, AP!AirRetry, AP!AirSent, AP!AirSlot, AP!AirSlotEnds,
      AP!AirPoll, AP!AirHandleIrq, AP!AirRead, AP!AirStops, AP!AirExit, AP!TxEnd,
      AP!Around, AP!Ready, AP!Elapses, AP!NoFrame, AP!PowerOn, AP!SendStandby,
      AP!SendClear, AP!SendBuffer, AP!SendTx, AP!WaitEnds, AP!WaitPoll, AP!GetIrq,
      AP!ClearIrqRead, AP!RxClear, AP!RxSet, AP!Packet, AP!Filled, AP!Role, AP!Unsent,
      AP!Undrained, AP!Greatest, AP!PollReturns, AP!ReadPacket, AP!Peer, AP!HalWrite,
      AP!SetStandby, AP!Raise, AP!Readable, AP!MayElapse, AP!Elapse, AP!SendCall,
      AP!ClearIrq, AP!IrqBits, AP!WriteBuffer, AP!SetTx, AP!HalRead, AP!IrqReturns,
      AP!SetRx, AP!Least, AP!Chunk, AP!DrainTransport, AP!DrainEdges, AP!Accepts,
      AP!Writable, AP!Timed

LEMMA AirInvariants ==
  /\ A!IInv <=> AP!IInv
  /\ A!IInv' <=> AP!IInv'
  /\ A!Ordered <=> AP!Ordered
  /\ A!Ordered' <=> AP!Ordered'
  /\ A!Pending = AP!Pending
  /\ A!Pending' = AP!Pending'
BY
  DEF A!IInv, A!Ordered, A!Pending, A!TypeOK, A!Control, A!TxDoneIsOurs, A!RxDoneIsNew,
      A!Increasing, A!Before, A!Bytes, A!Built, A!Queued, A!Sent, A!AirSteps,
      A!PortTypeOK, A!Listening, A!Awaiting, A!Unclear, A!Building, A!HelperSteps,
      A!IrqBits, A!Frame, A!Chip, A!Roles, AP!IInv, AP!Ordered, AP!Pending, AP!TypeOK,
      AP!Control, AP!TxDoneIsOurs, AP!RxDoneIsNew, AP!Increasing, AP!Before, AP!Bytes,
      AP!Built, AP!Queued, AP!Sent, AP!AirSteps, AP!PortTypeOK, AP!Listening,
      AP!Awaiting, AP!Unclear, AP!Building, AP!HelperSteps, AP!IrqBits, AP!Frame,
      AP!Chip, AP!Roles

LEMMA GndActions ==
  /\ G!GndInit <=> GP!GndInit
  /\ G!Host <=> GP!Host
  /\ G!GndReconnected <=> GP!GndReconnected
  /\ G!TxDone <=> GP!TxDone
  /\ G!Tick <=> GP!Tick
  /\ G!ClientWrites <=> GP!ClientWrites
  /\ G!ClientReads <=> GP!ClientReads
  /\ G!ClientCloses <=> GP!ClientCloses
BY
  DEF G!GndInit, G!Host, G!GndReconnected, G!TxDone, G!Tick, G!ClientWrites,
      G!ClientReads, G!ClientCloses, G!PortInit, G!Helper, G!conn, G!GndTop,
      G!GndListenEnds, G!GndPoll, G!GndHandleIrq, G!GndRead, G!GndSigpipe, G!GndRearm,
      G!GndGuard, G!GndProbe, G!GndAcceptFails, G!GndBuild, G!GndSendFailed, G!GndSent,
      G!GndStops, G!GndExit, G!TxEnd, G!Around, G!Ready, G!Elapses, G!PeerWrites,
      G!PeerReads, G!NoFrame, G!PowerOn, G!SendStandby, G!SendClear, G!SendBuffer,
      G!SendTx, G!WaitEnds, G!WaitPoll, G!GetIrq, G!ClearIrqRead, G!RxClear, G!RxSet,
      G!PollReturns, G!Errors, G!ReadPacket, G!Peer, G!Writes, G!GndAccepted,
      G!GndRefused, G!WriteToNobody, G!Readable, G!DrainTransport, G!Packet, G!Role,
      G!Unsent, G!HalWrite, G!SetStandby, G!Raise, G!MayElapse, G!Elapse, G!Greatest,
      G!SendCall, G!ClearIrq, G!IrqBits, G!WriteBuffer, G!SetTx, G!HalRead,
      G!IrqReturns, G!SetRx, G!DrainEdges, G!Accepts, G!Writable, G!Filled, G!Undrained,
      G!Least, G!Timed, G!Chunk, GP!GndInit, GP!Host, GP!GndReconnected, GP!TxDone,
      GP!Tick, GP!ClientWrites, GP!ClientReads, GP!ClientCloses, GP!PortInit, GP!Helper,
      GP!conn, GP!GndTop, GP!GndListenEnds, GP!GndPoll, GP!GndHandleIrq, GP!GndRead,
      GP!GndSigpipe, GP!GndRearm, GP!GndGuard, GP!GndProbe, GP!GndAcceptFails,
      GP!GndBuild, GP!GndSendFailed, GP!GndSent, GP!GndStops, GP!GndExit, GP!TxEnd,
      GP!Around, GP!Ready, GP!Elapses, GP!PeerWrites, GP!PeerReads, GP!NoFrame,
      GP!PowerOn, GP!SendStandby, GP!SendClear, GP!SendBuffer, GP!SendTx, GP!WaitEnds,
      GP!WaitPoll, GP!GetIrq, GP!ClearIrqRead, GP!RxClear, GP!RxSet, GP!PollReturns,
      GP!Errors, GP!ReadPacket, GP!Peer, GP!Writes, GP!GndAccepted, GP!GndRefused,
      GP!WriteToNobody, GP!Readable, GP!DrainTransport, GP!Packet, GP!Role, GP!Unsent,
      GP!HalWrite, GP!SetStandby, GP!Raise, GP!MayElapse, GP!Elapse, GP!Greatest,
      GP!SendCall, GP!ClearIrq, GP!IrqBits, GP!WriteBuffer, GP!SetTx, GP!HalRead,
      GP!IrqReturns, GP!SetRx, GP!DrainEdges, GP!Accepts, GP!Writable, GP!Filled,
      GP!Undrained, GP!Least, GP!Timed, GP!Chunk

LEMMA GndInvariants ==
  /\ G!IInv <=> GP!IInv
  /\ G!IInv' <=> GP!IInv'
  /\ G!Ordered <=> GP!Ordered
  /\ G!Ordered' <=> GP!Ordered'
  /\ G!Pending = GP!Pending
  /\ G!Pending' = GP!Pending'
BY
  DEF G!IInv, G!Ordered, G!Pending, G!TypeOK, G!Control, G!TxDoneIsOurs, G!RxDoneIsNew,
      G!OneSession, G!Increasing, G!Before, G!Bytes, G!Built, G!Queued, G!Sent,
      G!GndSteps, G!PortTypeOK, G!Sending, G!NoFrame, G!Awaiting, G!Failed,
      G!OfThisClient, G!Building, G!HelperSteps, G!IrqBits, G!Frame, G!Chip, G!Roles,
      GP!IInv, GP!Ordered, GP!Pending, GP!TypeOK, GP!Control, GP!TxDoneIsOurs,
      GP!RxDoneIsNew, GP!OneSession, GP!Increasing, GP!Before, GP!Bytes, GP!Built,
      GP!Queued, GP!Sent, GP!GndSteps, GP!PortTypeOK, GP!Sending, GP!NoFrame,
      GP!Awaiting, GP!Failed, GP!OfThisClient, GP!Building, GP!HelperSteps, GP!IrqBits,
      GP!Frame, GP!Chip, GP!Roles

(***************************************************************************)
(* The assumptions of the two sides' theorems.                             *)
(***************************************************************************)
LEMMA AirAssumptions == AP!ToaAssumption /\ AP!FaultsAssumption /\ AP!PortAssumption
BY LinkAssumption DEF AP!ToaAssumption, AP!FaultsAssumption, AP!PortAssumption

LEMMA GndAssumptions ==
  GP!ToaAssumption /\ GP!FaultsAssumption /\ GP!PortAssumption /\ GP!TcpAssumption
BY LinkAssumption
   DEF GP!ToaAssumption, GP!FaultsAssumption, GP!PortAssumption, GP!TcpAssumption

LEMMA AirInit ==
  ASSUME A!Init
  PROVE  /\ A!IInv /\ A!Ordered /\ A!Pending = {}
         /\ a_chip.rxfifo.data = <<>> /\ a_outq = <<>> /\ a_offered = 0
<1>1. AP!Init
  BY AirActions
<1>2. AP!IInv
  BY <1>1, AirAssumptions, AP!InitIInv
<1>3. /\ AP!Ordered /\ AP!Pending = {}
      /\ a_chip.rxfifo.data = <<>> /\ a_outq = <<>> /\ a_offered = 0
  BY <1>1, AirAssumptions, AP!InitInOrder
<1>. QED  BY <1>2, <1>3, AirInvariants

LEMMA GndInit ==
  ASSUME G!GndInit
  PROVE  /\ G!IInv /\ G!Ordered /\ G!Pending = {}
         /\ g_chip.rxfifo.data = <<>> /\ g_outq = <<>> /\ g_offered = 0
<1>1. GP!GndInit
  BY GndActions
<1>2. GP!IInv
  BY <1>1, GndAssumptions, GP!InitIInv
<1>3. /\ GP!Ordered /\ GP!Pending = {}
      /\ g_chip.rxfifo.data = <<>> /\ g_outq = <<>> /\ g_offered = 0
  BY <1>1, GndAssumptions, GP!InitInOrder
<1>. QED  BY <1>2, <1>3, GndInvariants

(***************************************************************************)
(* One direction: d is what was delivered, c the radio that listens, and   *)
(* of the m bytes written those in P may still be heard.                   *)
(***************************************************************************)
Direction(d, c, m, P) ==
  /\ d \in Seq(Nat) /\ A!Increasing(d)
  /\ A!Bytes(d) \subseteq 1..m /\ A!Before(A!Bytes(d), P)
  /\ A!Bytes(c.rxfifo.data) \subseteq 1..m /\ A!Before(A!Bytes(c.rxfifo.data), P)
  /\ A!Increasing(c.rxfifo.data)
  /\ c.fresh => A!Before(A!Bytes(d), A!Bytes(c.rxfifo.data))

LEMMA Directions ==
  /\ DownOrder <=> Direction(down, g_chip, a_offered, A!Pending)
  /\ DownOrder' <=> Direction(down', g_chip', a_offered', A!Pending')
  /\ UpOrder <=> Direction(up, a_chip, g_offered, G!Pending)
  /\ UpOrder' <=> Direction(up', a_chip', g_offered', G!Pending')
BY DEF DownOrder, UpOrder, Direction, A!Behind, A!Bytes, A!Increasing, A!Before,
       G!Behind, G!Bytes, G!Increasing, G!Before

\* Nothing but new bytes becomes pending.
Flows(m, n, P, Q) == n \in {m, m + 1} /\ \A b \in Q : b \in P \/ b > m

\* What a step of the host makes of radio c and of the bytes q the transport holds.
Takes(c, c2, q, q2) ==
  /\ c2.rxfifo = c.rxfifo
  /\ c2.fresh => c.fresh
  /\ \/ Len(q2) <= Len(q)
     \/ /\ c.fresh /\ ~c2.fresh
        /\ \E n \in 0..Len(c.rxfifo.data) : q2 = q \o SubSeq(c.rxfifo.data, 1, n)

\* What the other side's step makes of radio p.
Overheard(p, q, f) ==
  \/ q \in {p, A!RxEnd(p, f, {}), A!RxLost(p), A!RxFails(p)}
  \/ \E l \in BOOLEAN : q = [p EXCEPT !.lock = l]

LEMMA DirectionFlows ==
  ASSUME NEW d, NEW c, NEW c2, NEW m \in Nat, NEW n, NEW P, NEW Q,
         Direction(d, c, m, P), Flows(m, n, P, Q), Q \subseteq 1..n,
         c2.rxfifo = c.rxfifo, c2.fresh => c.fresh
  PROVE  Direction(d, c2, n, Q)
<1>1. n \in Nat /\ 1..m \subseteq 1..n
  BY DEF Flows
<1>2. ASSUME NEW S, S \subseteq 1..m, A!Before(S, P)
      PROVE  A!Before(S, Q)
  <2>1. ASSUME NEW a \in S, NEW b \in Q
        PROVE  a < b
    <3>1. a \in 1..m /\ b \in 1..n
      BY <1>2
    <3>2. CASE b \in P
      BY <1>2, <3>2 DEF A!Before
    <3>3. CASE b > m
      BY <1>1, <3>1, <3>3
    <3>. QED  BY <3>2, <3>3 DEF Flows
  <2>. QED  BY <2>1 DEF A!Before
<1>. QED  BY <1>1, <1>2 DEF Direction

\* The lemmas of the two sides about queues, in the words of this module.
LEMMA Queues ==
  /\ A!Bytes(<<>>) = {} /\ A!Increasing(<<>>)
  /\ \A s \in Seq(Nat) : \A n \in 0..Len(s) :
       /\ A!Bytes(SubSeq(s, 1, n)) \subseteq A!Bytes(s)
       /\ A!Increasing(s) => A!Increasing(SubSeq(s, 1, n))
  /\ \A s, t \in Seq(Nat) :
       /\ A!Bytes(s \o t) = A!Bytes(s) \cup A!Bytes(t)
       /\ A!Increasing(s) /\ A!Increasing(t) /\ A!Before(A!Bytes(s), A!Bytes(t))
            => A!Increasing(s \o t)
<1>0. /\ \A s : A!Bytes(s) = AP!Bytes(s)
      /\ \A s : A!Increasing(s) <=> AP!Increasing(s)
      /\ \A S, T : A!Before(S, T) <=> AP!Before(S, T)
  BY DEF A!Bytes, AP!Bytes, A!Increasing, AP!Increasing, A!Before, AP!Before
<1>1. AP!Bytes(<<>>) = {} /\ AP!Increasing(<<>>)
  BY AirAssumptions, AP!EmptyInOrder
<1>2. ASSUME NEW s \in Seq(Nat), NEW n \in 0..Len(s)
      PROVE  /\ AP!Bytes(SubSeq(s, 0 + 1, n)) \subseteq AP!Bytes(s)
             /\ AP!Increasing(s) => AP!Increasing(SubSeq(s, 0 + 1, n))
  <2>1. n \in Nat /\ n <= Len(s) /\ 0 \in Nat
    OBVIOUS
  <2>. QED  BY <2>1, AirAssumptions, AP!PartInOrder
<1>3. ASSUME NEW s \in Seq(Nat), NEW t \in Seq(Nat)
      PROVE  /\ AP!Bytes(s \o t) = AP!Bytes(s) \cup AP!Bytes(t)
             /\ AP!Increasing(s) /\ AP!Increasing(t) /\ AP!Before(AP!Bytes(s), AP!Bytes(t))
                  => AP!Increasing(s \o t)
  BY AirAssumptions, AP!JoinInOrder
<1>4. \A s \in Seq(Nat) : \A n \in 0..Len(s) : SubSeq(s, 0 + 1, n) = SubSeq(s, 1, n)
  OBVIOUS
<1>5. A!Bytes(<<>>) = {} /\ A!Increasing(<<>>)
  BY <1>0, <1>1
<1>6. \A s \in Seq(Nat) : \A n \in 0..Len(s) :
        /\ A!Bytes(SubSeq(s, 1, n)) \subseteq A!Bytes(s)
        /\ A!Increasing(s) => A!Increasing(SubSeq(s, 1, n))
  BY <1>0, <1>2, <1>4
<1>7. \A s, t \in Seq(Nat) :
        /\ A!Bytes(s \o t) = A!Bytes(s) \cup A!Bytes(t)
        /\ A!Increasing(s) /\ A!Increasing(t) /\ A!Before(A!Bytes(s), A!Bytes(t))
             => A!Increasing(s \o t)
  BY <1>0, <1>3
<1>. QED  BY <1>5, <1>6, <1>7

LEMMA Lengths == \A s, t \in Seq(Nat) :
  /\ Len(s) \in Nat /\ Len(t) \in Nat
  /\ Len(t) > Len(s) <=> ~(Len(t) <= Len(s))
OBVIOUS

LEMMA Prefixes == \A s \in Seq(Nat) : \A n \in 0..Len(s) :
  SubSeq(s, 1, n) \in Seq(Nat) /\ Len(SubSeq(s, 1, n)) = n
OBVIOUS

LEMMA DirectionTakes ==
  ASSUME NEW d, NEW c, NEW c2, NEW q \in Seq(Nat), NEW q2 \in Seq(Nat), NEW m \in Nat,
         NEW P, c.rxfifo.data \in Seq(Nat),
         Direction(d, c, m, P), Takes(c, c2, q, q2)
  PROVE  LET w == Written(q, q2)
         IN  /\ Direction(d \o w, c2, m, P)
             /\ w \in Seq(Nat) /\ A!Increasing(w)
             /\ A!Bytes(w) \subseteq 1..m /\ A!Before(A!Bytes(d), A!Bytes(w))
<1>. DEFINE w == Written(q, q2)
            r == c.rxfifo.data
<1>1. /\ w \in Seq(Nat) /\ A!Bytes(w) \subseteq A!Bytes(r) /\ A!Increasing(w)
      /\ w = <<>> \/ (c.fresh /\ ~c2.fresh)
  <2>1. CASE Len(q2) <= Len(q)
    <3>1. w = <<>>
      BY <2>1 DEF Written
    <3>. QED  BY <3>1, Queues
  <2>2. CASE Len(q2) > Len(q)
    <3>0. ~(Len(q2) <= Len(q))
      BY <2>2, Lengths
    <3>1. PICK n \in 0..Len(r) : q2 = q \o SubSeq(r, 1, n)
      BY <3>0 DEF Takes
    <3>. DEFINE t == SubSeq(r, 1, n)
    <3>2. t \in Seq(Nat) /\ Len(t) = n
      BY Prefixes
    <3>3. w = t
      <4>1. w = SubSeq(q \o t, Len(q) + 1, Len(q \o t))
        BY <2>2, <3>1 DEF Written
      <4>. HIDE DEF w, t
      <4>2. /\ Len(q \o t) = Len(q) + Len(t) /\ Len(q) \in Nat /\ Len(t) \in Nat
            /\ Len(t) > 0
        BY <2>2, <3>1, <3>2 DEF t
      <4>3. /\ Len(q) + 1 \in Len(q) + 1..Len(q) + Len(t)
            /\ Len(q) + Len(t) \in Len(q) + 1..Len(q) + Len(t)
            /\ Len(q) + 1 - Len(q) = 1 /\ Len(q) + Len(t) - Len(q) = Len(t)
        BY <4>2
      <4>4. SubSeq(q \o t, Len(q) + 1, Len(q) + Len(t)) = SubSeq(t, 1, Len(t))
        BY <3>2, <4>3, SubSeqOfConcat2
      <4>. QED  BY <3>2, <4>1, <4>2, <4>4, SubSeqFull
    <3>4. c.fresh /\ ~c2.fresh
      BY <3>0 DEF Takes
    <3>5. A!Bytes(t) \subseteq A!Bytes(r) /\ A!Increasing(t)
      <4>1. r \in Seq(Nat) /\ A!Increasing(r) /\ n \in 0..Len(r)
        BY DEF Direction
      <4>. QED  BY <4>1, Queues
    <3>. QED  BY <3>2, <3>3, <3>4, <3>5
  <2>. QED  BY <2>1, <2>2
<1>. HIDE DEF w
<1>2. A!Bytes(w) \subseteq 1..m /\ A!Before(A!Bytes(w), P)
  BY <1>1 DEF Direction, A!Before
<1>3. A!Before(A!Bytes(d), A!Bytes(w))
  <2>1. CASE w = <<>>
    BY <2>1, Queues DEF A!Before
  <2>2. CASE c.fresh
    BY <1>1, <2>2 DEF Direction, A!Before
  <2>. QED  BY <1>1, <2>1, <2>2
<1>4. /\ d \o w \in Seq(Nat) /\ A!Increasing(d \o w)
      /\ A!Bytes(d \o w) = A!Bytes(d) \cup A!Bytes(w)
  BY <1>1, <1>3, Queues DEF Direction
<1>5. c2.rxfifo = c.rxfifo /\ (c2.fresh => c.fresh)
  BY DEF Takes
<1>6. c2.fresh => A!Before(A!Bytes(d \o w), A!Bytes(c2.rxfifo.data))
  BY <1>1, <1>4, <1>5, Queues DEF Direction, A!Before
<1>7. A!Bytes(d \o w) \subseteq 1..m /\ A!Before(A!Bytes(d \o w), P)
  BY <1>2, <1>4 DEF Direction, A!Before
<1>8. Direction(d \o w, c2, m, P)
  BY <1>4, <1>5, <1>6, <1>7 DEF Direction
<1>. QED  BY <1>1, <1>2, <1>3, <1>8 DEF w

\* A frame that ends: it was among what could be heard, and no more is.
LEMMA DirectionHears ==
  ASSUME NEW d, NEW c, NEW c2, NEW m, NEW n, NEW P, NEW Q, NEW f,
         Direction(d, c, m, P), Direction(d, c, n, Q),
         A!Increasing(f.data), A!Bytes(f.data) \subseteq 1..n, A!Bytes(f.data) \subseteq P,
         A!Before(A!Bytes(f.data), Q), c2.rxfifo = f
  PROVE  Direction(d, c2, n, Q)
<1>1. A!Before(A!Bytes(d), A!Bytes(f.data))
  BY DEF Direction, A!Before
<1>. QED  BY <1>1 DEF Direction

\* The numbers of an increasing sequence are no more than there are.
LEMMA IncreasingIsShort ==
  ASSUME NEW m \in Nat, NEW s \in Seq(Nat), A!Increasing(s), A!Bytes(s) \subseteq 1..m
  PROVE  Len(s) <= m
<1>. DEFINE n == Len(s)
<1>1. n \in Nat /\ s \in [1..n -> Nat]
  BY LenProperties
<1>2. s \in Injection(1..n, 1..m)
  <2>1. s \in [1..n -> 1..m]
    BY <1>1 DEF A!Bytes
  <2>2. ASSUME NEW i \in 1..n, NEW j \in 1..n, s[i] = s[j]
        PROVE  i = j
    <3>1. s[i] \in Nat /\ s[j] \in Nat /\ i \in Nat /\ j \in Nat
      BY <1>1
    <3>. QED  BY <2>2, <3>1 DEF A!Increasing
  <2>. QED  BY <2>1, <2>2 DEF Injection, IsInjective
<1>3. IsFiniteSet(1..m) /\ Cardinality(1..m) = m
  <2>1. 1 \in Int /\ m \in Int /\ (IF 1 > m THEN 0 ELSE m - 1 + 1) = m
    OBVIOUS
  <2>. QED  BY <2>1, FS_Interval
<1>4. Cardinality(1..n) = n
  <2>1. 1 \in Int /\ n \in Int /\ (IF 1 > n THEN 0 ELSE n - 1 + 1) = n
    BY <1>1
  <2>. HIDE DEF n
  <2>. QED  BY <2>1, FS_Interval
<1>. QED  BY <1>2, <1>3, <1>4, FS_Injection

\* What is delivered in order is what OrderedPipe may deliver.
LEMMA PipeDelivers ==
  ASSUME NEW m \in Nat, NEW d \in Seq(Nat), NEW w \in Seq(Nat), w # <<>>,
         A!Increasing(w), A!Bytes(w) \subseteq 1..m, A!Before(A!Bytes(d), A!Bytes(w))
  PROVE  \E n \in 1..m :
           \E v \in [1..n -> {b \in 1..m : \A i \in 1..Len(d) : d[i] < b}] :
             /\ \A i, j \in 1..n : i < j => v[i] < v[j]
             /\ d \o w = d \o v
<1>. DEFINE n == Len(w)
            D == {b \in 1..m : \A i \in 1..Len(d) : d[i] < b}
<1>1. n \in Nat \ {0} /\ w \in [1..n -> Nat]
  BY EmptySeq, LenProperties
<1>2. ASSUME NEW i \in 1..n
      PROVE  w[i] \in D
  BY DEF A!Bytes, A!Before
<1>3. w \in [1..n -> D]
  BY <1>1, <1>2
<1>4. \A i, j \in 1..n : i < j => w[i] < w[j]
  BY DEF A!Increasing
<1>5. n <= m
  BY IncreasingIsShort
<1>6. n \in 1..m
  BY <1>1, <1>5
<1>. HIDE DEF n
<1>. QED  BY <1>3, <1>4, <1>6

(***************************************************************************)
(* The steps of the drone.                                                 *)
(***************************************************************************)
LEMMA AirFlows ==
  /\ AP!Flow <=> Flows(a_offered, a_offered', A!Pending, A!Pending')
  /\ AP!Takes <=> Takes(a_chip, a_chip', a_outq, a_outq')
<1>1. AP!Flow <=> Flows(a_offered, a_offered', AP!Pending, AP!Pending')
  BY DEF AP!Flow, Flows
<1>2. AP!Takes <=> Takes(a_chip, a_chip', a_outq, a_outq')
  BY DEF AP!Takes, Takes
<1>. QED  BY <1>1, <1>2, AirInvariants

\* What the types and the order give, also after a step.
LEMMA AirTypes ==
  /\ A!IInv => /\ a_chip \in A!Chip /\ a_outq \in Seq(Nat) /\ a_offered \in Nat
               /\ a_chip.rxfifo \in A!Frame /\ a_chip.txfifo \in A!Frame
               /\ a_chip.rxfifo.data \in Seq(Nat)
  /\ A!IInv' => a_offered' \in Nat /\ a_outq' \in Seq(Nat)
  /\ A!Ordered => A!Pending \subseteq 1..a_offered
  /\ A!Ordered' => A!Pending' \subseteq 1..a_offered'
<1>1. AirBytes \in Nat
  BY LinkAssumption
<1>. QED  BY <1>1 DEF A!IInv, A!TypeOK, A!PortTypeOK, A!Chip, A!Frame, A!Ordered, A!Pending

LEMMA AirHostStep ==
  ASSUME A!IInv, A!Ordered, A!Host
  PROVE  /\ A!IInv' /\ A!Ordered'
         /\ Flows(a_offered, a_offered', A!Pending, A!Pending')
         /\ Takes(a_chip, a_chip', a_outq, a_outq')
<1>1. AP!IInv /\ AP!Ordered /\ AP!Host
  BY AirActions, AirInvariants
<1>2. AP!IInv'
  <2>1. AP!Next
    BY <1>1 DEF AP!Next
  <2>. QED  BY <1>1, <2>1, AirAssumptions, AP!NextIInv
<1>3. AP!Ordered' /\ AP!Flow
  BY <1>1, AirAssumptions, AP!HostInOrder
<1>4. AP!Takes
  BY <1>1, AirAssumptions, AP!HostTakes
<1>. QED  BY <1>2, <1>3, <1>4, AirInvariants, AirFlows

LEMMA AirAroundStep ==
  ASSUME A!IInv, A!Ordered, A!TxDone \/ A!Tick \/ A!PeerWrites \/ A!PeerReads
  PROVE  /\ A!IInv' /\ A!Ordered'
         /\ Flows(a_offered, a_offered', A!Pending, A!Pending')
         /\ a_chip'.rxfifo = a_chip.rxfifo /\ a_chip'.fresh = a_chip.fresh
<1>1. AP!IInv /\ AP!Ordered /\ (AP!TxDone \/ AP!Tick \/ AP!PeerWrites \/ AP!PeerReads)
  BY AirActions, AirInvariants
<1>2. AP!PortTypeOK
  BY <1>1 DEF AP!IInv, AP!TypeOK
<1>3. AP!IInv'
  <2>1. AP!Next
    BY <1>1 DEF AP!Next, AP!Radio
  <2>. QED  BY <1>1, <2>1, AirAssumptions, AP!NextIInv
<1>4. AP!Ordered' /\ AP!Flow
  <2>1. CASE AP!PeerWrites
    BY <1>1, <1>2, <2>1, AirAssumptions, AP!PeerWritesInOrder
  <2>2. CASE AP!TxDone \/ AP!Elapses \/ AP!PeerReads
    BY <1>1, <1>2, <2>2, AirAssumptions, AP!SurroundingsInOrder
  <2>. QED  BY <1>1, <2>1, <2>2 DEF AP!Tick
<1>5. a_chip'.rxfifo = a_chip.rxfifo /\ a_chip'.fresh = a_chip.fresh
  BY <1>1, <1>2 DEF AP!PortTypeOK, AP!Chip, AP!TxDone, AP!TxEnd, AP!Raise, AP!Tick,
     AP!Elapses, AP!Elapse, AP!PeerWrites, AP!PeerReads
<1>. QED  BY <1>3, <1>4, <1>5, AirInvariants, AirFlows

LEMMA AirSends ==
  ASSUME A!IInv, A!Ordered, A!TxDone
  PROVE  /\ A!Increasing(a_chip.txfifo.data)
         /\ A!Bytes(a_chip.txfifo.data) \subseteq 1..a_offered'
         /\ A!Bytes(a_chip.txfifo.data) \subseteq A!Pending
         /\ A!Before(A!Bytes(a_chip.txfifo.data), A!Pending')
<1>1. AP!IInv /\ AP!Ordered /\ AP!TxDone
  BY AirActions, AirInvariants
<1>2. AP!PortTypeOK /\ (a_pc = "send_tx" => a_chip.mode = "STDBY")
  BY <1>1 DEF AP!IInv, AP!TypeOK, AP!TxDoneIsOurs
<1>3. /\ AP!Sent \subseteq 1..a_offered' /\ AP!Before(AP!Sent, AP!Pending')
      /\ AP!Sent \subseteq AP!Pending /\ AP!Increasing(a_chip.txfifo.data)
  BY <1>1, <1>2, AirAssumptions, AP!TxDoneInOrder
<1>4. AP!Sent = A!Bytes(a_chip.txfifo.data)
  BY DEF AP!Sent, AP!Bytes, A!Bytes
<1>. QED
  BY <1>3, <1>4, AirInvariants DEF A!Increasing, AP!Increasing, A!Before, AP!Before

\* What the drone's radio makes of a step of the ground station.
LEMMA AirHears ==
  ASSUME A!IInv, A!Ordered, UNCHANGED airOnly, NEW f \in A!Frame,
         Overheard(a_chip, a_chip', f)
  PROVE  /\ A!IInv' /\ A!Ordered'
         /\ Flows(a_offered, a_offered', A!Pending, A!Pending')
         /\ \/ a_chip'.rxfifo = a_chip.rxfifo /\ (a_chip'.fresh => a_chip.fresh)
            \/ a_chip'.rxfifo = f
<1>1. AP!IInv /\ AP!Ordered /\ f \in AP!Frame
  BY AirInvariants DEF A!Frame, AP!Frame, A!Roles, AP!Roles
<1>2. AP!Hearing(f)
  BY DEF AP!Hearing, Overheard, airOnly, A!RxEnd, AP!RxEnd, A!RxLost, AP!RxLost,
         A!RxFails, AP!RxFails, A!Raise, AP!Raise
<1>3. AP!IInv' /\ AP!Ordered' /\ AP!Pending' = AP!Pending
  BY <1>1, <1>2, AirAssumptions, AP!HearingIInv
<1>4. Flows(a_offered, a_offered', A!Pending, A!Pending')
  BY <1>3, AirInvariants DEF Flows, airOnly
<1>5. \/ a_chip'.rxfifo = a_chip.rxfifo /\ (a_chip'.fresh => a_chip.fresh)
      \/ a_chip'.rxfifo = f
  BY AirTypes DEF Overheard, A!RxEnd, A!RxLost, A!RxFails, A!Raise, A!Chip
<1>. QED  BY <1>3, <1>4, <1>5, AirInvariants

(***************************************************************************)
(* The steps of the ground station.                                        *)
(***************************************************************************)
LEMMA GndFlows ==
  /\ GP!Flow <=> Flows(g_offered, g_offered', G!Pending, G!Pending')
  /\ GP!Takes <=> Takes(g_chip, g_chip', g_outq, g_outq')
<1>1. GP!Flow <=> Flows(g_offered, g_offered', GP!Pending, GP!Pending')
  BY DEF GP!Flow, Flows
<1>2. GP!Takes <=> Takes(g_chip, g_chip', g_outq, g_outq')
  BY DEF GP!Takes, Takes
<1>. QED  BY <1>1, <1>2, GndInvariants

\* What the types and the order give, also after a step.
LEMMA GndTypes ==
  /\ G!IInv => /\ g_chip \in G!Chip /\ g_outq \in Seq(Nat) /\ g_offered \in Nat
               /\ g_chip.rxfifo \in G!Frame /\ g_chip.txfifo \in G!Frame
               /\ g_chip.rxfifo.data \in Seq(Nat)
  /\ G!IInv' => g_offered' \in Nat /\ g_outq' \in Seq(Nat)
  /\ G!Ordered => G!Pending \subseteq 1..g_offered
  /\ G!Ordered' => G!Pending' \subseteq 1..g_offered'
<1>1. GndBytes \in Nat
  BY LinkAssumption
<1>. QED  BY <1>1 DEF G!IInv, G!TypeOK, G!PortTypeOK, G!Chip, G!Frame, G!Ordered, G!Pending

LEMMA GndHostStep ==
  ASSUME G!IInv, G!Ordered, G!Host \/ G!GndReconnected
  PROVE  /\ G!IInv' /\ G!Ordered'
         /\ Flows(g_offered, g_offered', G!Pending, G!Pending')
         /\ GndFaults <= 1 => Takes(g_chip, g_chip', g_outq, g_outq')
<1>1. GP!IInv /\ GP!Ordered /\ (GP!Host \/ GP!GndReconnected)
  BY GndActions, GndInvariants
<1>2. GP!IInv'
  <2>1. GP!Next
    BY <1>1 DEF GP!Next
  <2>. QED  BY <1>1, <2>1, GndAssumptions, GP!NextIInv
<1>3. GP!Ordered' /\ GP!Flow
  BY <1>1, GndAssumptions, GP!HostInOrder
<1>4. ASSUME GndFaults <= 1
      PROVE  GP!Takes
  <2>1. GP!Failed < 2
    <3>1. g_faults \in 0..GndFaults /\ GndFaults \in Nat
      BY <1>1, LinkAssumption DEF GP!IInv, GP!TypeOK, GP!PortTypeOK
    <3>. QED  BY <1>4, <3>1 DEF GP!Failed
  <2>. QED  BY <1>1, <2>1, GndAssumptions, GP!HostTakes
<1>. QED  BY <1>2, <1>3, <1>4, GndInvariants, GndFlows

LEMMA GndAroundStep ==
  ASSUME G!IInv, G!Ordered,
         \/ G!TxDone /\ UNCHANGED <<g_link, g_base>>
         \/ G!Tick
         \/ G!ClientWrites \/ G!ClientReads \/ G!ClientCloses
  PROVE  /\ G!IInv' /\ G!Ordered'
         /\ Flows(g_offered, g_offered', G!Pending, G!Pending')
         /\ g_chip'.rxfifo = g_chip.rxfifo /\ g_chip'.fresh = g_chip.fresh
<1>. DEFINE Sent == GP!TxDone /\ UNCHANGED <<g_link, g_base>>
            Client == GP!ClientWrites \/ GP!ClientReads \/ GP!ClientCloses
<1>1. GP!IInv /\ GP!Ordered /\ (Sent \/ GP!Tick \/ Client)
  BY GndActions, GndInvariants
<1>2. GP!PortTypeOK
  BY <1>1 DEF GP!IInv, GP!TypeOK
<1>3. GP!IInv'
  <2>1. GP!Next
    BY <1>1 DEF GP!Next, GP!Radio, GP!conn
  <2>. QED  BY <1>1, <2>1, GndAssumptions, GP!NextIInv
<1>4. GP!Ordered' /\ GP!Flow
  <2>1. CASE Client
    BY <1>1, <2>1, GndAssumptions, GP!ClientInOrder
  <2>2. CASE GP!TxDone \/ GP!Elapses
    BY <1>1, <1>2, <2>2, GndAssumptions, GP!SurroundingsInOrder
  <2>. QED  BY <1>1, <2>1, <2>2 DEF GP!Tick
<1>5. g_chip'.rxfifo = g_chip.rxfifo /\ g_chip'.fresh = g_chip.fresh
  <2>1. CASE Client
    BY <1>1, <2>1, GndAssumptions, GP!ClientInOrder
  <2>2. CASE GP!TxDone \/ GP!Tick
    BY <1>2, <2>2 DEF GP!PortTypeOK, GP!Chip, GP!TxDone, GP!TxEnd, GP!Raise, GP!Tick,
       GP!Elapses, GP!Elapse
  <2>. QED  BY <1>1, <2>1, <2>2
<1>. QED  BY <1>3, <1>4, <1>5, GndInvariants, GndFlows

LEMMA GndSends ==
  ASSUME G!IInv, G!Ordered, G!TxDone
  PROVE  /\ G!Increasing(g_chip.txfifo.data)
         /\ G!Bytes(g_chip.txfifo.data) \subseteq 1..g_offered'
         /\ G!Bytes(g_chip.txfifo.data) \subseteq G!Pending
         /\ G!Before(G!Bytes(g_chip.txfifo.data), G!Pending')
<1>1. GP!IInv /\ GP!Ordered /\ GP!TxDone
  BY GndActions, GndInvariants
<1>2. GP!PortTypeOK /\ (g_pc = "send_tx" => g_chip.mode = "STDBY")
  BY <1>1 DEF GP!IInv, GP!TypeOK, GP!TxDoneIsOurs
<1>3. /\ GP!Sent \subseteq 1..g_offered' /\ GP!Before(GP!Sent, GP!Pending')
      /\ GP!Sent \subseteq GP!Pending /\ GP!Increasing(g_chip.txfifo.data)
  BY <1>1, <1>2, GndAssumptions, GP!TxDoneInOrder
<1>4. GP!Sent = G!Bytes(g_chip.txfifo.data)
  BY DEF GP!Sent, GP!Bytes, G!Bytes
<1>. QED
  BY <1>3, <1>4, GndInvariants DEF G!Increasing, GP!Increasing, G!Before, GP!Before

\* What the ground station's radio makes of a step of the drone.
LEMMA GndHears ==
  ASSUME G!IInv, G!Ordered, UNCHANGED gndOnly, NEW f \in G!Frame,
         Overheard(g_chip, g_chip', f)
  PROVE  /\ G!IInv' /\ G!Ordered'
         /\ Flows(g_offered, g_offered', G!Pending, G!Pending')
         /\ \/ g_chip'.rxfifo = g_chip.rxfifo /\ (g_chip'.fresh => g_chip.fresh)
            \/ g_chip'.rxfifo = f
<1>1. GP!IInv /\ GP!Ordered /\ f \in GP!Frame
  BY GndInvariants DEF G!Frame, GP!Frame, G!Roles, GP!Roles
<1>2. GP!Hearing(f) /\ UNCHANGED GP!conn
  BY DEF GP!Hearing, GP!conn, Overheard, gndOnly, A!RxEnd, GP!RxEnd, A!RxLost, GP!RxLost,
         A!RxFails, GP!RxFails, A!Raise, GP!Raise
<1>3. GP!IInv' /\ GP!Ordered' /\ GP!Pending' = GP!Pending
  BY <1>1, <1>2, GndAssumptions, GP!HearingIInv
<1>4. Flows(g_offered, g_offered', G!Pending, G!Pending')
  BY <1>3, GndInvariants DEF Flows, gndOnly
<1>5. \/ g_chip'.rxfifo = g_chip.rxfifo /\ (g_chip'.fresh => g_chip.fresh)
      \/ g_chip'.rxfifo = f
  BY GndTypes DEF Overheard, A!RxEnd, A!RxLost, A!RxFails, A!Raise, G!Chip
<1>. QED  BY <1>3, <1>4, <1>5, GndInvariants

(***************************************************************************)
(* What a step does to one direction.                                      *)
(***************************************************************************)
LEMMA SameWords ==
  /\ \A s : G!Bytes(s) = A!Bytes(s) /\ (G!Increasing(s) <=> A!Increasing(s))
  /\ \A S, T : G!Before(S, T) <=> A!Before(S, T)
  /\ G!Frame = A!Frame
BY DEF A!Bytes, G!Bytes, A!Increasing, G!Increasing, A!Before, G!Before, A!Frame, G!Frame,
       A!Roles, G!Roles

LEMMA SameChip == G!Chip = A!Chip
BY DEF A!Chip, G!Chip, A!Frame, G!Frame, A!Roles, G!Roles, A!IrqBits, G!IrqBits

\* A radio that overhears a command of the other one keeps the frame it has.
LEMMA OverhearsKeeps ==
  ASSUME NEW p \in A!Chip, NEW c, NEW c2, NEW f
  PROVE  /\ Overhears(c, c2, p).rxfifo = p.rxfifo
         /\ Overhears(c, c2, p).fresh = p.fresh
         /\ Overheard(p, Overhears(c, c2, p), f)
<1>1. \/ Overhears(c, c2, p) = p
      \/ \E l \in BOOLEAN : Overhears(c, c2, p) = [p EXCEPT !.lock = l]
  BY DEF Overhears
<1>. QED  BY <1>1 DEF Overheard, A!Chip

LEMMA HearsIsOverheard ==
  ASSUME NEW p, NEW q, NEW f, Hears(p, q, f)
  PROVE  Overheard(p, q, f)
BY DEF Hears, Overheard

\* Steps that deliver nothing in a direction.
LEMMA DownStill ==
  ASSUME A!IInv, A!IInv', A!Ordered', DownOrder,
         Flows(a_offered, a_offered', A!Pending, A!Pending'), UNCHANGED down,
         g_chip'.rxfifo = g_chip.rxfifo, g_chip'.fresh => g_chip.fresh
  PROVE  DownOrder' /\ [DownPipe!Next]_<<a_offered, down>>
<1>1. Direction(down, g_chip', a_offered', A!Pending')
  BY AirTypes, Directions, DirectionFlows
<1>2. DownPipe!Next \/ UNCHANGED <<a_offered, down>>
  BY DEF Flows, DownPipe!Next, DownPipe!Send
<1>. QED  BY <1>1, <1>2, Directions

LEMMA UpStill ==
  ASSUME G!IInv, G!IInv', G!Ordered', UpOrder,
         Flows(g_offered, g_offered', G!Pending, G!Pending'), UNCHANGED up,
         a_chip'.rxfifo = a_chip.rxfifo, a_chip'.fresh => a_chip.fresh
  PROVE  UpOrder' /\ [UpPipe!Next]_<<g_offered, up>>
<1>1. Direction(up, a_chip', g_offered', G!Pending')
  BY GndTypes, Directions, DirectionFlows
<1>2. UpPipe!Next \/ UNCHANGED <<g_offered, up>>
  BY DEF Flows, UpPipe!Next, UpPipe!Send
<1>. QED  BY <1>1, <1>2, Directions

\* A step of the host that listens.
LEMMA DownReads ==
  ASSUME A!IInv, A!IInv', A!Ordered', G!IInv, G!IInv', DownOrder,
         Flows(a_offered, a_offered', A!Pending, A!Pending'), UNCHANGED a_offered,
         Takes(g_chip, g_chip', g_outq, g_outq'),
         down' = down \o Written(g_outq, g_outq')
  PROVE  DownOrder' /\ [DownPipe!Next]_<<a_offered, down>>
<1>. DEFINE w == Written(g_outq, g_outq')
<1>1. /\ a_offered \in Nat /\ g_outq \in Seq(Nat) /\ g_outq' \in Seq(Nat)
      /\ g_chip.rxfifo.data \in Seq(Nat)
  BY AirTypes, GndTypes
<1>2. /\ Direction(down', g_chip', a_offered, A!Pending)
      /\ w \in Seq(Nat) /\ A!Increasing(w)
      /\ A!Bytes(w) \subseteq 1..a_offered /\ A!Before(A!Bytes(down), A!Bytes(w))
  BY <1>1, Directions, DirectionTakes
<1>. HIDE DEF w
<1>3. Direction(down', g_chip', a_offered', A!Pending')
  BY <1>1, <1>2, AirTypes, DirectionFlows
<1>4. down \in Seq(Nat) /\ down' = down \o w
  BY DEF DownOrder, w
<1>5. CASE w = <<>>
  BY <1>3, <1>4, <1>5, ConcatEmptySeq, Directions
<1>6. CASE w # <<>>
  <2>1. DownPipe!Deliver
    <3>1. \E n \in 1..a_offered :
            \E v \in [1..n -> {b \in 1..a_offered : \A i \in 1..Len(down) : down[i] < b}] :
              /\ \A i, j \in 1..n : i < j => v[i] < v[j]
              /\ down \o w = down \o v
      BY <1>1, <1>2, <1>4, <1>6, PipeDelivers
    <3>. QED  BY <1>4, <3>1 DEF DownPipe!Deliver, DownPipe!Deliverable
  <2>. QED  BY <1>3, <2>1, Directions DEF DownPipe!Next
<1>. QED  BY <1>5, <1>6

LEMMA UpReads ==
  ASSUME G!IInv, G!IInv', G!Ordered', A!IInv, A!IInv', UpOrder,
         Flows(g_offered, g_offered', G!Pending, G!Pending'), UNCHANGED g_offered,
         Takes(a_chip, a_chip', a_outq, a_outq'),
         up' = up \o Written(a_outq, a_outq')
  PROVE  UpOrder' /\ [UpPipe!Next]_<<g_offered, up>>
<1>. DEFINE w == Written(a_outq, a_outq')
<1>1. /\ g_offered \in Nat /\ a_outq \in Seq(Nat) /\ a_outq' \in Seq(Nat)
      /\ a_chip.rxfifo.data \in Seq(Nat)
  BY AirTypes, GndTypes
<1>2. /\ Direction(up', a_chip', g_offered, G!Pending)
      /\ w \in Seq(Nat) /\ A!Increasing(w)
      /\ A!Bytes(w) \subseteq 1..g_offered /\ A!Before(A!Bytes(up), A!Bytes(w))
  BY <1>1, Directions, DirectionTakes
<1>. HIDE DEF w
<1>3. Direction(up', a_chip', g_offered', G!Pending')
  BY <1>1, <1>2, GndTypes, DirectionFlows
<1>4. up \in Seq(Nat) /\ up' = up \o w
  BY DEF UpOrder, w
<1>5. CASE w = <<>>
  BY <1>3, <1>4, <1>5, ConcatEmptySeq, Directions
<1>6. CASE w # <<>>
  <2>1. UpPipe!Deliver
    <3>1. \E n \in 1..g_offered :
            \E v \in [1..n -> {b \in 1..g_offered : \A i \in 1..Len(up) : up[i] < b}] :
              /\ \A i, j \in 1..n : i < j => v[i] < v[j]
              /\ up \o w = up \o v
      BY <1>1, <1>2, <1>4, <1>6, PipeDelivers
    <3>. QED  BY <1>4, <3>1 DEF UpPipe!Deliver, UpPipe!Deliverable
  <2>. QED  BY <1>3, <2>1, Directions DEF UpPipe!Next
<1>. QED  BY <1>5, <1>6

\* The end of a transmission, whether the other radio hears it or not.
LEMMA DownHears ==
  ASSUME A!IInv, A!IInv', A!Ordered, A!Ordered', A!TxDone, DownOrder,
         Flows(a_offered, a_offered', A!Pending, A!Pending'), UNCHANGED down,
         \/ g_chip'.rxfifo = g_chip.rxfifo /\ (g_chip'.fresh => g_chip.fresh)
         \/ g_chip'.rxfifo = a_chip.txfifo
  PROVE  DownOrder' /\ [DownPipe!Next]_<<a_offered, down>>
<1>1. CASE g_chip'.rxfifo = g_chip.rxfifo /\ (g_chip'.fresh => g_chip.fresh)
  BY <1>1, DownStill
<1>2. CASE g_chip'.rxfifo = a_chip.txfifo
  <2>1. Direction(down, g_chip, a_offered', A!Pending')
    BY AirTypes, Directions, DirectionFlows
  <2>2. Direction(down, g_chip', a_offered', A!Pending')
    BY <1>2, <2>1, AirSends, Directions, DirectionHears
  <2>3. DownPipe!Next \/ UNCHANGED <<a_offered, down>>
    BY DEF Flows, DownPipe!Next, DownPipe!Send
  <2>. QED  BY <2>2, <2>3, Directions
<1>. QED  BY <1>1, <1>2

LEMMA UpHears ==
  ASSUME G!IInv, G!IInv', G!Ordered, G!Ordered', G!TxDone, UpOrder,
         Flows(g_offered, g_offered', G!Pending, G!Pending'), UNCHANGED up,
         \/ a_chip'.rxfifo = a_chip.rxfifo /\ (a_chip'.fresh => a_chip.fresh)
         \/ a_chip'.rxfifo = g_chip.txfifo
  PROVE  UpOrder' /\ [UpPipe!Next]_<<g_offered, up>>
<1>1. CASE a_chip'.rxfifo = a_chip.rxfifo /\ (a_chip'.fresh => a_chip.fresh)
  BY <1>1, UpStill
<1>2. CASE a_chip'.rxfifo = g_chip.txfifo
  <2>1. Direction(up, a_chip, g_offered', G!Pending')
    BY GndTypes, Directions, DirectionFlows
  <2>2. Direction(up, a_chip', g_offered', G!Pending')
    BY <1>2, <2>1, GndSends, SameWords, Directions, DirectionHears
  <2>3. UpPipe!Next \/ UNCHANGED <<g_offered, up>>
    BY DEF Flows, UpPipe!Next, UpPipe!Send
  <2>. QED  BY <2>2, <2>3, Directions
<1>. QED  BY <1>1, <1>2

(***************************************************************************)
(* Every step keeps the invariant, and is one of OrderedPipe's.            *)
(***************************************************************************)
\* What a step leaves behind, and what it is to either pipe.
Kept == /\ A!IInv' /\ G!IInv' /\ A!Ordered' /\ G!Ordered'
        /\ UpOrder' /\ [UpPipe!Next]_<<g_offered, up>>
        /\ GndFaults <= 1 => DownOrder' /\ [DownPipe!Next]_<<a_offered, down>>

LEMMA UnchangedKept ==
  ASSUME OrderInv, UNCHANGED <<airOnly, gndOnly, a_chip, g_chip, down, up>>
  PROVE  Kept
<1>0. /\ A!IInv /\ G!IInv /\ A!Ordered /\ G!Ordered /\ UpOrder
      /\ GndFaults <= 1 => DownOrder
  BY DEF OrderInv
<1>1. Overheard(a_chip, a_chip', a_chip.rxfifo) /\ Overheard(g_chip, g_chip', g_chip.rxfifo)
  BY DEF Overheard
<1>2. /\ A!IInv' /\ A!Ordered'
      /\ Flows(a_offered, a_offered', A!Pending, A!Pending')
  BY <1>0, <1>1, AirTypes, AirHears
<1>3. /\ G!IInv' /\ G!Ordered'
      /\ Flows(g_offered, g_offered', G!Pending, G!Pending')
  BY <1>0, <1>1, GndTypes, GndHears
<1>4. UpOrder' /\ [UpPipe!Next]_<<g_offered, up>>
  BY <1>0, <1>3, UpStill
<1>5. GndFaults <= 1 => DownOrder' /\ [DownPipe!Next]_<<a_offered, down>>
  BY <1>0, <1>2, DownStill
<1>. QED  BY <1>2, <1>3, <1>4, <1>5 DEF Kept

LEMMA AirHostKept ==
  ASSUME OrderInv, AirHost
  PROVE  Kept
<1>0. /\ A!IInv /\ G!IInv /\ A!Ordered /\ G!Ordered /\ UpOrder
      /\ GndFaults <= 1 => DownOrder
  BY DEF OrderInv
<1>1. /\ A!IInv' /\ A!Ordered'
      /\ Flows(a_offered, a_offered', A!Pending, A!Pending')
      /\ Takes(a_chip, a_chip', a_outq, a_outq')
  BY <1>0, AirHostStep DEF AirHost
<1>2. /\ g_chip'.rxfifo = g_chip.rxfifo /\ g_chip'.fresh = g_chip.fresh
      /\ Overheard(g_chip, g_chip', g_chip.rxfifo)
  BY <1>0, GndTypes, SameChip, OverhearsKeeps DEF AirHost
<1>3. /\ G!IInv' /\ G!Ordered'
      /\ Flows(g_offered, g_offered', G!Pending, G!Pending')
      /\ UNCHANGED g_offered
  BY <1>0, <1>2, GndTypes, GndHears DEF AirHost, gndOnly
<1>4. UpOrder' /\ [UpPipe!Next]_<<g_offered, up>>
  BY <1>0, <1>1, <1>3, UpReads DEF AirHost
<1>5. GndFaults <= 1 => DownOrder' /\ [DownPipe!Next]_<<a_offered, down>>
  BY <1>0, <1>1, <1>2, DownStill DEF AirHost
<1>. QED  BY <1>1, <1>3, <1>4, <1>5 DEF Kept

LEMMA GndHostKept ==
  ASSUME OrderInv, GndHost
  PROVE  Kept
<1>0. /\ A!IInv /\ G!IInv /\ A!Ordered /\ G!Ordered /\ UpOrder
      /\ GndFaults <= 1 => DownOrder
  BY DEF OrderInv
<1>1. /\ G!IInv' /\ G!Ordered'
      /\ Flows(g_offered, g_offered', G!Pending, G!Pending')
      /\ GndFaults <= 1 => Takes(g_chip, g_chip', g_outq, g_outq')
  BY <1>0, GndHostStep DEF GndHost
<1>2. /\ a_chip'.rxfifo = a_chip.rxfifo /\ a_chip'.fresh = a_chip.fresh
      /\ Overheard(a_chip, a_chip', a_chip.rxfifo)
  BY <1>0, AirTypes, OverhearsKeeps DEF GndHost
<1>3. /\ A!IInv' /\ A!Ordered'
      /\ Flows(a_offered, a_offered', A!Pending, A!Pending')
      /\ UNCHANGED a_offered
  BY <1>0, <1>2, AirTypes, AirHears DEF GndHost, airOnly
<1>4. UpOrder' /\ [UpPipe!Next]_<<g_offered, up>>
  BY <1>0, <1>1, <1>2, UpStill DEF GndHost
<1>5. GndFaults <= 1 => DownOrder' /\ [DownPipe!Next]_<<a_offered, down>>
  BY <1>0, <1>1, <1>3, DownReads DEF GndHost
<1>. QED  BY <1>1, <1>3, <1>4, <1>5 DEF Kept

LEMMA AirTxDoneKept ==
  ASSUME OrderInv, AirTxDone
  PROVE  Kept
<1>0. /\ A!IInv /\ G!IInv /\ A!Ordered /\ G!Ordered /\ UpOrder
      /\ GndFaults <= 1 => DownOrder
  BY DEF OrderInv
<1>1. /\ A!IInv' /\ A!Ordered'
      /\ Flows(a_offered, a_offered', A!Pending, A!Pending')
      /\ a_chip'.rxfifo = a_chip.rxfifo /\ a_chip'.fresh = a_chip.fresh
  BY <1>0, AirAroundStep DEF AirTxDone
<1>2. /\ G!IInv' /\ G!Ordered'
      /\ Flows(g_offered, g_offered', G!Pending, G!Pending')
      /\ \/ g_chip'.rxfifo = g_chip.rxfifo /\ (g_chip'.fresh => g_chip.fresh)
         \/ g_chip'.rxfifo = a_chip.txfifo
  BY <1>0, AirTypes, SameWords, HearsIsOverheard, GndHears DEF AirTxDone
<1>3. UpOrder' /\ [UpPipe!Next]_<<g_offered, up>>
  BY <1>0, <1>1, <1>2, UpStill DEF AirTxDone
<1>4. GndFaults <= 1 => DownOrder' /\ [DownPipe!Next]_<<a_offered, down>>
  BY <1>0, <1>1, <1>2, DownHears DEF AirTxDone
<1>. QED  BY <1>1, <1>2, <1>3, <1>4 DEF Kept

LEMMA GndTxDoneKept ==
  ASSUME OrderInv, GndTxDone
  PROVE  Kept
<1>0. /\ A!IInv /\ G!IInv /\ A!Ordered /\ G!Ordered /\ UpOrder
      /\ GndFaults <= 1 => DownOrder
  BY DEF OrderInv
<1>1. /\ G!IInv' /\ G!Ordered'
      /\ Flows(g_offered, g_offered', G!Pending, G!Pending')
      /\ g_chip'.rxfifo = g_chip.rxfifo /\ g_chip'.fresh = g_chip.fresh
  BY <1>0, GndAroundStep DEF GndTxDone
<1>2. /\ A!IInv' /\ A!Ordered'
      /\ Flows(a_offered, a_offered', A!Pending, A!Pending')
      /\ \/ a_chip'.rxfifo = a_chip.rxfifo /\ (a_chip'.fresh => a_chip.fresh)
         \/ a_chip'.rxfifo = g_chip.txfifo
  BY <1>0, GndTypes, SameWords, HearsIsOverheard, AirHears DEF GndTxDone
<1>3. UpOrder' /\ [UpPipe!Next]_<<g_offered, up>>
  BY <1>0, <1>1, <1>2, UpHears DEF GndTxDone
<1>4. GndFaults <= 1 => DownOrder' /\ [DownPipe!Next]_<<a_offered, down>>
  BY <1>0, <1>1, <1>2, DownStill DEF GndTxDone
<1>. QED  BY <1>1, <1>2, <1>3, <1>4 DEF Kept

\* The two programs and the clock: both sides go their own way.
LEMMA AroundKept ==
  ASSUME OrderInv, AirProgram \/ GndProgram \/ Tick
  PROVE  Kept
<1>0. /\ A!IInv /\ G!IInv /\ A!Ordered /\ G!Ordered /\ UpOrder
      /\ GndFaults <= 1 => DownOrder
  BY DEF OrderInv
<1>1. /\ A!IInv' /\ A!Ordered'
      /\ Flows(a_offered, a_offered', A!Pending, A!Pending')
      /\ a_chip'.rxfifo = a_chip.rxfifo /\ a_chip'.fresh = a_chip.fresh
  <2>1. CASE A!Tick \/ A!PeerWrites \/ A!PeerReads
    BY <1>0, <2>1, AirAroundStep
  <2>2. CASE UNCHANGED <<airOnly, a_chip>>
    <3>1. Overheard(a_chip, a_chip', a_chip.rxfifo)
      BY <2>2 DEF Overheard
    <3>. QED  BY <1>0, <2>2, <3>1, AirTypes, AirHears
  <2>. QED  BY <2>1, <2>2 DEF AirProgram, GndProgram, Tick
<1>2. /\ G!IInv' /\ G!Ordered'
      /\ Flows(g_offered, g_offered', G!Pending, G!Pending')
      /\ g_chip'.rxfifo = g_chip.rxfifo /\ g_chip'.fresh = g_chip.fresh
  <2>1. CASE G!Tick \/ G!ClientWrites \/ G!ClientReads \/ G!ClientCloses
    BY <1>0, <2>1, GndAroundStep
  <2>2. CASE UNCHANGED <<gndOnly, g_chip>>
    <3>1. Overheard(g_chip, g_chip', g_chip.rxfifo)
      BY <2>2 DEF Overheard
    <3>. QED  BY <1>0, <2>2, <3>1, GndTypes, GndHears
  <2>. QED  BY <2>1, <2>2 DEF AirProgram, GndProgram, Tick
<1>3. UNCHANGED <<down, up>>
  BY DEF AirProgram, GndProgram, Tick
<1>4. UpOrder' /\ [UpPipe!Next]_<<g_offered, up>>
  BY <1>0, <1>1, <1>2, <1>3, UpStill
<1>5. GndFaults <= 1 => DownOrder' /\ [DownPipe!Next]_<<a_offered, down>>
  BY <1>0, <1>1, <1>2, <1>3, DownStill
<1>. QED  BY <1>1, <1>2, <1>4, <1>5 DEF Kept

LEMMA StepKept == OrderInv /\ [Next]_linkVars => Kept
<1>. SUFFICES ASSUME OrderInv, [Next]_linkVars PROVE Kept
  OBVIOUS
<1>1. CASE AirBoots \/ UNCHANGED linkVars
  BY <1>1, UnchangedKept DEF AirBoots, linkVars
<1>. QED
  BY <1>1, AirHostKept, GndHostKept, AirTxDoneKept, GndTxDoneKept, AroundKept DEF Next

LEMMA InitOrderInv == Init => OrderInv
<1>. SUFFICES ASSUME Init PROVE OrderInv
  OBVIOUS
<1>1. /\ A!IInv /\ A!Ordered /\ A!Pending = {} /\ a_chip.rxfifo.data = <<>>
      /\ a_offered = 0
  BY AirInit DEF Init
<1>2. /\ G!IInv /\ G!Ordered /\ G!Pending = {} /\ g_chip.rxfifo.data = <<>>
      /\ g_offered = 0
  BY GndInit DEF Init
<1>3. /\ Direction(down, g_chip, a_offered, A!Pending)
      /\ Direction(up, a_chip, g_offered, G!Pending)
  BY <1>1, <1>2, Queues DEF Init, Direction, A!Before
<1>. QED  BY <1>1, <1>2, <1>3, Directions DEF OrderInv

LEMMA LinkOrderInv == Spec => []OrderInv
<1>1. OrderInv /\ [Next]_linkVars => OrderInv'
  BY StepKept DEF Kept, OrderInv
<1>. QED  BY <1>1, InitOrderInv, PTL DEF Spec

\* Towards the drone every byte is delivered at most once, in order and unaltered, for
\* every slot, guard time and buffer size, whatever the channel loses, whenever the
\* client leaves and however many calls of the driver fail on either side
\* (run_air and run_gnd, mode_mavlink.c:325-536).
THEOREM LinkUpInOrder == Spec => UpInOrder
<1>1. Init => UpPipe!Init
  BY AirInit, GndInit DEF Init, UpPipe!Init
<1>2. OrderInv /\ [Next]_linkVars => [UpPipe!Next]_<<g_offered, up>>
  BY StepKept DEF Kept
<1>. QED  BY <1>1, <1>2, LinkOrderInv, PTL DEF Spec, UpInOrder, UpPipe!Spec

\* Towards the client the same holds until a second call of the driver fails on the
\* ground: then a frame can be delivered again (MavlinkGnd, NoFrameTwice).
THEOREM LinkDownInOrder ==
  ASSUME GndFaults <= 1
  PROVE  Spec => DownInOrder
<1>1. Init => DownPipe!Init
  BY AirInit, GndInit DEF Init, DownPipe!Init
<1>2. OrderInv /\ [Next]_linkVars => [DownPipe!Next]_<<a_offered, down>>
  BY StepKept DEF Kept
<1>. QED  BY <1>1, <1>2, LinkOrderInv, PTL DEF Spec, DownInOrder, DownPipe!Spec

(***************************************************************************)
(* The stretches of a slot: what each side does in its own, in the words   *)
(* of this module.                                                         *)
(***************************************************************************)
LEMMA AirWords ==
  /\ A!Prepares <=> AP!Prepares
  /\ A!Sends <=> AP!Sends
  /\ A!Ends <=> AP!Ends
  /\ A!Idle <=> AP!Idle
  /\ A!TakingUp <=> AP!TakingUp
  /\ A!TakesUp <=> AP!TakesUp
  /\ A!Rearming <=> AP!Rearming
BY DEF A!Prepares, A!Preparing, A!Building, A!Role, A!Sends, A!OnAir, A!Silent, A!Ends,
       A!Ending, A!Interrupted, A!Idle, A!TakesUp, A!TakingUp, A!Rearming,
       AP!Prepares, AP!Preparing, AP!Building, AP!Role, AP!Sends, AP!OnAir, AP!Silent,
       AP!Ends, AP!Ending, AP!Interrupted, AP!Idle, AP!TakesUp, AP!TakingUp, AP!Rearming

LEMMA AirWordsNext ==
  /\ A!Prepares' <=> AP!Prepares'
  /\ A!Sends' <=> AP!Sends'
  /\ A!Ends' <=> AP!Ends'
  /\ A!Idle' <=> AP!Idle'
  /\ A!TakingUp' <=> AP!TakingUp'
  /\ A!TakesUp' <=> AP!TakesUp'
  /\ A!Rearming' <=> AP!Rearming'
BY DEF A!Prepares, A!Preparing, A!Building, A!Role, A!Sends, A!OnAir, A!Silent, A!Ends,
       A!Ending, A!Interrupted, A!Idle, A!TakesUp, A!TakingUp, A!Rearming,
       AP!Prepares, AP!Preparing, AP!Building, AP!Role, AP!Sends, AP!OnAir, AP!Silent,
       AP!Ends, AP!Ending, AP!Interrupted, AP!Idle, AP!TakesUp, AP!TakingUp, AP!Rearming

LEMMA GndWords ==
  /\ G!TakesUp <=> GP!TakesUp
  /\ G!Guards <=> GP!Guards
  /\ G!Prepares <=> GP!Prepares
  /\ G!Sends <=> GP!Sends
  /\ G!Ends <=> GP!Ends
  /\ G!Idle <=> GP!Idle
BY DEF G!Prepares, G!Preparing, G!Building, G!Role, G!Sends, G!OnAir, G!Silent, G!Ends,
       G!Ending, G!Interrupted, G!Idle, G!TakesUp, G!TakingUp, G!Guards, G!Peer,
       GP!Prepares, GP!Preparing, GP!Building, GP!Role, GP!Sends, GP!OnAir, GP!Silent,
       GP!Ends, GP!Ending, GP!Interrupted, GP!Idle, GP!TakesUp, GP!TakingUp, GP!Guards,
       GP!Peer

LEMMA GndWordsNext ==
  /\ G!TakesUp' <=> GP!TakesUp'
  /\ G!Guards' <=> GP!Guards'
  /\ G!Prepares' <=> GP!Prepares'
  /\ G!Sends' <=> GP!Sends'
  /\ G!Ends' <=> GP!Ends'
  /\ G!Idle' <=> GP!Idle'
BY DEF G!Prepares, G!Preparing, G!Building, G!Role, G!Sends, G!OnAir, G!Silent, G!Ends,
       G!Ending, G!Interrupted, G!Idle, G!TakesUp, G!TakingUp, G!Guards, G!Peer,
       GP!Prepares, GP!Preparing, GP!Building, GP!Role, GP!Sends, GP!OnAir, GP!Silent,
       GP!Ends, GP!Ending, GP!Interrupted, GP!Idle, GP!TakesUp, GP!TakingUp, GP!Guards,
       GP!Peer

\* Each side is in one stretch at a time, and transmits in one of them only.
LEMMA AirApart ==
  /\ A!Prepares => ~A!Sends /\ ~A!Ends /\ ~A!Idle /\ ~A!TakesUp
  /\ A!Sends => ~A!Ends /\ ~A!Idle /\ ~A!TakesUp
  /\ A!Ends => ~A!Idle /\ ~A!TakesUp
  /\ A!Idle => ~A!TakesUp
  /\ A!Rearming => A!TakesUp
  /\ A!TakesUp /\ a_got => A!Rearming
  /\ A!Sends => a_chip.mode = "TX"
  /\ A!Prepares \/ A!Ends \/ A!Idle \/ A!TakesUp => a_chip.mode # "TX"
  /\ A!Idle => a_chip.mode = "RX"
  /\ A!TakesUp => a_due > 0
BY DEF A!Prepares, A!Preparing, A!Building, A!Sends, A!OnAir, A!Silent, A!Ends, A!Ending,
       A!Interrupted, A!Idle, A!TakesUp, A!TakingUp, A!Rearming

LEMMA AirApartNext ==
  /\ A!Prepares' => ~A!Sends' /\ ~A!Ends' /\ ~A!Idle' /\ ~A!TakesUp'
  /\ A!Sends' => ~A!Ends' /\ ~A!Idle' /\ ~A!TakesUp'
  /\ A!Ends' => ~A!Idle' /\ ~A!TakesUp'
  /\ A!Idle' => ~A!TakesUp'
  /\ A!Rearming' => A!TakesUp'
  /\ A!Sends' => a_chip'.mode = "TX"
  /\ A!Prepares' \/ A!Ends' \/ A!Idle' \/ A!TakesUp' => a_chip'.mode # "TX"
BY DEF A!Prepares, A!Preparing, A!Building, A!Sends, A!OnAir, A!Silent, A!Ends, A!Ending,
       A!Interrupted, A!Idle, A!TakesUp, A!TakingUp, A!Rearming

LEMMA GndApart ==
  /\ G!Prepares => ~G!Sends /\ ~G!Ends /\ ~G!Idle /\ ~G!TakesUp /\ ~G!Guards
  /\ G!Sends => ~G!Ends /\ ~G!Idle /\ ~G!TakesUp /\ ~G!Guards
  /\ G!Ends => ~G!Idle /\ ~G!TakesUp /\ ~G!Guards
  /\ G!Idle => ~G!TakesUp /\ ~G!Guards
  /\ G!TakesUp => ~G!Guards
  /\ G!Sends => g_chip.mode = "TX"
  /\ G!Prepares \/ G!Ends \/ G!Idle \/ G!TakesUp \/ G!Guards => g_chip.mode # "TX"
  /\ G!Idle => g_chip.mode = "RX"
  /\ G!Prepares \/ G!Sends \/ G!Ends \/ G!Idle \/ G!TakesUp \/ G!Guards => g_pc # "accept"
BY DEF G!Prepares, G!Preparing, G!Building, G!Sends, G!OnAir, G!Silent, G!Ends, G!Ending,
       G!Interrupted, G!Idle, G!TakesUp, G!TakingUp, G!Guards

LEMMA GndApartNext ==
  /\ G!Prepares' => ~G!Sends' /\ ~G!Ends' /\ ~G!Idle' /\ ~G!TakesUp' /\ ~G!Guards'
  /\ G!Sends' => ~G!Ends' /\ ~G!Idle' /\ ~G!TakesUp' /\ ~G!Guards'
  /\ G!Ends' => ~G!Idle' /\ ~G!TakesUp' /\ ~G!Guards'
  /\ G!Idle' => ~G!TakesUp' /\ ~G!Guards'
  /\ G!TakesUp' => ~G!Guards'
  /\ G!Sends' => g_chip'.mode = "TX"
  /\ G!Prepares' \/ G!Ends' \/ G!Idle' \/ G!TakesUp' \/ G!Guards' => g_chip'.mode # "TX"
BY DEF G!Prepares, G!Preparing, G!Building, G!Sends, G!OnAir, G!Silent, G!Ends, G!Ending,
       G!Interrupted, G!Idle, G!TakesUp, G!TakingUp, G!Guards

\* The numbers of the link, and how far the clocks of the two sides go.
LEMMA Times ==
  /\ TOA \in Nat \ {0} /\ SLOT_MS \in Nat /\ GUARD_MS \in Nat
  /\ A!IInv => a_due \in -SLOT_MS..SLOT_MS /\ a_chip.air \in 0..TOA
  /\ G!IInv => g_due \in Int /\ g_left \in Nat /\ g_chip.air \in 0..TOA
<1>1. TOA \in Nat \ {0} /\ SLOT_MS \in Nat /\ GUARD_MS \in Nat
  BY LinkAssumption
<1>2. A!IInv => a_due \in -SLOT_MS..SLOT_MS /\ a_chip \in A!Chip
  BY DEF A!IInv, A!TypeOK, A!PortTypeOK
<1>3. G!IInv => g_due \in -SLOT_MS..3 * SLOT_MS /\ g_left \in Nat /\ g_chip \in G!Chip
  BY DEF G!IInv, G!TypeOK, G!PortTypeOK
<1>4. /\ \A c \in A!Chip : c.air \in 0..TOA
      /\ \A c \in G!Chip : c.air \in 0..TOA
  BY DEF A!Chip, G!Chip
<1>5. -SLOT_MS \in Int /\ 3 * SLOT_MS \in Int
  BY <1>1
<1>6. G!IInv => g_due \in Int
  BY <1>3, <1>5
<1>. QED  BY <1>1, <1>2, <1>3, <1>4, <1>6

\* A side whose process and radio stay as they are stays in its stretch.
LEMMA AirStays ==
  ASSUME UNCHANGED <<a_pc, a_ret, a_irq, a_got, a_left, a_due, a_pkt, a_chip>>
  PROVE  /\ A!Prepares' <=> A!Prepares
         /\ A!Sends' <=> A!Sends
         /\ A!Ends' <=> A!Ends
         /\ A!Idle' <=> A!Idle
         /\ A!TakesUp' <=> A!TakesUp
         /\ A!Rearming' <=> A!Rearming
BY DEF A!Prepares, A!Preparing, A!Building, A!Sends, A!OnAir, A!Silent, A!Ends, A!Ending,
       A!Interrupted, A!Idle, A!TakesUp, A!TakingUp, A!Rearming

LEMMA GndStays ==
  ASSUME UNCHANGED <<g_pc, g_ret, g_irq, g_left, g_due, g_pkt, g_chip>>
  PROVE  /\ G!TakesUp' <=> G!TakesUp
         /\ G!Guards' <=> G!Guards
         /\ G!Prepares' <=> G!Prepares
         /\ G!Sends' <=> G!Sends
         /\ G!Ends' <=> G!Ends
         /\ G!Idle' <=> G!Idle
BY DEF G!Prepares, G!Preparing, G!Building, G!Sends, G!OnAir, G!Silent, G!Ends, G!Ending,
       G!Interrupted, G!Idle, G!TakesUp, G!TakingUp, G!Guards

\* One step of the drone's process while every call works.
AirWork ==
  /\ A!Prepares => /\ UNCHANGED <<a_due, a_got>>
                   /\ A!Prepares' \/ (A!Sends' /\ a_chip'.air = TOA)
  /\ A!Sends => A!Sends' /\ UNCHANGED <<a_due, a_got, a_chip>>
  /\ A!Ends => \/ A!Ends' /\ UNCHANGED <<a_due, a_got>>
               \/ A!Idle' /\ ~a_got' /\ a_due' = a_due + SLOT_MS
  /\ A!Idle => \/ A!Idle' /\ UNCHANGED <<a_due, a_got, a_chip>>
               \/ A!Prepares' /\ a_due <= 0 /\ (a_due = 0 => a_due' = 0)
  /\ A!TakesUp =>
       /\ UNCHANGED <<a_due, a_chip.rxfifo>>
       /\ \/ (A!Idle' \/ A!Rearming') /\ A!Rearming /\ a_got' = a_got
          \/ /\ A!Rearming' /\ ~A!Rearming
             /\ a_chip.rxfifo = [role |-> "GND", data |-> <<>>] => a_got'
          \/ A!TakesUp' /\ ~A!Rearming' /\ ~A!Rearming

LEMMA AirWorks ==
  ASSUME A!IInv, A!Ordered, A!Host, UNCHANGED a_faults, ~a_stop, TX_WAIT_MS > TOA
  PROVE  AirWork
<1>. AP!Works
  BY AirActions, AirInvariants DEF AP!Works
<1>1. A!Prepares => /\ UNCHANGED <<a_due, a_got>>
                    /\ A!Prepares' \/ (A!Sends' /\ a_chip'.air = TOA)
  BY AirAssumptions, AP!Preparation, AirWords, AirWordsNext
<1>2. A!Sends => A!Sends' /\ UNCHANGED <<a_due, a_got, a_chip>>
  BY AirAssumptions, AP!Transmission, AirWords, AirWordsNext
<1>3. A!Ends => \/ A!Ends' /\ UNCHANGED <<a_due, a_got>>
                \/ A!Idle' /\ ~a_got' /\ a_due' = a_due + SLOT_MS
  BY AirAssumptions, AP!Completion, AirWords, AirWordsNext
<1>4. A!Idle => \/ A!Idle' /\ UNCHANGED <<a_due, a_got, a_chip>>
                \/ A!Prepares' /\ a_due <= 0 /\ (a_due = 0 => a_due' = 0)
  <2>1. a_due = 0 => AP!Greatest(a_due, 0) = 0
    BY DEF AP!Greatest
  <2>. QED  BY <2>1, AirAssumptions, AP!Listens, AirWords, AirWordsNext
<1>5. ASSUME A!TakesUp
      PROVE  /\ UNCHANGED <<a_due, a_chip.rxfifo>>
             /\ \/ (A!Idle' \/ A!Rearming') /\ A!Rearming /\ a_got' = a_got
                \/ /\ A!Rearming' /\ ~A!Rearming
                   /\ a_chip.rxfifo = [role |-> "GND", data |-> <<>>] => a_got'
                \/ A!TakesUp' /\ ~A!Rearming' /\ ~A!Rearming
  <2>1. AP!TakesUp
    BY <1>5, AirWords
  <2>2. /\ UNCHANGED <<a_due, a_chip.rxfifo>>
        /\ \/ AP!Idle' /\ a_got' = a_got /\ AP!Rearming
           \/ AP!Rearming' /\ a_got' = a_got /\ AP!Rearming
           \/ AP!Rearming' /\ (AP!Accepts(a_chip.rxfifo, AP!Peer) => a_got') /\ ~AP!Rearming
           \/ AP!TakingUp' /\ ~a_got' /\ ~AP!Rearming
    BY <2>1, AirAssumptions, AP!Reception
  <2>3. a_chip.rxfifo = [role |-> "GND", data |-> <<>>] => AP!Accepts(a_chip.rxfifo, AP!Peer)
    BY DEF AP!Accepts, AP!Peer
  <2>4. AP!TakingUp' /\ ~a_got' => AP!TakesUp' /\ ~AP!Rearming'
    BY DEF AP!TakesUp, AP!TakingUp, AP!Interrupted, AP!Rearming
  <2>. QED  BY <2>2, <2>3, <2>4, AirWords, AirWordsNext
<1>. QED  BY <1>1, <1>2, <1>3, <1>4, <1>5 DEF AirWork

GndWork ==
  /\ G!TakesUp => G!TakesUp' \/ (G!Guards' /\ g_left' = GUARD_MS)
  /\ G!Guards => G!Prepares' /\ (GUARD_MS = 0 \/ g_inq # <<>> \/ g_left = 0)
  /\ G!Prepares => G!Prepares' \/ (G!Sends' /\ g_chip'.air = TOA)
  /\ G!Sends => G!Sends' /\ UNCHANGED g_chip
  /\ G!Ends => G!Ends' \/ (G!Idle' /\ g_due' = 3 * SLOT_MS)
  /\ G!Idle /\ g_due > 0 => G!Idle' /\ UNCHANGED <<g_due, g_chip>>

LEMMA GndWorks ==
  ASSUME G!IInv, G!Ordered, G!Host, UNCHANGED g_faults, ~g_stop, TX_WAIT_MS > TOA,
         g_link = "up",
         g_pc = "read" /\ g_chip.rxfifo.data # <<>> => Len(g_outq) < OUT_CAP
  PROVE  GndWork
<1>. GP!Works
  BY GndActions, GndInvariants DEF GP!Works
<1>1. G!TakesUp => G!TakesUp' \/ (G!Guards' /\ g_left' = GUARD_MS)
  BY GndAssumptions, GP!Reception, GndWords, GndWordsNext
<1>2. G!Guards => G!Prepares' /\ (GUARD_MS = 0 \/ g_inq # <<>> \/ g_left = 0)
  BY GndAssumptions, GP!Guarding, GndWords, GndWordsNext DEF GP!Readable
<1>3. G!Prepares => G!Prepares' \/ (G!Sends' /\ g_chip'.air = TOA)
  BY GndAssumptions, GP!Preparation, GndWords, GndWordsNext
<1>4. G!Sends => G!Sends' /\ UNCHANGED g_chip
  BY GndAssumptions, GP!Transmission, GndWords, GndWordsNext
<1>5. G!Ends => G!Ends' \/ (G!Idle' /\ g_due' = 3 * SLOT_MS)
  BY GndAssumptions, GP!Completion, GndWords, GndWordsNext
<1>6. G!Idle /\ g_due > 0 => G!Idle' /\ UNCHANGED <<g_due, g_chip>>
  BY GndAssumptions, GP!Listens, GndWords, GndWordsNext
<1>. QED  BY <1>1, <1>2, <1>3, <1>4, <1>5, <1>6 DEF GndWork

\* A side stays in its stretch, and its clock and radio run on.
AirUnmoved ==
  /\ A!Prepares => A!Prepares'
  /\ A!Sends => A!Sends'
  /\ A!Ends => A!Ends'
  /\ A!Idle => A!Idle'
  /\ A!TakesUp => A!TakesUp'
  /\ UNCHANGED <<a_due, a_got, a_chip.mode, a_chip.air, a_chip.rxfifo>>

GndUnmoved ==
  /\ G!TakesUp => G!TakesUp'
  /\ G!Guards => G!Guards'
  /\ G!Prepares => G!Prepares'
  /\ G!Sends => G!Sends'
  /\ G!Ends => G!Ends'
  /\ G!Idle => G!Idle'
  /\ UNCHANGED <<g_due, g_left, g_chip.mode, g_chip.air>>

\* What a step of one side does to the other's radio: it locks on a frame that begins.
LEMMA AirOverhears ==
  ASSUME A!IInv, UNCHANGED airOnly, NEW c, NEW c2, c.mode = "TX" => c2.mode = "TX",
         a_chip' = Overhears(c, c2, a_chip)
  PROVE  /\ AirUnmoved
         /\ c2.mode # "TX" \/ c.mode = "TX" => a_chip' = a_chip
         /\ c2.mode = "TX" /\ c.mode # "TX" => a_chip'.lock = (a_chip.mode = "RX")
<1>1. AP!IInv /\ a_chip \in A!Chip
  BY AirInvariants DEF A!IInv, A!TypeOK, A!PortTypeOK
<1>2. CASE c2.mode # "TX" \/ c.mode = "TX"
  <2>1. a_chip' = a_chip
    BY <1>2 DEF Overhears
  <2>. QED  BY <1>2, <2>1, AirStays DEF airOnly, AirUnmoved
<1>3. CASE c2.mode = "TX" /\ c.mode # "TX"
  <2>1. a_chip' = [a_chip EXCEPT !.lock = (a_chip.mode = "RX")]
    BY <1>3 DEF Overhears
  <2>2. UNCHANGED <<a_pc, a_ret, a_irq, a_got, a_left, a_due, a_pkt>>
    BY DEF airOnly
  <2>. QED
    BY <1>1, <1>3, <2>1, <2>2, AirAssumptions, AP!Overhearing, AirWords, AirWordsNext
    DEF AirUnmoved
<1>. QED  BY <1>2, <1>3

LEMMA GndOverhears ==
  ASSUME G!IInv, UNCHANGED gndOnly, NEW c, NEW c2, c.mode = "TX" => c2.mode = "TX",
         g_chip' = Overhears(c, c2, g_chip)
  PROVE  /\ GndUnmoved
         /\ c2.mode # "TX" \/ c.mode = "TX" => g_chip' = g_chip
         /\ c2.mode = "TX" /\ c.mode # "TX" => g_chip'.lock = (g_chip.mode = "RX")
<1>1. GP!IInv /\ g_chip \in G!Chip
  BY GndInvariants DEF G!IInv, G!TypeOK, G!PortTypeOK
<1>2. CASE c2.mode # "TX" \/ c.mode = "TX"
  <2>1. g_chip' = g_chip
    BY <1>2 DEF Overhears
  <2>. QED  BY <1>2, <2>1, GndStays DEF gndOnly, GndUnmoved
<1>3. CASE c2.mode = "TX" /\ c.mode # "TX"
  <2>1. g_chip' = [g_chip EXCEPT !.lock = (g_chip.mode = "RX")]
    BY <1>3 DEF Overhears
  <2>2. UNCHANGED <<g_pc, g_ret, g_irq, g_left, g_due, g_pkt>>
    BY DEF gndOnly
  <2>. QED
    BY <1>1, <1>3, <2>1, <2>2, GndAssumptions, GP!Overhearing, GndWords, GndWordsNext
    DEF GndUnmoved
<1>. QED  BY <1>2, <1>3

\* The end of a frame: of one side's own, and of the other's.
LEMMA AirFrames ==
  ASSUME A!IInv
  PROVE  /\ A!Sends /\ A!TxDone => A!Ends' /\ a_chip.air = 0 /\ UNCHANGED <<a_due, a_got>>
         /\ \A f : UNCHANGED airOnly /\ A!Idle /\ a_due > 0 /\ ~a_got
                   /\ a_chip' = A!RxEnd(a_chip, f, {})
              => A!TakesUp' /\ ~A!Rearming' /\ a_chip'.rxfifo = f
<1>1. AP!IInv
  BY AirInvariants
<1>2. A!Sends /\ A!TxDone => A!Ends' /\ a_chip.air = 0 /\ UNCHANGED <<a_due, a_got>>
  BY <1>1, AirAssumptions, AP!FrameOut, AirActions, AirWords, AirWordsNext
<1>3. ASSUME NEW f, UNCHANGED airOnly, A!Idle, a_due > 0, ~a_got,
             a_chip' = A!RxEnd(a_chip, f, {})
      PROVE  A!TakesUp' /\ ~A!Rearming' /\ a_chip'.rxfifo = f
  <2>1. UNCHANGED <<a_pc, a_ret, a_irq, a_got, a_left, a_due, a_pkt>>
    BY <1>3 DEF airOnly
  <2>2. AP!Idle /\ a_chip' = AP!RxEnd(a_chip, f, {})
    BY <1>3, AirWords DEF A!RxEnd, AP!RxEnd, A!Raise, AP!Raise
  <2>. QED  BY <1>1, <1>3, <2>1, <2>2, AirAssumptions, AP!FrameHeard, AirWordsNext
<1>. QED  BY <1>2, <1>3

LEMMA GndFrames ==
  ASSUME G!IInv
  PROVE  /\ G!Sends /\ G!TxDone => G!Ends' /\ g_chip.air = 0
         /\ \A f : UNCHANGED gndOnly /\ G!Idle /\ g_due > 0 /\ f.role = "AIR"
                   /\ g_chip' = A!RxEnd(g_chip, f, {})
              => G!TakesUp'
<1>1. GP!IInv
  BY GndInvariants
<1>2. G!Sends /\ G!TxDone => G!Ends' /\ g_chip.air = 0
  BY <1>1, GndAssumptions, GP!FrameOut, GndActions, GndWords, GndWordsNext
<1>3. ASSUME NEW f, UNCHANGED gndOnly, G!Idle, g_due > 0, f.role = "AIR",
             g_chip' = A!RxEnd(g_chip, f, {})
      PROVE  G!TakesUp'
  <2>1. UNCHANGED <<g_pc, g_ret, g_irq, g_left, g_due, g_pkt>>
    BY <1>3 DEF gndOnly
  <2>2. GP!Idle /\ g_chip' = GP!RxEnd(g_chip, f, {}) /\ f.role = GP!Peer
    BY <1>3, GndWords DEF A!RxEnd, GP!RxEnd, A!Raise, GP!Raise, GP!Peer
  <2>. QED  BY <1>1, <1>3, <2>1, <2>2, GndAssumptions, GP!FrameHeard, GndWordsNext
<1>. QED  BY <1>2, <1>3

\* A tick of the clock: a process with something to do lets none pass.
LEMMA AirTicks ==
  ASSUME A!IInv, A!Tick, Prompt
  PROVE  /\ ~A!Prepares /\ ~A!Ends /\ ~A!TakesUp
         /\ a_due > -SLOT_MS => a_due' = a_due - 1
         /\ a_got' = a_got
         /\ A!Sends => A!Sends' /\ a_chip.air > 0 /\ a_chip'.air = a_chip.air - 1
         /\ A!Idle => A!Idle' /\ a_chip' = a_chip /\ a_due > 0
<1>1. AP!IInv /\ AP!Tick
  BY AirActions, AirInvariants
<1>2. a_due \in Int /\ a_got' = a_got /\ SLOT_MS \in Nat
  BY <1>1, Times DEF AP!Tick, AP!Elapses, AP!Around
<1>3. AP!Greatest(a_due - 1, -SLOT_MS) = IF a_due > -SLOT_MS THEN a_due - 1 ELSE -SLOT_MS
  BY <1>2 DEF AP!Greatest
<1>. QED  BY <1>1, <1>2, <1>3, AirAssumptions, AP!Ticking, AirWords, AirWordsNext

LEMMA GndTicks ==
  ASSUME G!IInv, G!Tick, Prompt
  PROVE  /\ ~G!TakesUp /\ ~G!Prepares /\ ~G!Ends
         /\ g_due > -SLOT_MS => g_due' = g_due - 1
         /\ G!Idle => G!Idle' /\ g_chip' = g_chip
         /\ G!Guards => G!Guards' /\ g_left > 0 /\ g_left' = g_left - 1
         /\ G!Sends => G!Sends' /\ g_chip.air > 0 /\ g_chip'.air = g_chip.air - 1
<1>1. GP!IInv /\ GP!Tick
  BY GndActions, GndInvariants
<1>2. g_due \in Int /\ SLOT_MS \in Nat
  BY Times
<1>3. GP!Greatest(g_due - 1, -SLOT_MS) = IF g_due > -SLOT_MS THEN g_due - 1 ELSE -SLOT_MS
  BY <1>2 DEF GP!Greatest
<1>. QED  BY <1>1, <1>2, <1>3, GndAssumptions, GP!Ticking, GndWords, GndWordsNext

(***************************************************************************)
(* Every step keeps the two sides in step.                                 *)
(***************************************************************************)
\* What the slots ask of the constants.
SlotsFit == Prompt /\ Aligned /\ TX_WAIT_MS > TOA /\ SLOT_MS > 2 * TOA + GUARD_MS

\* The two sides go by the slots, and in this step no call fails either.
Regular == /\ A!IInv /\ G!IInv /\ A!Ordered /\ G!Ordered
           /\ ~a_stop /\ ~g_stop /\ UNCHANGED <<a_faults, g_faults>>
           /\ Undisturbed /\ losses' = losses

\* The client is silent, and the ground has answered so far.
Attentive == g_offered = 0 /\ GUARD_MS >= 1 /\ Answered

LEMMA NothingLost ==
  ASSUME Regular
  PROVE  losses' # losses - 1
<1>1. losses = MaxLosses /\ losses' = losses
  BY DEF Regular, Undisturbed
<1>2. MaxLosses \in Nat
  BY LinkAssumption
<1>. QED  BY <1>1, <1>2

\* Where the ground stands while it answers, and how long it has still to go.
LEMMA AnsweringStands ==
  ASSUME SlotsFit, G!IInv, NEW rest \in Int, Answering(rest)
  PROVE  /\ G!TakesUp \/ G!Guards \/ G!Prepares \/ G!Sends
         /\ ~G!Idle /\ ~G!Ends
         /\ rest > 0
<1>1. /\ G!TakesUp \/ G!Guards \/ G!Prepares \/ G!Sends
      /\ ~G!Idle /\ ~G!Ends
  BY GndApart DEF Answering
<1>2. rest > 0
  BY Times DEF Answering, SlotsFit
<1>. QED  BY <1>1, <1>2

\* The same after a step: rest is a value, the ground's part is primed.
AnsweringNext(rest) ==
  \/ G!TakesUp' /\ rest = SLOT_MS - TOA
  \/ G!Guards' /\ rest = SLOT_MS - TOA - GUARD_MS + g_left'
  \/ G!Prepares' /\ rest >= SLOT_MS - TOA - GUARD_MS
  \/ G!Sends' /\ rest >= SLOT_MS - TOA - GUARD_MS - TOA + g_chip'.air

\* A step of the drone's process leaves the ground where it is.
LEMMA AnsweringStays ==
  ASSUME NEW rest, Answering(rest), GndUnmoved
  PROVE  /\ AnsweringNext(rest)
         /\ ~G!Idle' /\ ~G!Ends'
         /\ G!Sends' <=> G!Sends
         /\ G!Prepares' <=> G!Prepares
BY GndApart, GndApartNext DEF Answering, AnsweringNext, GndUnmoved

LEMMA AnsweringThen ==
  /\ AnsweringNext(a_due') => Answering(a_due)'
  /\ AnsweringNext(a_due' + SLOT_MS) => Answering(a_due + SLOT_MS)'
BY DEF AnsweringNext, Answering

LEMMA AirHostInStep ==
  ASSUME SlotsFit, Regular, InStep, AirHost
  PROVE  InStep' /\ (Attentive => Answered')
<1>0. /\ TOA \in Nat \ {0} /\ SLOT_MS \in Nat /\ GUARD_MS \in Nat
      /\ a_due \in -SLOT_MS..SLOT_MS /\ g_due \in Int
  BY Times DEF Regular
<1>1. AirWork
  BY AirWorks DEF Regular, SlotsFit, AirHost
<1>2. a_chip.mode = "TX" => a_chip'.mode = "TX"
  BY <1>1, AirApart, AirApartNext
  DEF InStep, DroneSends, FrameEnded, GroundAnswers, AnswerEnded, AirWork
<1>3. /\ GndUnmoved
      /\ a_chip'.mode # "TX" \/ a_chip.mode = "TX" => g_chip' = g_chip
      /\ a_chip'.mode = "TX" /\ a_chip.mode # "TX" => g_chip'.lock = (g_chip.mode = "RX")
  BY <1>2, GndOverhears DEF Regular, AirHost
<1>4. CASE DroneSends
  <2>1. G!Idle' /\ g_due' > FrameDue /\ g_chip.mode = "RX"
    BY <1>3, <1>4, GndApart DEF DroneSends, GndUnmoved
  <2>2. CASE A!Prepares /\ a_due = 0
    <3>1. a_due' = 0 /\ (A!Prepares' \/ (A!Sends' /\ a_chip'.air = TOA /\ g_chip'.lock))
      BY <1>1, <1>3, <2>1, <2>2, AirApart, AirApartNext DEF AirWork
    <3>2. DroneSends'
      BY <1>0, <2>1, <2>2, <3>1 DEF DroneSends, FrameDue
    <3>. QED  BY <2>1, <3>1, <3>2, AirApartNext, GndApartNext DEF InStep, Answered
  <2>3. CASE A!Sends /\ FrameDue = a_chip.air /\ g_chip.lock
    <3>1. A!Sends' /\ UNCHANGED <<a_due, a_chip, g_chip>>
      BY <1>1, <1>3, <2>3, AirApart DEF AirWork
    <3>2. DroneSends'
      BY <2>1, <2>3, <3>1 DEF DroneSends, FrameDue
    <3>. QED  BY <2>1, <3>1, <3>2, AirApartNext, GndApartNext DEF InStep, Answered
  <2>4. CASE A!Idle /\ a_due >= 0
    <3>1. \/ A!Idle' /\ UNCHANGED <<a_due, a_got>>
          \/ A!Prepares' /\ a_due = 0 /\ a_due' = 0
      BY <1>0, <1>1, <2>4 DEF AirWork
    <3>2. DroneSends'
      BY <1>0, <2>1, <2>4, <3>1 DEF DroneSends, FrameDue
    <3>3. ASSUME Attentive
          PROVE  Answered'
      BY <1>4, <2>1, <2>4, <3>1, <3>3, AirApartNext, GndApartNext
      DEF Attentive, Answered, DroneSends
    <3>. QED  BY <3>2, <3>3 DEF InStep
  <2>5. CASE A!TakesUp
    <3>1. (A!Idle' \/ A!TakesUp') /\ a_due' = a_due /\ a_due > 0
      BY <1>1, <2>5, AirApart, AirApartNext DEF AirWork
    <3>2. DroneSends'
      BY <1>0, <2>1, <2>5, <3>1 DEF DroneSends, FrameDue
    <3>3. ASSUME Attentive
          PROVE  Answered'
      BY <1>1, <2>1, <2>5, <3>3, AirApart, AirApartNext, GndApartNext
      DEF Attentive, Answered, AirWork
    <3>. QED  BY <3>2, <3>3 DEF InStep
  <2>. QED  BY <1>4, <2>2, <2>3, <2>4, <2>5 DEF DroneSends
<1>5. CASE FrameEnded
  <2>1. /\ A!Ends /\ a_due = -TOA
        /\ Answering(a_due + SLOT_MS) /\ (G!Sends => g_chip.air = TOA)
    BY <1>0, <1>5 DEF FrameEnded, FrameDue
  <2>2. /\ AnsweringNext(a_due + SLOT_MS) /\ (G!Sends' => g_chip'.air = TOA)
        /\ ~G!Idle' /\ ~G!Ends'
        /\ G!Sends' <=> G!Sends
        /\ G!Prepares' <=> G!Prepares
    BY <1>3, <2>1, AnsweringStays DEF GndUnmoved
  <2>3. CASE A!Ends' /\ UNCHANGED <<a_due, a_got>>
    <3>1. FrameEnded'
      BY <1>0, <2>1, <2>2, <2>3, AnsweringThen DEF FrameEnded, FrameDue
    <3>2. ASSUME Attentive
          PROVE  Answered'
      BY <2>1, <2>2, <2>3, <3>2, AirApart, AirApartNext DEF Attentive, Answered
    <3>. QED  BY <3>1, <3>2 DEF InStep
  <2>4. CASE A!Idle' /\ ~a_got' /\ a_due' = a_due + SLOT_MS
    <3>1. GroundAnswers'
      BY <2>2, <2>4, AnsweringThen DEF GroundAnswers
    <3>2. ASSUME Attentive
          PROVE  Answered'
      BY <2>1, <2>2, <2>4, <3>2, AirApart, AirApartNext DEF Attentive, Answered
    <3>. QED  BY <3>1, <3>2 DEF InStep
  <2>. QED  BY <1>1, <2>1, <2>3, <2>4 DEF AirWork
<1>6. CASE GroundAnswers
  <2>1. A!Idle /\ ~a_got /\ Answering(a_due)
    BY <1>6 DEF GroundAnswers
  <2>2. a_due > 0
    BY <1>0, <2>1, AnsweringStands DEF Regular
  <2>3. A!Idle' /\ UNCHANGED <<a_due, a_got, a_chip>>
    BY <1>0, <1>1, <2>1, <2>2 DEF AirWork
  <2>4. /\ AnsweringNext(a_due)
        /\ ~G!Idle' /\ ~G!Ends'
        /\ G!Sends' <=> G!Sends
    BY <1>3, <2>1, AnsweringStays
  <2>5. GroundAnswers'
    BY <2>1, <2>3, <2>4, AnsweringThen DEF GroundAnswers
  <2>6. ASSUME Attentive
        PROVE  Answered'
    BY <2>1, <2>3, <2>4, <2>6, AirApartNext DEF Attentive, Answered
  <2>. QED  BY <2>5, <2>6 DEF InStep
<1>7. CASE AnswerEnded
  <2>1. G!Ends' /\ (\/ A!Idle' /\ A!Idle /\ UNCHANGED <<a_due, a_got>>
                    \/ A!TakesUp /\ (A!Idle' \/ A!TakesUp') /\ a_due' = a_due) /\ a_due > 0
    BY <1>0, <1>1, <1>3, <1>7, AirApart, AirApartNext DEF AnswerEnded, AirWork, GndUnmoved
  <2>2. AnswerEnded'
    BY <2>1 DEF AnswerEnded
  <2>3. ASSUME Attentive
        PROVE  Answered'
    BY <1>1, <1>7, <2>1, <2>3, AirApart, AirApartNext, GndApartNext
    DEF Attentive, Answered, AirWork, AnswerEnded
  <2>. QED  BY <2>2, <2>3 DEF InStep
<1>. QED  BY <1>4, <1>5, <1>6, <1>7 DEF InStep

\* The ground's next step, while it answers.
LEMMA AnswerGoesOn ==
  ASSUME SlotsFit, G!IInv, GndWork, NEW rest \in Int, Answering(rest)
  PROVE  /\ AnsweringNext(rest)
         /\ ~G!Idle' /\ ~G!Ends'
         /\ G!Sends' => g_chip'.air = TOA \/ (G!Sends /\ g_chip' = g_chip)
<1>0. /\ TOA \in Nat \ {0} /\ SLOT_MS \in Nat /\ GUARD_MS \in Nat
      /\ g_left \in Nat
  BY Times
<1>1. CASE G!TakesUp /\ rest = SLOT_MS - TOA
  <2>1. G!TakesUp' \/ (G!Guards' /\ g_left' = GUARD_MS)
    BY <1>1 DEF GndWork
  <2>. QED  BY <1>0, <1>1, <2>1, GndApartNext DEF AnsweringNext
<1>2. CASE G!Guards /\ rest = SLOT_MS - TOA - GUARD_MS + g_left
  <2>1. G!Prepares'
    BY <1>2 DEF GndWork
  <2>. QED  BY <1>0, <1>2, <2>1, GndApartNext DEF AnsweringNext
<1>3. CASE G!Prepares /\ rest >= SLOT_MS - TOA - GUARD_MS
  <2>1. G!Prepares' \/ (G!Sends' /\ g_chip'.air = TOA)
    BY <1>3 DEF GndWork
  <2>. QED  BY <1>0, <1>3, <2>1, GndApartNext DEF AnsweringNext
<1>4. CASE G!Sends /\ rest >= SLOT_MS - TOA - GUARD_MS - TOA + g_chip.air
  <2>1. G!Sends' /\ g_chip' = g_chip
    BY <1>4 DEF GndWork
  <2>. QED  BY <1>4, <2>1, GndApartNext DEF AnsweringNext
<1>. QED  BY <1>1, <1>2, <1>3, <1>4 DEF Answering

\* A client that never wrote leaves the ground nothing to send but a beacon.
LEMMA SilentClient ==
  ASSUME G!IInv, G!Ordered, g_offered = 0
  PROVE  g_inq = <<>> /\ g_chip.txfifo.data = <<>>
<1>1. g_inq \in Seq(Nat) /\ g_chip.txfifo.data \in Seq(Nat)
  BY DEF G!IInv, G!TypeOK, G!PortTypeOK, G!Chip, G!Frame
<1>2. G!Bytes(g_inq) = {} /\ G!Bytes(g_chip.txfifo.data) = {}
  BY DEF G!Ordered, G!Queued, G!Sent
<1>3. ASSUME NEW s \in Seq(Nat), G!Bytes(s) = {}
      PROVE  s = <<>>
  <2>1. Len(s) \in Nat /\ 1 \notin 1..Len(s)
    BY <1>3 DEF G!Bytes
  <2>. QED  BY <2>1, EmptySeq
<1>. QED  BY <1>1, <1>2, <1>3

LEMMA GndHostInStep ==
  ASSUME SlotsFit, Regular, InStep, GndHost
  PROVE  InStep' /\ (Attentive => Answered')
<1>0. /\ TOA \in Nat \ {0} /\ SLOT_MS \in Nat /\ GUARD_MS \in Nat
      /\ a_due \in -SLOT_MS..SLOT_MS /\ a_chip.air \in 0..TOA /\ g_due \in Int
      /\ a_due + SLOT_MS \in Int
  BY Times DEF Regular
<1>1. GndWork
  <2>1. g_pc # "accept"
    BY GndApart DEF InStep, DroneSends, FrameEnded, GroundAnswers, AnswerEnded, Answering
  <2>2. G!Host
    BY <2>1 DEF GndHost, G!GndReconnected
  <2>. QED  BY <2>2, GndWorks DEF Regular, SlotsFit, Undisturbed
<1>2. DroneSends => g_due > 0
  BY <1>0, AirApart DEF DroneSends, FrameDue
<1>3. g_chip.mode = "TX" => g_chip'.mode = "TX"
  BY <1>1, <1>2, GndApart, GndApartNext
  DEF InStep, DroneSends, FrameEnded, GroundAnswers, AnswerEnded, Answering, GndWork
<1>4. /\ AirUnmoved
      /\ g_chip'.mode # "TX" \/ g_chip.mode = "TX" => a_chip' = a_chip
      /\ g_chip'.mode = "TX" /\ g_chip.mode # "TX" => a_chip'.lock = (a_chip.mode = "RX")
  BY <1>3, AirOverhears DEF Regular, GndHost
<1>5. CASE DroneSends
  <2>1. G!Idle' /\ UNCHANGED <<g_due, g_chip>>
    BY <1>1, <1>2, <1>5 DEF DroneSends, GndWork
  <2>2. /\ UNCHANGED <<a_due, a_got, a_chip>>
        /\ A!Rearming' <=> A!Rearming
        /\ A!TakesUp' <=> A!TakesUp
        /\ A!Idle' <=> A!Idle
    BY <1>4, <2>1, GndApartNext, AirStays DEF GndHost, airOnly
  <2>3. DroneSends'
    BY <1>4, <1>5, <2>1, <2>2 DEF DroneSends, FrameDue, AirUnmoved
  <2>4. ASSUME Attentive
        PROVE  Answered'
    BY <1>5, <2>1, <2>2, <2>4, GndApartNext DEF Attentive, Answered, DroneSends
  <2>. QED  BY <2>3, <2>4 DEF InStep
<1>6. CASE FrameEnded
  <2>1. /\ A!Ends /\ a_due = -TOA
        /\ Answering(a_due + SLOT_MS) /\ (G!Sends => g_chip.air = TOA)
    BY <1>0, <1>6 DEF FrameEnded, FrameDue
  <2>2. /\ AnsweringNext(a_due + SLOT_MS) /\ (G!Sends' => g_chip'.air = TOA)
        /\ ~G!Idle' /\ ~G!Ends'
    BY <1>0, <1>1, <2>1, AnswerGoesOn DEF Regular
  <2>3. A!Ends' /\ a_due' = a_due
    BY <1>4, <2>1 DEF AirUnmoved
  <2>4. FrameEnded'
    BY <1>0, <2>1, <2>2, <2>3, AnsweringThen DEF FrameEnded, FrameDue
  <2>5. ASSUME Attentive
        PROVE  Answered'
    <3>1. ~G!Prepares /\ ~G!Sends /\ GUARD_MS >= 1 /\ g_inq = <<>>
      BY <2>1, <2>5, AirApart, SilentClient DEF Attentive, Answered, Regular
    <3>2. G!Guards => g_left >= 1
      BY <1>0, <2>1, <3>1, GndApart, Times DEF Answering, Regular
    <3>3. G!TakesUp
      BY <1>0, <1>1, <2>1, <3>1, <3>2 DEF Answering, GndWork
    <3>4. ~G!Prepares' /\ ~G!Sends'
      BY <1>1, <3>3, GndApartNext DEF GndWork
    <3>. QED  BY <2>2, <2>3, <3>4, AirApartNext DEF Answered
  <2>. QED  BY <2>4, <2>5 DEF InStep
<1>7. CASE GroundAnswers
  <2>1. A!Idle /\ ~a_got /\ Answering(a_due)
    BY <1>7 DEF GroundAnswers
  <2>2. /\ AnsweringNext(a_due)
        /\ ~G!Idle' /\ ~G!Ends'
        /\ G!Sends' => g_chip'.air = TOA \/ (G!Sends /\ g_chip' = g_chip)
    BY <1>0, <1>1, <2>1, AnswerGoesOn DEF Regular
  <2>3. A!Idle' /\ UNCHANGED <<a_due, a_got>>
    BY <1>4, <2>1 DEF AirUnmoved
  <2>4. GroundAnswers'
    BY <2>1, <2>2, <2>3, AnsweringThen DEF GroundAnswers
  <2>5. ASSUME Attentive
        PROVE  Answered'
    <3>1. G!Sends' => a_chip'.lock
      <4>1. G!Sends => a_chip.lock
        BY <2>5 DEF Attentive, Answered
      <4>2. a_chip.mode = "RX"
        BY <2>1, AirApart
      <4>. QED  BY <1>4, <4>1, <4>2, <2>1, <1>1, GndApart, GndApartNext DEF Answering, GndWork
    <3>. QED  BY <2>2, <2>3, <3>1, AirApartNext DEF Answered
  <2>. QED  BY <2>4, <2>5 DEF InStep
<1>8. CASE AnswerEnded
  <2>1. G!Ends' \/ (G!Idle' /\ g_due' = 3 * SLOT_MS)
    BY <1>1, <1>8 DEF AnswerEnded, GndWork
  <2>2. /\ UNCHANGED <<a_due, a_got, a_chip>>
        /\ A!Rearming' <=> A!Rearming
        /\ A!TakesUp' <=> A!TakesUp
        /\ A!Idle' <=> A!Idle
    BY <1>4, <2>1, GndApartNext, AirStays DEF GndHost, airOnly
  <2>3. AnswerEnded' \/ DroneSends'
    <3>1. CASE G!Ends'
      BY <1>8, <2>2, <3>1 DEF AnswerEnded
    <3>2. CASE G!Idle' /\ g_due' = 3 * SLOT_MS
      <4>1. g_due' > FrameDue'
        BY <1>0, <2>2, <3>2 DEF SlotsFit, FrameDue
      <4>2. (A!Idle' /\ a_due' >= 0) \/ A!TakesUp'
        BY <1>0, <1>8, <2>2 DEF AnswerEnded
      <4>. QED  BY <3>2, <4>1, <4>2 DEF DroneSends
    <3>. QED  BY <2>1, <3>1, <3>2
  <2>4. ASSUME Attentive
        PROVE  Answered'
    BY <1>8, <2>1, <2>2, <2>4, GndApartNext DEF Attentive, Answered, AnswerEnded
  <2>. QED  BY <2>3, <2>4 DEF InStep
<1>. QED  BY <1>5, <1>6, <1>7, <1>8 DEF InStep

\* The drone's frame ends: the ground, which listened all along, has heard it.
LEMMA AirTxDoneInStep ==
  ASSUME SlotsFit, Regular, InStep, AirTxDone
  PROVE  InStep' /\ (Attentive => Answered')
<1>0. /\ TOA \in Nat \ {0} /\ SLOT_MS \in Nat
      /\ a_due \in -SLOT_MS..SLOT_MS /\ a_chip.air \in 0..TOA /\ g_due \in Int
  BY Times DEF Regular
<1>1. a_chip.mode = "TX"
  BY DEF AirTxDone, A!TxDone
<1>2. A!Sends /\ FrameDue = a_chip.air /\ g_chip.lock /\ G!Idle /\ g_due > FrameDue
  BY <1>1, AirApart DEF InStep, DroneSends, FrameEnded, GroundAnswers, AnswerEnded
<1>3. A!Ends' /\ a_chip.air = 0 /\ UNCHANGED <<a_due, a_got>>
  BY <1>2, AirFrames DEF Regular, AirTxDone
<1>4. G!TakesUp'
  <2>1. a_chip.txfifo.role = "AIR"
    BY <1>2 DEF A!Sends, A!Role
  <2>2. g_chip' = A!RxEnd(g_chip, a_chip.txfifo, {})
    BY <1>2, NothingLost DEF AirTxDone, Hears
  <2>. QED  BY <1>0, <1>2, <1>3, <2>1, <2>2, GndFrames DEF Regular, AirTxDone
<1>5. Answering(a_due + SLOT_MS)'
  BY <1>0, <1>2, <1>3, <1>4 DEF Answering, FrameDue
<1>6. FrameEnded'
  BY <1>0, <1>2, <1>3, <1>4, <1>5, GndApartNext DEF FrameEnded, FrameDue
<1>. QED  BY <1>3, <1>4, <1>6, AirApartNext, GndApartNext DEF InStep, Answered

\* The ground's frame ends: the drone, if it listened all along, has heard it.
LEMMA GndTxDoneInStep ==
  ASSUME SlotsFit, Regular, InStep, GndTxDone
  PROVE  InStep' /\ (Attentive => Answered')
<1>0. /\ TOA \in Nat \ {0} /\ SLOT_MS \in Nat /\ a_due \in -SLOT_MS..SLOT_MS
  BY Times DEF Regular
<1>1. g_chip.mode = "TX" /\ g_chip.air = 0
  BY DEF GndTxDone, G!TxDone
<1>2. A!Idle /\ ~a_got /\ Answering(a_due) /\ G!Sends
  BY <1>0, <1>1, GndApart
  DEF InStep, DroneSends, FrameEnded, GroundAnswers, AnswerEnded, Answering
<1>3. G!Ends' /\ a_due > 0 /\ UNCHANGED <<a_due, a_got>>
  <2>1. G!Ends'
    BY <1>2, GndFrames DEF Regular, GndTxDone
  <2>2. a_due > 0
    BY <1>0, <1>2, AnsweringStands DEF Regular
  <2>. QED  BY <2>1, <2>2 DEF GndTxDone, airOnly
<1>4. a_chip' = IF a_chip.lock THEN A!RxEnd(a_chip, g_chip.txfifo, {}) ELSE a_chip
  BY NothingLost DEF GndTxDone, Hears
<1>5. CASE a_chip.lock
  <2>1. A!TakesUp' /\ ~A!Rearming' /\ a_chip'.rxfifo = g_chip.txfifo
    BY <1>2, <1>3, <1>4, <1>5, AirFrames DEF Regular, GndTxDone
  <2>2. AnswerEnded'
    BY <1>3, <2>1 DEF AnswerEnded
  <2>3. ASSUME Attentive
        PROVE  g_chip.txfifo = [role |-> "GND", data |-> <<>>]
    <3>1. g_chip.txfifo \in G!Frame /\ g_chip.txfifo.role = "GND"
      BY <1>2 DEF Regular, G!IInv, G!TypeOK, G!PortTypeOK, G!Chip, G!Sends, G!Role
    <3>2. g_chip.txfifo.data = <<>>
      BY <2>3, SilentClient DEF Attentive, Regular
    <3>. QED  BY <3>1, <3>2 DEF G!Frame
  <2>. QED  BY <1>3, <2>1, <2>2, <2>3, AirApartNext, GndApartNext DEF InStep, Answered
<1>6. CASE ~a_chip.lock
  <2>1. A!Idle' /\ a_chip' = a_chip
    BY <1>2, <1>4, <1>6, AirStays DEF GndTxDone, airOnly
  <2>2. AnswerEnded'
    BY <1>3, <2>1 DEF AnswerEnded
  <2>3. ~Attentive
    BY <1>2, <1>6 DEF Attentive, Answered
  <2>. QED  BY <2>2, <2>3 DEF InStep
<1>. QED  BY <1>5, <1>6

\* Nothing of the stretches changes while the two programs, or nobody, move.
LEMMA StillInStep ==
  ASSUME UNCHANGED <<a_pc, a_ret, a_irq, a_got, a_left, a_due, a_pkt, a_chip>>,
         UNCHANGED <<g_pc, g_ret, g_irq, g_left, g_due, g_pkt, g_chip>>, InStep
  PROVE  InStep' /\ (Attentive => Answered')
<1>1. InStep'
  BY AirStays, GndStays DEF InStep, DroneSends, FrameEnded, GroundAnswers, AnswerEnded,
     Answering, FrameDue
<1>2. ASSUME Attentive
      PROVE  Answered'
  BY <1>2, AirStays, GndStays DEF Attentive, Answered
<1>. QED  BY <1>1, <1>2

LEMMA TickInStep ==
  ASSUME SlotsFit, Regular, InStep, Tick, airUp
  PROVE  InStep' /\ (Attentive => Answered')
<1>0. /\ TOA \in Nat \ {0} /\ SLOT_MS \in Nat /\ GUARD_MS \in Nat
      /\ a_due \in -SLOT_MS..SLOT_MS /\ a_chip.air \in 0..TOA
      /\ g_due \in Int /\ g_left \in Nat /\ g_chip.air \in 0..TOA
  BY Times DEF Regular
<1>1. /\ ~A!Prepares /\ ~A!Ends /\ ~A!TakesUp
      /\ a_due > -SLOT_MS => a_due' = a_due - 1
      /\ a_got' = a_got
      /\ A!Sends => A!Sends' /\ a_chip.air > 0 /\ a_chip'.air = a_chip.air - 1
      /\ A!Idle => A!Idle' /\ a_chip' = a_chip /\ a_due > 0
  BY AirTicks DEF Regular, SlotsFit, Tick
<1>2. /\ ~G!TakesUp /\ ~G!Prepares /\ ~G!Ends
      /\ g_due > -SLOT_MS => g_due' = g_due - 1
      /\ G!Idle => G!Idle' /\ g_chip' = g_chip
      /\ G!Guards => G!Guards' /\ g_left > 0 /\ g_left' = g_left - 1
      /\ G!Sends => G!Sends' /\ g_chip.air > 0 /\ g_chip'.air = g_chip.air - 1
  BY GndTicks DEF Regular, SlotsFit, Tick
<1>3. CASE DroneSends
  <2>1. G!Idle' /\ g_chip' = g_chip /\ g_due > FrameDue
    BY <1>2, <1>3 DEF DroneSends
  <2>2. CASE A!Sends /\ FrameDue = a_chip.air /\ g_chip.lock
    <3>1. a_due > -SLOT_MS
      BY <1>0, <2>2 DEF FrameDue, SlotsFit
    <3>2. /\ A!Sends' /\ a_due' = a_due - 1 /\ a_chip'.air = a_chip.air - 1
          /\ g_due' = g_due - 1
      BY <1>0, <1>1, <1>2, <2>1, <2>2, <3>1 DEF FrameDue
    <3>3. DroneSends'
      BY <1>0, <2>1, <2>2, <3>2 DEF DroneSends, FrameDue
    <3>. QED  BY <2>1, <3>2, <3>3, AirApartNext, GndApartNext DEF InStep, Answered
  <2>3. CASE A!Idle /\ a_due >= 0
    <3>1. A!Idle' /\ a_due' = a_due - 1 /\ a_due > 0 /\ g_due' = g_due - 1
      BY <1>0, <1>1, <1>2, <2>1, <2>3 DEF FrameDue
    <3>2. DroneSends'
      BY <1>0, <2>1, <3>1 DEF DroneSends, FrameDue
    <3>3. ASSUME Attentive
          PROVE  Answered'
      BY <1>1, <1>3, <2>1, <2>3, <3>1, <3>3, AirApartNext, GndApartNext
      DEF Attentive, Answered, DroneSends
    <3>. QED  BY <3>2, <3>3 DEF InStep
  <2>. QED  BY <1>1, <1>3, <2>2, <2>3 DEF DroneSends
<1>4. CASE GroundAnswers
  <2>1. A!Idle' /\ ~a_got' /\ a_due' = a_due - 1 /\ a_chip' = a_chip /\ A!Idle
    BY <1>0, <1>1, <1>4 DEF GroundAnswers
  <2>2. AnsweringNext(a_due')
    BY <1>0, <1>2, <1>4, <2>1 DEF GroundAnswers, Answering, AnsweringNext
  <2>3. GroundAnswers'
    BY <2>1, <2>2, AnsweringThen DEF GroundAnswers
  <2>4. ASSUME Attentive
        PROVE  Answered'
    <3>1. (G!Guards' \/ (G!Sends /\ G!Sends'))
      BY <1>2, <1>4 DEF GroundAnswers, Answering
    <3>. QED  BY <2>1, <2>4, <3>1, AirApartNext, GndApartNext DEF Attentive, Answered
  <2>. QED  BY <2>3, <2>4 DEF InStep
<1>. QED  BY <1>1, <1>2, <1>3, <1>4 DEF InStep, FrameEnded, AnswerEnded

\* The drone is switched on while the ground listens.
LEMMA BootsInStep ==
  ASSUME SlotsFit, Booting, AirBoots
  PROVE  airUp' /\ InStep' /\ Answered'
<1>1. g_due > TOA /\ G!Idle /\ A!Prepares /\ a_due = 0
  <2>1. g_pc = "listen" /\ g_due > TOA /\ A!Init
    BY DEF AirBoots, SlotsFit, Booting
  <2>2. ~G!Ends
    BY <2>1 DEF G!Ends, G!Ending, G!Interrupted
  <2>3. A!Prepares /\ a_due = 0
    BY <2>1 DEF A!Init, A!PortInit, A!PowerOn, A!Prepares, A!Preparing, A!Building
  <2>. QED  BY <2>1, <2>2, <2>3 DEF Booting
<1>2. DroneSends
  BY <1>1, Times DEF DroneSends, FrameDue
<1>3. /\ UNCHANGED <<a_pc, a_ret, a_irq, a_got, a_left, a_due, a_pkt, a_chip>>
      /\ UNCHANGED <<g_pc, g_ret, g_irq, g_left, g_due, g_pkt, g_chip>>
      /\ airUp'
  BY DEF AirBoots, airOnly, gndOnly
<1>4. InStep'
  BY <1>2, <1>3, StillInStep DEF InStep
<1>5. G!Idle' /\ A!Prepares'
  BY <1>1, <1>3, AirStays, GndStays
<1>. QED  BY <1>3, <1>4, <1>5, AirApartNext, GndApartNext DEF Answered

\* Before that the ground gets to listen, and no further.
LEMMA StillBooting ==
  ASSUME SlotsFit, Regular, Booting, Next, ~AirBoots
  PROVE  Booting'
<1>0. TOA \in Nat \ {0} /\ SLOT_MS \in Nat /\ g_due \in Int
  BY Times DEF Regular
<1>1. a_chip.mode = "STDBY" /\ ~airUp
  BY DEF Booting, A!Init, A!PortInit, A!PowerOn
<1>2. ASSUME UNCHANGED <<airOnly, a_chip, airUp>>, (G!Idle' /\ g_due' > TOA) \/ G!Ends'
      PROVE  Booting'
  BY <1>2 DEF Booting, A!Init, A!PortInit, A!PowerOn, A!NoFrame, airOnly
<1>3. CASE GndHost
  <2>1. g_pc # "accept" /\ g_chip.mode # "TX"
    BY GndApart DEF Booting
  <2>2. GndWork
    <3>1. G!Host
      BY <1>3, <2>1 DEF GndHost, G!GndReconnected
    <3>. QED  BY <3>1, GndWorks DEF Regular, SlotsFit, Undisturbed
  <2>3. (G!Idle' /\ g_due' > TOA) \/ G!Ends'
    <3>1. CASE G!Idle /\ g_due > TOA
      <4>1. g_due > 0
        BY <1>0, <3>1
      <4>. QED  BY <2>2, <3>1, <4>1 DEF GndWork
    <3>2. CASE G!Ends
      <4>1. 3 * SLOT_MS > TOA
        BY <1>0, Times DEF SlotsFit
      <4>. QED  BY <2>2, <3>2, <4>1 DEF GndWork
    <3>. QED  BY <3>1, <3>2 DEF Booting
  <2>4. a_chip' = a_chip
    BY <1>3, <2>1, <2>3, GndApartNext DEF GndHost, Overhears
  <2>. QED  BY <1>2, <1>3, <2>3, <2>4 DEF GndHost
<1>4. CASE GndProgram
  <2>1. UNCHANGED <<g_pc, g_ret, g_irq, g_left, g_due, g_pkt, g_chip>>
    BY <1>4 DEF GndProgram, G!ClientWrites, G!ClientReads, G!ClientCloses, G!PeerWrites,
       G!PeerReads, G!Around
  <2>. QED  BY <1>2, <1>4, <2>1, GndStays DEF Booting, GndProgram
<1>5. CASE Tick
  <2>1. UNCHANGED <<airOnly, a_chip, airUp>> /\ g_due > TOA + 1
    BY <1>1, <1>5 DEF Tick, SlotsFit
  <2>2. G!Idle' /\ g_due' = g_due - 1
    BY <1>0, <1>5, <2>1, GndTicks DEF Tick, Regular, SlotsFit, Booting
  <2>. QED  BY <1>0, <1>2, <2>1, <2>2
<1>6. ~AirHost /\ ~AirTxDone /\ ~GndTxDone /\ ~AirProgram
  <2>1. g_chip.mode # "TX"
    BY GndApart DEF Booting
  <2>. QED
    BY <1>1, <2>1 DEF AirHost, AirTxDone, GndTxDone, AirProgram, A!TxDone, G!TxDone
<1>. QED  BY <1>3, <1>4, <1>5, <1>6 DEF Next

\* Nobody presses Ctrl+C on either side, and failures are counted.
LEMMA Bystanders ==
  ASSUME A!IInv, G!IInv, [Next]_linkVars
  PROVE  /\ UNCHANGED <<a_stop, g_stop>>
         /\ NoCallFailed' => NoCallFailed /\ UNCHANGED <<a_faults, g_faults>>
<1>1. AP!IInv /\ GP!IInv
  BY AirInvariants, GndInvariants
<1>2. a_stop' = a_stop /\ a_faults' \in {a_faults, a_faults - 1}
  <2>1. CASE A!Host \/ A!TxDone \/ A!Tick \/ A!PeerWrites \/ A!PeerReads
    BY <1>1, <2>1, AirActions, AirAssumptions, AP!Bystanders
  <2>2. CASE UNCHANGED airOnly
    BY <2>2 DEF airOnly
  <2>. QED
    BY <2>1, <2>2 DEF Next, linkVars, AirBoots, AirHost, GndHost, AirTxDone, GndTxDone,
       AirProgram, GndProgram, Tick
<1>3. g_stop' = g_stop /\ g_faults' \in {g_faults, g_faults - 1}
  <2>1. CASE \/ G!Host \/ G!GndReconnected \/ G!TxDone \/ G!Tick
             \/ G!ClientWrites \/ G!ClientReads \/ G!ClientCloses
    BY <1>1, <2>1, GndActions, GndAssumptions, GP!Bystanders
  <2>2. CASE UNCHANGED gndOnly
    BY <2>2 DEF gndOnly
  <2>. QED
    BY <2>1, <2>2 DEF Next, linkVars, AirBoots, AirHost, GndHost, AirTxDone, GndTxDone,
       AirProgram, GndProgram, Tick
<1>4. a_faults \in 0..AirFaults /\ g_faults \in 0..GndFaults
  BY DEF A!IInv, A!TypeOK, A!PortTypeOK, G!IInv, G!TypeOK, G!PortTypeOK
<1>5. AirFaults \in Nat /\ GndFaults \in Nat
  BY LinkAssumption
<1>. QED  BY <1>2, <1>3, <1>4, <1>5 DEF NoCallFailed

LEMMA StepInStep ==
  ASSUME SlotsFit, Regular, InStep, airUp, [Next]_linkVars
  PROVE  airUp' /\ InStep' /\ (Attentive => Answered')
<1>1. airUp'
  BY DEF Next, linkVars, AirBoots, AirHost, GndHost, AirTxDone, GndTxDone, AirProgram,
     GndProgram, Tick
<1>2. CASE AirProgram \/ GndProgram \/ UNCHANGED linkVars
  <2>1. /\ UNCHANGED <<a_pc, a_ret, a_irq, a_got, a_left, a_due, a_pkt, a_chip>>
        /\ UNCHANGED <<g_pc, g_ret, g_irq, g_left, g_due, g_pkt, g_chip>>
    BY <1>2 DEF AirProgram, GndProgram, linkVars, airOnly, gndOnly, A!PeerWrites,
       A!PeerReads, A!Around, G!ClientWrites, G!ClientReads, G!ClientCloses, G!PeerWrites,
       G!PeerReads, G!Around
  <2>. QED  BY <1>1, <2>1, StillInStep
<1>. QED
  BY <1>1, <1>2, AirHostInStep, GndHostInStep, AirTxDoneInStep, GndTxDoneInStep, TickInStep
  DEF Next, AirBoots

\* Paced is inductive, and so is Heeded beside it.
LEMMA StepPaced ==
  ASSUME SlotsFit, OrderInv, Paced, Undisturbed, Undisturbed', [Next]_linkVars
  PROVE  Paced' /\ (GUARD_MS >= 1 /\ Heeded => Heeded')
<1>1. ~a_stop' /\ ~g_stop' /\ (NoCallFailed' => NoCallFailed)
  BY Bystanders DEF OrderInv, Paced
<1>2. ASSUME NoCallFailed'
      PROVE  Regular
  BY <1>2, Bystanders DEF OrderInv, Paced, Regular, Undisturbed
<1>3. ASSUME NoCallFailed'
      PROVE  \/ Booting' /\ ~airUp'
             \/ airUp' /\ InStep' /\ (GUARD_MS >= 1 /\ Heeded /\ g_offered = 0 => Answered')
  <2>1. Booting \/ (airUp /\ InStep)
    BY <1>1, <1>3 DEF Paced
  <2>2. CASE airUp /\ InStep
    BY <1>1, <1>2, <1>3, <2>2, StepInStep DEF Heeded, Attentive
  <2>3. CASE Booting /\ AirBoots
    BY <2>3, BootsInStep
  <2>4. CASE Booting /\ Next /\ ~AirBoots
    <3>1. Booting'
      BY <1>2, <1>3, <2>4, StillBooting
    <3>. QED  BY <3>1 DEF Booting
  <2>5. CASE Booting /\ UNCHANGED linkVars
    <3>1. /\ UNCHANGED <<g_pc, g_ret, g_irq, g_left, g_due, g_pkt, g_chip>>
          /\ UNCHANGED <<airOnly, a_chip, airUp>>
      BY <2>5 DEF linkVars, gndOnly
    <3>2. A!Init'
      BY <2>5, <3>1 DEF Booting, A!Init, A!PortInit, A!PowerOn, A!NoFrame, airOnly
    <3>. QED  BY <2>5, <3>1, <3>2, GndStays DEF Booting
  <2>. QED  BY <2>1, <2>2, <2>3, <2>4, <2>5
<1>4. g_offered' = 0 => g_offered = 0
  <2>1. g_offered \in Nat
    BY GndTypes DEF OrderInv
  <2>2. g_offered' \in {g_offered, g_offered + 1}
    BY StepKept DEF Kept, UpPipe!Next, UpPipe!Send, UpPipe!Deliver
  <2>. QED  BY <2>1, <2>2
<1>. QED  BY <1>1, <1>3, <1>4 DEF Paced, Heeded

LEMMA InitPaced ==
  ASSUME Init
  PROVE  Paced /\ Heeded
<1>1. A!Init /\ ~airUp /\ ~a_stop /\ ~g_stop
  BY DEF Init, A!Init, A!PortInit, G!GndInit, G!PortInit
<1>2. G!Ends
  BY DEF Init, G!GndInit, G!PortInit, G!PowerOn, G!Ends, G!Ending, G!Silent
<1>. QED  BY <1>1, <1>2 DEF Paced, Heeded, Booting

\* Two sides in step do not transmit at once.
LEMMA PacedApart == Paced => OverlapsNever
<1>1. Booting => a_chip.mode # "TX"
  BY DEF Booting, A!Init, A!PortInit, A!PowerOn
<1>2. InStep => a_chip.mode # "TX" \/ g_chip.mode # "TX"
  BY AirApart, GndApart DEF InStep, DroneSends, FrameEnded, GroundAnswers, AnswerEnded
<1>. QED  BY <1>1, <1>2 DEF Paced, OverlapsNever, NoOverlap

\* The drone's slot ends in its listening loop, and then the ground has answered.
LEMMA HeededAnswers ==
  ASSUME SlotsFit, OrderInv, Paced, Heeded, [Next]_linkVars, NoCallFailed, g_offered = 0,
         a_pc = "listen", a_pc' = "top"
  PROVE  a_got
<1>0. TOA \in Nat \ {0} /\ a_due \in Int /\ A!IInv /\ G!IInv
  BY Times DEF OrderInv
<1>1. A!Host /\ airUp
  BY DEF Next, linkVars, airOnly, AirBoots, AirHost, GndHost, AirTxDone, GndTxDone,
     AirProgram, GndProgram, Tick, A!TxDone, A!Tick, A!Elapses, A!PeerWrites, A!PeerReads,
     A!Around
<1>2. a_due <= 0
  <2>1. A!AirSlotEnds
    BY <1>1
    DEF A!Host, A!Helper, A!SendStandby, A!SendClear, A!SendBuffer, A!SendTx, A!SendCall,
        A!WaitEnds, A!WaitPoll, A!GetIrq, A!ClearIrqRead, A!RxClear, A!RxSet, A!AirTop,
        A!AirSendFailed, A!AirRetry, A!AirSent, A!AirSlot, A!AirPoll, A!PollReturns,
        A!AirHandleIrq, A!AirRead, A!AirStops, A!AirExit
  <2>. QED  BY <2>1 DEF A!AirSlotEnds, Paced
<1>3. InStep /\ Answered
  BY <1>1 DEF Paced, Booting, Heeded
<1>4. ~A!Prepares /\ ~A!Sends /\ ~A!Ends
  BY DEF A!Prepares, A!Preparing, A!Building, A!Sends, A!OnAir, A!Ends, A!Ending,
     A!Interrupted
<1>5. CASE A!Idle /\ G!Idle
  BY <1>3, <1>5 DEF Answered
<1>6. CASE A!TakesUp
  BY <1>0, <1>2, <1>6, AirApart
<1>7. CASE GroundAnswers
  BY <1>0, <1>2, <1>7, AnsweringStands DEF GroundAnswers
<1>8. CASE AnswerEnded
  BY <1>0, <1>2, <1>8, AirApart DEF AnswerEnded
<1>. QED
  BY <1>3, <1>4, <1>5, <1>6, <1>7, <1>8 DEF InStep, DroneSends, FrameEnded

\* Time division: while no call of the driver fails, no frame is lost and the client is
\* there and reads, the two sides never transmit at the same time, for every slot longer
\* than the two frames and the guard time and every wait longer than a frame, whatever
\* the two programs write and whenever (mode_mavlink.c:3-9).
THEOREM LinkOverlapsNever ==
  ASSUME Prompt, Aligned, TX_WAIT_MS > TOA, SLOT_MS > 2 * TOA + GUARD_MS
  PROVE  Spec /\ []Undisturbed => []OverlapsNever
<1>1. SlotsFit
  BY DEF SlotsFit
<1>2. Init => Paced
  BY InitPaced
<1>3. OrderInv /\ Paced /\ Undisturbed /\ Undisturbed' /\ [Next]_linkVars => Paced'
  BY <1>1, StepPaced
<1>. QED  BY <1>2, <1>3, PacedApart, LinkOrderInv, PTL DEF Spec

\* And if the guard time is at least a tick and the client silent, every slot of the
\* drone brings one answer of the ground (mode_mavlink.c:18-22).
THEOREM LinkEverySlotAnswered ==
  ASSUME Prompt, Aligned, TX_WAIT_MS > TOA, SLOT_MS > 2 * TOA + GUARD_MS, GUARD_MS >= 1
  PROVE  Spec /\ []Undisturbed => EverySlotAnswered
<1>1. SlotsFit
  BY DEF SlotsFit
<1>2. Init => Paced /\ Heeded
  BY InitPaced
<1>3. OrderInv /\ Paced /\ Heeded /\ Undisturbed /\ Undisturbed' /\ [Next]_linkVars
        => Paced' /\ Heeded'
  BY <1>1, StepPaced
<1>4. OrderInv /\ Paced /\ Heeded /\ [Next]_linkVars
        => [NoCallFailed /\ g_offered = 0 => SlotAnswered]_linkVars
  BY <1>1, HeededAnswers DEF SlotAnswered
<1>. QED  BY <1>2, <1>3, <1>4, LinkOrderInv, PTL DEF Spec, EverySlotAnswered

(***************************************************************************)
(* When nothing disturbs the link: the channel loses nothing, the          *)
(* transport is a serial line, and its program need not read in time.      *)
(***************************************************************************)
\* The program has not read more than was written.
Backlog == Len(g_outq) <= Len(down)

LEMMA StepBacklog ==
  ASSUME GndFaults <= 1, OrderInv, Backlog, [Next]_linkVars
  PROVE  Backlog'
<1>1. /\ g_outq \in Seq(Nat) /\ g_outq' \in Seq(Nat) /\ down \in Seq(Nat)
      /\ g_chip.rxfifo.data \in Seq(Nat)
  BY GndTypes, StepKept DEF OrderInv, DownOrder, Kept
<1>2. CASE GndHost
  <2>1. Takes(g_chip, g_chip', g_outq, g_outq') /\ down' = down \o Written(g_outq, g_outq')
    BY <1>2, GndHostStep DEF OrderInv, GndHost
  <2>2. CASE Len(g_outq') <= Len(g_outq)
    <3>1. down' = down
      BY <1>1, <2>1, <2>2, ConcatEmptySeq DEF Written
    <3>. QED  BY <1>1, <2>2, <3>1 DEF Backlog
  <2>3. CASE Len(g_outq') > Len(g_outq)
    <3>. DEFINE w == SubSeq(g_outq', Len(g_outq) + 1, Len(g_outq'))
    <3>1. w \in Seq(Nat) /\ Len(w) = Len(g_outq') - Len(g_outq)
      BY <1>1, <2>3
    <3>2. down' = down \o w
      BY <2>1, <2>3 DEF Written
    <3>. HIDE DEF w
    <3>3. Len(down') = Len(down) + Len(w)
      <4>1. \A v \in Seq(Nat) : Len(down \o v) = Len(down) + Len(v)
        BY <1>1
      <4>. QED  BY <3>1, <3>2, <4>1
    <3>. QED  BY <1>1, <3>1, <3>3 DEF Backlog
  <2>. QED  BY <1>1, <2>2, <2>3
<1>3. CASE ~GndHost
  <2>1. down' = down
    BY <1>3 DEF Next, linkVars, AirBoots, AirHost, AirTxDone, GndTxDone, AirProgram,
       GndProgram, Tick
  <2>2. Len(g_outq') <= Len(g_outq)
    <3>1. CASE G!ClientReads
      BY <1>1, <3>1 DEF G!ClientReads, G!PeerReads
    <3>2. CASE G!ClientCloses
      BY <1>1, <3>2 DEF G!ClientCloses
    <3>3. CASE UNCHANGED g_outq
      BY <1>1, <3>3
    <3>. QED
      BY <1>3, <3>1, <3>2, <3>3 DEF Next, linkVars, gndOnly, AirBoots, AirHost, AirTxDone,
         GndTxDone, AirProgram, GndProgram, Tick, G!TxDone, G!Tick, G!Elapses,
         G!ClientWrites, G!PeerWrites
  <2>. QED  BY <1>1, <2>1, <2>2 DEF Backlog
<1>. QED  BY <1>2, <1>3

\* A frame that is read carries a byte not yet delivered, and so there is room for it.
LEMMA RoomLeft ==
  ASSUME GndFaults <= 1, AirBytes <= OUT_CAP, OrderInv, Backlog,
         g_pc = "read", g_chip.rxfifo.data # <<>>
  PROVE  Len(g_outq) < OUT_CAP
<1>. DEFINE f == g_chip.rxfifo.data[1]
<1>1. /\ g_outq \in Seq(Nat) /\ down \in Seq(Nat) /\ A!Increasing(down)
      /\ g_chip.rxfifo.data \in Seq(Nat)
      /\ AirBytes \in Nat /\ OUT_CAP \in Nat /\ a_offered \in 0..AirBytes
  BY GndTypes, LinkAssumption DEF OrderInv, DownOrder, A!IInv, A!TypeOK, A!PortTypeOK
<1>2. g_chip.fresh
  <2>1. "RX_DONE" \in g_irq /\ g_faults \in 0..GndFaults /\ GndFaults \in Nat
    BY LinkAssumption DEF OrderInv, G!IInv, G!Control, G!TypeOK, G!PortTypeOK
  <2>2. ~(G!Failed >= 2)
    BY <2>1 DEF G!Failed
  <2>. QED  BY <2>1, <2>2 DEF OrderInv, G!IInv, G!RxDoneIsNew
<1>3. f \in A!Bytes(g_chip.rxfifo.data)
  <2>1. 1 \in 1..Len(g_chip.rxfifo.data)
    BY <1>1, EmptySeq
  <2>. QED  BY <2>1 DEF A!Bytes
<1>4. /\ A!Bytes(down) \subseteq 1..a_offered
      /\ A!Before(A!Bytes(down), A!Bytes(g_chip.rxfifo.data))
      /\ f \in 1..a_offered
  BY <1>2, <1>3 DEF OrderInv, DownOrder, A!Behind
<1>5. \A b \in A!Bytes(down) : b < f
  BY <1>3, <1>4 DEF A!Before
<1>. HIDE DEF f
<1>6. f \in Nat /\ f - 1 \in Nat
  BY <1>1, <1>4
<1>7. A!Bytes(down) \subseteq 1..(f - 1)
  <2>. SUFFICES ASSUME NEW b \in A!Bytes(down) PROVE b \in 1..(f - 1)
    OBVIOUS
  <2>1. b \in 1..a_offered /\ b < f
    BY <1>4, <1>5
  <2>. QED  BY <2>1, <1>1, <1>6
<1>8. Len(down) <= f - 1
  BY <1>1, <1>6, <1>7, IncreasingIsShort
<1>. QED  BY <1>1, <1>4, <1>6, <1>8 DEF Backlog

\* Nothing disturbs the link when the channel loses nothing, the ground side is on a
\* serial line and the kernel holds all that the flight controller writes.
THEOREM LinkUndisturbed ==
  ASSUME MaxLosses = 0, ~Tcp, AirBytes <= OUT_CAP, GndFaults <= 1
  PROVE  Spec => []Undisturbed
<1>. DEFINE Calm == losses = MaxLosses /\ g_link = "up"
<1>1. Init => Calm /\ Backlog
  BY GndInit DEF Init, G!GndInit, G!PortInit, Backlog
<1>2. Calm /\ [Next]_linkVars => Calm'
  <2>. SUFFICES ASSUME Calm, [Next]_linkVars PROVE Calm'
    OBVIOUS
  <2>1. losses' = losses
    BY DEF Next, linkVars, AirBoots, AirHost, GndHost, AirTxDone, GndTxDone, AirProgram,
       GndProgram, Tick, Hears
  <2>2. g_link' = "up"
    <3>1. CASE G!Host \/ G!GndReconnected
      BY <3>1 DEF G!Host, G!conn, G!GndTop, G!GndListenEnds, G!GndPoll, G!GndHandleIrq,
         G!GndRead, G!WriteToNobody, G!GndSigpipe, G!GndRearm, G!GndGuard, G!GndProbe,
         G!GndAcceptFails, G!GndBuild, G!GndSendFailed, G!GndSent, G!GndStops, G!GndExit,
         G!GndReconnected
    <3>2. CASE ~G!Host /\ ~G!GndReconnected
      BY <3>2 DEF Next, linkVars, gndOnly, AirBoots, AirHost, GndHost, AirTxDone, GndTxDone,
         AirProgram, GndProgram, Tick, G!Tick, G!conn, G!ClientWrites, G!ClientReads,
         G!ClientCloses
    <3>. QED  BY <3>1, <3>2
  <2>. QED  BY <2>1, <2>2
<1>3. OrderInv /\ Backlog /\ [Next]_linkVars => Backlog'
  BY StepBacklog
<1>4. OrderInv /\ Backlog /\ Calm => Undisturbed
  BY RoomLeft DEF Undisturbed
<1>. QED  BY <1>1, <1>2, <1>3, <1>4, LinkOrderInv, PTL DEF Spec
=============================================================================
