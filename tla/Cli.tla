-------------------------------- MODULE Cli --------------------------------
(* A run of the program in any of its modes but the MAVLink bridge, against  *)
(* a radio that hears and detects what it likes, failing calls and Ctrl+C.   *)
EXTENDS TxMode, RxMode, ScanMode, TestMode

vars == <<mainVars, txVars, scanVars>>

Host == \/ (MainHost \/ RxHost \/ TestHost) /\ UNCHANGED <<txVars, scanVars>>
        \/ TxHost /\ UNCHANGED scanVars
        \/ ScanHost /\ UNCHANGED txVars

RadioEnds == \/ TxEnds /\ UNCHANGED scanVars
             \/ CadEnds /\ UNCHANGED txVars

Clock == Tick /\ UNCHANGED <<txVars, scanVars>>

Init == MainInit /\ TxInit /\ ScanInit

Next == \/ Host
        \/ RadioEnds
        \/ Clock
        \/ (Receives \/ CtrlC) /\ UNCHANGED <<txVars, scanVars>>

Spec == Init /\ [][Next]_vars

\* The scheduler runs the process, the radio ends what it began, time passes.
Fairness == WF_vars(Host) /\ WF_vars(RadioEnds) /\ WF_vars(Clock)

LiveSpec == Spec /\ Fairness

(***************************************************************************)
(* Properties.                                                             *)
(***************************************************************************)
TypeOK == /\ mode \in Modes
          /\ pc \in MainSteps \cup TxSteps \cup RxSteps \cup ScanSteps \cup TestSteps
          /\ irq \subseteq IrqBits
          /\ left \in Nat
          /\ g_stop \in BOOLEAN
          /\ rc \in {"ok", "failed"}
          /\ chip \in Chip
          /\ faults \in 0..MaxFaults
          /\ sent \in Nat /\ onAir \in Nat
          /\ ci \in 1..N_CH + 1
          /\ pass \in Nat
          /\ hits \in [Channel -> Nat]
          /\ cadOn \in Channel
          /\ detected \in [Channel -> Nat]

\* A packet is reported as sent only when it went out whole, and a count of n
\* puts at most n packets on the air, one more for each call that fails
\* (mode_tx.c:68-108): the loop that repeats whatever it cannot read neither
\* counts an old TX_DONE nor goes on for ever.
CountKept == /\ sent <= onAir
             /\ COUNT > 0 => onAir <= COUNT + Failed

\* While no call fails, every hit belongs to the channel it is counted for, and
\* none is missed (mode_scan.c:280-301): no CAD's interrupt or edge is left for
\* the next channel, although nobody looks at how the wait ended.
HitsAreDetections ==
  Failed = 0 => /\ \A c \in Channel : hits[c] <= detected[c]
                /\ pc = "scan" /\ ~g_stop => hits = detected

\* A mode gave up although no call had failed: only a scan does, of an invalid range.
Refused == mode = "scan" /\ rc = "failed" /\ Failed = 0

\* The radio is quiet when the program has ended, in whatever state an earlier
\* program left it and wherever Ctrl+C came (mode_txtest.c:131: "standby puts the PA
\* off immediately"). Two exceptions: a failed call, since a transmitter whose start
\* was carried out but reported as failed stays on (mode_txtest.c:114-118), as one does
\* whose standby command failed; and a scan of an invalid range, which leaves the radio
\* as it found it (mode_scan.c:216-219).
QuietAtEnd == pc = "ended" /\ Failed = 0 /\ ~Refused => chip.mode = "STDBY"

\* Ctrl+C ends every mode from every point.
StopEnds == g_stop ~> pc = "ended"

\* A transmit mode with a count returns in the end, whatever calls fail: with the count
\* sent, or given up at an error or a time-out (mode_tx.c:68-108). A packet whose
\* interrupts could not be read is not counted, and is yet not repeated for ever.
TxReturnsAtLast == (mode = "tx" /\ COUNT > 0) ~> pc = "ended"

\* README.md:122 says that the receive mode "prints each received packet": the
\* interrupt of a packet is at least taken up.  It need not be: when the packet
\* comes between the reading of other interrupts and their clearing, the line
\* stays high, no edge comes again, and the mode is deaf for good
\* (mode_rx.c:114-121).
PacketsTaken ==
  (mode = "rx" /\ "RX_DONE" \in chip.irq) ~> ("RX_DONE" \notin chip.irq \/ g_stop)

(***************************************************************************)
(* The inductive invariant behind the safety properties.                   *)
(***************************************************************************)
\* From tuning a channel to counting its hit.
AtChannel == mode = "scan" /\ pc \in {"scan_clear", "scan_cad", "scan_wait", "read_irq",
                                     "clear_read", "scan_handle"}

\* Which mode the process and the radio can be in.
Control ==
  /\ pc \in TxSteps => mode = "tx"
  /\ pc \in RxSteps => mode = "rx"
  /\ pc \in ScanSteps => mode = "scan"
  /\ pc \in TestSteps => mode = "txtest"
  /\ pc \in {"read_irq", "clear_read"} => mode \in {"tx", "rx", "scan"}
  /\ mode # "tx" => chip.mode # "TX" /\ sent = 0 /\ onAir = 0
  /\ mode # "scan" => chip.mode # "CAD"
  /\ pc \notin {"start", "reset", "close", "ended"} =>
       /\ mode = "tx" => chip.mode \in {"STDBY", "TX"}
       /\ mode = "scan" => chip.mode \in {"STDBY", "CAD"}
  /\ AtChannel => ci \in Channel

\* No edge is older than the reset: until then the line is high, or nobody sends.
NoOldEdge == pc \in {"start", "reset"} =>
               ~chip.edge /\ (chip.mode = "RX" => chip.irq # {}) /\ chip.mode \notin Timed

\* Packets on the air, or on their way, against packets counted.
InFlight == IF chip.mode = "TX" THEN 1 ELSE 0

Sending == pc \in {"tx", "tx_write", "tx_start", "tx_sleep"}

Answering == pc \in {"tx_wait", "read_irq", "clear_read", "tx_handle"}

\* Where TX_DONE is at a step of the answer: still in the radio, or read.
Seen == IF pc \in {"tx_wait", "read_irq"} THEN chip.irq ELSE irq

Counting ==
  /\ sent <= onAir
  /\ COUNT > 0 => sent <= COUNT
  /\ mode = "tx" =>
       /\ pc \in {"start", "reset", "configure"} => onAir = 0
       /\ pc = "configure" => ~chip.edge /\ chip.mode # "TX"
       /\ Sending => ~chip.edge /\ chip.mode # "TX" /\ onAir <= sent + Failed
       /\ pc \in {"tx_write", "tx_start"} => More(sent) /\ "TX_DONE" \notin chip.irq
       /\ Answering => /\ More(sent)
                       /\ onAir + InFlight <= sent + Failed + 1
                       /\ "TX_DONE" \in Seen => sent < onAir
                       /\ "TX_DONE" \notin Seen => onAir <= sent + Failed
                       /\ chip.mode = "TX" => pc = "tx_wait" /\ ~chip.edge
                       /\ pc # "tx_wait" => ~chip.edge
       /\ pc \in {"standby", "close", "ended"} /\ COUNT > 0 =>
            onAir + InFlight <= COUNT + Failed

\* Hits and detections, while no call has failed and CADs end in time.
Taken(bits) == [hits EXCEPT ![ci] = IF "CAD_DETECTED" \in bits THEN @ + 1 ELSE @]

Ready == ~chip.edge /\ chip.mode # "CAD"

Detecting ==
  Failed = 0 /\ mode = "scan" =>
    /\ \A c \in Channel : hits[c] <= detected[c]
    /\ pc \in {"start", "reset", "configure"} => hits = detected /\ Ready
    /\ pc = "scan" /\ ~g_stop => hits = detected /\ Ready
    /\ pc \in {"scan_clear", "scan_cad"} => hits = detected /\ Ready
    /\ pc = "scan_cad" => chip.irq = {}
    /\ pc \in {"scan_wait", "read_irq"} =>
         /\ cadOn = ci
         /\ Taken(chip.irq) = detected
         /\ chip.mode = "CAD" => chip.irq = {}
    /\ pc = "scan_wait" => /\ chip.edge = (chip.mode # "CAD")
                           /\ chip.mode = "CAD" => left > chip.air
    /\ pc \in {"clear_read", "scan_handle"} =>
         /\ \A c \in Channel : Taken(irq)[c] <= detected[c]
         /\ ~g_stop => Taken(irq) = detected
    /\ pc \in {"read_irq", "clear_read", "scan_handle"} /\ ~g_stop => Ready

Idle == mode # "scan" => hits = detected

Quiet == pc \in {"close", "ended"} /\ Failed = 0 /\ ~Refused => chip.mode = "STDBY"

IInv == TypeOK /\ Control /\ NoOldEdge /\ Counting /\ Quiet

\* The part that needs CAD_WAIT_MS > TOA.
ScanInv == Idle /\ Detecting
=============================================================================
