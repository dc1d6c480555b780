------------------------------ MODULE ScanMode ------------------------------
(* cli/mode_scan.c: a sweep over the channels, looking for activity (CAD) on *)
(* each in turn and counting the hits.                                       *)
EXTENDS Main

CONSTANTS N_CH,         \* channels of the table
          CAD_WAIT_MS,  \* cad_timeout_ms, in ticks
          MaxPasses     \* sweeps: 1, or with --continuous a bound on them

ASSUME ScanAssumption == N_CH \in Nat \ {0} /\ CAD_WAIT_MS \in Nat /\ MaxPasses \in Nat \ {0}

VARIABLES ci,        \* the channel the sweep is at
          pass,      \* sweeps finished
          hits,      \* hits counted on each channel
          cadOn,     \* the channel of the last CAD started (for properties)
          detected   \* what the CADs of each channel found (for properties)

scanVars == <<ci, pass, hits, cadOn, detected>>

Channel == 1..N_CH

ScanSteps == {"scan", "scan_clear", "scan_cad", "scan_wait", "scan_handle"}

\* A range with no channel in it, or no step, ends the mode before it resets the
\* radio. (The range itself: ScanRange of ModeSetup.)
ScanRefuses ==
  /\ mode = "scan" /\ pc = "reset"
  /\ Fails
  /\ UNCHANGED <<mode, irq, left, g_stop, chip, faults, scanVars>>

\* A command that sets the radio up for a channel; a failure ends the scan, and
\* is not reported.
ScanCommand(step, c, next) ==
  /\ pc = step
  /\ \E ok \in BOOLEAN : /\ HalWrite(c, ok)
                         /\ pc' = IF ok THEN next ELSE "standby"
  /\ UNCHANGED <<mode, irq, g_stop, rc, ci, pass, hits, detected>>

\* A slip for the mutation runs: the sweep goes one channel too far.
ScanTuneOneMore == /\ ci <= N_CH + 1 /\ ~g_stop
                   /\ ScanCommand("scan", chip, "scan_clear")
                   /\ UNCHANGED <<left, cadOn>>

\* lr11xx_radio_set_rf_freq.
ScanTune == /\ ci <= N_CH /\ ~g_stop
            /\ ScanCommand("scan", chip, "scan_clear")
            /\ UNCHANGED <<left, cadOn>>

\* The sweep is over, or Ctrl+C ended it: redraw, and the next one or none.
ScanSweepEnds ==
  /\ pc = "scan"
  /\ ci > N_CH \/ g_stop
  /\ pass' = pass + 1
  /\ IF pass' < MaxPasses /\ ~g_stop
       THEN ci' = 1 /\ UNCHANGED pc
       ELSE pc' = "standby" /\ UNCHANGED ci
  /\ UNCHANGED <<mode, irq, left, g_stop, rc, chip, faults, hits, cadOn, detected>>

ScanClear == /\ ScanCommand("scan_clear", ClearIrq(chip, IrqBits), "scan_cad")
             /\ UNCHANGED <<left, cadOn>>

ScanCad == /\ ScanCommand("scan_cad", SetCad(chip), "scan_wait")
           /\ left' = CAD_WAIT_MS
           /\ cadOn' = ci

\* However the wait ends, the interrupts are read.
ScanWait == /\ WaitIrqRising("scan_wait", "read_irq", "read_irq", "read_irq")
            /\ UNCHANGED scanVars

\* A slip for the mutation runs: every CAD that ends is a hit.
ScanHandleDone ==
  /\ pc = "scan_handle"
  /\ hits' = [hits EXCEPT ![ci] = IF "CAD_DONE" \in irq THEN @ + 1 ELSE @]
  /\ ci' = ci + 1
  /\ irq' = {}
  /\ pc' = "scan"
  /\ UNCHANGED <<mode, left, g_stop, rc, chip, faults, pass, cadOn, detected>>

ScanHandle ==
  /\ pc = "scan_handle"
  /\ hits' = [hits EXCEPT ![ci] = IF "CAD_DETECTED" \in irq THEN @ + 1 ELSE @]
  /\ ci' = ci + 1
  /\ irq' = {}
  /\ pc' = "scan"
  /\ UNCHANGED <<mode, left, g_stop, rc, chip, faults, pass, cadOn, detected>>

ScanHost == \/ ScanRefuses \/ ScanTune \/ ScanSweepEnds \/ ScanClear \/ ScanCad
            \/ ScanWait \/ ScanHandle

\* The radio ends its CAD.
CadEnds ==
  /\ chip.mode = "CAD"
  /\ chip.air = 0
  /\ \E found \in BOOLEAN :
       /\ chip' = CadEnd(chip, found)
       /\ detected' = [detected EXCEPT ![cadOn] = IF found THEN @ + 1 ELSE @]
  /\ UNCHANGED <<mode, pc, irq, left, g_stop, rc, faults, ci, pass, hits, cadOn>>

ScanInit == /\ ci = 1
            /\ pass = 0
            /\ hits = [c \in Channel |-> 0]
            /\ cadOn = 1
            /\ detected = [c \in Channel |-> 0]
=============================================================================
