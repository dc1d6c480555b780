------------------------------- MODULE TxMode -------------------------------
(* cli/mode_tx.c: a packet is sent again and again until COUNT of them are   *)
(* reported as sent.                                                         *)
EXTENDS Main

CONSTANTS COUNT,        \* p->count, 0 for no end
          INTERVAL_MS,  \* p->interval_ms, in ticks
          TX_WAIT_MS    \* how long it waits for TX_DONE (10 s)

ASSUME TxAssumption == COUNT \in Nat /\ INTERVAL_MS \in Nat /\ TX_WAIT_MS \in Nat

VARIABLES sent,   \* packets reported as sent
          onAir   \* packets that went out whole (for properties)

txVars == <<sent, onAir>>

TxSteps == {"tx", "tx_write", "tx_start", "tx_wait", "tx_handle", "tx_sleep"}

More(n) == COUNT = 0 \/ n < COUNT

TxReturns ==
  /\ pc = "tx"
  /\ g_stop \/ ~More(sent)
  /\ pc' = "standby"
  /\ UNCHANGED <<mode, irq, left, g_stop, rc, chip, faults, txVars>>

TxClear == /\ ~g_stop /\ More(sent)
           /\ Command("tx", ClearIrq(chip, IrqBits), "tx_write")
           /\ UNCHANGED <<left, txVars>>

TxWrite == /\ Command("tx_write", WriteBuffer(chip, NoFrame), "tx_start")
           /\ UNCHANGED <<left, txVars>>

TxStart == /\ Command("tx_start", SetTx(chip), "tx_wait")
           /\ left' = TX_WAIT_MS
           /\ UNCHANGED txVars

TxWait == /\ WaitIrqRising("tx_wait", "read_irq", "standby", "standby")
          /\ UNCHANGED txVars

\* A slip for the mutation runs: any interrupt counts as TX_DONE.
TxHandleAny ==
  /\ pc = "tx_handle"
  /\ sent' = sent + 1
  /\ pc' = "tx"
  /\ irq' = {}
  /\ UNCHANGED <<mode, left, g_stop, rc, chip, faults, onAir>>

\* A slip for the mutation runs: ERROR does not end the mode.
TxHandleGoesOn ==
  /\ pc = "tx_handle"
  /\ sent' = IF "TX_DONE" \in irq THEN sent + 1 ELSE sent
  /\ pc' = "tx"
  /\ irq' = {}
  /\ UNCHANGED <<mode, left, g_stop, rc, chip, faults, onAir>>

\* TX_DONE counts; ERROR ends the mode; anything else sends the packet again.
TxHandle ==
  /\ pc = "tx_handle"
  /\ sent' = IF "TX_DONE" \in irq THEN sent + 1 ELSE sent
  /\ \/ /\ "TX_DONE" \notin irq /\ "ERROR" \in irq
        /\ pc' = "standby"
        /\ UNCHANGED left
     \/ /\ "TX_DONE" \in irq \/ "ERROR" \notin irq
        /\ IF INTERVAL_MS > 0 /\ More(sent')
             THEN pc' = "tx_sleep" /\ left' = INTERVAL_MS
             ELSE pc' = "tx" /\ UNCHANGED left
  /\ irq' = {}
  /\ UNCHANGED <<mode, g_stop, rc, chip, faults, onAir>>

TxSleep == Sleep("tx_sleep", "tx") /\ UNCHANGED txVars

TxHost == \/ TxReturns \/ TxClear \/ TxWrite \/ TxStart
          \/ TxWait \/ TxHandle \/ TxSleep

\* The radio ends what it sends, well or not.
TxEnds == /\ chip.mode = "TX"
          /\ chip.air = 0
          /\ \/ chip' = TxEnd(chip) /\ onAir' = onAir + 1
             \/ chip' = TxFails(chip) /\ UNCHANGED onAir
          /\ UNCHANGED <<mode, pc, irq, left, g_stop, rc, faults, sent>>

TxInit == sent = 0 /\ onAir = 0
=============================================================================
