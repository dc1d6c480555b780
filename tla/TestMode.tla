------------------------------ MODULE TestMode ------------------------------
(* cli/mode_txtest.c: a carrier, or an endless preamble, until Ctrl+C.       *)
EXTENDS Main

TestSteps == {"test_start", "test"}

TestStart == Command("test_start", SetTxCw(chip), "test") /\ UNCHANGED left

\* The heartbeat loop looks at g_stop twice a second.
TestStops ==
  /\ pc = "test"
  /\ g_stop
  /\ pc' = "standby"
  /\ UNCHANGED <<mode, irq, left, g_stop, rc, chip, faults>>

TestHost == TestStart \/ TestStops
=============================================================================
