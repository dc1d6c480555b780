------------------------------- MODULE Board -------------------------------
(* cli/board.c, the hardware abstraction layer of the LR11xx driver: SPI     *)
(* transfers to the radio, each of which can fail.                           *)
EXTENDS Lr1121

CONSTANT MaxFaults  \* bound: driver calls that fail in a behaviour

ASSUME FaultsAssumption == MaxFaults \in Nat

VARIABLES chip,   \* the radio
          faults  \* driver calls that may still fail

(***************************************************************************)
(* A call that fails may have been carried out all the same:               *)
(* lr11xx_hal_write gives an error when BUSY stays high after the transfer.*)
(***************************************************************************)
HalWrite(c, ok) ==
  IF ok THEN chip' = c /\ UNCHANGED faults
        ELSE faults > 0 /\ faults' = faults - 1 /\ chip' \in {chip, c}

HalRead(ok) ==
  IF ok THEN UNCHANGED faults
        ELSE faults > 0 /\ faults' = faults - 1

\* How many calls have failed.
Failed == MaxFaults - faults
=============================================================================
