-------------------------------- MODULE Hal --------------------------------
(* cli/board.c as the LR11xx driver sees it (lr11xx_hal.h): the transactions *)
(* of the driver's calls, one call at a time, over a SPI bus and a BUSY line *)
(* that may fail at any moment, to a radio that is slow, asleep or held in   *)
(* reset. A call is its program: see Command.                                *)
EXTENDS Integers, Sequences

CONSTANTS
  Programs,  \* the program of each call, by its name
  After,     \* calls made after another one
  POLLS,     \* reads of the BUSY line before it is given up, 500 in the code
  MaxCalls   \* bound: calls made

\* Kinds of transaction, lr11xx_hal.h's functions and a call that asks for nothing.
Ops == {"write", "read", "direct", "reset", "wakeup", "abort", "refuse"}

ASSUME HalAssumption ==
  /\ \A c \in DOMAIN Programs : Programs[c] \in Seq([op : Ops, oc : Int, len : Int,
                                                     args : Seq(Int), data : Seq(Int),
                                                     answer : Int])
  /\ DOMAIN Programs # {}
  /\ After \subseteq DOMAIN Programs
  /\ POLLS \in Nat \ {0}
  /\ MaxCalls \in Nat

VARIABLES
  call,     \* the running or the last call
  job,      \* its program
  at,       \* the place in its program
  step,     \* what the call does next; "idle" between calls
  polls,    \* reads of BUSY left to a running wait_busy_low
  status,   \* "none", "running", "ok" or "error"
  carried,  \* the places of the program that the radio carried out
  answers,  \* whose answer each read brought
  chip,     \* the radio
  begun     \* calls made

halVars == <<call, job, at, step, polls, status, carried, answers, chip, begun>>

Current == job[at]

(***************************************************************************)
(* The radio: BUSY, its power state, and the answer the next read fetches: *)
(* to the running call, to an earlier one, or none, which reads as status. *)
(* BUSY stays high in sleep and in reset.                                  *)
(***************************************************************************)
Chip == [busy : BOOLEAN, power : {"on", "asleep", "in_reset"},
         answer : {"status", "own", "foreign"}]

SET_SLEEP == \h011B

Carries(t) == [busy |-> TRUE,
               power |-> IF t.oc = SET_SLEEP THEN "asleep" ELSE chip.power,
               answer |-> IF t.op = "read" THEN "own" ELSE "status"]

\* A transfer while BUSY is high is lost; else it is carried out.
Transferred ==
  IF chip.busy THEN UNCHANGED <<chip, carried>>
  ELSE chip' = Carries(Current) /\ carried' = Append(carried, at)

BusyFalls == /\ chip.busy /\ chip.power = "on"
             /\ chip' = [chip EXCEPT !.busy = FALSE]
             /\ UNCHANGED <<call, job, at, step, polls, status, carried, answers, begun>>

(***************************************************************************)
(* The course of a call.                                                   *)
(***************************************************************************)
FirstStep == [write |-> "wait", read |-> "wait", direct |-> "wait", reset |-> "pin",
              wakeup |-> "nop", abort |-> "nothing", refuse |-> "refuse"]

Steps == {"wait", "transfer", "wait_answer", "fetch", "wait_last", "pin", "nop", "nothing",
          "refuse"}

\* wait_busy_low starts over.
Goto(s) == step' = s /\ polls' = POLLS

\* A mutant: the call ends without a result.
FailUnsaid == step' = "idle" /\ polls' = 0 /\ UNCHANGED <<call, job, at, status, begun>>

Fail == /\ step' = "idle" /\ status' = "error" /\ polls' = 0
        /\ UNCHANGED <<call, job, at, begun>>

\* A transaction has succeeded: the next one, or the call has.
Advance ==
  /\ IF at < Len(job)
       THEN at' = at + 1 /\ Goto(FirstStep[job[at + 1].op]) /\ UNCHANGED status
       ELSE step' = "idle" /\ status' = "ok" /\ polls' = 0 /\ UNCHANGED at
  /\ UNCHANGED <<call, job, begun>>

Begin ==
  /\ step = "idle" /\ begun < MaxCalls
  /\ call' \in IF begun = 0 THEN DOMAIN Programs ELSE After
  /\ job' = Programs[call']
  /\ at' = 1 /\ carried' = <<>> /\ answers' = <<>> /\ begun' = begun + 1
  /\ status' = "running"
  /\ chip' = [chip EXCEPT !.answer = IF @ = "own" THEN "foreign" ELSE @]
  /\ polls' = POLLS
  /\ step' = IF job' = <<>> THEN "return" ELSE FirstStep[job'[1].op]

\* A function that only computes.
Return == step = "return" /\ step' = "idle" /\ status' = "ok" /\ polls' = 0
          /\ UNCHANGED <<call, job, at, carried, answers, chip, begun>>

\* A mutant: the count of reads starts over.
WaitBusyLowAgain(here, Then) ==
  /\ step = here
  /\ \/ ~chip.busy /\ Then
     \/ /\ chip.busy
        /\ polls' = IF polls > 1 THEN polls - 1 ELSE POLLS
        /\ UNCHANGED <<call, job, at, step, status, begun>>
     \/ Fail
  /\ UNCHANGED <<carried, answers, chip>>

\* wait_busy_low, a read of the line at a time; a read can fail.
WaitBusyLow(here, Then) ==
  /\ step = here
  /\ \/ polls > 0 /\ ~chip.busy /\ Then
     \/ /\ polls > 0 /\ chip.busy
        /\ polls' = polls - 1
        /\ UNCHANGED <<call, job, at, step, status, begun>>
     \/ Fail
  /\ UNCHANGED <<carried, answers, chip>>

ToStep(s) == Goto(s) /\ UNCHANGED <<call, job, at, status, begun>>

\* A mutant: no wait before the answer.
WaitAnswerSkipped == step = "wait_answer" /\ ToStep("fetch") /\ UNCHANGED <<carried, answers, chip>>

Wait == WaitBusyLow("wait", ToStep(IF Current.op = "direct" THEN "fetch" ELSE "transfer"))
WaitAnswer == WaitBusyLow("wait_answer", ToStep("fetch"))
WaitLast == WaitBusyLow("wait_last", Advance)

\* A mutant: whether the transfer of a write succeeded is not looked at.
TransferUnchecked ==
  /\ step = "transfer"
  /\ \/ /\ Transferred \/ (Current.op = "write" /\ UNCHANGED <<chip, carried>>)
        /\ ToStep(IF Current.op = "read" THEN "wait_answer" ELSE "wait_last")
     \/ Fail /\ (Transferred \/ UNCHANGED <<chip, carried>>)
  /\ UNCHANGED answers

\* The command goes out, or there is no memory for it, or the bus fails, with or
\* without the radio having got it.
Transfer ==
  /\ step = "transfer"
  /\ \/ /\ Transferred
        /\ ToStep(IF Current.op = "read" THEN "wait_answer" ELSE "wait_last")
     \/ Fail /\ (Transferred \/ UNCHANGED <<chip, carried>>)
  /\ UNCHANGED answers

\* The answer comes in, the second half of a read or the whole of a direct read.
Fetched == /\ chip' \in [busy : BOOLEAN, power : {chip.power}, answer : {"status"}]
           /\ answers' = Append(answers, IF chip.busy THEN "noise" ELSE chip.answer)
           /\ carried' = IF Current.op = "direct" THEN Append(carried, at) ELSE carried

Fetch ==
  /\ step = "fetch"
  /\ \/ Fetched /\ Advance
     \/ Fail /\ (Fetched \/ UNCHANGED <<chip, carried, answers>>)

\* lr11xx_hal_reset: whether the pin moved is not looked at, and it may stay low.
Pin ==
  /\ step = "pin"
  /\ \/ /\ chip' \in [busy : {TRUE}, power : {"on", "in_reset"}, answer : {"status"}]
        /\ carried' = Append(carried, at)
     \/ UNCHANGED <<chip, carried>>
  /\ ToStep("wait_last")
  /\ UNCHANGED answers

\* lr11xx_hal_wakeup: a byte without a wait before it, which may push an answer out.
Nop ==
  /\ step = "nop"
  /\ \/ /\ chip' \in [busy : {chip.busy},
                      power : {IF chip.power = "asleep" THEN "on" ELSE chip.power},
                      answer : {chip.answer, "status"}]
        /\ carried' = Append(carried, at)
        /\ ToStep("wait_last") \/ Fail
     \/ UNCHANGED <<chip, carried>> /\ Fail
  /\ UNCHANGED answers

\* lr11xx_hal_abort_blocking_cmd does nothing; a refused call sends nothing.
Nothing == step = "nothing" /\ Advance /\ UNCHANGED <<carried, answers, chip>>
Refused == step = "refuse" /\ Fail /\ UNCHANGED <<carried, answers, chip>>

Course == \/ Return
          \/ Wait \/ Transfer \/ WaitAnswer \/ Fetch \/ WaitLast
          \/ Pin \/ Nop \/ Nothing \/ Refused

\* Whatever a program that ran before left the radio in.
Init == /\ call = CHOOSE c \in DOMAIN Programs : TRUE
        /\ job = Programs[call]
        /\ at = 1 /\ step = "idle" /\ polls = 0 /\ status = "none"
        /\ carried = <<>> /\ answers = <<>> /\ begun = 0
        /\ chip \in Chip /\ (chip.power # "on" => chip.busy) /\ chip.answer # "own"

Next == Begin \/ Course \/ BusyFalls

Spec == Init /\ [][Next]_halVars

\* The process that runs a call is scheduled; nothing is asked of the radio.
LiveSpec == Spec /\ WF_halVars(Course)

(***************************************************************************)
(* Properties.                                                             *)
(***************************************************************************)
\* Every variable keeps to its values, and only a running call has a step to do.
TypeOK ==
  /\ call \in DOMAIN Programs /\ job = Programs[call]
  /\ at \in Nat \ {0}
  /\ step \in Steps \cup {"idle", "return"}
  /\ polls \in 0..POLLS
  /\ status \in {"none", "running", "ok", "error"}
  /\ carried \in Seq(Nat)
  /\ answers \in Seq({"status", "own", "foreign", "noise"})
  /\ chip \in Chip
  /\ begun \in 0..MaxCalls
  /\ step = "idle" <=> status # "running"

\* Over a bus that fails and a radio that is slow, asleep or held in reset, the
\* driver's calls keep what CommandChannel promises: no command is sent twice,
\* skipped or reordered, and success means that the radio has all of them
\* (board.c:341-411), but for the pin of a reset, which is not looked at (:319).
Channel == INSTANCE CommandChannel WITH program <- job, Optional <- {"reset", "abort"}

IsCommandChannel == Channel!Spec

\* A command that has an answer gets its own, whatever an earlier call left
\* unread in the radio; only a direct read (lr11xx_system_get_status) can take
\* an answer left behind for the status.
OwnAnswers ==
  /\ \A k \in DOMAIN answers : answers[k] # "noise"
  /\ (\E k \in DOMAIN answers : answers[k] = "foreign")
       => \E i \in DOMAIN job : job[i].op = "direct"

\* A call returns, however long BUSY stays high.
CallsReturn == status = "running" ~> status # "running"
=============================================================================
