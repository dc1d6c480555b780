----------------------------- MODULE Hal_proofs -----------------------------
(* For every set of programs, every bound on the polls and any number of     *)
(* calls: the HAL of board.c keeps its state in type, brings each command its *)
(* own answer, and is the channel that the driver's functions rely on. Then,  *)
(* for every argument, what the operators are that those functions are made   *)
(* of.                                                                        *)
EXTENDS Hal, Command, SequencesExt, SequenceTheorems, FiniteSetTheorems, FunctionTheorems,
        WellFoundedInduction, TLAPS

(***************************************************************************)
(* The programs and their first steps.                                     *)
(***************************************************************************)
TransactionType == [op : Ops, oc : Int, len : Int, args : Seq(Int), data : Seq(Int),
                    answer : Int]

LEMMA ProgramType ==
  ASSUME NEW c \in DOMAIN Programs
  PROVE  /\ Programs[c] \in Seq(TransactionType)
         /\ Len(Programs[c]) \in Nat
         /\ DOMAIN Programs[c] = 1..Len(Programs[c])
         /\ \A i \in DOMAIN Programs[c] : Programs[c][i].op \in Ops
<1>1. Programs[c] \in Seq(TransactionType)
  BY HalAssumption DEF TransactionType
<1>2. Len(Programs[c]) \in Nat /\ DOMAIN Programs[c] = 1..Len(Programs[c])
  BY <1>1, LenProperties
<1>3. \A i \in 1..Len(Programs[c]) : Programs[c][i] \in TransactionType
  BY <1>1, ElementOfSeq
<1>4. \A t \in TransactionType : t.op \in Ops
  BY DEF TransactionType
<1>. QED  BY <1>1, <1>2, <1>3, <1>4

\* The step that a transaction starts with.
Starts(s, op) == \/ s = "wait" /\ op \in {"write", "read", "direct"}
                 \/ s = "pin" /\ op = "reset"
                 \/ s = "nop" /\ op = "wakeup"
                 \/ s = "nothing" /\ op = "abort"
                 \/ s = "refuse" /\ op = "refuse"

LEMMA FirstStepStarts == \A op \in Ops : Starts(FirstStep[op], op)
  BY DEF FirstStep, Starts, Ops

(***************************************************************************)
(* The inductive invariant.                                                *)
(***************************************************************************)
\* Where a call is agrees with the transaction it is at.
StepFits ==
  /\ step \in Steps => at \in DOMAIN job
  /\ step = "return" => job = <<>>
  /\ step \in {"wait", "pin", "nop", "nothing", "refuse"} => Starts(step, Current.op)
  /\ step = "transfer" => Current.op \in {"write", "read"}
  /\ step = "wait_answer" => Current.op = "read"
  /\ step = "fetch" => Current.op \in {"read", "direct"}
  /\ step = "wait_last" => Current.op # "refuse"

\* The bus is only used with BUSY low, and an answer waits for the read that asked.
BusReady ==
  /\ step \in {"transfer", "fetch"} => ~chip.busy
  /\ step = "wait_answer" \/ (step = "fetch" /\ Current.op = "read") => chip.answer = "own"

Ahead == \/ step \in {"wait", "transfer", "pin", "nop", "nothing", "refuse"}
         \/ step = "fetch" /\ Current.op = "direct"
Behind == \/ step \in {"wait_answer", "wait_last"}
          \/ step = "fetch" /\ Current.op = "read"

\* What the radio carried out is what the call has passed.
InOrder ==
  /\ \A k \in DOMAIN carried : carried[k] <= at
  /\ Ahead => \A k \in DOMAIN carried : carried[k] < at
  /\ step \in Steps => \A j \in DOMAIN job : j < at => Channel!Settled(j)
  /\ Behind => Channel!Settled(at)

Inv == TypeOK /\ StepFits /\ BusReady /\ InOrder /\ OwnAnswers

LEMMA InitInv == Init => Inv
<1>. SUFFICES ASSUME Init PROVE Inv
  OBVIOUS
<1>1. call \in DOMAIN Programs /\ job = Programs[call]
  BY HalAssumption DEF Init
<1>2. TypeOK
  BY <1>1, HalAssumption DEF Init, TypeOK, Steps, Chip
<1>3. StepFits /\ BusReady /\ InOrder
  BY DEF Init, StepFits, BusReady, InOrder, Ahead, Behind, Steps
<1>4. OwnAnswers
  BY DEF Init, OwnAnswers
<1>. QED  BY <1>2, <1>3, <1>4 DEF Inv

(***************************************************************************)
(* A step of the program. The places that were settled stay so.            *)
(***************************************************************************)
LEMMA JobType ==
  ASSUME TypeOK
  PROVE  /\ Len(job) \in Nat /\ DOMAIN job = 1..Len(job)
         /\ \A i \in DOMAIN job : job[i].op \in Ops
  BY ProgramType DEF TypeOK

LEMMA CarriedOne ==
  ASSUME Inv, carried' = Append(carried, at)
  PROVE  /\ carried' \in Seq(Nat)
         /\ DOMAIN carried' = 1..(Len(carried) + 1)
         /\ \A k \in DOMAIN carried : k \in DOMAIN carried' /\ carried'[k] = carried[k]
         /\ carried'[Len(carried) + 1] = at
         /\ \A k \in DOMAIN carried' : k \in DOMAIN carried \/ carried'[k] = at
<1>. carried \in Seq(Nat) /\ at \in Nat
  BY DEF Inv, TypeOK
<1>. QED  OBVIOUS

LEMMA SettledStays ==
  ASSUME Inv, UNCHANGED job, UNCHANGED carried \/ carried' = Append(carried, at)
  PROVE  /\ \A j \in DOMAIN job : Channel!Settled(j) => Channel!Settled(j)'
         /\ carried' = Append(carried, at) => \A j \in {at} : Channel!Settled(j)'
<1>1. CASE UNCHANGED carried
  BY <1>1, CarriedOne DEF Channel!Settled
<1>2. CASE carried' = Append(carried, at)
  <2>1. /\ \A k \in DOMAIN carried : k \in DOMAIN carried' /\ carried'[k] = carried[k]
        /\ Len(carried) + 1 \in DOMAIN carried' /\ carried'[Len(carried) + 1] = at
    BY <1>2, CarriedOne DEF Inv, TypeOK
  <2>. QED  BY <2>1 DEF Channel!Settled
<1>. QED  BY <1>1, <1>2

\* A transaction that is settled is followed by the first step of the next one.
LEMMA AdvanceInv ==
  ASSUME Inv, Advance, step \in Steps, \A j \in {at} : Channel!Settled(j)',
         UNCHANGED carried \/ carried' = Append(carried, at)
  PROVE  /\ StepFits' /\ InOrder' /\ UNCHANGED <<call, job, begun>>
         /\ at' \in Nat \ {0} /\ polls' \in 0..POLLS
         /\ step' \in {"idle", "wait", "pin", "nop", "nothing", "refuse"}
         /\ status' = IF step' = "idle" THEN "ok" ELSE "running"
         /\ status' = "ok" => Channel!AllSettled'
<1>. USE JobType DEF Inv
<1>1. /\ at \in DOMAIN job /\ UNCHANGED <<call, job, begun>> /\ POLLS \in Nat /\ status = "running"
      /\ \A j \in DOMAIN job : j < at => Channel!Settled(j)
      /\ \A k \in DOMAIN carried : carried[k] <= at
  BY HalAssumption DEF Advance, StepFits, InOrder, TypeOK, Steps
<1>2. \A j \in DOMAIN job : j <= at => Channel!Settled(j)'
  BY <1>1, SettledStays DEF TypeOK
<1>3. \A k \in DOMAIN carried' : carried'[k] <= at
  <2>1. at \in Nat /\ at <= at
    BY DEF TypeOK
  <2>. QED  BY <1>1, <2>1, CarriedOne
<1>4. CASE at < Len(job)
  <2>1. /\ at' = at + 1 /\ at' \in DOMAIN job /\ step' = FirstStep[job[at'].op]
        /\ polls' = POLLS /\ UNCHANGED status
    BY <1>1, <1>4 DEF Advance, Goto
  <2>2. Starts(step', Current.op')
    BY <1>1, <2>1, FirstStepStarts DEF Current
  <2>3. step' \in {"wait", "pin", "nop", "nothing", "refuse"}
    BY <2>2 DEF Starts
  <2>4. StepFits'
    BY <1>1, <2>1, <2>2, <2>3 DEF StepFits, Starts
  <2>5. \A k \in DOMAIN carried' : carried'[k] < at'
    <3>1. carried' \in Seq(Nat) /\ at \in Nat
      BY <1>1, CarriedOne DEF TypeOK
    <3>2. \A k \in DOMAIN carried' : carried'[k] \in Nat
      BY <3>1
    <3>. QED  BY <1>3, <2>1, <3>1, <3>2
  <2>6. InOrder'
    <3>1. carried' \in Seq(Nat) /\ at' \in Nat
      BY <1>1, <2>1, CarriedOne DEF TypeOK
    <3>2. \A k \in DOMAIN carried' : carried'[k] <= at'
      BY <2>5, <3>1
    <3>3. \A j \in DOMAIN job' : j < at' => Channel!Settled(j)'
      <4>1. DOMAIN job \subseteq Nat
        OBVIOUS
      <4>. QED  BY <1>1, <1>2, <2>1, <4>1
    <3>4. ~Behind'
      BY <2>3 DEF Behind
    <3>. QED  BY <2>5, <3>2, <3>3, <3>4 DEF InOrder
  <2>. QED  BY <1>1, <2>1, <2>3, <2>4, <2>6
<1>5. CASE ~(at < Len(job))
  <2>1. step' = "idle" /\ status' = "ok" /\ polls' = 0 /\ UNCHANGED at
    BY <1>5 DEF Advance
  <2>2. Channel!AllSettled'
    BY <1>1, <1>2, <1>5, <2>1 DEF Channel!AllSettled, TypeOK
  <2>. QED  BY <1>1, <1>3, <2>1, <2>2 DEF StepFits, InOrder, Ahead, Behind, Steps
<1>. QED  BY <1>4, <1>5

\* What every action of a call leaves alone.
LEMMA Bystanders ==
  ASSUME Inv, UNCHANGED carried \/ carried' = Append(carried, at)
  PROVE  /\ carried' \in Seq(Nat)
         /\ UNCHANGED <<answers, job>> =>
              OwnAnswers' /\ answers' \in Seq({"status", "own", "foreign", "noise"})
<1>1. carried' \in Seq(Nat)
  BY CarriedOne DEF Inv, TypeOK
<1>2. UNCHANGED <<answers, job>> =>
        OwnAnswers' /\ answers' \in Seq({"status", "own", "foreign", "noise"})
  BY DEF Inv, TypeOK, OwnAnswers
<1>. QED  BY <1>1, <1>2

\* A call that gives up, whatever it had reached.
LEMMA FailInv ==
  ASSUME Inv, Fail, UNCHANGED carried \/ carried' = Append(carried, at), chip' \in Chip,
         answers' \in Seq({"status", "own", "foreign", "noise"}), OwnAnswers'
  PROVE  Inv'
<1>1. /\ UNCHANGED <<call, job, at, begun>>
      /\ step' = "idle" /\ polls' = 0 /\ status' = "error"
  BY DEF Fail
<1>2. carried' \in Seq(Nat)
  BY Bystanders
<1>3. TypeOK'
  BY <1>1, <1>2, HalAssumption DEF Inv, TypeOK
<1>4. \A k \in DOMAIN carried' : carried'[k] <= at'
  BY <1>1, CarriedOne DEF Inv, InOrder, TypeOK
<1>5. StepFits' /\ BusReady' /\ InOrder'
  BY <1>1, <1>4 DEF StepFits, BusReady, InOrder, Ahead, Behind, Steps
<1>. QED  BY <1>3, <1>5 DEF Inv

\* The wait for BUSY goes on, or is given up.
LEMMA PollInv ==
  ASSUME Inv, NEW here, here \in {"wait", "wait_answer", "wait_last"}, step = here,
         UNCHANGED <<carried, answers, chip>>,
         \/ /\ polls > 0 /\ chip.busy
            /\ polls' = polls - 1
            /\ UNCHANGED <<call, job, at, step, status, begun>>
         \/ Fail
  PROVE  Inv'
<1>. OwnAnswers' BY Bystanders DEF Fail, Inv, OwnAnswers
<1>1. CASE polls > 0 /\ polls' = polls - 1 /\ UNCHANGED <<call, job, at, step, status, begun>>
  <2>1. TypeOK'
    BY <1>1, HalAssumption DEF Inv, TypeOK
  <2>2. StepFits' /\ BusReady' /\ InOrder'
    BY <1>1 DEF Inv, StepFits, BusReady, InOrder, Ahead, Behind, Current, Channel!Settled
  <2>. QED  BY <2>1, <2>2 DEF Inv
<1>2. CASE Fail
  BY <1>2, Bystanders, FailInv DEF Fail, Inv, TypeOK
<1>. QED  BY <1>1, <1>2

(***************************************************************************)
(* Every action keeps the invariant.                                       *)
(***************************************************************************)
LEMMA BeginInv == Inv /\ Begin => Inv'
<1>. SUFFICES ASSUME Inv, Begin PROVE Inv'
  OBVIOUS
<1>1. call' \in DOMAIN Programs /\ job' = Programs[call']
  BY HalAssumption DEF Begin
<1>2. /\ Len(job') \in Nat /\ DOMAIN job' = 1..Len(job')
      /\ \A i \in DOMAIN job' : job'[i].op \in Ops
  BY <1>1, ProgramType
<1>3. /\ at' = 1 /\ carried' = <<>> /\ answers' = <<>> /\ status' = "running" /\ polls' = POLLS
      /\ begun' = begun + 1 /\ begun < MaxCalls
  BY DEF Begin
<1>4. chip' \in Chip
  BY DEF Begin, Inv, TypeOK, Chip
<1>5. CASE job' = <<>>
  <2>1. step' = "return"
    BY <1>5 DEF Begin
  <2>. QED  BY <1>1, <1>3, <1>4, <1>5, <2>1, HalAssumption
       DEF Inv, TypeOK, StepFits, BusReady, InOrder, Ahead, Behind, OwnAnswers, Steps
<1>6. CASE job' # <<>>
  <2>1. step' = FirstStep[job'[1].op] /\ 1 \in DOMAIN job'
    <3>1. job' \in Seq(TransactionType)
      BY <1>1, ProgramType
    <3>2. Len(job') # 0
      BY <1>6, <3>1, EmptySeq
    <3>. QED  BY <1>2, <1>6, <3>2 DEF Begin
  <2>2. Starts(step', Current.op')
    BY <1>2, <1>3, <2>1, FirstStepStarts DEF Current
  <2>3. step' \in {"wait", "pin", "nop", "nothing", "refuse"}
    BY <2>2 DEF Starts
  <2>4. TypeOK'
    BY <1>1, <1>3, <1>4, <2>3, HalAssumption DEF Inv, TypeOK, Steps
  <2>5. StepFits' /\ BusReady'
    BY <1>3, <2>1, <2>2, <2>3 DEF StepFits, BusReady
  <2>6. InOrder' /\ OwnAnswers'
    BY <1>2, <1>3, <2>3 DEF InOrder, OwnAnswers, Behind
  <2>. QED  BY <2>4, <2>5, <2>6 DEF Inv
<1>. QED  BY <1>5, <1>6

LEMMA ReturnInv == Inv /\ Return => Inv'
<1>. SUFFICES ASSUME Inv, Return PROVE Inv'
  OBVIOUS
<1>1. /\ step' = "idle" /\ status' = "ok" /\ polls' = 0
      /\ UNCHANGED <<call, job, at, carried, answers, chip, begun>>
  BY DEF Return
<1>2. TypeOK' /\ OwnAnswers'
  BY <1>1, Bystanders, HalAssumption DEF Inv, TypeOK
<1>3. StepFits' /\ BusReady' /\ InOrder'
  BY <1>1 DEF Inv, StepFits, BusReady, InOrder, Ahead, Behind, Steps
<1>. QED  BY <1>2, <1>3 DEF Inv

LEMMA WaitInv == Inv /\ (Wait \/ WaitAnswer) => Inv'
<1>. SUFFICES ASSUME Inv, Wait \/ WaitAnswer PROVE Inv'
  OBVIOUS
<1>. DEFINE Next1 == IF step = "wait" /\ Current.op # "direct" THEN "transfer" ELSE "fetch"
<1>1. /\ step \in {"wait", "wait_answer"} /\ UNCHANGED <<carried, answers, chip>>
      /\ \/ ~chip.busy /\ ToStep(Next1)
         \/ /\ polls > 0 /\ chip.busy
            /\ polls' = polls - 1
            /\ UNCHANGED <<call, job, at, step, status, begun>>
         \/ Fail
  BY DEF Wait, WaitAnswer, WaitBusyLow
<1>2. CASE ~chip.busy /\ ToStep(Next1)
  <2>1. /\ ~chip.busy /\ UNCHANGED <<call, job, at, status, begun, chip, carried, answers>>
        /\ polls' = POLLS /\ step' = Next1
    BY <1>1, <1>2 DEF ToStep, Goto
  <2>2. TypeOK' /\ OwnAnswers'
    BY <1>1, <2>1, Bystanders, HalAssumption DEF Inv, TypeOK, Steps
  <2>3. StepFits'
    BY <1>1, <2>1 DEF Inv, StepFits, Starts, Current, Steps
  <2>4. BusReady'
    BY <1>1, <2>1 DEF Inv, BusReady, StepFits, Starts, Current
  <2>5. InOrder'
    BY <1>1, <2>1 DEF Inv, StepFits, Starts, InOrder, Ahead, Behind, Current, Channel!Settled, Steps
  <2>. QED  BY <2>2, <2>3, <2>4, <2>5 DEF Inv
<1>. QED  BY <1>1, <1>2, PollInv

LEMMA WaitLastInv == Inv /\ WaitLast => Inv'
<1>. SUFFICES ASSUME Inv, WaitLast PROVE Inv'
  OBVIOUS
<1>1. /\ step = "wait_last" /\ UNCHANGED <<carried, answers, chip>>
      /\ \/ ~chip.busy /\ Advance
         \/ /\ polls > 0 /\ chip.busy
            /\ polls' = polls - 1
            /\ UNCHANGED <<call, job, at, step, status, begun>>
         \/ Fail
  BY DEF WaitLast, WaitBusyLow
<1>2. CASE Advance
  <2>1. \A j \in {at} : Channel!Settled(j)'
    <3>1. Channel!Settled(at) /\ at \in DOMAIN job
      BY <1>1 DEF Inv, InOrder, Behind, StepFits, Steps
    <3>. QED  BY <1>1, <1>2, <3>1, SettledStays DEF Advance
  <2>2. StepFits' /\ InOrder'
    BY <1>1, <1>2, <2>1, AdvanceInv DEF Steps
  <2>3. TypeOK' /\ OwnAnswers' /\ BusReady'
    BY <1>1, <1>2, <2>1, AdvanceInv, Bystanders DEF Inv, TypeOK, BusReady, Steps
  <2>. QED  BY <2>2, <2>3 DEF Inv
<1>. QED  BY <1>1, <1>2, PollInv

LEMMA TransferInv == Inv /\ Transfer => Inv'
<1>. SUFFICES ASSUME Inv, Transfer PROVE Inv'
  OBVIOUS
<1>1. /\ step = "transfer" /\ ~chip.busy /\ UNCHANGED answers
      /\ at \in DOMAIN job /\ Current.op \in {"write", "read"}
  BY DEF Transfer, Inv, StepFits, BusReady, Steps
<1>2. \/ UNCHANGED <<chip, carried>>
      \/ chip' = Carries(Current) /\ carried' = Append(carried, at)
  BY <1>1 DEF Transfer, Transferred
<1>3. chip' \in Chip
  <2>1. chip \in Chip /\ chip.power \in {"on", "asleep", "in_reset"}
    BY DEF Inv, TypeOK, Chip
  <2>2. Carries(Current) \in Chip
    BY <2>1 DEF Carries, Chip
  <2>. QED  BY <1>2, <2>1, <2>2
<1>4. CASE Transferred /\ ToStep(IF Current.op = "read" THEN "wait_answer" ELSE "wait_last")
  <2>1. /\ UNCHANGED <<call, job, at, status, begun>> /\ polls' = POLLS
        /\ step' = IF Current.op = "read" THEN "wait_answer" ELSE "wait_last"
        /\ carried' = Append(carried, at)
        /\ Current.op = "read" => chip'.answer = "own"
    BY <1>1, <1>4 DEF ToStep, Goto, Transferred, Carries
  <2>2. TypeOK' /\ OwnAnswers'
    <3>1. /\ carried' \in Seq(Nat)
          /\ OwnAnswers' /\ answers' \in Seq({"status", "own", "foreign", "noise"})
      BY <1>1, <1>4, <2>1, Bystanders
    <3>2. TypeOK'
      BY <1>1, <1>3, <2>1, <3>1, HalAssumption DEF Inv, TypeOK, Steps
    <3>. QED  BY <3>1, <3>2
  <2>3. StepFits' /\ BusReady'
    BY <1>1, <2>1 DEF StepFits, BusReady, Current
  <2>4. InOrder'
    <3>1. /\ \A j \in DOMAIN job : j < at => Channel!Settled(j)'
          /\ \A j \in {at} : Channel!Settled(j)'
      BY <1>1, <2>1, SettledStays DEF Inv, InOrder, Steps
    <3>2. \A k \in DOMAIN carried' : carried'[k] <= at
      BY <2>1, CarriedOne DEF Inv, InOrder, TypeOK
    <3>. QED  BY <2>1, <3>1, <3>2 DEF InOrder, Ahead
  <2>. QED  BY <2>2, <2>3, <2>4 DEF Inv
<1>5. CASE Fail
  BY <1>1, <1>2, <1>3, <1>5, Bystanders, FailInv DEF Fail
<1>. QED  BY <1>4, <1>5 DEF Transfer

\* The answer that a fetch brings is no noise, and not another's unless it is direct.
LEMMA FetchedAnswer ==
  ASSUME Inv, step = "fetch", Fetched \/ UNCHANGED <<chip, carried, answers>>, UNCHANGED job
  PROVE  answers' \in Seq({"status", "own", "foreign", "noise"}) /\ OwnAnswers'
<1>1. /\ ~chip.busy /\ chip.answer \in {"status", "own", "foreign"} /\ at \in DOMAIN job
      /\ Current.op # "direct" => chip.answer = "own"
  BY DEF Inv, TypeOK, Chip, BusReady, StepFits, Steps
<1>. answers \in Seq({"status", "own", "foreign", "noise"})
  BY DEF Inv, TypeOK
<1>2. CASE UNCHANGED <<chip, carried, answers>>
  BY <1>2, Bystanders
<1>3. CASE answers' = Append(answers, chip.answer)
  <2>1. /\ answers' \in Seq({"status", "own", "foreign", "noise"})
        /\ \A k \in DOMAIN answers' : \/ k \in DOMAIN answers /\ answers'[k] = answers[k]
                                      \/ answers'[k] = chip.answer
    BY <1>1, <1>3
  <2>. QED  BY <1>1, <2>1 DEF Inv, OwnAnswers, Current
<1>. QED  BY <1>1, <1>2, <1>3 DEF Fetched

LEMMA FetchInv == Inv /\ Fetch => Inv'
<1>. SUFFICES ASSUME Inv, Fetch PROVE Inv'
  OBVIOUS
<1>1. /\ step = "fetch" /\ at \in DOMAIN job /\ Current.op \in {"read", "direct"}
      /\ Fetched \/ UNCHANGED <<chip, carried, answers>>
      /\ UNCHANGED job
  BY DEF Fetch, Inv, StepFits, Steps, Advance, Fail
<1>2. UNCHANGED carried \/ carried' = Append(carried, at)
  BY <1>1 DEF Fetched
<1>3. chip' \in Chip
  BY <1>1 DEF Fetched, Inv, TypeOK, Chip
<1>4. CASE Fetched /\ Advance
  <2>1. \A j \in {at} : Channel!Settled(j)'
    <3>1. CASE Current.op = "direct"
      BY <1>1, <1>2, <1>4, <3>1, SettledStays DEF Fetched
    <3>2. CASE Current.op = "read"
      BY <1>1, <1>2, <1>4, <3>2, SettledStays DEF Inv, InOrder, Behind
    <3>. QED  BY <1>1, <3>1, <3>2
  <2>2. StepFits' /\ InOrder'
    BY <1>1, <1>2, <1>4, <2>1, AdvanceInv DEF Steps
  <2>3. TypeOK' /\ OwnAnswers' /\ BusReady'
    BY <1>1, <1>2, <1>3, <1>4, <2>1, AdvanceInv, FetchedAnswer, Bystanders
    DEF Inv, TypeOK, BusReady, Steps
  <2>. QED  BY <2>2, <2>3 DEF Inv
<1>5. CASE Fail
  BY <1>1, <1>2, <1>3, <1>5, FetchedAnswer, FailInv
<1>. QED  BY <1>4, <1>5 DEF Fetch

LEMMA PinInv == Inv /\ Pin => Inv'
<1>. SUFFICES ASSUME Inv, Pin PROVE Inv'
  OBVIOUS
<1>1. /\ step = "pin" /\ at \in DOMAIN job /\ Current.op = "reset"
      /\ UNCHANGED <<answers, call, job, at, status, begun>>
      /\ step' = "wait_last" /\ polls' = POLLS
      /\ UNCHANGED carried \/ carried' = Append(carried, at)
  BY DEF Pin, ToStep, Goto, Inv, StepFits, Starts, Steps
<1>2. chip' \in Chip
  BY DEF Pin, Inv, TypeOK, Chip
<1>3. TypeOK' /\ OwnAnswers'
  <2>1. /\ carried' \in Seq(Nat)
        /\ OwnAnswers' /\ answers' \in Seq({"status", "own", "foreign", "noise"})
    BY <1>1, Bystanders
  <2>2. TypeOK'
    BY <1>1, <1>2, <2>1, HalAssumption DEF Inv, TypeOK, Steps
  <2>. QED  BY <2>1, <2>2
<1>4. StepFits' /\ BusReady'
  BY <1>1 DEF StepFits, BusReady, Current
<1>5. InOrder'
  <2>1. \A j \in DOMAIN job : j < at => Channel!Settled(j)'
    BY <1>1, SettledStays DEF Inv, InOrder, Steps
  <2>2. Channel!Settled(at)'
    BY <1>1 DEF Channel!Settled, Current
  <2>3. \A k \in DOMAIN carried' : carried'[k] <= at
    BY <1>1, CarriedOne DEF Inv, InOrder, TypeOK
  <2>. QED  BY <1>1, <2>1, <2>2, <2>3 DEF InOrder, Ahead
<1>. QED  BY <1>3, <1>4, <1>5 DEF Inv

LEMMA NopInv == Inv /\ Nop => Inv'
<1>. SUFFICES ASSUME Inv, Nop PROVE Inv'
  OBVIOUS
<1>1. /\ step = "nop" /\ at \in DOMAIN job /\ Current.op = "wakeup" /\ UNCHANGED answers
      /\ UNCHANGED carried \/ carried' = Append(carried, at)
      /\ (carried' = Append(carried, at) /\ ToStep("wait_last")) \/ Fail
  BY DEF Nop, Inv, StepFits, Starts, Steps
<1>2. chip' \in Chip
  BY DEF Nop, Inv, TypeOK, Chip
<1>3. CASE carried' = Append(carried, at) /\ ToStep("wait_last")
  <2>1. /\ UNCHANGED <<call, job, at, status, begun>>
        /\ step' = "wait_last" /\ polls' = POLLS
    BY <1>3 DEF ToStep, Goto
  <2>2. TypeOK' /\ OwnAnswers'
    <3>1. /\ carried' \in Seq(Nat)
          /\ OwnAnswers' /\ answers' \in Seq({"status", "own", "foreign", "noise"})
      BY <1>1, <1>3, <2>1, Bystanders
    <3>2. TypeOK'
      BY <1>1, <1>2, <2>1, <3>1, HalAssumption DEF Inv, TypeOK, Steps
    <3>. QED  BY <3>1, <3>2
  <2>3. StepFits' /\ BusReady'
    BY <1>1, <2>1 DEF StepFits, BusReady, Current
  <2>4. InOrder'
    <3>1. /\ \A j \in DOMAIN job : j < at => Channel!Settled(j)'
          /\ \A j \in {at} : Channel!Settled(j)'
      BY <1>1, <1>3, <2>1, SettledStays DEF Inv, InOrder, Steps
    <3>2. \A k \in DOMAIN carried' : carried'[k] <= at
      BY <1>3, CarriedOne DEF Inv, InOrder, TypeOK
    <3>. QED  BY <2>1, <3>1, <3>2 DEF InOrder, Ahead
  <2>. QED  BY <2>2, <2>3, <2>4 DEF Inv
<1>4. CASE Fail
  BY <1>1, <1>2, <1>4, Bystanders, FailInv DEF Fail
<1>. QED  BY <1>1, <1>3, <1>4

LEMMA NothingInv == Inv /\ (Nothing \/ Refused) => Inv'
<1>. SUFFICES ASSUME Inv, Nothing \/ Refused PROVE Inv'
  OBVIOUS
<1>1. UNCHANGED <<carried, answers, chip>>
  BY DEF Nothing, Refused
<1>2. CASE Nothing
  <2>1. step = "nothing" /\ at \in DOMAIN job /\ Current.op = "abort" /\ Advance
    BY <1>2 DEF Nothing, Inv, StepFits, Starts, Steps
  <2>2. UNCHANGED job
    BY <2>1 DEF Advance
  <2>3. \A j \in {at} : Channel!Settled(j)'
    BY <2>1, <2>2 DEF Channel!Settled, Current
  <2>4. StepFits' /\ InOrder'
    BY <1>1, <2>1, <2>3, AdvanceInv DEF Steps
  <2>5. TypeOK' /\ OwnAnswers' /\ BusReady'
    BY <1>1, <2>1, <2>3, AdvanceInv, Bystanders DEF Inv, TypeOK, BusReady, Steps
  <2>. QED  BY <2>4, <2>5 DEF Inv
<1>3. CASE Refused
  BY <1>1, <1>3, Bystanders, FailInv DEF Refused, Fail, Inv, TypeOK
<1>. QED  BY <1>2, <1>3

LEMMA BusyFallsInv == Inv /\ BusyFalls => Inv'
<1>. SUFFICES ASSUME Inv, BusyFalls PROVE Inv'
  OBVIOUS
<1>1. /\ UNCHANGED <<call, job, at, step, polls, status, carried, answers, begun>>
      /\ chip' = [chip EXCEPT !.busy = FALSE]
  BY DEF BusyFalls
<1>2. chip' \in Chip /\ chip'.answer = chip.answer /\ ~chip'.busy
  BY <1>1 DEF Inv, TypeOK, Chip
<1>3. TypeOK' /\ OwnAnswers'
  BY <1>1, <1>2, Bystanders DEF Inv, TypeOK
<1>4. StepFits' /\ InOrder' /\ BusReady'
  BY <1>1, <1>2
  DEF Inv, StepFits, InOrder, BusReady, Ahead, Behind, Current, Channel!Settled
<1>. QED  BY <1>3, <1>4 DEF Inv

LEMMA NextInv == Inv /\ [Next]_halVars => Inv'
<1>. SUFFICES ASSUME Inv, [Next]_halVars PROVE Inv'
  OBVIOUS
<1>1. CASE Begin
  BY <1>1, BeginInv
<1>2. CASE Course
  BY <1>2, ReturnInv, WaitInv, WaitLastInv, TransferInv, FetchInv, PinInv, NopInv, NothingInv
  DEF Course
<1>3. CASE BusyFalls
  BY <1>3, BusyFallsInv
<1>4. CASE UNCHANGED halVars
  BY <1>4 DEF halVars, Inv, TypeOK, StepFits, BusReady, InOrder, OwnAnswers, Ahead, Behind,
              Current, Channel!Settled
<1>. QED  BY <1>1, <1>2, <1>3, <1>4 DEF Next

(***************************************************************************)
(* Every step is one of CommandChannel, or none.                           *)
(***************************************************************************)
LEMMA Proceeds ==
  ASSUME Inv, step \in Steps, UNCHANGED job,
         UNCHANGED carried \/ (Ahead /\ carried' = Append(carried, at)),
         status' \in {"running", "ok", "error"}, status' = "ok" => Channel!AllSettled'
  PROVE  Channel!Proceed
<1>1. status = "running" /\ at \in DOMAIN job
  BY DEF Inv, TypeOK, StepFits, Steps
<1>2. CASE UNCHANGED carried
  BY <1>1, <1>2 DEF Channel!Proceed
<1>3. CASE Ahead /\ carried' = Append(carried, at)
  <2>1. Channel!IsNext(at)
    BY <1>3 DEF Inv, InOrder, Channel!IsNext
  <2>. QED  BY <1>1, <1>3, <2>1 DEF Channel!Proceed
<1>. QED  BY <1>2, <1>3

LEMMA AdvanceProceeds ==
  ASSUME Inv, step \in Steps, Advance, \A j \in {at} : Channel!Settled(j)',
         UNCHANGED carried \/ (Ahead /\ carried' = Append(carried, at))
  PROVE  Channel!Proceed
<1>1. /\ UNCHANGED job /\ status' = IF step' = "idle" THEN "ok" ELSE "running"
      /\ status' = "ok" => Channel!AllSettled'
  BY AdvanceInv
<1>. QED  BY <1>1, Proceeds

\* A step that only goes on, or gives up.
LEMMA GoesOn ==
  ASSUME Inv, step \in Steps, UNCHANGED job,
         UNCHANGED carried \/ (Ahead /\ carried' = Append(carried, at)),
         UNCHANGED status \/ status' = "error"
  PROVE  Channel!Proceed
<1>1. status = "running"
  BY DEF Inv, TypeOK, Steps
<1>. QED  BY <1>1, Proceeds

LEMMA CourseProceeds ==
  ASSUME Inv, Course
  PROVE  Channel!Proceed
<1>1. CASE Return
  BY <1>1 DEF Return, Inv, TypeOK, StepFits, Channel!Proceed, Channel!AllSettled
<1>2. CASE Wait \/ WaitAnswer
  BY <1>2, GoesOn DEF Wait, WaitAnswer, WaitBusyLow, ToStep, Fail, Steps
<1>3. CASE WaitLast
  <2>1. step = "wait_last" /\ step \in Steps /\ UNCHANGED carried /\ Channel!Settled(at)
        /\ at \in DOMAIN job
    BY <1>3 DEF WaitLast, WaitBusyLow, Inv, InOrder, Behind, StepFits, Steps
  <2>2. CASE Advance
    <3>1. \A j \in {at} : Channel!Settled(j)'
      BY <2>1, <2>2, SettledStays DEF Advance
    <3>. QED  BY <2>1, <2>2, <3>1, AdvanceProceeds
  <2>3. CASE UNCHANGED <<call, job, at, step, status, begun>> \/ Fail
    BY <2>1, <2>3, GoesOn DEF Fail
  <2>. QED  BY <1>3, <2>2, <2>3 DEF WaitLast, WaitBusyLow
<1>4. CASE Transfer
  BY <1>4, GoesOn DEF Transfer, Transferred, ToStep, Fail, Ahead, Steps
<1>5. CASE Fetch
  <2>1. /\ step = "fetch" /\ step \in Steps /\ at \in DOMAIN job /\ UNCHANGED job
        /\ Current.op \in {"read", "direct"}
        /\ UNCHANGED carried \/ (Ahead /\ carried' = Append(carried, at))
    BY <1>5 DEF Fetch, Fetched, Advance, Fail, Ahead, Inv, StepFits, Steps
  <2>2. CASE Fetched /\ Advance
    <3>1. \A j \in {at} : Channel!Settled(j)'
      <4>1. CASE Current.op = "direct"
        BY <2>1, <2>2, <4>1, SettledStays DEF Fetched
      <4>2. CASE Current.op = "read"
        BY <2>1, <2>2, <4>2, SettledStays DEF Inv, InOrder, Behind
      <4>. QED  BY <2>1, <4>1, <4>2
    <3>. QED  BY <2>1, <2>2, <3>1, AdvanceProceeds
  <2>3. CASE Fail
    BY <2>1, <2>3, GoesOn DEF Fail
  <2>. QED  BY <1>5, <2>2, <2>3 DEF Fetch
<1>6. CASE Pin \/ Nop
  BY <1>6, GoesOn DEF Pin, Nop, ToStep, Fail, Ahead, Steps
<1>7. CASE Nothing
  <2>1. /\ step = "nothing" /\ step \in Steps /\ Current.op = "abort" /\ Advance
        /\ UNCHANGED carried
    BY <1>7 DEF Nothing, Inv, StepFits, Starts, Steps
  <2>2. \A j \in {at} : Channel!Settled(j)'
    BY <2>1 DEF Advance, Channel!Settled, Current
  <2>. QED  BY <2>1, <2>2, AdvanceProceeds
<1>8. CASE Refused
  BY <1>8, GoesOn DEF Refused, Fail, Steps
<1>. QED  BY <1>1, <1>2, <1>3, <1>4, <1>5, <1>6, <1>7, <1>8 DEF Course

LEMMA StepRefines == Inv /\ [Next]_halVars => [Channel!Next]_Channel!vars
<1>. SUFFICES ASSUME Inv, [Next]_halVars PROVE Channel!Next \/ UNCHANGED Channel!vars
  OBVIOUS
<1>1. CASE Begin
  <2>1. status # "running" /\ carried' = <<>> /\ status' = "running"
    BY <1>1 DEF Begin, Inv, TypeOK
  <2>. QED  BY <2>1 DEF Channel!Next, Channel!Begin
<1>2. CASE Course
  BY <1>2, CourseProceeds DEF Channel!Next
<1>3. CASE BusyFalls \/ UNCHANGED halVars
  BY <1>3 DEF BusyFalls, halVars, Channel!vars
<1>. QED  BY <1>1, <1>2, <1>3 DEF Next

(***************************************************************************)
(* The theorems.                                                           *)
(***************************************************************************)
LEMMA Invariant == Spec => []Inv
<1>. QED  BY InitInv, NextInv, PTL DEF Spec

\* The state of board.c's calls keeps its type for any programs and any number of polls,
\* and a call in progress is always at a step of its own (board.c:284-411).
THEOREM TypeCorrect == Spec => []TypeOK
<1>1. Inv => TypeOK
  BY DEF Inv
<1>. QED  BY <1>1, Invariant, PTL

\* A command that has an answer gets its own answer and no other's, over a bus that
\* fails and a radio that is slow, asleep or in reset; only a direct read can take one
\* that an earlier call left behind (board.c:365-411).
THEOREM AnswersOwned == Spec => []OwnAnswers
<1>1. Inv => OwnAnswers
  BY DEF Inv
<1>. QED  BY <1>1, Invariant, PTL

\* The HAL is the channel its users rely on: whatever fails, a call's commands reach the
\* radio in order, each at most once, and success means that none is missing but a
\* reset whose pin did not move (board.c:316-411).
THEOREM ChannelImplemented == Spec => IsCommandChannel
<1>1. Init => Channel!Init
  BY DEF Init, Channel!Init
<1>. QED  BY <1>1, StepRefines, Invariant, PTL DEF Spec, IsCommandChannel, Channel!Spec

(***************************************************************************)
(* Least elements, induction, and the flattening of sequences.             *)
(***************************************************************************)

\* Naturals have a least one.
LEMMA LeastOf ==
  ASSUME NEW T, T \subseteq Nat, T # {}
  PROVE  \E n \in T : \A m \in T : n <= m
<1>. DEFINE R == OpToRel(<, Nat)
<1>1. IsWellFoundedOn(R, Nat)
  BY NatLessThanWellFounded
<1>2. \A n, m \in Nat : n < m => <<n, m>> \in R
  BY DEF OpToRel
<1>. HIDE DEF R
<1>3. PICK n \in T : \A m \in T : ~(<<m, n>> \in R)
  BY <1>1, WFMin
<1>4. \A m \in T : ~(m < n)
  BY <1>2, <1>3
<1>. QED  BY <1>4

\* What holds of 0 and of the next of each holds of every natural: the set has no
\* least natural outside it.
LEMMA Induction ==
  ASSUME NEW S, 0 \in S, \A n \in Nat : n \in S => n + 1 \in S
  PROVE  Nat \subseteq S
<1>. SUFFICES ASSUME ~(Nat \subseteq S) PROVE FALSE
  OBVIOUS
<1>1. PICK n \in Nat \ S : \A m \in Nat \ S : n <= m
  <2>1. Nat \ S # {} /\ Nat \ S \subseteq Nat
    OBVIOUS
  <2>. QED  BY <2>1, LeastOf
<1>2. n # 0 /\ n - 1 \in Nat /\ n - 1 \in S /\ n - 1 + 1 = n
  BY <1>1
<1>. QED  BY <1>1, <1>2

IsFlat(f, ss, n) == f = [i \in 1..n |-> IF i = 1 THEN ss[i] ELSE f[i - 1] \o ss[i]]

\* The function that flattening is read from, at a place.
LEMMA FlatAt ==
  ASSUME NEW ss, NEW n \in Nat, NEW f, IsFlat(f, ss, n), NEW i \in 1..n
  PROVE  f[i] = IF i = 1 THEN ss[i] ELSE f[i - 1] \o ss[i]
<1>. DEFINE G == [j \in 1..n |-> IF j = 1 THEN ss[j] ELSE f[j - 1] \o ss[j]]
<1>1. f = G
  BY DEF IsFlat
<1>2. G[i] = IF i = 1 THEN ss[i] ELSE f[i - 1] \o ss[i]
  OBVIOUS
<1>. HIDE DEF G
<1>3. f[i] = G[i]
  BY <1>1
<1>. QED  BY <1>2, <1>3

\* There is such a function.
LEMMA FlatExists ==
  ASSUME NEW ss, NEW n \in Nat
  PROVE  \E f : IsFlat(f, ss, n)
<1>. DEFINE S == {k \in Nat : \E f : IsFlat(f, ss, k)}
<1>1. 0 \in S
  <2>1. IsFlat([i \in 1..0 |-> 0], ss, 0)
    BY DEF IsFlat
  <2>. QED  BY <2>1
<1>2. ASSUME NEW k \in Nat, k \in S PROVE k + 1 \in S
  <2>1. PICK f : IsFlat(f, ss, k)
    BY <1>2
  <2>. DEFINE g == [i \in 1..k + 1 |-> IF i = 1 THEN ss[i] ELSE f[i - 1] \o ss[i]]
  <2>2. \A i \in 1..k : g[i] = f[i]
    BY <2>1, FlatAt
  <2>3. g = [i \in 1..k + 1 |-> IF i = 1 THEN ss[i] ELSE g[i - 1] \o ss[i]]
    <3>1. \A i \in 1..k + 1 : i = 1 \/ i - 1 \in 1..k
      OBVIOUS
    <3>. QED  BY <2>2, <3>1
  <2>. HIDE DEF g
  <2>4. IsFlat(g, ss, k + 1)
    BY <2>3 DEF IsFlat
  <2>. QED  BY <2>4
<1>. HIDE DEF S
<1>3. n \in S
  BY <1>1, <1>2, Induction
<1>. QED  BY <1>3 DEF S

\* Two of them agree as long as their sequences do.
LEMMA FlatAgree ==
  ASSUME NEW ss, NEW tt, NEW m \in Nat, NEW n \in Nat, NEW f, NEW g,
         IsFlat(f, ss, m), IsFlat(g, tt, n),
         NEW k \in 1..m, k \in 1..n, \A i \in 1..k : ss[i] = tt[i]
  PROVE  f[k] = g[k]
<1>. DEFINE S == {j \in Nat : j \in 1..k => f[j] = g[j]}
<1>1. 0 \in S
  OBVIOUS
<1>2. ASSUME NEW j \in Nat, j \in S PROVE j + 1 \in S
  <2>. SUFFICES ASSUME j + 1 \in 1..k PROVE f[j + 1] = g[j + 1]
    OBVIOUS
  <2>1. f[j + 1] = IF j + 1 = 1 THEN ss[j + 1] ELSE f[j + 1 - 1] \o ss[j + 1]
    BY FlatAt
  <2>2. g[j + 1] = IF j + 1 = 1 THEN tt[j + 1] ELSE g[j + 1 - 1] \o tt[j + 1]
    BY FlatAt
  <2>3. j + 1 - 1 = j /\ ss[j + 1] = tt[j + 1] /\ (j = 0 \/ j \in 1..k)
    OBVIOUS
  <2>. QED  BY <1>2, <2>1, <2>2, <2>3
<1>. HIDE DEF S
<1>3. k \in S
  BY <1>1, <1>2, Induction
<1>. QED  BY <1>3 DEF S

\* Flattening is what that function has last.
LEMMA FlattenIs ==
  ASSUME NEW ss, Len(ss) \in Nat \ {0}
  PROVE  \E f : IsFlat(f, ss, Len(ss)) /\ FlattenSeq(ss) = f[Len(ss)]
<1>. DEFINE F == CHOOSE f : IsFlat(f, ss, Len(ss))
<1>1. IsFlat(F, ss, Len(ss))
  BY FlatExists
<1>2. FlattenSeq(ss) = F[Len(ss)]
  BY DEF FlattenSeq, IsFlat
<1>. QED  BY <1>1, <1>2

\* A sequence of sequences with these beginnings flattens to the last of them.
Flattens(g, ss, n) == /\ n \in Nat \ {0} /\ Len(ss) = n
                      /\ \A i \in 1..n : g[i] = IF i = 1 THEN ss[i] ELSE g[i - 1] \o ss[i]

\* Flattening is what any function with its recursion has last.
LEMMA FlattenBy ==
  ASSUME NEW ss, NEW n, NEW g, Flattens(g, ss, n)
  PROVE  FlattenSeq(ss) = g[n]
<1>0. /\ n \in Nat \ {0} /\ Len(ss) = n
      /\ \A i \in 1..n : g[i] = IF i = 1 THEN ss[i] ELSE g[i - 1] \o ss[i]
  BY DEF Flattens
<1>. DEFINE h == [i \in 1..n |-> g[i]]
<1>1. h = [i \in 1..n |-> IF i = 1 THEN ss[i] ELSE h[i - 1] \o ss[i]]
  <2>1. \A i \in 1..n : h[i] = IF i = 1 THEN ss[i] ELSE h[i - 1] \o ss[i]
    <3>1. \A i \in 1..n : i = 1 \/ i - 1 \in 1..n
      BY <1>0
    <3>. QED  BY <1>0, <3>1
  <2>. QED  BY <2>1
<1>2. n \in 1..n /\ h[n] = g[n]
  BY <1>0
<1>. HIDE DEF h
<1>3. IsFlat(h, ss, n)
  BY <1>1 DEF IsFlat
<1>4. PICK f : IsFlat(f, ss, n) /\ FlattenSeq(ss) = f[n]
  BY <1>0, FlattenIs
<1>5. f[n] = h[n]
  BY <1>0, <1>2, <1>3, <1>4, FlatAgree
<1>. QED  BY <1>2, <1>4, <1>5

\* Nothing flattens to nothing.
LEMMA FlattenNone == FlattenSeq(<<>>) = <<>>
  BY DEF FlattenSeq

\* One sequence flattens to itself.
LEMMA FlattenOne ==
  ASSUME NEW s
  PROVE  FlattenSeq(<<s>>) = s
<1>. DEFINE ss == <<s>>
            n == 1
            g == [i \in 1..n |-> s]
<1>1. \A i \in 1..n : g[i] = IF i = 1 THEN ss[i] ELSE g[i - 1] \o ss[i]
  OBVIOUS
<1>2. n \in Nat \ {0} /\ Len(ss) = n /\ g[n] = s
  OBVIOUS
<1>. HIDE DEF g, n, ss
<1>3. FlattenSeq(ss) = g[n]
  BY <1>1, <1>2, FlattenBy DEF Flattens
<1>. QED  BY <1>2, <1>3 DEF ss

\* One sequence more is what follows.
LEMMA FlattenAppend ==
  ASSUME NEW S, NEW ss \in Seq(Seq(S)), NEW s \in Seq(S)
  PROVE  FlattenSeq(Append(ss, s)) = FlattenSeq(ss) \o s
<1>. DEFINE tt == Append(ss, s)
            n == Len(ss)
<1>1. /\ n \in Nat /\ Len(tt) = n + 1 /\ tt[n + 1] = s
      /\ \A i \in 1..n : tt[i] = ss[i]
  OBVIOUS
<1>2. CASE n = 0
  <2>1. ss = <<>> /\ tt = <<s>>
    BY <1>2
  <2>. QED  BY <2>1, FlattenNone, FlattenOne
<1>3. CASE n # 0
  <2>1. PICK f : IsFlat(f, ss, n) /\ FlattenSeq(ss) = f[n]
    BY <1>1, <1>3, FlattenIs
  <2>. DEFINE g == [i \in 1..(n + 1) |-> IF i <= n THEN f[i] ELSE f[n] \o s]
  <2>2. \A i \in 1..(n + 1) : g[i] = IF i = 1 THEN tt[i] ELSE g[i - 1] \o tt[i]
    <3>1. ASSUME NEW i \in 1..n PROVE g[i] = IF i = 1 THEN tt[i] ELSE g[i - 1] \o tt[i]
      <4>1. f[i] = IF i = 1 THEN ss[i] ELSE f[i - 1] \o ss[i]
        BY <1>1, <2>1, FlatAt
      <4>2. g[i] = f[i] /\ (i # 1 => g[i - 1] = f[i - 1]) /\ tt[i] = ss[i]
        BY <1>1
      <4>. QED  BY <4>1, <4>2
    <3>. DEFINE m == n + 1
    <3>2. m \in 1..(n + 1) /\ n \in 1..(n + 1) /\ ~(m <= n) /\ m # 1 /\ m - 1 = n
      BY <1>1, <1>3
    <3>3. g[m] = f[n] \o s /\ g[n] = f[n] /\ tt[m] = s
      BY <1>1, <3>2
    <3>4. \A i \in 1..(n + 1) : i \in 1..n \/ i = m
      BY <1>1
    <3>. HIDE DEF g, tt, n, m
    <3>5. g[m] = IF m = 1 THEN tt[m] ELSE g[m - 1] \o tt[m]
      BY <3>2, <3>3
    <3>. QED  BY <3>1, <3>4, <3>5
  <2>3. g[n + 1] = f[n] \o s
    BY <1>1
  <2>. HIDE DEF g, tt
  <2>4. FlattenSeq(tt) = g[n + 1]
    <3>1. n + 1 \in Nat \ {0} /\ Len(tt) = n + 1
      BY <1>1
    <3>2. Flattens(g, tt, n + 1)
      BY <2>2, <3>1 DEF Flattens
    <3>. QED  BY <3>2, FlattenBy
  <2>. QED  BY <2>1, <2>3, <2>4 DEF tt
<1>. QED  BY <1>2, <1>3

\* A sequence that is not empty is one shorter and its last.
LEMMA LastAppended ==
  ASSUME NEW S, NEW s \in Seq(S), Len(s) # 0
  PROVE  \E t \in Seq(S), x \in S : Len(s) = Len(t) + 1 /\ s = Append(t, x)
<1>. DEFINE k == Len(s) - 1
            t == SubSeq(s, 1, k)
            x == s[k + 1]
<1>0. k \in Nat /\ Len(s) = k + 1
  OBVIOUS
<1>1. k + 1 \in 1..Len(s) /\ x \in S
  BY <1>0, ElementOfSeq
<1>2. SubSeq(s, 1, k + 1) = s /\ 1 \in 1..Len(s) /\ k + 1 \in 1..Len(s)
  BY SubSeqFull
<1>. HIDE DEF k
<1>3. t \in Seq(S) /\ Len(t) = k
  BY <1>0, <1>2
<1>4. s = Append(t, x)
  <2>1. /\ Append(t, x) \in Seq(S) /\ Len(Append(t, x)) = k + 1
        /\ \A i \in 1..(k + 1) : Append(t, x)[i] = s[i]
    BY <1>0, <1>1, <1>3
  <2>. HIDE DEF t, x
  <2>. QED  BY <1>0, <2>1, SeqEqual
<1>. QED  BY <1>0, <1>1, <1>3, <1>4

\* Sequences over a set flatten to one over it.
LEMMA FlattenIn ==
  ASSUME NEW S, NEW ss \in Seq(Seq(S))
  PROVE  FlattenSeq(ss) \in Seq(S)
<1>. DEFINE P == {k \in Nat : \A tt \in Seq(Seq(S)) : Len(tt) = k => FlattenSeq(tt) \in Seq(S)}
<1>1. 0 \in P
  <2>1. \A tt \in Seq(Seq(S)) : Len(tt) = 0 => tt = <<>>
    OBVIOUS
  <2>. QED  BY <2>1, FlattenNone
<1>2. ASSUME NEW k \in Nat, k \in P PROVE k + 1 \in P
  <2>1. ASSUME NEW tt \in Seq(Seq(S)), Len(tt) = k + 1 PROVE FlattenSeq(tt) \in Seq(S)
    <3>0. PICK uu \in Seq(Seq(S)), s \in Seq(S) :
            Len(tt) = Len(uu) + 1 /\ tt = Append(uu, s)
      <4>. DEFINE T == Seq(S)
      <4>1. tt \in Seq(T) /\ Len(tt) # 0
        BY <2>1
      <4>. HIDE DEF T
      <4>2. \E y \in Seq(T), x \in T : Len(tt) = Len(y) + 1 /\ tt = Append(y, x)
        BY <4>1, LastAppended
      <4>. QED  BY <4>2 DEF T
    <3>1. Len(uu) = k /\ tt = Append(uu, s)
      BY <2>1, <3>0
    <3>2. FlattenSeq(uu) \in Seq(S) /\ FlattenSeq(tt) = FlattenSeq(uu) \o s
      BY <1>2, <3>1, FlattenAppend
    <3>. QED  BY <3>2
  <2>. QED  BY <2>1
<1>. HIDE DEF P
<1>3. Len(ss) \in P
  BY <1>1, <1>2, Induction, LenProperties
<1>. QED  BY <1>3 DEF P

\* Flattening takes what is joined apart.
LEMMA FlattenConcat ==
  ASSUME NEW S, NEW ss \in Seq(Seq(S)), NEW tt \in Seq(Seq(S))
  PROVE  FlattenSeq(ss \o tt) = FlattenSeq(ss) \o FlattenSeq(tt)
<1>. DEFINE P == {k \in Nat : \A uu \in Seq(Seq(S)) : Len(uu) = k =>
                                FlattenSeq(ss \o uu) = FlattenSeq(ss) \o FlattenSeq(uu)}
<1>0. FlattenSeq(ss) \in Seq(S)
  BY FlattenIn
<1>1. 0 \in P
  <2>1. \A uu \in Seq(Seq(S)) : Len(uu) = 0 => uu = <<>>
    OBVIOUS
  <2>2. ss \o <<>> = ss
    BY ConcatEmptySeq
  <2>3. FlattenSeq(ss) \o <<>> = FlattenSeq(ss)
    BY <1>0, ConcatEmptySeq
  <2>. QED  BY <2>1, <2>2, <2>3, FlattenNone
<1>2. ASSUME NEW k \in Nat, k \in P PROVE k + 1 \in P
  <2>1. ASSUME NEW uu \in Seq(Seq(S)), Len(uu) = k + 1
        PROVE  FlattenSeq(ss \o uu) = FlattenSeq(ss) \o FlattenSeq(uu)
    <3>0. PICK vv \in Seq(Seq(S)), s \in Seq(S) :
            Len(uu) = Len(vv) + 1 /\ uu = Append(vv, s)
      <4>. DEFINE T == Seq(S)
      <4>1. uu \in Seq(T) /\ Len(uu) # 0
        BY <2>1
      <4>. HIDE DEF T
      <4>2. \E y \in Seq(T), x \in T : Len(uu) = Len(y) + 1 /\ uu = Append(y, x)
        BY <4>1, LastAppended
      <4>. QED  BY <4>2 DEF T
    <3>1. Len(vv) = k /\ uu = Append(vv, s)
      BY <2>1, <3>0
    <3>. DEFINE sv == ss \o vv
    <3>2. sv \in Seq(Seq(S)) /\ ss \o uu = Append(sv, s)
      BY <3>1
    <3>3. FlattenSeq(sv) = FlattenSeq(ss) \o FlattenSeq(vv) /\ FlattenSeq(vv) \in Seq(S)
      BY <1>2, <3>1, FlattenIn
    <3>. HIDE DEF sv
    <3>4. FlattenSeq(ss \o uu) = (FlattenSeq(ss) \o FlattenSeq(vv)) \o s
      BY <3>2, <3>3, FlattenAppend
    <3>5. FlattenSeq(uu) = FlattenSeq(vv) \o s
      BY <3>1, FlattenAppend
    <3>. QED  BY <1>0, <3>3, <3>4, <3>5, ConcatAssociative
  <2>. QED  BY <2>1
<1>. HIDE DEF P
<1>3. Len(tt) \in P
  BY <1>1, <1>2, Induction, LenProperties
<1>. QED  BY <1>3 DEF P

\* Sequences of one length flatten to as many times that.
LEMMA FlattenLength ==
  ASSUME NEW S, NEW ss \in Seq(Seq(S)), NEW w \in Nat, \A i \in 1..Len(ss) : Len(ss[i]) = w
  PROVE  Len(FlattenSeq(ss)) = w * Len(ss)
<1>. DEFINE P == {k \in Nat : \A tt \in Seq(Seq(S)) :
                    Len(tt) = k /\ (\A i \in 1..k : Len(tt[i]) = w)
                      => Len(FlattenSeq(tt)) = w * k}
<1>1. 0 \in P
  <2>1. \A tt \in Seq(Seq(S)) : Len(tt) = 0 => tt = <<>>
    OBVIOUS
  <2>2. Len(<<>>) = 0 /\ w * 0 = 0
    OBVIOUS
  <2>. QED  BY <2>1, <2>2, FlattenNone
<1>2. ASSUME NEW k \in Nat, k \in P PROVE k + 1 \in P
  <2>1. ASSUME NEW tt \in Seq(Seq(S)), Len(tt) = k + 1, \A i \in 1..(k + 1) : Len(tt[i]) = w
        PROVE  Len(FlattenSeq(tt)) = w * (k + 1)
    <3>0. PICK uu \in Seq(Seq(S)), s \in Seq(S) :
            Len(tt) = Len(uu) + 1 /\ tt = Append(uu, s)
      <4>. DEFINE T == Seq(S)
      <4>1. tt \in Seq(T) /\ Len(tt) # 0
        BY <2>1
      <4>. HIDE DEF T
      <4>2. \E y \in Seq(T), x \in T : Len(tt) = Len(y) + 1 /\ tt = Append(y, x)
        BY <4>1, LastAppended
      <4>. QED  BY <4>2 DEF T
    <3>1. Len(uu) = k /\ tt = Append(uu, s)
      BY <2>1, <3>0
    <3>2. (\A i \in 1..k : Len(uu[i]) = w) /\ Len(s) = w
      <4>1. \A i \in 1..k : tt[i] = uu[i] /\ i \in 1..(k + 1)
        BY <3>1
      <4>2. tt[k + 1] = s /\ k + 1 \in 1..(k + 1)
        BY <3>1
      <4>. QED  BY <2>1, <4>1, <4>2
    <3>3. Len(FlattenSeq(uu)) = w * k
      BY <1>2, <3>1, <3>2
    <3>4. FlattenSeq(tt) = FlattenSeq(uu) \o s /\ FlattenSeq(uu) \in Seq(S)
      BY <3>1, FlattenAppend, FlattenIn
    <3>5. Len(FlattenSeq(tt)) = w * k + w
      <4>1. Len(FlattenSeq(tt)) = Len(FlattenSeq(uu)) + Len(s)
        BY <3>4, ConcatProperties
      <4>. QED  BY <3>2, <3>3, <4>1
    <3>6. w * (k + 1) = w * k + w
      OBVIOUS
    <3>. QED  BY <3>5, <3>6
  <2>. QED  BY <2>1
<1>. HIDE DEF P
<1>3. Len(ss) \in P
  BY <1>1, <1>2, Induction, LenProperties
<1>. QED  BY <1>3 DEF P

\* Programs of one transaction each.
LEMMA FlattenSingles ==
  ASSUME NEW n \in Nat, NEW t
  PROVE  FlattenSeq([i \in 1..n |-> <<t[i]>>]) = [i \in 1..n |-> t[i]]
<1>. DEFINE ss == [i \in 1..n |-> <<t[i]>>]
            g == [k \in 1..n |-> [i \in 1..k |-> t[i]]]
<1>1. CASE n = 0
  <2>1. ss = <<>> /\ [i \in 1..n |-> t[i]] = <<>>
    BY <1>1
  <2>. QED  BY <2>1, FlattenNone
<1>2. CASE n # 0
  <2>1. ASSUME NEW k \in 1..n PROVE g[k] = IF k = 1 THEN ss[k] ELSE g[k - 1] \o ss[k]
    <3>1. CASE k = 1
      <4>1. [i \in 1..1 |-> t[i]] = <<t[1]>>
        OBVIOUS
      <4>. QED  BY <3>1, <4>1
    <3>2. CASE k # 1
      <4>. DEFINE m == k - 1
                  a == [i \in 1..m |-> t[i]]
      <4>1. m \in Nat /\ m \in 1..n /\ k = m + 1
        BY <3>2
      <4>2. a \o <<t[k]>> = [i \in 1..k |-> t[i]]
        <5>1. DOMAIN a = 1..m /\ Len(a) = m /\ \A i \in 1..m : a[i] = t[i]
          BY <4>1
        <5>. HIDE DEF a
        <5>2. a \o <<t[k]>> = [i \in 1..k |-> IF i <= m THEN a[i] ELSE t[k]]
          BY <4>1, <5>1
        <5>. QED  BY <4>1, <5>1, <5>2
      <4>3. g[k] = [i \in 1..k |-> t[i]] /\ g[m] = a /\ ss[k] = <<t[k]>>
        BY <4>1
      <4>. QED  BY <3>2, <4>2, <4>3
    <3>. QED  BY <3>1, <3>2
  <2>2. Len(ss) = n /\ n \in Nat \ {0}
    BY <1>2
  <2>5. g[n] = [i \in 1..n |-> t[i]]
    BY <1>2
  <2>. HIDE DEF ss, g
  <2>3. \A i \in 1..n : g[i] = IF i = 1 THEN ss[i] ELSE g[i - 1] \o ss[i]
    BY <2>1
  <2>4. FlattenSeq(ss) = g[n]
    BY <2>2, <2>3, FlattenBy DEF Flattens
  <2>. QED  BY <2>4, <2>5 DEF ss
<1>. QED  BY <1>1, <1>2

\* The function that Joined is read from.
IsJoin(f, ss, n) == f = [i \in 0..n |-> IF i = 0 THEN <<>> ELSE f[i - 1] \o ss[i]]

\* There is such a function.
LEMMA JoinExists ==
  ASSUME NEW ss, NEW n \in Nat \ {0}, <<>> \o ss[1] = ss[1]
  PROVE  \E f : IsJoin(f, ss, n)
<1>1. PICK g : IsFlat(g, ss, n)
  BY FlatExists
<1>2. \A i \in 1..n : g[i] = IF i = 1 THEN ss[i] ELSE g[i - 1] \o ss[i]
  BY <1>1, FlatAt
<1>. DEFINE h == [i \in 0..n |-> IF i = 0 THEN <<>> ELSE g[i]]
<1>3. \A i \in 0..n : h[i] = IF i = 0 THEN <<>> ELSE h[i - 1] \o ss[i]
  <2>1. \A i \in 0..n : i = 0 \/ (i = 1 /\ i \in 1..n /\ i - 1 = 0) \/ (i # 1 /\ i # 0 /\ i \in 1..n /\ i - 1 \in 1..n)
    OBVIOUS
  <2>2. h[0] = <<>> /\ \A i \in 1..n : h[i] = g[i]
    OBVIOUS
  <2>3. 0 \in 0..n /\ 1 \in 1..n
    OBVIOUS
  <2>. HIDE DEF h
  <2>4. ASSUME NEW i \in 0..n PROVE h[i] = IF i = 0 THEN <<>> ELSE h[i - 1] \o ss[i]
    <3>1. CASE i = 0
      BY <2>2, <3>1
    <3>2. CASE i = 1 /\ i \in 1..n /\ i - 1 = 0
      BY <1>2, <2>2, <3>2, Zenon
    <3>3. CASE i # 1 /\ i # 0 /\ i \in 1..n /\ i - 1 \in 1..n
      BY <1>2, <2>2, <3>3, Zenon
    <3>. QED  BY <2>1, <3>1, <3>2, <3>3
  <2>. QED  BY <2>4
<1>4. h = [i \in 0..n |-> IF i = 0 THEN <<>> ELSE h[i - 1] \o ss[i]]
  BY <1>3
<1>. HIDE DEF h
<1>. QED  BY <1>4 DEF IsJoin

\* What Joined puts one after the other, FlattenSeq does.
LEMMA JoinedIs ==
  ASSUME NEW ss, NEW n \in Nat, Len(ss) = n, n # 0 => <<>> \o ss[1] = ss[1], n = 0 => ss = <<>>
  PROVE  Joined(ss) = FlattenSeq(ss)
<1>. DEFINE F == CHOOSE f : IsJoin(f, ss, n)
<1>1. Joined(ss) = F[n]
  BY DEF Joined, Folded, IsJoin
<1>2. CASE n = 0
  <2>. DEFINE e == [i \in 0..0 |-> <<>>]
  <2>1. IsJoin(e, ss, n)
    <3>1. e = [i \in 0..0 |-> IF i = 0 THEN <<>> ELSE e[i - 1] \o ss[i]]
      <4>1. \A i \in 0..0 : i = 0
        OBVIOUS
      <4>. QED  BY <4>1
    <3>. HIDE DEF e
    <3>. QED  BY <1>2, <3>1 DEF IsJoin
  <2>2. IsJoin(F, ss, n)
    BY <2>1, Zenon
  <2>. HIDE DEF F
  <2>3. F[0] = <<>>
    <3>. DEFINE G == [i \in 0..n |-> IF i = 0 THEN <<>> ELSE F[i - 1] \o ss[i]]
    <3>1. F = G
      BY <2>2 DEF IsJoin
    <3>2. G[0] = <<>>
      OBVIOUS
    <3>. QED  BY <3>1, <3>2
  <2>. QED  BY <1>1, <1>2, <2>3, FlattenNone
<1>3. CASE n # 0
  <2>1. n \in Nat \ {0} /\ <<>> \o ss[1] = ss[1]
    BY <1>3
  <2>2. IsJoin(F, ss, n)
    <3>1. \E f : IsJoin(f, ss, n)
      BY <2>1, JoinExists
    <3>. QED  BY <3>1, Zenon
  <2>. HIDE DEF F
  <2>3. \A i \in 0..n : F[i] = IF i = 0 THEN <<>> ELSE F[i - 1] \o ss[i]
    <3>. DEFINE G == [i \in 0..n |-> IF i = 0 THEN <<>> ELSE F[i - 1] \o ss[i]]
    <3>1. F = G
      BY <2>2 DEF IsJoin
    <3>2. \A i \in 0..n : G[i] = IF i = 0 THEN <<>> ELSE F[i - 1] \o ss[i]
      OBVIOUS
    <3>. HIDE DEF G
    <3>. QED  BY <3>1, <3>2
  <2>4. ASSUME NEW i \in 1..n PROVE F[i] = IF i = 1 THEN ss[i] ELSE F[i - 1] \o ss[i]
    <3>1. i \in 0..n /\ i # 0 /\ 0 \in 0..n /\ (i = 1 => i - 1 = 0)
      OBVIOUS
    <3>2. F[i] = F[i - 1] \o ss[i] /\ F[0] = <<>>
      BY <2>3, <3>1, Zenon
    <3>. QED  BY <2>1, <3>1, <3>2, Zenon
  <2>5. Flattens(F, ss, n)
    BY <1>3, <2>4 DEF Flattens
  <2>6. FlattenSeq(ss) = F[n]
    BY <2>5, FlattenBy
  <2>. QED  BY <1>1, <2>6
<1>. QED  BY <1>2, <1>3

\* Of sequences.
LEMMA JoinedSeqs ==
  ASSUME NEW S, NEW ss \in Seq(Seq(S))
  PROVE  Joined(ss) = FlattenSeq(ss)
<1>1. Len(ss) \in Nat /\ (Len(ss) = 0 => ss = <<>>)
  OBVIOUS
<1>2. ASSUME Len(ss) # 0 PROVE <<>> \o ss[1] = ss[1]
  <2>1. 1 \in 1..Len(ss)
    BY <1>1, <1>2
  <2>2. ss[1] \in Seq(S)
    BY <2>1
  <2>. QED  BY <2>2, ConcatEmptySeq
<1>. QED  BY <1>1, <1>2, JoinedIs

\* Programs of one transaction each.
LEMMA JoinedSingles ==
  ASSUME NEW n \in Nat, NEW t
  PROVE  Joined([i \in 1..n |-> <<t[i]>>]) = [i \in 1..n |-> t[i]]
<1>. DEFINE ss == [i \in 1..n |-> <<t[i]>>]
            one == <<t[1]>>
<1>1. Len(ss) = n /\ (n = 0 => ss = <<>>)
  OBVIOUS
<1>2. ASSUME n # 0 PROVE <<>> \o ss[1] = ss[1]
  <2>1. ss[1] = one
    BY <1>2
  <2>2. one \in Seq({t[1]})
    OBVIOUS
  <2>. HIDE DEF one, ss
  <2>. QED  BY <2>1, <2>2, ConcatEmptySeq
<1>. HIDE DEF ss
<1>3. Joined(ss) = FlattenSeq(ss)
  BY <1>1, <1>2, JoinedIs
<1>. QED  BY <1>3, FlattenSingles DEF ss

(***************************************************************************)
(* Sequences of few.                                                       *)
(***************************************************************************)

\* A piece of a sequence, read byte by byte.
LEMMA PieceIs ==
  ASSUME NEW s \in Seq(Nat), NEW i \in Nat, NEW k \in {1, 2, 3, 4}, i + k <= Len(s)
  PROVE  /\ SubSeq(s, i + 1, i + k) \in Seq(Nat) /\ Len(SubSeq(s, i + 1, i + k)) = k
         /\ \A j \in 1..k : SubSeq(s, i + 1, i + k)[j] = s[i + j]
<1>. DEFINE S == Nat
            m == i + 1
            n == i + k
            t == SubSeq(s, m, n)
<1>1. s \in Seq(S) /\ m \in Nat /\ n \in Nat /\ 1 <= m /\ m <= n /\ n <= Len(s)
      /\ n - m + 1 = k
  OBVIOUS
<1>2. \A j \in m..n : s[j] \in S
  <2>1. \A j \in 1..Len(s) : s[j] \in S
    OBVIOUS
  <2>2. \A j \in m..n : j \in 1..Len(s)
    BY <1>1
  <2>. QED  BY <2>1, <2>2
<1>3. m \in Int /\ n \in Int /\ \A j \in 1..k : m + j - 1 = i + j
  OBVIOUS
<1>. HIDE DEF S, m, n
<1>4. /\ t \in Seq(S) /\ Len(t) = n - m + 1
      /\ \A j \in 1..(n - m + 1) : t[j] = s[m + j - 1]
  <2>1. Len(t) = n - m + 1 /\ t \in Seq(S) /\ \A j \in 1..(n - m + 1) : t[j] = s[m + j - 1]
    <3>1. m <= n + 1
      BY <1>1
    <3>. QED  BY <1>1, <1>2, <1>3, <3>1, SubSeqProperties
  <2>. QED  BY <2>1
<1>. HIDE DEF t
<1>5. t \in Seq(S) /\ Len(t) = k /\ \A j \in 1..k : t[j] = s[i + j]
  BY <1>1, <1>3, <1>4
<1>. QED  BY <1>5 DEF t, S, m, n

\* A sequence over a set is one over a wider set.
LEMMA WiderSeq ==
  ASSUME NEW S, NEW T, S \subseteq T, NEW s \in Seq(S)
  PROVE  s \in Seq(T)
OBVIOUS

\* What two sequences of one hold.
LEMMA TwoJoined ==
  ASSUME NEW S, NEW u \in Seq(S), NEW v \in Seq(S), Len(u) = 1, Len(v) = 1
  PROVE  \A i \in DOMAIN (u \o v) : (u \o v)[i] = u[1] \/ (u \o v)[i] = v[1]
<1>. DEFINE p == u \o v
<1>1. /\ p \in Seq(S) /\ Len(p) = Len(u) + Len(v)
      /\ \A i \in 1..(Len(u) + Len(v)) : p[i] = IF i <= Len(u) THEN u[i] ELSE v[i - Len(u)]
  BY ConcatProperties
<1>. HIDE DEF p
<1>2. DOMAIN p = 1..2 /\ \A i \in 1..2 : p[i] = u[1] \/ p[i] = v[1]
  BY <1>1
<1>. QED  BY <1>2 DEF p

(***************************************************************************)
(* Sums, and the numbers that bytes stand for.                             *)
(***************************************************************************)

IsSum(f, q, n) == f = [i \in 0..n |-> IF i = 0 THEN 0 ELSE f[i - 1] + q[i]]

IsValue(f, v, n) == f = [i \in 0..n |-> IF i = 0 THEN 0 ELSE 256 * f[i - 1] + v[i]]

\* The function that a sum is read from, at a place.
LEMMA SumAt ==
  ASSUME NEW q, NEW n \in Nat, NEW f, IsSum(f, q, n), NEW i \in 0..n
  PROVE  f[i] = IF i = 0 THEN 0 ELSE f[i - 1] + q[i]
<1>. DEFINE G == [j \in 0..n |-> IF j = 0 THEN 0 ELSE f[j - 1] + q[j]]
<1>1. f = G
  BY DEF IsSum
<1>2. G[i] = IF i = 0 THEN 0 ELSE f[i - 1] + q[i]
  OBVIOUS
<1>. HIDE DEF G
<1>3. f[i] = G[i]
  BY <1>1
<1>. QED  BY <1>2, <1>3

Sums(g, q, n) == /\ n \in Nat /\ Len(q) = n /\ g[0] = 0
                 /\ \A i \in 1..n : g[i] = g[i - 1] + q[i]

\* The function that a number is read from, at a byte.
LEMMA ValueAt ==
  ASSUME NEW v, NEW n \in Nat, NEW f, IsValue(f, v, n), NEW i \in 0..n
  PROVE  f[i] = IF i = 0 THEN 0 ELSE 256 * f[i - 1] + v[i]
<1>. DEFINE G == [j \in 0..n |-> IF j = 0 THEN 0 ELSE 256 * f[j - 1] + v[j]]
<1>1. f = G
  BY DEF IsValue
<1>2. G[i] = IF i = 0 THEN 0 ELSE 256 * f[i - 1] + v[i]
  OBVIOUS
<1>. HIDE DEF G
<1>3. f[i] = G[i]
  BY <1>1
<1>. QED  BY <1>2, <1>3

Values(g, v, n) == /\ n \in Nat /\ Len(v) = n /\ g[0] = 0
                   /\ \A i \in 1..n : g[i] = 256 * g[i - 1] + v[i]

\* The number that bytes stand for is what any function with its recursion has last.
LEMMA ValueFolds ==
  ASSUME NEW v, NEW n, NEW g, Values(g, v, n)
  PROVE  Value(v) = g[n]
<1>0. /\ n \in Nat /\ Len(v) = n /\ g[0] = 0
      /\ \A i \in 1..n : g[i] = 256 * g[i - 1] + v[i]
  BY DEF Values
<1>00. n \in Nat
  BY <1>0
<1>. DEFINE h == [i \in 0..n |-> g[i]]
            F == CHOOSE f : IsValue(f, v, n)
<1>1. IsValue(h, v, n)
  <2>1. \A i \in 0..n : h[i] = IF i = 0 THEN 0 ELSE 256 * h[i - 1] + v[i]
    <3>1. \A i \in 0..n : i = 0 \/ (i \in 1..n /\ i - 1 \in 0..n)
      BY <1>0
    <3>. QED  BY <1>0, <3>1
  <2>2. h = [i \in 0..n |-> IF i = 0 THEN 0 ELSE 256 * h[i - 1] + v[i]]
    BY <2>1
  <2>. HIDE DEF h
  <2>. QED  BY <2>2 DEF IsValue
<1>. HIDE DEF h
<1>2. IsValue(F, v, n)
  BY <1>1
<1>3. Value(v) = F[n]
  BY <1>0 DEF Value, Folded, IsValue
<1>. HIDE DEF F
<1>. DEFINE P == {k \in Nat : k \in 0..n => F[k] = g[k]}
<1>4. 0 \in P
  <2>1. 0 \in 0..n
    BY <1>0
  <2>2. F[0] = 0
    <3>1. F[0] = IF 0 = 0 THEN 0 ELSE 256 * F[0 - 1] + v[0]
      BY <1>00, <1>2, <2>1, ValueAt
    <3>. QED  BY <3>1
  <2>. QED  BY <1>0, <2>2
<1>5. ASSUME NEW k \in Nat, k \in P PROVE k + 1 \in P
  <2>. SUFFICES ASSUME k + 1 \in 0..n PROVE F[k + 1] = g[k + 1]
    OBVIOUS
  <2>1. F[k + 1] = IF k + 1 = 0 THEN 0 ELSE 256 * F[k + 1 - 1] + v[k + 1]
    BY <1>00, <1>2, ValueAt
  <2>2. k + 1 # 0 /\ k + 1 - 1 = k /\ k \in 0..n /\ k + 1 \in 1..n
    BY <1>0
  <2>3. g[k + 1] = 256 * g[k + 1 - 1] + v[k + 1]
    BY <1>0, <2>2
  <2>4. F[k] = g[k]
    BY <1>5, <2>2
  <2>. QED  BY <2>1, <2>2, <2>3, <2>4
<1>. HIDE DEF P
<1>6. n \in P
  BY <1>0, <1>4, <1>5, Induction
<1>. QED  BY <1>0, <1>3, <1>6 DEF P

\* What three and four bytes stand for.
LEMMA ValueIs ==
  ASSUME NEW v, Len(v) \in {3, 4}
  PROVE  /\ Len(v) = 3 => Value(v) = 256 * (256 * (256 * 0 + v[1]) + v[2]) + v[3]
         /\ Len(v) = 4 => Value(v) = 256 * (256 * (256 * (256 * 0 + v[1]) + v[2]) + v[3]) + v[4]
<1>. DEFINE n == Len(v)
            a == 256 * 0 + v[1]
            b == 256 * a + v[2]
            c == 256 * b + v[3]
            d == 256 * c + v[4]
            g == [i \in 0..4 |-> CASE i = 0 -> 0 [] i = 1 -> a [] i = 2 -> b [] i = 3 -> c
                                   [] i = 4 -> d]
<1>. HIDE DEF a, b, c, d
<1>0. n = 3 \/ n = 4
  OBVIOUS
<1>1. g[0] = 0 /\ g[1] = a /\ g[2] = b /\ g[3] = c /\ g[4] = d
  OBVIOUS
<1>. HIDE DEF g
<1>2. g[1] = 256 * g[0] + v[1] /\ g[2] = 256 * g[1] + v[2]
      /\ g[3] = 256 * g[2] + v[3] /\ g[4] = 256 * g[3] + v[4]
  BY <1>1 DEF a, b, c, d
<1>4. n \in Nat /\ Len(v) = n /\ g[0] = 0
  BY <1>1
<1>. HIDE DEF n
<1>3. \A i \in 1..n : g[i] = 256 * g[i - 1] + v[i]
  <2>1. \A i \in 1..n : \/ i = 1 /\ i - 1 = 0
                        \/ i = 2 /\ i - 1 = 1
                        \/ i = 3 /\ i - 1 = 2
                        \/ i = 4 /\ i - 1 = 3
    BY <1>0
  <2>. QED  BY <1>2, <2>1
<1>5. Value(v) = g[n]
  BY <1>3, <1>4, ValueFolds DEF Values
<1>6. (n = 3 => Value(v) = c) /\ (n = 4 => Value(v) = d)
  BY <1>1, <1>5
<1>. QED  BY <1>6 DEF n, a, b, c, d

\* As many bytes as a number has hold it.
LEMMA ValueBytes ==
  ASSUME NEW x \in Nat
  PROVE  /\ ((x \div 256) \div 256) \div 256 < 256 => Value(Bytes(4, x)) = x
         /\ (x \div 256) \div 256 < 256 => Value(Bytes(3, x)) = x
         /\ Len(Bytes(4, x)) = 4 /\ Len(Bytes(3, x)) = 3
         /\ \A i \in 1..4 : Bytes(4, x)[i] \in 0..255
         /\ \A i \in 1..3 : Bytes(3, x)[i] \in 0..255
<1>. DEFINE f == Bytes(4, x)
            t == Bytes(3, x)
            x1 == x \div 256
            x2 == x1 \div 256
            x3 == x2 \div 256
<1>1. Len(f) = 4 /\ Len(t) = 3
  BY DEF Bytes
<1>2. x \div 256^2 = x2 /\ x \div 256^3 = x3 /\ x \div 256^1 = x1 /\ x \div 256^0 = x
  BY SMT
<1>3. f[1] = x3 % 256 /\ f[2] = x2 % 256 /\ f[3] = x1 % 256 /\ f[4] = x % 256
  <2>1. f[1] = (x \div 256^3) % 256 /\ f[2] = (x \div 256^2) % 256
        /\ f[3] = (x \div 256^1) % 256 /\ f[4] = (x \div 256^0) % 256
    BY SMT DEF Bytes
  <2>. HIDE DEF f, x1, x2, x3
  <2>. QED  BY <1>2, <2>1, SMT
<1>4. t[1] = x2 % 256 /\ t[2] = x1 % 256 /\ t[3] = x % 256
  <2>1. t[1] = (x \div 256^2) % 256 /\ t[2] = (x \div 256^1) % 256
        /\ t[3] = (x \div 256^0) % 256
    BY SMT DEF Bytes
  <2>. HIDE DEF t, x1, x2, x3
  <2>. QED  BY <1>2, <2>1, SMT
<1>5. /\ x = 256 * x1 + (x % 256) /\ x1 = 256 * x2 + (x1 % 256) /\ x2 = 256 * x3 + (x2 % 256)
      /\ x1 \in Nat /\ x2 \in Nat /\ x3 \in Nat
  <2>1. \A y \in Nat : y = 256 * (y \div 256) + (y % 256) /\ y \div 256 \in Nat
    OBVIOUS
  <2>. QED  BY <2>1
<1>6. /\ x3 < 256 => 256 * 0 + (x3 % 256) = x3
      /\ x2 < 256 => 256 * 0 + (x2 % 256) = x2
  <2>1. \A y \in Nat : y < 256 => 256 * 0 + (y % 256) = y
    OBVIOUS
  <2>. QED  BY <1>5, <2>1
<1>7. \A y \in Nat : y % 256 \in 0..255
  OBVIOUS
<1>. HIDE DEF f, t, x1, x2, x3
<1>8. (\A i \in 1..4 : f[i] \in 0..255) /\ (\A i \in 1..3 : t[i] \in 0..255)
  <2>1. /\ \A i \in 1..4 : i = 1 \/ i = 2 \/ i = 3 \/ i = 4
        /\ \A i \in 1..3 : i = 1 \/ i = 2 \/ i = 3
    OBVIOUS
  <2>. QED  BY <1>3, <1>4, <1>5, <1>7, <2>1
<1>9. Value(f) = 256 * (256 * (256 * (256 * 0 + f[1]) + f[2]) + f[3]) + f[4]
  <2>1. Len(f) \in {3, 4}
    BY <1>1
  <2>. QED  BY <1>1, <2>1, ValueIs
<1>10. Value(t) = 256 * (256 * (256 * 0 + t[1]) + t[2]) + t[3]
  <2>1. Len(t) \in {3, 4}
    BY <1>1
  <2>. QED  BY <1>1, <2>1, ValueIs
<1>11. x3 < 256 => Value(f) = x
  BY <1>3, <1>5, <1>6, <1>9
<1>12. x2 < 256 => Value(t) = x
  BY <1>4, <1>5, <1>6, <1>10
<1>. QED  BY <1>1, <1>8, <1>11, <1>12 DEF f, t, x1, x2, x3

(***************************************************************************)
(* A transfer in pieces: where they are and what they hold.                *)
(***************************************************************************)

\* The number of pieces of s that n items make.
Pieces(n, s) == (n + s - 1) \div s

\* The items that k pieces of s hold, of n.
Upto(n, s, k) == Smaller(s * k, n)

\* What a quotient is.
LEMMA Divided ==
  ASSUME NEW a \in Nat, NEW s \in Nat \ {0}
  PROVE  /\ a \div s \in Nat
         /\ s * (a \div s) <= a
         /\ a < s * (a \div s) + s
<1>. QED  OBVIOUS

\* A product grows with its factor.
LEMMA Product ==
  ASSUME NEW s \in Nat, NEW k \in Nat, NEW l \in Nat, k <= l
  PROVE  s * k \in Nat /\ s * k <= s * l /\ s * (k + 1) = s * k + s
<1>. QED  OBVIOUS

\* The pieces come one after the other, none larger than s, and hold all of the n.
LEMMA PieceBounds ==
  ASSUME NEW n \in Nat, NEW s \in Nat \ {0}
  PROVE  /\ Pieces(n, s) \in Nat /\ Upto(n, s, 0) = 0 /\ Upto(n, s, Pieces(n, s)) = n
         /\ \A k \in 0..Pieces(n, s) : Upto(n, s, k) \in 0..n
         /\ \A k \in 1..Pieces(n, s) :
                            /\ s * (k - 1) \in Nat
                            /\ Smaller(s, n - s * (k - 1)) \in 1..s
                            /\ s * (k - 1) = Upto(n, s, k - 1)
                            /\ s * (k - 1) + Smaller(s, n - s * (k - 1)) = Upto(n, s, k)
<1>. DEFINE m == Pieces(n, s)
            a == n + s - 1
            p == s * m
<1>1. a \in Nat /\ m = a \div s
  BY DEF Pieces
<1>. HIDE DEF m
<1>2. m \in Nat /\ p \in Nat /\ p <= a /\ a < p + s
  BY <1>1, Divided, Product
<1>3. n <= p /\ p < n + s
  BY <1>2
<1>4. Upto(n, s, 0) = 0 /\ Upto(n, s, m) = n
  BY <1>2, <1>3 DEF Upto, Smaller
<1>5. ASSUME NEW k \in 0..m PROVE Upto(n, s, k) \in 0..n
  BY <1>2, <1>5, Product DEF Upto, Smaller
<1>6. ASSUME NEW k \in 1..m
      PROVE  /\ s * (k - 1) \in Nat
             /\ Smaller(s, n - s * (k - 1)) \in 1..s
             /\ s * (k - 1) = Upto(n, s, k - 1)
             /\ s * (k - 1) + Smaller(s, n - s * (k - 1)) = Upto(n, s, k)
  <2>. DEFINE j == k - 1
              q == s * j
              r == s * k
  <2>1. j \in Nat /\ k \in Nat /\ k <= m /\ j <= m /\ k = j + 1
    BY <1>2, <1>6
  <2>2. q \in Nat /\ r = q + s /\ r <= p
    BY <1>2, <2>1, Product
  <2>4. s * (k - 1) = q /\ Upto(n, s, k - 1) = Smaller(q, n) /\ Upto(n, s, k) = Smaller(r, n)
    BY <2>1 DEF Upto
  <2>. HIDE DEF p, q, r, j
  <2>3. q < n
    BY <1>2, <1>3, <2>2
  <2>. QED  BY <2>2, <2>3, <2>4 DEF Smaller
<1>. QED  BY <1>2, <1>4, <1>5, <1>6 DEF m

\* Items of one size; what the pieces of s hold of them.
Even(words, w) == \A i \in DOMAIN words : Len(words[i]) = w

Holds(d, words, s, l) ==
  \A k \in 1..l : d[k] = FlattenSeq(SubSeq(words, s * (k - 1) + 1,
                                        s * (k - 1) + Smaller(s, Len(words) - s * (k - 1))))

\* The items that a piece holds, in the order they have.
LEMMA PieceData ==
  ASSUME NEW S, NEW words \in Seq(Seq(S)), NEW w \in Nat, Even(words, w),
         NEW a \in Nat, NEW c \in Nat, a + c <= Len(words)
  PROVE  Len(FlattenSeq(SubSeq(words, a + 1, a + c))) = w * c
<1>. DEFINE T == Seq(S)
            x == a + 1
            y == a + c
            t == SubSeq(words, x, y)
<1>1. x \in Int /\ y \in Int /\ y - x + 1 = c /\ \A i \in x..y : i \in 1..Len(words)
  OBVIOUS
<1>2. words \in Seq(T) /\ \A i \in x..y : words[i] \in T
  BY <1>1
<1>. HIDE DEF T, x, y
<1>3. t \in Seq(T)
  BY <1>1, <1>2, SubSeqProperties
<1>4. Len(t) = c /\ \A i \in 1..c : t[i] = words[a + i] /\ a + i \in DOMAIN words
  <2>1. Len(t) = IF x <= y THEN y - x + 1 ELSE 0
    BY <1>1, <1>2, SubSeqProperties
  <2>2. \A i \in 1..(y - x + 1) : t[i] = words[x + i - 1]
    BY <1>1, <1>2, SubSeqProperties
  <2>3. Len(t) = c
    BY <1>1, <2>1 DEF x, y
  <2>4. \A i \in 1..c : x + i - 1 = a + i /\ a + i \in 1..Len(words)
    BY <1>1 DEF x, y
  <2>5. \A i \in 1..c : t[i] = words[a + i]
    <3>. HIDE DEF t
    <3>. QED  BY <1>1, <2>2, <2>4
  <2>6. DOMAIN words = 1..Len(words)
    OBVIOUS
  <2>. HIDE DEF t
  <2>. QED  BY <2>3, <2>4, <2>5, <2>6
<1>. HIDE DEF t
<1>5. t \in Seq(Seq(S)) /\ \A i \in 1..Len(t) : Len(t[i]) = w
  BY <1>3, <1>4 DEF T, Even
<1>6. FlattenSeq(t) \in Seq(S) /\ Len(FlattenSeq(t)) = w * Len(t)
  BY <1>5, FlattenIn, FlattenLength
<1>. QED  BY <1>4, <1>6 DEF t, x, y

\* Pieces that follow one another hold a beginning of all the items.
LEMMA PrefixMoved ==
  ASSUME NEW S, NEW words \in Seq(Seq(S)), NEW s \in Nat \ {0},
         NEW n, n = Len(words), NEW m, m = Pieces(n, s), NEW l \in 0..m, NEW d,
         Holds(d, words, s, l)
  PROVE  IsPrefix(FlattenSeq([k \in 1..l |-> d[k]]), FlattenSeq(words))
<1>0. \A k \in 1..l : d[k] = FlattenSeq(SubSeq(words, s * (k - 1) + 1,
                                            s * (k - 1) + Smaller(s, n - s * (k - 1))))
  BY DEF Holds
<1>. DEFINE U(k) == Upto(n, s, k)
            first(j) == SubSeq(words, 1, U(j))
            g == [k \in 0..l |-> FlattenSeq(first(k))]
            ss == [k \in 1..l |-> d[k]]
            u == U(l)
<1>1. /\ n \in Nat /\ m \in Nat /\ U(0) = 0
      /\ \A k \in 0..m : U(k) \in 0..n
      /\ \A k \in 1..m : /\ s * (k - 1) = U(k - 1)
                         /\ s * (k - 1) + Smaller(s, n - s * (k - 1)) = U(k)
                         /\ U(k - 1) <= U(k)
  <2>1. n \in Nat
    OBVIOUS
  <2>2. /\ m \in Nat /\ U(0) = 0
        /\ \A k \in 0..m : U(k) \in 0..n
        /\ \A k \in 1..m : /\ s * (k - 1) \in Nat
                           /\ Smaller(s, n - s * (k - 1)) \in 1..s
                           /\ s * (k - 1) = U(k - 1)
                           /\ s * (k - 1) + Smaller(s, n - s * (k - 1)) = U(k)
    <3>. HIDE DEF g, ss, first, u
    <3>1. /\ m \in Nat /\ Upto(n, s, 0) = 0
          /\ \A k \in 0..m : Upto(n, s, k) \in 0..n
          /\ \A k \in 1..m : /\ s * (k - 1) \in Nat
                             /\ Smaller(s, n - s * (k - 1)) \in 1..s
                             /\ s * (k - 1) = Upto(n, s, k - 1)
                             /\ s * (k - 1) + Smaller(s, n - s * (k - 1)) = Upto(n, s, k)
      BY <2>1, PieceBounds, ZenonT(60)
    <3>. QED  BY <3>1
  <2>. HIDE DEF U
  <2>3. \A k \in 1..m : U(k - 1) <= U(k)
    BY <2>2
  <2>. QED  BY <2>1, <2>2, <2>3
<1>. HIDE DEF U
<1>2. \A k \in 1..l : k \in 1..m /\ k - 1 \in 0..m /\ k - 1 \in 0..l /\ k \in 0..l
  BY <1>1
<1>3. FlattenSeq(words) \in Seq(S)
  BY FlattenIn
<1>4. ASSUME NEW k \in 1..l PROVE g[k] = g[k - 1] \o d[k]
  <2>. DEFINE a == U(k - 1)
              b == U(k)
              T == Seq(S)
              p == SubSeq(words, 1, a)
              q == SubSeq(words, a + 1, b)
  <2>1. a \in 0..n /\ b \in a..n /\ 1 \in 1..(n + 1) /\ a \in 0..n
    BY <1>1, <1>2
  <2>2. d[k] = FlattenSeq(q) /\ g[k] = FlattenSeq(SubSeq(words, 1, b)) /\ g[k - 1] = FlattenSeq(p)
    BY <1>0, <1>1, <1>2
  <2>. HIDE DEF a, b
  <2>3. words \in Seq(T)
    OBVIOUS
  <2>4. \A i \in 1..n : words[i] \in T
    OBVIOUS
  <2>. HIDE DEF T
  <2>5. p \in Seq(T) /\ q \in Seq(T)
    <3>1. (\A i \in 1..a : words[i] \in T) /\ (\A i \in (a + 1)..b : words[i] \in T)
      BY <1>1, <2>1, <2>4
    <3>2. 1 \in Int /\ a \in Int /\ a + 1 \in Int /\ b \in Int
      BY <1>1, <2>1
    <3>3. p \in Seq(T)
      BY <3>1, <3>2, SubSeqProperties
    <3>4. q \in Seq(T)
      BY <3>1, <3>2, SubSeqProperties
    <3>. QED  BY <3>3, <3>4
  <2>6. p \o q = SubSeq(words, 1, b)
    <3>1. 1 \in 1..Len(words) + 1 /\ a \in (1 - 1)..Len(words) /\ b \in a..Len(words)
      BY <1>1, <2>1
    <3>. QED  BY <2>3, <3>1, ConcatAdjacentSubSeq
  <2>. HIDE DEF p, q
  <2>7. FlattenSeq(p \o q) = FlattenSeq(p) \o FlattenSeq(q)
    BY <2>5, FlattenConcat DEF T
  <2>. QED  BY <2>2, <2>6, <2>7
<1>5. g[0] = <<>>
  <2>1. SubSeq(words, 1, 0) = <<>> /\ 0 \in 0..l
    BY <1>1
  <2>2. g[0] = FlattenSeq(first(0)) /\ first(0) = <<>>
    BY <1>1, <2>1
  <2>. HIDE DEF g, first
  <2>. QED  BY <2>2, FlattenNone
<1>6. \A k \in 0..l : g[k] \in Seq(S)
  <2>1. ASSUME NEW k \in 0..l PROVE g[k] \in Seq(S)
    <3>1. U(k) \in 0..n
      BY <1>1
    <3>2. first(k) \in Seq(Seq(S))
      BY <1>1, <3>1
    <3>3. g[k] = FlattenSeq(first(k))
      OBVIOUS
    <3>. HIDE DEF first, g
    <3>. QED  BY <3>2, <3>3, FlattenIn
  <2>. QED  BY <2>1
<1>7. FlattenSeq(ss) = g[l]
  <2>. HIDE DEF g, first
  <2>1. CASE l = 0
    <3>1. ss = <<>> /\ g[l] = <<>>
      BY <1>5, <2>1
    <3>. HIDE DEF ss
    <3>. QED  BY <3>1, FlattenNone
  <2>2. CASE l # 0
    <3>1. Len(ss) = l /\ l \in Nat \ {0} /\ \A k \in 1..l : ss[k] = d[k]
      BY <1>1, <2>2
    <3>2. 1 \in 1..l /\ 0 \in 0..l /\ 1 - 1 = 0
      BY <3>1
    <3>3. g[1] = ss[1]
      <4>1. g[1] = g[0] \o d[1] /\ g[1] \in Seq(S) /\ g[0] = <<>>
        BY <1>2, <1>4, <1>5, <1>6, <3>2
      <4>2. d[1] \in Seq(S)
        <5>1. d[1] = FlattenSeq(SubSeq(words, s * (1 - 1) + 1,
                                       s * (1 - 1) + Smaller(s, n - s * (1 - 1))))
          BY <1>0, <3>2
        <5>2. s * (1 - 1) = 0 /\ s * (1 - 1) + Smaller(s, n - s * (1 - 1)) \in 0..n
          BY <1>1, <1>2, <3>2
        <5>3. SubSeq(words, s * (1 - 1) + 1, s * (1 - 1) + Smaller(s, n - s * (1 - 1)))
                \in Seq(Seq(S))
          BY <1>1, <5>2
        <5>. DEFINE x == SubSeq(words, s * (1 - 1) + 1,
                                s * (1 - 1) + Smaller(s, n - s * (1 - 1)))
        <5>4. d[1] = FlattenSeq(x) /\ x \in Seq(Seq(S))
          BY <5>1, <5>3
        <5>. HIDE DEF x
        <5>. QED  BY <5>4, FlattenIn
      <4>3. <<>> \o d[1] = d[1]
        BY <4>2, ConcatEmptySeq
      <4>. QED  BY <3>1, <3>2, <4>1, <4>3
    <3>. HIDE DEF ss
    <3>4. \A k \in 1..l : g[k] = IF k = 1 THEN ss[k] ELSE g[k - 1] \o ss[k]
      BY <1>4, <3>1, <3>3
    <3>5. Len(ss) = l /\ l \in Nat \ {0}
      BY <3>1
    <3>6. Flattens(g, ss, l)
      BY <3>4, <3>5 DEF Flattens
    <3>. QED  BY <3>6, FlattenBy
  <2>. QED  BY <2>1, <2>2
<1>8. FlattenSeq(words) = g[l] \o FlattenSeq(SubSeq(words, u + 1, n))
      /\ FlattenSeq(SubSeq(words, u + 1, n)) \in Seq(S)
  <2>. DEFINE T == Seq(S)
              p == SubSeq(words, 1, u)
              q == SubSeq(words, u + 1, n)
  <2>1. u \in 0..n /\ l \in 0..l
    BY <1>1
  <2>2. g[l] = FlattenSeq(p)
    BY <2>1
  <2>3. p \in Seq(T) /\ q \in Seq(T) /\ words \in Seq(T)
    BY <1>1, <2>1
  <2>. HIDE DEF T, u
  <2>4. p \o q = SubSeq(words, 1, n)
    <3>1. 1 \in 1..Len(words) + 1 /\ u \in (1 - 1)..Len(words) /\ n \in u..Len(words)
      BY <1>1, <2>1
    <3>. QED  BY <2>3, <3>1, ConcatAdjacentSubSeq
  <2>5. SubSeq(words, 1, n) = words
    BY SubSeqFull
  <2>. HIDE DEF p, q
  <2>6. FlattenSeq(p \o q) = FlattenSeq(p) \o FlattenSeq(q) /\ FlattenSeq(q) \in Seq(S)
    BY <2>3, FlattenConcat, FlattenIn DEF T
  <2>. QED  BY <2>2, <2>4, <2>5, <2>6 DEF q
<1>9. g[l] \in Seq(S)
  BY <1>1, <1>6
<1>. DEFINE r == FlattenSeq(SubSeq(words, u + 1, n))
            v == g[l]
            w == FlattenSeq(words)
<1>10. v \in Seq(S) /\ r \in Seq(S) /\ w = v \o r /\ FlattenSeq(ss) = v
  BY <1>7, <1>8, <1>9
<1>. HIDE DEF r, v, w, ss
<1>11. Len(v) \in Nat /\ Len(v) <= Len(w) /\ \A i \in 1..Len(v) : w[i] = v[i]
  BY <1>10
<1>12. SubSeq(v, 1, Len(v)) = SubSeq(w, 1, Len(v))
  BY <1>10, <1>11
<1>. QED  BY <1>10, <1>11, <1>12 DEF IsPrefix, ss, w

\* Where a piece is and what it holds.
LEMMA PlaceOf ==
  ASSUME NEW n \in Nat, NEW s \in Nat \ {0}, NEW k \in 1..Pieces(n, s)
  PROVE  /\ s * (k - 1) \in Nat
         /\ Smaller(s, n - s * (k - 1)) \in 1..s
         /\ Smaller(s, n - s * (k - 1)) \in Nat
         /\ s * (k - 1) + Smaller(s, n - s * (k - 1)) <= n
<1>. DEFINE m == Pieces(n, s)
            a == s * (k - 1)
            c == Smaller(s, n - a)
<1>1. m \in Nat /\ a \in Nat /\ c \in 1..s /\ a + c = Upto(n, s, k) /\ Upto(n, s, k) \in 0..n
  <2>1. m \in Nat /\ a \in Nat /\ c \in 1..s /\ a + c = Upto(n, s, k)
    BY PieceBounds
  <2>2. k \in 0..m
    BY <2>1
  <2>3. Upto(n, s, k) \in 0..n
    <3>. HIDE DEF a, c
    <3>. QED  BY <2>2, PieceBounds
  <2>. QED  BY <2>1, <2>3
<1>. HIDE DEF a, c, m
<1>. QED  BY <1>1 DEF a, c

\* The bytes of one read of the almanac.
Burst == 188

\* The beginning of a sequence that another one follows.
LEMMA HeadKept ==
  ASSUME NEW S, NEW v \in Seq(S), NEW t \in Seq(S)
  PROVE  SubSeq(v \o t, 1, Len(v)) = v
<1>. DEFINE y == v \o t
            n == Len(v)
            u == SubSeq(y, 1, n)
<1>1. n \in Nat /\ Len(t) \in Nat /\ v = [i \in 1..n |-> v[i]]
  OBVIOUS
<1>2. \A i \in 1..n : y[i] = v[i] /\ y[i] \in S
  <2>1. \A i \in 1..(Len(v) + Len(t)) : y[i] = IF i <= Len(v) THEN v[i] ELSE t[i - Len(v)]
    BY ConcatProperties
  <2>2. \A i \in 1..n : v[i] \in S
    OBVIOUS
  <2>. QED  BY <1>1, <2>1, <2>2
<1>. HIDE DEF y, n
<1>3. u = [i \in 1..n |-> y[i]]
  <2>1. u = [i \in 1..n |-> y[1 + i - 1]]
    <3>1. u \in Seq(S) /\ Len(u) = n /\ \A i \in 1..n : u[i] = y[i]
      <4>1. 1 \in Int /\ n \in Int
        BY <1>1
      <4>2. /\ u \in Seq(S) /\ Len(u) = IF 1 <= n THEN n - 1 + 1 ELSE 0
            /\ \A i \in 1..(n - 1 + 1) : u[i] = y[1 + i - 1]
        BY <1>2, <4>1, SubSeqProperties
      <4>. HIDE DEF u
      <4>. QED  BY <1>1, <4>2
    <3>. HIDE DEF u
    <3>. QED  BY <1>1, <3>1
  <2>. HIDE DEF u
  <2>. QED  BY <1>1, <2>1
<1>. QED  BY <1>1, <1>2, <1>3 DEF y, n

\* A word is four bytes.
LEMMA BytesIn ==
  ASSUME NEW x \in Nat
  PROVE  Bytes(4, x) \in Seq(0..255) /\ Len(Bytes(4, x)) = 4
<1>. DEFINE v == Bytes(4, x)
<1>1. v = [i \in 1..4 |-> v[i]] /\ Len(v) = 4
  BY DEF Bytes
<1>2. \A i \in 1..4 : v[i] \in 0..255
  BY ValueBytes
<1>. HIDE DEF v
<1>3. v \in Seq(0..255)
  BY <1>1, <1>2
<1>. QED  BY <1>1, <1>3 DEF v

\* Its bursts are pieces of one size.
LEMMA AlmanacPieces ==
  ASSUME NEW m \in Nat
  PROVE  /\ Pieces(Burst * m, Burst) = m /\ Burst * m \in Nat /\ Burst \in Nat \ {0}
         /\ \A k \in 1..m : Smaller(Burst, Burst * m - Burst * (k - 1)) = Burst
<1>. QED  BY DEF Pieces, Burst, Smaller

(***************************************************************************)
(* Quotients.                                                              *)
(***************************************************************************)

\* A quotient rounded up.
LEMMA CeilIs ==
  ASSUME NEW a \in Nat, NEW b \in Nat \ {0}, NEW c, c = (a + b - 1) \div b
  PROVE  c \in Nat /\ b * (c - 1) < a /\ a <= b * c /\ (a > 0 => c > 0)
<1>. DEFINE d == a + b - 1
<1>1. d \in Nat
  OBVIOUS
<1>. HIDE DEF d
<1>2. c \in Nat /\ b * c <= d /\ d < b * c + b
  BY <1>1, Divided DEF d
<1>3. b * (c - 1) = b * c - b /\ b * c \in Nat
  BY <1>2
<1>. QED  BY <1>2, <1>3 DEF d

\* It is the only such number.
LEMMA OneQuotient ==
  ASSUME NEW a \in Nat, NEW b \in Nat \ {0}, NEW c \in Nat, NEW k \in Nat,
         a <= b * c, c = 0 \/ b * (c - 1) < a,
         a <= b * k, k = 0 \/ b * (k - 1) < a
  PROVE  k = c
<1>1. ASSUME NEW x \in Nat, NEW y \in Nat, x < y, a <= b * x, b * (y - 1) < a PROVE FALSE
  <2>1. y - 1 \in Nat /\ x <= y - 1
    BY <1>1
  <2>. DEFINE z == y - 1
  <2>. HIDE DEF z
  <2>2. b * x <= b * z /\ b * x \in Nat /\ b * z \in Nat
    BY <2>1, Product DEF z
  <2>. QED  BY <1>1, <2>2 DEF z
<1>2. ~(k < c)
  BY <1>1
<1>3. ~(c < k)
  BY <1>1
<1>. QED  BY <1>2, <1>3

\* A product over a divisor, its factors taken apart first.
LEMMA QuotientApart ==
  ASSUME NEW p \in Nat, NEW x \in Nat, NEW h \in Nat \ {0},
         NEW u, u = p * (x \div h) + (p * (x % h)) \div h
  PROVE  u \in Nat /\ h * u <= p * x /\ p * x < h * (u + 1)
<1>. DEFINE q == x \div h
            r == x % h
<1>1. q \in Nat /\ r \in Nat /\ x = h * q + r
  OBVIOUS
<1>. HIDE DEF q, r
<1>2. p * r \in Nat /\ p * q \in Nat
  BY <1>1
<1>. DEFINE y == p * r
            d == y \div h
<1>. HIDE DEF y
<1>3. d \in Nat /\ h * d <= y /\ y < h * d + h
  BY <1>2, Divided DEF y
<1>. HIDE DEF d
<1>4. p * x = h * (p * q) + y
  BY <1>1 DEF y
<1>. DEFINE g == p * q
<1>. HIDE DEF g
<1>5. u = g + d /\ g \in Nat /\ y \in Nat
  BY <1>2 DEF g, d, y, q, r
<1>6. h * u = h * g + h * d /\ h * (u + 1) = h * g + h * d + h
  BY <1>3, <1>5
<1>7. h * g \in Nat /\ h * d \in Nat
  BY <1>3, <1>5
<1>. DEFINE hg == h * g
            hd == h * d
<1>. HIDE DEF hg, hd
<1>8. p * x = hg + y /\ h * u = hg + hd /\ h * (u + 1) = hg + hd + h /\ hg \in Nat /\ hd \in Nat
      /\ hd <= y /\ y < hd + h
  BY <1>3, <1>4, <1>6, <1>7 DEF g, hg, hd
<1>. QED  BY <1>3, <1>5, <1>8

\* The powers of two that a spreading factor names.
LEMMA PowersIn ==
  ASSUME NEW sf \in 5..12
  PROVE  2^sf \in Nat \ {0} /\ 2^(sf - 2) \in Nat \ {0}
<1>1. sf \in {5, 6, 7, 8, 9, 10, 11, 12}
  OBVIOUS
<1>2. 2^sf \in Nat \ {0}
  <2>1. CASE sf = 5  BY <2>1, SMT
  <2>2. CASE sf = 6  BY <2>2, SMT
  <2>3. CASE sf = 7  BY <2>3, SMT
  <2>4. CASE sf = 8  BY <2>4, SMT
  <2>5. CASE sf = 9  BY <2>5, SMT
  <2>6. CASE sf = 10  BY <2>6, SMT
  <2>7. CASE sf = 11  BY <2>7, SMT
  <2>8. CASE sf = 12  BY <2>8, SMT
  <2>. QED  BY <1>1, <2>1, <2>2, <2>3, <2>4, <2>5, <2>6, <2>7, <2>8
<1>3. 2^(sf - 2) \in Nat \ {0}
  <2>1. CASE sf = 5  BY <2>1, SMT
  <2>2. CASE sf = 6  BY <2>2, SMT
  <2>3. CASE sf = 7  BY <2>3, SMT
  <2>4. CASE sf = 8  BY <2>4, SMT
  <2>5. CASE sf = 9  BY <2>5, SMT
  <2>6. CASE sf = 10  BY <2>6, SMT
  <2>7. CASE sf = 11  BY <2>7, SMT
  <2>8. CASE sf = 12  BY <2>8, SMT
  <2>. QED  BY <1>1, <2>1, <2>2, <2>3, <2>4, <2>5, <2>6, <2>7, <2>8
<1>. QED  BY <1>2, <1>3

(***************************************************************************)
(* Fields that share bytes.                                                *)
(***************************************************************************)

\* A status: its first bytes, those of its almanac's check, its flags.
Status(a, d, e, r, f, g) == <<a, d, e>> \o r \o <<f, g>>

StatusHas(b, a, d, e, r, f, g) ==
  /\ b[1] = a /\ b[2] = d /\ b[3] = e /\ b[8] = f /\ b[9] = g
  /\ \A i \in 1..4 : b[i + 3] = r[i]

\* The bytes of a status, each at its place.
LEMMA StatusBytes ==
  ASSUME NEW a \in Nat, NEW d \in Nat, NEW e \in Nat, NEW f \in Nat, NEW g \in Nat,
         NEW r \in [1..4 -> Nat]
  PROVE  StatusHas(Status(a, d, e, r, f, g), a, d, e, r, f, g)
<1>. DEFINE S == Nat
            b == Status(a, d, e, r, f, g)
            u == <<a, d, e>>
            v == <<f, g>>
            ur == u \o r
<1>1. u \in Seq(S) /\ Len(u) = 3 /\ u[1] = a /\ u[2] = d /\ u[3] = e
  OBVIOUS
<1>2. v \in Seq(S) /\ Len(v) = 2 /\ v[1] = f /\ v[2] = g
  OBVIOUS
<1>3. r \in Seq(S) /\ Len(r) = 4 /\ r = [i \in 1..4 |-> r[i]]
  <2>1. r = [i \in 1..4 |-> r[i]] /\ \A i \in 1..4 : r[i] \in S
    OBVIOUS
  <2>2. r \in Seq(S)
    BY <2>1
  <2>3. Len(r) = 4
    BY <2>1
  <2>. QED  BY <2>1, <2>2, <2>3
<1>. HIDE DEF u, v
<1>4. ur \in Seq(S) /\ Len(ur) = 7
      /\ \A i \in 1..7 : ur[i] = IF i <= 3 THEN u[i] ELSE r[i - 3]
  <2>1. /\ ur \in Seq(S) /\ Len(ur) = Len(u) + Len(r)
        /\ \A i \in 1..(Len(u) + Len(r)) : ur[i] = IF i <= Len(u) THEN u[i] ELSE r[i - Len(u)]
    BY <1>1, <1>3, ConcatProperties
  <2>2. Len(u) + Len(r) = 7
    BY <1>1, <1>3
  <2>. HIDE DEF ur
  <2>. QED  BY <1>1, <2>1, <2>2
<1>. HIDE DEF ur
<1>5. b \in Seq(S) /\ Len(b) = 9
      /\ \A i \in 1..9 : b[i] = IF i <= 7 THEN ur[i] ELSE v[i - 7]
  <2>. DEFINE w == ur \o v
  <2>1. /\ w \in Seq(S) /\ Len(w) = Len(ur) + Len(v)
        /\ \A i \in 1..(Len(ur) + Len(v)) : w[i] = IF i <= Len(ur) THEN ur[i] ELSE v[i - Len(ur)]
    BY <1>2, <1>4, ConcatProperties
  <2>2. Len(ur) + Len(v) = 9
    BY <1>2, <1>4
  <2>3. b = w
    BY DEF Status, ur, u, v
  <2>. HIDE DEF b
  <2>. HIDE DEF w
  <2>. QED  BY <1>4, <2>1, <2>2, <2>3
<1>. HIDE DEF b, S
<1>6. b[1] = a /\ b[2] = d /\ b[3] = e /\ b[8] = f /\ b[9] = g
  BY <1>1, <1>2, <1>4, <1>5
<1>7. \A i \in 1..4 : b[i + 3] = r[i]
  BY <1>4, <1>5
<1>. QED  BY <1>6, <1>7 DEF b, StatusHas

\* The two bytes that a status shares among its flags.
FlagByte(e, gps, beidou, space) == 16 * e + 4 * Bit(beidou) + 2 * Bit(gps) + space \div 2

SpaceByte(space) == 128 * (space % 2)

FlagsHave(x, y, e, gps, beidou, space) ==
  /\ x \in Nat /\ y \in Nat /\ x \div 16 = e
  /\ ((x \div 2) % 2 = 1) = gps /\ ((x \div 4) % 2 = 1) = beidou
  /\ 2 * (x % 2) + y \div 128 = space

\* Flags that share two bytes are told apart.
LEMMA FlagsApart ==
  ASSUME NEW e \in 0..15, NEW gps \in BOOLEAN, NEW beidou \in BOOLEAN, NEW space \in 0..3
  PROVE  FlagsHave(FlagByte(e, gps, beidou, space), SpaceByte(space), e, gps, beidou, space)
<1>. DEFINE x == FlagByte(e, gps, beidou, space)
            y == SpaceByte(space)
            g == Bit(gps)
            b == Bit(beidou)
            h == space \div 2
            l == space % 2
<1>1. g \in 0..1 /\ b \in 0..1 /\ (g = 1) = gps /\ (b = 1) = beidou
  BY DEF Bit
<1>2. h \in 0..1 /\ l \in 0..1 /\ space = 2 * h + l
  OBVIOUS
<1>. HIDE DEF g, b, h, l
<1>3. x = 16 * e + 4 * b + 2 * g + h /\ y = 128 * l
  BY DEF FlagByte, SpaceByte, g, b, h, l
<1>. HIDE DEF x, y
<1>4. x \in Nat /\ y \in Nat /\ x \div 16 = e
  BY <1>1, <1>2, <1>3
<1>5. (x \div 2) % 2 = g /\ (x \div 4) % 2 = b /\ x % 2 = h /\ y \div 128 = l
  <2>1. x \div 2 = 8 * e + 2 * b + g /\ x \div 4 = 4 * e + b
    BY <1>1, <1>2, <1>3
  <2>2. (8 * e + 2 * b + g) % 2 = g /\ (4 * e + b) % 2 = b
    BY <1>1
  <2>3. x % 2 = h /\ y \div 128 = l
    BY <1>1, <1>2, <1>3
  <2>. QED  BY <2>1, <2>2, <2>3
<1>. QED  BY <1>1, <1>2, <1>4, <1>5 DEF FlagsHave, x, y

(***************************************************************************)
(* Characters and their shortest forms.                                    *)
(***************************************************************************)

\* The number that t's low six bits each make of what precedes them.
IsPoint(f, start, t, n) == f = [i \in 0..n |-> IF i = 0 THEN start ELSE 64 * f[i - 1] + (t[i] % 64)]

Point(start, t) == Folded(LAMBDA acc, b : 64 * acc + (b % 64), start, t)

\* That number, for up to three bytes.
LEMMA PointIs ==
  ASSUME NEW t, NEW start, Len(t) \in {0, 1, 2, 3}
  PROVE  /\ Len(t) = 0 => Point(start, t) = start
         /\ Len(t) = 1 => Point(start, t) = 64 * start + (t[1] % 64)
         /\ Len(t) = 2 => Point(start, t) = 64 * (64 * start + (t[1] % 64)) + (t[2] % 64)
         /\ Len(t) = 3 => Point(start, t)
                            = 64 * (64 * (64 * start + (t[1] % 64)) + (t[2] % 64)) + (t[3] % 64)
<1>. DEFINE n == Len(t)
            a == 64 * start + (t[1] % 64)
            b == 64 * a + (t[2] % 64)
            c == 64 * b + (t[3] % 64)
            g == [i \in 0..3 |-> CASE i = 0 -> start [] i = 1 -> a [] i = 2 -> b [] i = 3 -> c]
            h == [i \in 0..n |-> g[i]]
            F == CHOOSE f : IsPoint(f, start, t, n)
<1>. HIDE DEF a, b, c, g, F
<1>0. n = 0 \/ n = 1 \/ n = 2 \/ n = 3
  OBVIOUS
<1>2. Point(start, t) = F[n]
  BY DEF Point, Folded, IsPoint, F
<1>. HIDE DEF n
<1>1. n \in Nat /\ n <= 3
  BY <1>0
<1>3. \A i \in 0..n : i = 0 \/ (i = 1 /\ i - 1 = 0) \/ (i = 2 /\ i - 1 = 1) \/ (i = 3 /\ i - 1 = 2)
  BY <1>1
<1>4. g[0] = start /\ g[1] = a /\ g[2] = b /\ g[3] = c
  BY DEF g
<1>5. IsPoint(h, start, t, n)
  <2>1. g[1] = 64 * g[0] + (t[1] % 64) /\ g[2] = 64 * g[1] + (t[2] % 64)
        /\ g[3] = 64 * g[2] + (t[3] % 64)
    BY <1>4 DEF a, b, c
  <2>2. \A i \in 0..n : g[i] = IF i = 0 THEN start ELSE 64 * g[i - 1] + (t[i] % 64)
    BY <1>3, <1>4, <2>1
  <2>3. \A i \in 0..n : i = 0 \/ i - 1 \in 0..n
    BY <1>1
  <2>4. h = [i \in 0..n |-> IF i = 0 THEN start ELSE 64 * h[i - 1] + (t[i] % 64)]
    BY <2>2, <2>3
  <2>. HIDE DEF h
  <2>. QED  BY <2>4 DEF IsPoint
<1>. HIDE DEF h
<1>6. IsPoint(F, start, t, n)
  BY <1>5 DEF F
<1>8. F[0] = start
  <2>1. 0 \in 0..n
    BY <1>1
  <2>2. F[0] = IF 0 = 0 THEN start ELSE 64 * F[0 - 1] + (t[0] % 64)
    BY <1>6, <2>1 DEF IsPoint
  <2>. QED  BY <2>2
<1>9. n >= 1 => F[1] = a
  <2>. SUFFICES ASSUME n >= 1 PROVE F[1] = a
    OBVIOUS
  <2>1. 1 \in 0..n
    BY <1>1
  <2>2. F[1] = IF 1 = 0 THEN start ELSE 64 * F[1 - 1] + (t[1] % 64)
    BY <1>6, <2>1 DEF IsPoint
  <2>3. F[1] = 64 * F[0] + (t[1] % 64)
    BY <2>2
  <2>. QED  BY <1>1, <1>8, <2>3 DEF a
<1>10. n >= 2 => F[2] = b
  <2>. SUFFICES ASSUME n >= 2 PROVE F[2] = b
    OBVIOUS
  <2>1. 2 \in 0..n
    BY <1>1
  <2>2. F[2] = IF 2 = 0 THEN start ELSE 64 * F[2 - 1] + (t[2] % 64)
    BY <1>6, <2>1 DEF IsPoint
  <2>3. F[2] = 64 * F[1] + (t[2] % 64)
    BY <2>2
  <2>. QED  BY <1>1, <1>9, <2>3 DEF b
<1>11. n >= 3 => F[3] = c
  <2>. SUFFICES ASSUME n >= 3 PROVE F[3] = c
    OBVIOUS
  <2>1. 3 \in 0..n
    BY <1>1
  <2>2. F[3] = IF 3 = 0 THEN start ELSE 64 * F[3 - 1] + (t[3] % 64)
    BY <1>6, <2>1 DEF IsPoint
  <2>3. F[3] = 64 * F[2] + (t[3] % 64)
    BY <2>2
  <2>. QED  BY <1>1, <1>10, <2>3 DEF c
<1>12. /\ n = 0 => Point(start, t) = start
       /\ n = 1 => Point(start, t) = a
       /\ n = 2 => Point(start, t) = b
       /\ n = 3 => Point(start, t) = c
  BY <1>2, <1>8, <1>9, <1>10, <1>11
<1>. QED  BY <1>12 DEF n, a, b, c

\* Membership of an interval, by comparison.
LEMMA Within ==
  ASSUME NEW a \in Int, NEW b \in Int, NEW x \in Int
  PROVE  x \in a..b <=> a <= x /\ x <= b
OBVIOUS

\* The shortest forms, told by the numbers that the bytes make.
OneByte(a) == a <= 127

TwoBytes(a, b) == 194 <= a /\ a <= 223 /\ 128 <= b /\ b <= 191

ThreeBytes(a, b, c) ==
  /\ 224 <= a /\ a <= 239 /\ 128 <= b /\ b <= 191 /\ 128 <= c /\ c <= 191
  /\ a = 224 => b >= 160
  /\ a = 237 => b <= 159

FourBytes(a, b, c, d) ==
  /\ 240 <= a /\ a <= 244 /\ 128 <= b /\ b <= 191 /\ 128 <= c /\ c <= 191 /\ 128 <= d /\ d <= 191
  /\ a = 240 => b >= 144
  /\ a = 244 => b <= 143

Allowed(point, least) == point >= least /\ point <= \h10FFFF /\ (point < \hD800 \/ point > \hDFFF)

\* One byte is a shortest form as its number allows.
LEMMA OneAllowed ==
  ASSUME NEW a \in Nat
  PROVE  OneByte(a) <=> a <= 127 /\ Allowed(a % 128, 0)
BY SMT DEF OneByte, Allowed

\* Two bytes are.
LEMMA TwoAllowed ==
  ASSUME NEW a \in Nat, NEW b \in Nat
  PROVE  TwoBytes(a, b) <=> /\ 192 <= a /\ a <= 223 /\ 128 <= b /\ b <= 191
                            /\ Allowed(64 * (a % 32) + (b % 64), 128)
BY SMT DEF TwoBytes, Allowed

\* Three bytes are.
LEMMA ThreeAllowed ==
  ASSUME NEW a \in Nat, NEW b \in Nat, NEW c \in Nat
  PROVE  ThreeBytes(a, b, c) <=>
           /\ 224 <= a /\ a <= 239 /\ 128 <= b /\ b <= 191 /\ 128 <= c /\ c <= 191
           /\ Allowed(64 * (64 * (a % 16) + (b % 64)) + (c % 64), 2048)
BY SMT DEF ThreeBytes, Allowed

\* Four bytes are.
LEMMA FourAllowed ==
  ASSUME NEW a \in Nat, NEW b \in Nat, NEW c \in Nat, NEW d \in Nat
  PROVE  FourBytes(a, b, c, d) <=>
           /\ 240 <= a /\ a <= 247 /\ 128 <= b /\ b <= 191 /\ 128 <= c /\ c <= 191
           /\ 128 <= d /\ d <= 191
           /\ Allowed(64 * (64 * (64 * (a % 8) + (b % 64)) + (c % 64)) + (d % 64), 65536)
BY SMT DEF FourBytes, Allowed

Shortest(c) ==
  \/ Len(c) = 1 /\ OneByte(c[1])
  \/ Len(c) = 2 /\ TwoBytes(c[1], c[2])
  \/ Len(c) = 3 /\ ThreeBytes(c[1], c[2], c[3])
  \/ Len(c) = 4 /\ FourBytes(c[1], c[2], c[3], c[4])

Fits(form, s) == Len(form) = Len(s) /\ \A k \in DOMAIN form : s[k] \in form[k]

\* Fitting a form of one byte.
LEMMA FitsOne ==
  ASSUME NEW A, NEW s
  PROVE  Fits(<<A>>, s) <=> Len(s) = 1 /\ s[1] \in A
BY DEF Fits

\* Of two.
LEMMA FitsTwo ==
  ASSUME NEW A, NEW B, NEW s
  PROVE  Fits(<<A, B>>, s) <=> Len(s) = 2 /\ s[1] \in A /\ s[2] \in B
BY DEF Fits

\* Of three.
LEMMA FitsThree ==
  ASSUME NEW A, NEW B, NEW C, NEW s
  PROVE  Fits(<<A, B, C>>, s) <=> Len(s) = 3 /\ s[1] \in A /\ s[2] \in B /\ s[3] \in C
BY DEF Fits

\* Of four.
LEMMA FitsFour ==
  ASSUME NEW A, NEW B, NEW C, NEW D, NEW s
  PROVE  Fits(<<A, B, C, D>>, s)
           <=> Len(s) = 4 /\ s[1] \in A /\ s[2] \in B /\ s[3] \in C /\ s[4] \in D
BY DEF Fits

(***************************************************************************)
(* Channels a step apart.                                                  *)
(***************************************************************************)

\* A multiple leaves nothing.
LEMMA Multiples ==
  ASSUME NEW w \in Nat \ {0}, NEW k \in Nat
  PROVE  (w * k) % w = 0
<1>. DEFINE a == w * k
            q == a \div w
            r == a % w
<1>1. a \in Nat
  OBVIOUS
<1>2. q \in Nat /\ r \in Nat /\ a = w * q + r /\ r < w
  <2>. HIDE DEF a
  <2>. QED  BY <1>1
<1>. HIDE DEF q, r
<1>3. CASE q >= k + 1
  <2>1. w * (k + 1) <= w * q /\ w * (k + 1) = w * k + w
    BY <1>2, <1>3, Product
  <2>. QED  BY <1>2, <2>1
<1>4. CASE q <= k - 1
  <2>1. w * (q + 1) <= w * k /\ w * (q + 1) = w * q + w
    BY <1>2, <1>4, Product
  <2>. QED  BY <1>2, <2>1
<1>5. CASE q = k
  BY <1>1, <1>2, <1>5
<1>. QED  BY <1>2, <1>3, <1>4, <1>5

\* The channels from a, w apart, and how many of them come before z is passed.
At(a, w, k) == a + w * k

Fitting(a, z, w) == (z - a) \div w + 1

\* They rise, and exactly that many of them are not past z.
LEMMA ChannelsIn ==
  ASSUME NEW a \in Nat, NEW z \in Nat, NEW w \in Nat \ {0}, a <= z
  PROVE  /\ Fitting(a, z, w) \in Nat \ {0}
         /\ \A k \in Nat : At(a, w, k) \in Nat /\ (At(a, w, k) > z <=> k >= Fitting(a, z, w))
         /\ \A j, k \in Nat : j < k => At(a, w, j) < At(a, w, k)
<1>. DEFINE N == Fitting(a, z, w)
            q == (z - a) \div w
<1>1. q \in Nat /\ w * q <= z - a /\ z - a < w * q + w /\ N = q + 1
  BY Divided DEF Fitting
<1>. HIDE DEF q, N
<1>2. ASSUME NEW k \in Nat PROVE w * k \in Nat /\ (a + w * k > z <=> k >= N)
  <2>1. w * k \in Nat
    OBVIOUS
  <2>2. CASE k >= q + 1
    <3>1. w * (q + 1) <= w * k /\ w * (q + 1) = w * q + w
      BY <1>1, <2>2, Product
    <3>. QED  BY <1>1, <2>1, <2>2, <3>1
  <2>3. CASE k <= q
    <3>1. w * k <= w * q /\ w * q \in Nat
      BY <1>1, <2>3, Product
    <3>. QED  BY <1>1, <2>1, <2>3, <3>1
  <2>. QED  BY <1>1, <2>1, <2>2, <2>3
<1>3. ASSUME NEW j \in Nat, NEW k \in Nat, j < k PROVE a + w * j < a + w * k
  <2>1. w * (j + 1) <= w * k /\ w * (j + 1) = w * j + w
    BY <1>3, Product
  <2>2. w * j \in Nat /\ w * k \in Nat
    OBVIOUS
  <2>. QED  BY <2>1, <2>2
<1>4. N \in Nat \ {0}
  BY <1>1
<1>. QED  BY <1>2, <1>3, <1>4 DEF N, At

\* They are the frequencies in range at multiples of w, and as many.
LEMMA ChannelSet ==
  ASSUME NEW a \in Nat, NEW z \in Nat, NEW w \in Nat \ {0}, a <= z
  PROVE  /\ {f \in a..z : (f - a) % w = 0} = {At(a, w, k) : k \in 0..Fitting(a, z, w) - 1}
         /\ Cardinality({f \in a..z : (f - a) % w = 0}) = Fitting(a, z, w)
<1>. DEFINE N == Fitting(a, z, w)
            all == {f \in a..z : (f - a) % w = 0}
            Of(k) == At(a, w, k)
<1>1. /\ N \in Nat \ {0}
      /\ \A k \in Nat : Of(k) \in Nat /\ (Of(k) > z <=> k >= N)
      /\ \A j, k \in Nat : j < k => Of(j) < Of(k)
  BY ChannelsIn, Zenon
<1>. HIDE DEF N
<1>2. ASSUME NEW k \in 0..N - 1 PROVE Of(k) \in all
  <2>1. k \in Nat /\ k < N
    BY <1>1
  <2>2. Of(k) \in Nat /\ Of(k) <= z
    BY <1>1, <2>1
  <2>3. (w * k) % w = 0 /\ w * k \in Nat
    BY <2>1, Multiples
  <2>4. Of(k) - a = w * k /\ Of(k) >= a
    BY <2>3 DEF At
  <2>. HIDE DEF Of
  <2>5. Of(k) \in a..z
    BY <2>2, <2>4
  <2>6. (Of(k) - a) % w = 0
    BY <2>3, <2>4, Zenon
  <2>. QED  BY <2>5, <2>6, Zenon
<1>3. ASSUME NEW f \in all PROVE \E k \in 0..N - 1 : f = Of(k)
  <2>. DEFINE k == (f - a) \div w
  <2>1. f \in a..z /\ (f - a) % w = 0
    OBVIOUS
  <2>2. f \in Nat /\ f - a \in Nat /\ f <= z
    BY <2>1
  <2>3. k \in Nat /\ f - a = w * k
    BY <2>1, <2>2
  <2>. HIDE DEF k
  <2>4. f = Of(k)
    BY <2>2, <2>3 DEF At
  <2>. HIDE DEF Of
  <2>5. k < N
    BY <1>1, <2>2, <2>3, <2>4
  <2>. QED  BY <1>1, <2>3, <2>4, <2>5
<1>4. all = {Of(k) : k \in 0..N - 1}
  <2>. HIDE DEF all, Of
  <2>. QED  BY <1>2, <1>3
<1>. HIDE DEF all
<1>5. Cardinality(all) = N
  <2>. DEFINE F == [k \in 0..N - 1 |-> Of(k)]
              S == 0..N - 1
  <2>. HIDE DEF Of
  <2>1. F \in [S -> all]
    BY <1>2
  <2>2. ASSUME NEW i \in S, NEW j \in S, F[i] = F[j] PROVE i = j
    <3>1. i \in Nat /\ j \in Nat /\ Of(i) = Of(j)
      BY <1>1, <2>2
    <3>. QED  BY <1>1, <3>1
  <2>3. ASSUME NEW f \in all PROVE \E i \in S : F[i] = f
    BY <1>3
  <2>. HIDE DEF F
  <2>4. F \in Bijection(S, all)
    BY <2>1, <2>2, <2>3, Fun_IsBij
  <2>5. ExistsBijection(S, all)
    BY <2>4, Fun_ExistsBij
  <2>6. IsFiniteSet(S) /\ Cardinality(S) = N
    <3>1. /\ IsFiniteSet(0..N - 1)
          /\ Cardinality(0..N - 1) = IF 0 > N - 1 THEN 0 ELSE N - 1 - 0 + 1
      BY <1>1, FS_Interval
    <3>. QED  BY <1>1, <3>1
  <2>. HIDE DEF S
  <2>. QED  BY <2>5, <2>6, FS_Bijection
<1>. QED  BY <1>4, <1>5, Zenon DEF all, N

(***************************************************************************)
(* Counts as mantissa and exponent.                                        *)
(***************************************************************************)

\* The symbols that one of a mantissa stands for, by the exponent.
Unit(e) == 2^(2 * e + 1)

\* Each of them.
LEMMA UnitsAre ==
  /\ Unit(0) = 2 /\ Unit(1) = 8 /\ Unit(2) = 32
  /\ Unit(3) = 128 /\ Unit(4) = 512 /\ Unit(5) = 2048
  /\ Unit(6) = 8192 /\ Unit(7) = 32768 /\ Unit(8) = 131072
BY SMT DEF Unit

\* A larger one is a multiple of a smaller one.
LEMMA UnitsDivide ==
  /\ \A e \in 0..8 : Unit(e) \in Nat \ {0}
  /\ \A e, f \in 0..8 : e <= f => \E q \in Nat : Unit(f) = q * Unit(e)
<1>1. ASSUME NEW e \in 0..8
      PROVE  e = 0 \/ e = 1 \/ e = 2 \/ e = 3 \/ e = 4 \/ e = 5 \/ e = 6 \/ e = 7 \/ e = 8
  OBVIOUS
<1>2. ASSUME NEW e \in 0..8 PROVE Unit(e) \in Nat \ {0}
  BY <1>1, UnitsAre, SMT
<1>3. ASSUME NEW e \in 0..7 PROVE Unit(e + 1) = 4 * Unit(e)
  BY <1>1, UnitsAre, SMT
<1>4. ASSUME NEW e \in 0..8, NEW f \in 0..8, e <= f PROVE \E q \in Nat : Unit(f) = q * Unit(e)
  <2>. DEFINE P == {d \in Nat : e + d \in 0..8 => \E q \in Nat : Unit(e + d) = q * Unit(e)}
  <2>1. 0 \in P
    <3>1. Unit(e + 0) = 1 * Unit(e)
      BY <1>2
    <3>. QED  BY <3>1
  <2>2. ASSUME NEW d \in Nat, d \in P PROVE d + 1 \in P
    <3>. SUFFICES ASSUME e + (d + 1) \in 0..8
                  PROVE  \E q \in Nat : Unit(e + (d + 1)) = q * Unit(e)
      OBVIOUS
    <3>1. e + d \in 0..8 /\ e + d \in 0..7 /\ e + (d + 1) = (e + d) + 1
      OBVIOUS
    <3>2. PICK q \in Nat : Unit(e + d) = q * Unit(e)
      BY <2>2, <3>1
    <3>3. Unit(e + (d + 1)) = 4 * Unit(e + d)
      BY <1>3, <3>1
    <3>4. Unit(e + (d + 1)) = (4 * q) * Unit(e) /\ 4 * q \in Nat
      BY <1>2, <3>2, <3>3
    <3>. QED  BY <3>4
  <2>. HIDE DEF P
  <2>3. Nat \subseteq P
    BY <2>1, <2>2, Induction
  <2>. DEFINE d == f - e
  <2>4. d \in Nat /\ e + d = f
    BY <1>4
  <2>. HIDE DEF d
  <2>. QED  BY <2>3, <2>4 DEF P
<1>. QED  BY <1>2, <1>4

\* Multiples of one number are ordered as their factors.
LEMMA LessTimes ==
  ASSUME NEW a \in Int, NEW b \in Int, NEW u \in Nat \ {0}, a * u < b * u
  PROVE  a < b
<1>. SUFFICES ASSUME b <= a PROVE FALSE
  OBVIOUS
<1>1. PICK d \in Nat : a = b + d
  <2>1. a - b \in Nat /\ a = b + (a - b)
    OBVIOUS
  <2>. QED  BY <2>1
<1>2. a * u = b * u + d * u /\ d * u \in Nat /\ b * u \in Int
  BY <1>1
<1>. QED  BY <1>2

\* A count of symbols, in units, rounded up.
IsMantissa(f, x) ==
  f = [exp \in 0..8 |-> IF exp = 0 THEN (x + 1) \div 2 ELSE (f[exp - 1] + 3) \div 4]

RoundsUp(m, u, x) == m \in Nat /\ m * u >= x /\ (m - 1) * u < x

\* It is rounded up at every exponent, not only from the one before.
LEMMA MantissaIs ==
  ASSUME NEW x \in Nat, NEW f, IsMantissa(f, x)
  PROVE  \A e \in 0..8 : RoundsUp(f[e], Unit(e), x)
<1>1. f[0] = (x + 1) \div 2
  BY DEF IsMantissa
<1>2. ASSUME NEW e \in 0..7 PROVE f[e + 1] = (f[e] + 3) \div 4
  <2>1. e + 1 \in 0..8 /\ e + 1 # 0 /\ (e + 1) - 1 = e
    OBVIOUS
  <2>2. f[e + 1] = IF e + 1 = 0 THEN (x + 1) \div 2 ELSE (f[(e + 1) - 1] + 3) \div 4
    BY <2>1 DEF IsMantissa
  <2>. QED  BY <2>1, <2>2
<1>3. ASSUME NEW e \in 0..7 PROVE Unit(e + 1) = 4 * Unit(e) /\ Unit(e) \in Nat \ {0}
  <2>1. e = 0 \/ e = 1 \/ e = 2 \/ e = 3 \/ e = 4 \/ e = 5 \/ e = 6 \/ e = 7
    OBVIOUS
  <2>. QED  BY <2>1, UnitsAre, SMT
<1>. DEFINE P == {e \in Nat : e \in 0..8 => RoundsUp(f[e], Unit(e), x)}
<1>4. 0 \in P
  <2>1. Unit(0) = 2
    BY UnitsAre
  <2>. QED  BY <1>1, <2>1 DEF RoundsUp
<1>5. ASSUME NEW e \in Nat, e \in P PROVE e + 1 \in P
  <2>. SUFFICES ASSUME e + 1 \in 0..8 PROVE RoundsUp(f[e + 1], Unit(e + 1), x)
    OBVIOUS
  <2>. DEFINE m == f[e]
              n == f[e + 1]
              u == Unit(e)
  <2>1. e \in 0..7 /\ e \in 0..8
    OBVIOUS
  <2>2. m \in Nat /\ m * u >= x /\ (m - 1) * u < x
    BY <1>5, <2>1 DEF RoundsUp
  <2>3. n = (m + 3) \div 4 /\ Unit(e + 1) = 4 * u /\ u \in Nat \ {0}
    BY <1>2, <1>3, <2>1
  <2>. HIDE DEF m, n, u
  <2>4. n \in Nat /\ 4 * n >= m /\ 4 * n - 4 <= m - 1
    BY <2>2, <2>3
  <2>5. n * (4 * u) >= x
    <3>1. n * (4 * u) = (4 * n) * u
      BY <2>3, <2>4
    <3>2. (4 * n) * u >= m * u
      BY <2>2, <2>3, <2>4
    <3>3. (4 * n) * u \in Nat /\ m * u \in Nat
      BY <2>2, <2>3, <2>4
    <3>. QED  BY <2>2, <3>1, <3>2, <3>3
  <2>6. (n - 1) * (4 * u) < x
    <3>1. (n - 1) * (4 * u) = (4 * n - 4) * u
      BY <2>3, <2>4
    <3>2. (4 * n - 4) * u <= (m - 1) * u
      BY <2>2, <2>3, <2>4
    <3>3. (4 * n - 4) * u \in Int /\ (m - 1) * u \in Int
      BY <2>2, <2>3, <2>4
    <3>. QED  BY <2>2, <3>1, <3>2, <3>3
  <2>7. RoundsUp(n, 4 * u, x)
    BY <2>4, <2>5, <2>6 DEF RoundsUp
  <2>. QED  BY <2>3, <2>7, Zenon DEF n, u
<1>. HIDE DEF P
<1>6. Nat \subseteq P
  BY <1>4, <1>5, Induction
<1>. QED  BY <1>6 DEF P

\* There is such a function.
LEMMA MantissaExists ==
  ASSUME NEW x \in Nat
  PROVE  \E f : IsMantissa(f, x)
<1>. DEFINE m0 == (x + 1) \div 2
            m1 == (m0 + 3) \div 4
            m2 == (m1 + 3) \div 4
            m3 == (m2 + 3) \div 4
            m4 == (m3 + 3) \div 4
            m5 == (m4 + 3) \div 4
            m6 == (m5 + 3) \div 4
            m7 == (m6 + 3) \div 4
            m8 == (m7 + 3) \div 4
            f == [e \in 0..8 |-> CASE e = 0 -> m0 [] e = 1 -> m1 [] e = 2 -> m2 [] e = 3 -> m3
                                   [] e = 4 -> m4 [] e = 5 -> m5 [] e = 6 -> m6 [] e = 7 -> m7
                                   [] e = 8 -> m8]
<1>. HIDE DEF m0, m1, m2, m3, m4, m5, m6, m7, m8
<1>1. /\ f[0] = m0 /\ f[1] = m1 /\ f[2] = m2
      /\ f[3] = m3 /\ f[4] = m4 /\ f[5] = m5
      /\ f[6] = m6 /\ f[7] = m7 /\ f[8] = m8
  OBVIOUS
<1>2. f = [e \in 0..8 |-> f[e]]
  OBVIOUS
<1>. HIDE DEF f
<1>3. \A e \in 0..8 : \/ e = 0
                      \/ e = 1 /\ e - 1 = 0
                      \/ e = 2 /\ e - 1 = 1
                      \/ e = 3 /\ e - 1 = 2
                      \/ e = 4 /\ e - 1 = 3
                      \/ e = 5 /\ e - 1 = 4
                      \/ e = 6 /\ e - 1 = 5
                      \/ e = 7 /\ e - 1 = 6
                      \/ e = 8 /\ e - 1 = 7
  OBVIOUS
<1>4. \A e \in 0..8 : f[e] = IF e = 0 THEN (x + 1) \div 2 ELSE (f[e - 1] + 3) \div 4
  BY <1>1, <1>3 DEF m0, m1, m2, m3, m4, m5, m6, m7, m8
<1>5. IsMantissa(f, x)
  BY <1>2, <1>4 DEF IsMantissa
<1>. QED  BY <1>5, Zenon
=============================================================================
