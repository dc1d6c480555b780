---------------------------- MODULE Driver_proofs ----------------------------
(* For every set of calls, every input of the functions that compute and any  *)
(* number of calls: what the driver splits, times, sets and decodes is what   *)
(* Driver says of it, whatever the HAL meets.                                 *)
EXTENDS Driver, Hal_proofs

(***************************************************************************)
(* The driver: what a call has carried out of its program.                 *)
(***************************************************************************)

\* A call of which nothing is optional has carried out a prefix of its program.
NothingOptional == \A i \in DOMAIN job : job[i].op \notin {"reset", "abort"}

InStep == NothingOptional => \A k \in DOMAIN carried : carried[k] = k

Reached == /\ \A k \in DOMAIN carried : carried[k] \in DOMAIN job
           /\ InStep
           /\ status = "ok" => Channel!AllSettled

DriverInv == Inv /\ Reached /\ made = Made(call)

\* A step of the channel takes the call one place further, or none.
LEMMA ProceedReached ==
  ASSUME Inv, Reached, Channel!Proceed
  PROVE  Reached'
<1>1. /\ UNCHANGED job /\ carried \in Seq(Nat) /\ DOMAIN job = 1..Len(job) /\ Len(job) \in Nat
      /\ status' = "ok" => Channel!AllSettled'
  BY JobType DEF Channel!Proceed, Inv, TypeOK
<1>2. CASE UNCHANGED carried
  BY <1>1, <1>2 DEF Reached, InStep, NothingOptional
<1>3. ASSUME NEW i \in DOMAIN job, carried' = Append(carried, i), Channel!IsNext(i)
      PROVE  Reached'
  <2>. DEFINE L == Len(carried)
  <2>1. /\ L \in Nat /\ DOMAIN carried = 1..L /\ DOMAIN carried' = 1..(L + 1)
        /\ \A k \in 1..L : carried'[k] = carried[k]
        /\ carried'[L + 1] = i /\ i \in Nat
    BY <1>1, <1>3
  <2>2. \A k \in DOMAIN carried' : carried'[k] \in DOMAIN job'
    BY <1>1, <2>1 DEF Reached
  <2>3. ASSUME NothingOptional', NEW k \in DOMAIN carried' PROVE carried'[k] = k
    <3>1. \A m \in 1..L : carried[m] = m /\ m < i
      <4>1. \A m \in DOMAIN carried : carried[m] = m /\ carried[m] < i
        BY <1>1, <1>3, <2>3 DEF Reached, InStep, NothingOptional, Channel!IsNext
      <4>. QED  BY <2>1, <4>1
    <3>2. i <= L + 1
      <4>1. SUFFICES ASSUME L + 1 < i PROVE FALSE
        BY <2>1
      <4>2. L + 1 \in DOMAIN job /\ Channel!Settled(L + 1)
        BY <1>1, <1>3, <2>1, <4>1 DEF Channel!IsNext
      <4>3. PICK m \in DOMAIN carried : carried[m] = L + 1
        BY <1>1, <2>3, <4>2 DEF Channel!Settled, NothingOptional
      <4>. QED  BY <2>1, <3>1, <4>3
    <3>3. i = L + 1
      <4>1. CASE L = 0
        BY <1>1, <2>1, <3>2, <4>1
      <4>2. CASE L # 0
        BY <2>1, <3>1, <3>2, <4>2
      <4>. QED  BY <4>1, <4>2
    <3>. QED  BY <2>1, <2>3, <3>1, <3>3
  <2>. QED  BY <1>1, <2>2, <2>3 DEF Reached, InStep
<1>. QED  BY <1>2, <1>3 DEF Channel!Proceed

\* No step of a call changes what is called.
LEMMA CourseStays == Course => UNCHANGED <<call, job>>
  BY DEF Course, Return, Wait, WaitAnswer, WaitLast, WaitBusyLow, Transfer, Fetch, Pin, Nop,
         Nothing, Refused, Advance, Fail, ToStep

\* The invariant at the start.
LEMMA DriverInit1 == DriverInit => DriverInv
<1>. SUFFICES ASSUME DriverInit PROVE DriverInv
  OBVIOUS
<1>1. Inv /\ made = Made(call) /\ carried = <<>> /\ status = "none"
  BY InitInv DEF DriverInit, Init
<1>. QED  BY <1>1 DEF DriverInv, Reached, InStep

\* Every step keeps the invariant.
LEMMA DriverNextInv == DriverInv /\ [DriverNext]_driverVars => DriverInv'
<1>. SUFFICES ASSUME DriverInv, [DriverNext]_driverVars PROVE DriverInv'
  OBVIOUS
<1>. USE DEF DriverInv
<1>1. CASE DriverBegin
  <2>1. carried' = <<>> /\ status' = "running" /\ made' = Made(call')
    BY <1>1 DEF DriverBegin, Begin
  <2>2. Inv'
    BY <1>1, BeginInv DEF DriverBegin
  <2>3. Made(call') = Made(call)'
    BY DEF Made
  <2>. QED  BY <2>1, <2>2, <2>3 DEF Reached, InStep
<1>2. CASE DriverCourse
  <2>1. Inv' /\ Reached' /\ UNCHANGED <<call, made>>
    BY <1>2, NextInv, CourseProceeds, CourseStays, ProceedReached DEF DriverCourse, Next
  <2>. QED  BY <2>1 DEF Made
<1>3. CASE DriverBusyFalls \/ UNCHANGED driverVars
  <2>1. Inv' /\ UNCHANGED <<call, job, carried, status, made>>
    BY <1>3, NextInv DEF DriverBusyFalls, BusyFalls, driverVars, halVars, Next
  <2>. QED  BY <2>1 DEF Reached, InStep, NothingOptional, Channel!AllSettled, Channel!Settled, Made
<1>. QED  BY <1>1, <1>2, <1>3 DEF DriverNext

\* For every program that is as the driver computes it, the HAL's invariant holds, a call
\* that has nothing optional has carried out a prefix of its program, and success
\* means that nothing is missing (board.c:316-411).
THEOREM DriverInvariant == DriverSpec => []DriverInv
<1>. QED  BY DriverInit1, DriverNextInv, PTL DEF DriverSpec

(***************************************************************************)
(* Sums, and the numbers that bytes stand for.                             *)
(***************************************************************************)

\* A sum is what any function with its recursion has last.
LEMMA SumIs ==
  ASSUME NEW q, NEW n, NEW g, Sums(g, q, n)
  PROVE  SumOf(q) = g[n]
<1>0. /\ n \in Nat /\ Len(q) = n /\ g[0] = 0
      /\ \A i \in 1..n : g[i] = g[i - 1] + q[i]
  BY DEF Sums
<1>00. n \in Nat
  BY <1>0
<1>. DEFINE h == [i \in 0..n |-> g[i]]
            F == CHOOSE f : IsSum(f, q, n)
<1>1. IsSum(h, q, n)
  <2>1. \A i \in 0..n : h[i] = IF i = 0 THEN 0 ELSE h[i - 1] + q[i]
    <3>1. \A i \in 0..n : i = 0 \/ (i \in 1..n /\ i - 1 \in 0..n)
      BY <1>0
    <3>. QED  BY <1>0, <3>1
  <2>2. h = [i \in 0..n |-> IF i = 0 THEN 0 ELSE h[i - 1] + q[i]]
    BY <2>1
  <2>. HIDE DEF h
  <2>. QED  BY <2>2 DEF IsSum
<1>. HIDE DEF h
<1>2. IsSum(F, q, n)
  BY <1>1
<1>3. SumOf(q) = F[n]
  BY <1>0 DEF SumOf, Folded, IsSum
<1>. HIDE DEF F
<1>. DEFINE P == {k \in Nat : k \in 0..n => F[k] = g[k]}
<1>4. 0 \in P
  <2>1. 0 \in 0..n
    BY <1>0
  <2>2. F[0] = 0
    BY <1>00, <1>2, <2>1, SumAt, ZenonT(30)
  <2>. QED  BY <1>0, <2>2
<1>5. ASSUME NEW k \in Nat, k \in P PROVE k + 1 \in P
  <2>. SUFFICES ASSUME k + 1 \in 0..n PROVE F[k + 1] = g[k + 1]
    OBVIOUS
  <2>1. F[k + 1] = IF k + 1 = 0 THEN 0 ELSE F[k + 1 - 1] + q[k + 1]
    BY <1>00, <1>2, SumAt
  <2>2. k + 1 # 0 /\ k + 1 - 1 = k /\ k \in 0..n /\ k + 1 \in 1..n
    BY <1>0
  <2>3. g[k + 1] = g[k + 1 - 1] + q[k + 1]
    BY <1>0, <2>2
  <2>4. F[k] = g[k]
    BY <1>5, <2>2
  <2>. QED  BY <2>1, <2>2, <2>3, <2>4
<1>. HIDE DEF P
<1>6. n \in P
  BY <1>0, <1>4, <1>5, Induction
<1>. QED  BY <1>0, <1>3, <1>6 DEF P

(***************************************************************************)
(* What has been sent, and the pieces it holds.                            *)
(***************************************************************************)

\* The running call and what has reached the radio.
LEMMA CallIs ==
  ASSUME DriverInv
  PROVE  /\ call \in DOMAIN Calls /\ made = Made(call)
         /\ job = Calls[call].program /\ IsComputed(Calls[call])
         /\ Fn = Calls[call].fn /\ In = Calls[call].in /\ Out = Calls[call].out
<1>1. call \in DOMAIN Programs /\ job = Programs[call]
  BY DEF DriverInv, Inv, TypeOK
<1>2. DOMAIN Programs = DOMAIN Calls /\ Programs[call] = Calls[call].program
      /\ IsComputed(Calls[call])
  BY <1>1, DriverAssumption
<1>3. made = Made(call)
  BY DEF DriverInv
<1>. QED  BY <1>1, <1>2, <1>3 DEF Made, Fn, In, Out

\* A call with nothing optional has sent a prefix of its program: all of it on success.
LEMMA SentIs ==
  ASSUME DriverInv, NothingOptional
  PROVE  \E l \in 0..Len(job) : /\ Sent = [k \in 1..l |-> job[k]]
                                /\ status = "ok" => l = Len(job)
<1>1. carried \in Seq(Nat) /\ DOMAIN job = 1..Len(job) /\ Len(job) \in Nat
  BY JobType DEF DriverInv, Inv, TypeOK
<1>. DEFINE l == Len(carried)
<1>2. l \in Nat /\ DOMAIN carried = 1..l
  BY <1>1
<1>3. \A k \in 1..l : carried[k] = k /\ carried[k] \in 1..Len(job)
  BY <1>1, <1>2 DEF DriverInv, Reached, InStep
<1>4. l \in 0..Len(job)
  <2>1. l = 0 \/ l \in 1..l
    BY <1>2
  <2>. QED  BY <1>1, <1>2, <1>3, <2>1
<1>5. Sent = [k \in 1..l |-> job[k]]
  BY <1>2, <1>3 DEF Sent
<1>6. ASSUME status = "ok" PROVE l = Len(job)
  <2>1. Channel!AllSettled
    BY <1>6 DEF DriverInv, Reached
  <2>2. \A i \in 1..Len(job) : \E k \in 1..l : carried[k] = i
    BY <1>1, <1>2, <2>1 DEF Channel!AllSettled, Channel!Settled, NothingOptional
  <2>3. Len(job) = 0 \/ Len(job) \in 1..Len(job)
    BY <1>1
  <2>4. Len(job) <= l
    BY <1>1, <1>2, <1>3, <2>2, <2>3
  <2>. QED  BY <1>1, <1>4, <2>4
<1>. QED  BY <1>4, <1>5, <1>6

\* A transfer that is split into pieces of s keeps PiecesOnce.
LEMMA SplitKept ==
  ASSUME Fn \in Loops, NEW n \in Nat, In.items = n, NEW s \in Nat \ {0},
         NEW m, m = Pieces(n, s),
         NEW l \in 0..m, status = "ok" => l = m,
         Len(Moving) = l, DOMAIN Moving = 1..l,
         \A k \in 1..l : /\ Items(Moving[k]) = Smaller(s, n - s * (k - 1))
                         /\ FirstIs(Moving[k], s * (k - 1)),
         IsPrefix(FlattenSeq([k \in DOMAIN Moving |-> Moving[k].data]), FlattenSeq(In.words))
  PROVE  PiecesOnce
<1>. DEFINE moved == Moving
            before(k) == SumOf([j \in 1..(k - 1) |-> Items(moved[j])])
            g == [i \in 0..l |-> Upto(n, s, i)]
<1>0. m \in Nat /\ n \in Nat
  BY PieceBounds
<1>1. /\ m \in Nat /\ Upto(n, s, 0) = 0 /\ Upto(n, s, m) = n
      /\ \A k \in 0..m : Upto(n, s, k) \in 0..n
      /\ \A k \in 1..m : /\ s * (k - 1) \in Nat
                         /\ Smaller(s, n - s * (k - 1)) \in 1..s
                         /\ s * (k - 1) = Upto(n, s, k - 1)
                         /\ s * (k - 1) + Smaller(s, n - s * (k - 1)) = Upto(n, s, k)
  BY PieceBounds, ZenonT(60)
<1>2. \A k \in 1..l : k \in 1..m /\ k - 1 \in 0..l /\ k \in 0..l
  BY <1>0
<1>3. g[0] = 0 /\ \A i \in 1..l : g[i] = g[i - 1] + Items(moved[i])
  <2>1. g[0] = 0
    BY <1>1
  <2>2. ASSUME NEW i \in 1..l PROVE g[i] = g[i - 1] + Items(moved[i])
    <3>1. g[i] = Upto(n, s, i) /\ g[i - 1] = Upto(n, s, i - 1)
      BY <1>2
    <3>. HIDE DEF g
    <3>. QED  BY <1>1, <1>2, <3>1
  <2>. QED  BY <2>1, <2>2
<1>4. ASSUME NEW i \in 0..l PROVE before(i + 1) = Upto(n, s, i)
  <2>. DEFINE q == [j \in 1..i |-> Items(moved[j])]
  <2>1. i \in Nat /\ Len(q) = i /\ \A j \in 1..i : q[j] = Items(moved[j]) /\ j \in 1..l
    BY <1>1
  <2>2. g[i] = Upto(n, s, i) /\ i + 1 - 1 = i
    BY <1>1
  <2>. HIDE DEF q, g
  <2>4. g[0] = 0 /\ \A j \in 1..i : g[j] = g[j - 1] + q[j]
    BY <1>3, <2>1
  <2>5. i \in Nat /\ Len(q) = i
    BY <2>1
  <2>3. SumOf(q) = g[i]
    BY <2>4, <2>5, SumIs DEF Sums
  <2>. QED  BY <2>2, <2>3 DEF q
<1>. HIDE DEF g
<1>5. \A k \in 1..l : before(k) = s * (k - 1)
  <2>1. \A k \in 1..l : k - 1 \in 0..l /\ k - 1 + 1 = k
    BY <1>1
  <2>. HIDE DEF before
  <2>. QED  BY <1>1, <1>2, <1>4, <2>1
<1>6. before(l + 1) = Upto(n, s, l) /\ l \in 0..l
  BY <1>1, <1>4
<1>. HIDE DEF before
<1>7. ASSUME NEW k \in DOMAIN moved PROVE Items(moved[k]) > 0 /\ FirstIs(moved[k], before(k))
  <2>1. k \in 1..l /\ k \in 1..m /\ before(k) = s * (k - 1)
    BY <1>2, <1>5
  <2>2. Smaller(s, n - s * (k - 1)) > 0
    BY <1>1, <2>1
  <2>. QED  BY <2>1, <2>2
<1>8. before(Len(moved) + 1) <= n /\ (status = "ok" => before(Len(moved) + 1) = n)
  BY <1>1, <1>6
<1>. QED  BY <1>7, <1>8 DEF PiecesOnce, before

(***************************************************************************)
(* The loops that write.                                                   *)
(***************************************************************************)

\* Each driver file joins sequences alike.
LEMMA JoinedSame ==
  ASSUME NEW ss
  PROVE  /\ Boot!Joined(ss) = Joined(ss) /\ Crypto!Joined(ss) = Joined(ss)
         /\ Gnss!Joined(ss) = Joined(ss) /\ Wifi!Joined(ss) = Joined(ss)
<1>. QED  BY DEF Joined, Folded, Boot!Joined, Boot!Folded, Crypto!Joined, Crypto!Folded,
             Gnss!Joined, Gnss!Folded, Wifi!Joined, Wifi!Folded

\* The programs of the loops that write.
SizeOf(fn) == CASE fn = "flash" -> FLASH_WORDS
                [] fn = "fw_image" -> FW_IMAGE_WORDS
                [] fn = "almanac_update" -> ALMANAC_BLOCKS

ArgsOf(n) == IF Fn = "almanac_update" THEN <<>> ELSE Bytes(4, In.first + 4 * n)

\* The transactions that write n words or blocks in m pieces of s of them.
IsWritesJob(n, s, m) ==
  /\ In \in [first : Nat, items : Nat, size : Nat \ {0}, words : Seq(Seq(Byte)), code : Nat]
  /\ In.items = n /\ \A i \in DOMAIN In.words : Len(In.words[i]) = In.size
  /\ Fn \in Words => In.size = 4 /\ In.first + 4 * n <= TOP
  /\ n \in Nat /\ s \in Nat \ {0} /\ m \in Nat /\ Len(job) = m /\ DOMAIN job = 1..m
  /\ \A k \in 1..m :
       /\ job[k].op = "write" /\ job[k].args = ArgsOf(s * (k - 1))
       /\ job[k].data = FlattenSeq(SubSeq(In.words, s * (k - 1) + 1,
                                          s * (k - 1) + Smaller(s, n - s * (k - 1))))

\* The transactions of the loops that write: flash (lr11xx_bootloader.c:233), the
\* firmware image and the almanac (lr11xx_gnss.c:252).
LEMMA WritesJob ==
  ASSUME DriverInv, Fn \in Writes,
         NEW n, n = Len(In.words), NEW s, s = SizeOf(Fn), NEW m, m = Pieces(n, s)
  PROVE  IsWritesJob(n, s, m)
<1>1. IsLoopInput(Fn, In) /\ job = LoopProgram(Fn, In)
  BY CallIs DEF IsComputed, Loops
<1>2. /\ In \in [first : Nat, items : Nat, size : Nat \ {0}, words : Seq(Seq(Byte)), code : Nat]
      /\ In.items = n /\ \A i \in DOMAIN In.words : Len(In.words[i]) = In.size
      /\ Fn \in Words => In.size = 4 /\ In.first + 4 * n <= TOP
  BY <1>1 DEF IsLoopInput
<1>3. n \in Nat /\ s \in Nat \ {0}
  BY <1>2, BuildAssumption DEF Writes, Words, SizeOf
<1>4. m \in Nat
  BY <1>3, PieceBounds
<1>. DEFINE a(k) == s * (k - 1)
            data(k) == FlattenSeq(SubSeq(In.words, a(k) + 1, a(k) + Smaller(s, n - a(k))))
            cmd == CASE Fn = "flash" -> Boot!Cmd.write_flash_encrypted
                     [] Fn = "fw_image" -> <<Crypto!OC.check_encrypted_fw_image,
                                             Crypto!CMD_LENGTH.check_encrypted_fw_image>>
                     [] Fn = "almanac_update" -> Gnss!Cmd.almanac_update
            T == [k \in 1..m |-> Transaction("write", cmd, ArgsOf(a(k)), data(k), 0)]
<1>5. job = Joined([k \in 1..m |-> <<Transaction("write", cmd, ArgsOf(a(k)), data(k), 0)>>])
  <2>. DEFINE words == In.words
              items(k) == SubSeq(words, a(k) + 1, a(k) + Smaller(s, n - a(k)))
  <2>0. \A k \in 1..m : Joined(items(k)) = data(k)
    <3>1. words \in Seq(Seq(Byte))
      BY <1>2
    <3>2. ASSUME NEW k \in 1..m PROVE Joined(items(k)) = data(k)
      <4>1. /\ a(k) \in Nat /\ Smaller(s, n - a(k)) \in Nat
            /\ a(k) + Smaller(s, n - a(k)) <= n
        BY <1>3, PlaceOf
      <4>. DEFINE p == a(k) + 1
                  q == a(k) + Smaller(s, n - a(k))
      <4>2. p \in Nat \ {0} /\ q \in Nat /\ q <= n /\ n = Len(words)
        <5>. HIDE DEF data, T
        <5>1. n = Len(words)
          OBVIOUS
        <5>. DEFINE x == a(k)
                    y == Smaller(s, n - x)
        <5>2. x \in Nat /\ y \in Nat /\ x + y <= n
          BY <4>1
        <5>. HIDE DEF x, y
        <5>3. x + 1 \in Nat \ {0} /\ x + y \in Nat
          BY <5>2
        <5>. QED  BY <5>1, <5>2, <5>3 DEF x, y
      <4>. HIDE DEF p, q, words
      <4>3. SubSeq(words, p, q) \in Seq(Seq(Byte))
        <5>1. \A i \in p..q : i \in 1..Len(words)
          BY <1>3, <4>2
        <5>2. \A i \in p..q : words[i] \in Seq(Byte)
          BY <3>1, <5>1
        <5>. QED  BY <4>2, <5>2, SubSeqProperties
      <4>4. Joined(SubSeq(words, p, q)) = FlattenSeq(SubSeq(words, p, q))
        BY <4>3, JoinedSeqs
      <4>. QED  BY <4>4 DEF p, q, words
    <3>. QED  BY <3>2
  <2>1. CASE Fn = "flash"
    <3>. DEFINE P(k) == <<Transaction("write", Boot!Cmd.write_flash_encrypted,
                                      Bytes(4, In.first + 4 * a(k)), Boot!Joined(items(k)), 0)>>
    <3>1. s = FLASH_WORDS /\ job = Boot!write_flash_encrypted_full(In.first, In.words)
      BY <1>1, <2>1 DEF LoopProgram, SizeOf
    <3>2. Boot!write_flash_encrypted_full(In.first, In.words) = Boot!Joined([k \in 1..m |-> P(k)])
      BY <3>1 DEF Boot!write_flash_encrypted_full, Boot!write_flash_encrypted, Boot!InPieces,
         Boot!WriteData, Boot!Transaction, Boot!Smaller, Boot!Bytes, Transaction, Pieces, Smaller,
         Bytes
    <3>3. ASSUME NEW k \in 1..m
          PROVE  P(k) = <<Transaction("write", cmd, ArgsOf(a(k)), data(k), 0)>>
      <4>1. cmd = Boot!Cmd.write_flash_encrypted /\ ArgsOf(a(k)) = Bytes(4, In.first + 4 * a(k))
        BY <2>1 DEF ArgsOf
      <4>2. Boot!Joined(items(k)) = data(k)
        BY <2>0, JoinedSame
      <4>. HIDE DEF a, items, data, cmd
      <4>. QED  BY <4>1, <4>2
    <3>. HIDE DEF P, a, data, cmd
    <3>4. [k \in 1..m |-> P(k)]
            = [k \in 1..m |-> <<Transaction("write", cmd, ArgsOf(a(k)), data(k), 0)>>]
      BY <3>3
    <3>. QED  BY <3>1, <3>2, <3>4, JoinedSame
  <2>2. CASE Fn = "fw_image"
    <3>. DEFINE P(k) == <<Transaction("write", <<Crypto!OC.check_encrypted_fw_image,
                                                        Crypto!CMD_LENGTH.check_encrypted_fw_image>>,
                                      Bytes(4, In.first + 4 * a(k)), Crypto!Joined(items(k)), 0)>>
    <3>1. s = FW_IMAGE_WORDS /\ job = Crypto!check_encrypted_firmware_image_full(In.first, In.words)
      BY <1>1, <2>2 DEF LoopProgram, SizeOf
    <3>2. Crypto!check_encrypted_firmware_image_full(In.first, In.words)
            = Crypto!Joined([k \in 1..m |-> P(k)])
      BY <3>1 DEF Crypto!check_encrypted_firmware_image_full, Crypto!check_encrypted_firmware_image,
         Crypto!InPieces, Crypto!WriteData, Crypto!Transaction, Crypto!Smaller, Crypto!Bytes, Transaction, Pieces, Smaller,
         Bytes
    <3>3. ASSUME NEW k \in 1..m
          PROVE  P(k) = <<Transaction("write", cmd, ArgsOf(a(k)), data(k), 0)>>
      <4>1. cmd = <<Crypto!OC.check_encrypted_fw_image,
                     Crypto!CMD_LENGTH.check_encrypted_fw_image>>
            /\ ArgsOf(a(k)) = Bytes(4, In.first + 4 * a(k))
        BY <2>2 DEF ArgsOf
      <4>2. Crypto!Joined(items(k)) = data(k)
        BY <2>0, JoinedSame
      <4>. HIDE DEF a, items, data, cmd
      <4>. QED  BY <4>1, <4>2
    <3>. HIDE DEF P, a, data, cmd
    <3>4. [k \in 1..m |-> P(k)]
            = [k \in 1..m |-> <<Transaction("write", cmd, ArgsOf(a(k)), data(k), 0)>>]
      BY <3>3
    <3>. QED  BY <3>1, <3>2, <3>4, JoinedSame
  <2>3. CASE Fn = "almanac_update"
    <3>. DEFINE P(k) == <<Transaction("write", Gnss!Cmd.almanac_update,
                                      <<>>, Gnss!Joined(items(k)), 0)>>
    <3>1. s = ALMANAC_BLOCKS /\ job = Gnss!almanac_update(In.words)
      BY <1>1, <2>3 DEF LoopProgram, SizeOf
    <3>2. Gnss!almanac_update(In.words) = Gnss!Joined([k \in 1..m |-> P(k)])
      BY <3>1 DEF Gnss!almanac_update, Gnss!InPieces,
         Gnss!WriteData, Gnss!Transaction, Gnss!Smaller, Gnss!Bytes, Transaction, Pieces, Smaller,
         Bytes
    <3>3. ASSUME NEW k \in 1..m
          PROVE  P(k) = <<Transaction("write", cmd, ArgsOf(a(k)), data(k), 0)>>
      <4>1. cmd = Gnss!Cmd.almanac_update /\ ArgsOf(a(k)) = <<>>
        BY <2>3 DEF ArgsOf
      <4>2. Gnss!Joined(items(k)) = data(k)
        BY <2>0, JoinedSame
      <4>. HIDE DEF a, items, data, cmd
      <4>. QED  BY <4>1, <4>2
    <3>. HIDE DEF P, a, data, cmd
    <3>4. [k \in 1..m |-> P(k)]
            = [k \in 1..m |-> <<Transaction("write", cmd, ArgsOf(a(k)), data(k), 0)>>]
      BY <3>3
    <3>. QED  BY <3>1, <3>2, <3>4, JoinedSame
  <2>. QED  BY <2>1, <2>2, <2>3 DEF Writes, Words
<1>6. job = [k \in 1..m |-> T[k]]
  <2>1. [k \in 1..m |-> <<T[k]>>]
          = [k \in 1..m |-> <<Transaction("write", cmd, ArgsOf(a(k)), data(k), 0)>>]
    <3>. HIDE DEF a, data, cmd
    <3>1. \A k \in 1..m : T[k] = Transaction("write", cmd, ArgsOf(a(k)), data(k), 0)
      OBVIOUS
    <3>. HIDE DEF T
    <3>. QED  BY <3>1
  <2>. HIDE DEF T
  <2>2. Joined([k \in 1..m |-> <<T[k]>>]) = [k \in 1..m |-> T[k]]
    BY <1>4, JoinedSingles
  <2>. QED  BY <1>5, <2>1, <2>2
<1>7. Len(job) = m /\ DOMAIN job = 1..m
  BY <1>4, <1>6
<1>8. \A k \in 1..m : job[k].op = "write" /\ job[k].args = ArgsOf(a(k)) /\ job[k].data = data(k)
  <2>. HIDE DEF a, data, cmd
  <2>. QED  BY <1>6 DEF Transaction
<1>. HIDE DEF T
<1>. QED  BY <1>2, <1>3, <1>4, <1>7, <1>8 DEF IsWritesJob

(***************************************************************************)
(* The loops that read: the results of a Wi-Fi scan.                       *)
(***************************************************************************)

\* The transactions that move items: not the one that asks where the almanac is.
LEMMA MovingIs ==
  ASSUME NEW l \in Nat, Sent = [k \in 1..l |-> job[k]]
  PROVE  /\ Fn # "read_almanac" => /\ Len(Moving) = l /\ DOMAIN Moving = 1..l
                                   /\ \A k \in 1..l : Moving[k] = job[k]
         /\ Fn = "read_almanac" =>
              LET n == IF l = 0 THEN 0 ELSE l - 1
              IN  /\ Len(Moving) = n /\ DOMAIN Moving = 1..n
                  /\ \A k \in 1..n : Moving[k] = job[k + 1]
<1>. DEFINE S == {job[k] : k \in 1..l}
<1>1. Sent \in Seq(S) /\ Len(Sent) = l /\ \A k \in 1..l : Sent[k] = job[k]
  BY SMT
<1>2. ASSUME Fn # "read_almanac"
      PROVE  Len(Moving) = l /\ DOMAIN Moving = 1..l /\ \A k \in 1..l : Moving[k] = job[k]
  <2>1. Moving = SubSeq(Sent, 1, Len(Sent))
    BY <1>2 DEF Moving
  <2>. HIDE DEF S
  <2>2. Moving = Sent
    BY <1>1, <2>1, SubSeqFull
  <2>. QED  BY <1>1, <2>2
<1>3. ASSUME Fn = "read_almanac", NEW n, n = IF l = 0 THEN 0 ELSE l - 1
      PROVE  Len(Moving) = n /\ DOMAIN Moving = 1..n /\ \A k \in 1..n : Moving[k] = job[k + 1]
  <2>1. Moving = SubSeq(Sent, 2, l)
    BY <1>1, <1>3 DEF Moving
  <2>. HIDE DEF S
  <2>2. n \in Nat /\ \A k \in 1..n : k + 1 \in 1..l
    BY <1>3
  <2>3. Len(SubSeq(Sent, 2, l)) = n /\ DOMAIN SubSeq(Sent, 2, l) = 1..n
        /\ \A k \in 1..n : SubSeq(Sent, 2, l)[k] = Sent[k + 1]
    BY <1>1, <1>3, <2>2
  <2>. QED  BY <1>1, <2>1, <2>2, <2>3
<1>. QED  BY <1>2, <1>3

\* The loops that write keep PiecesOnce.
LEMMA WritesKept ==
  ASSUME DriverInv, Fn \in Writes,
         NEW n, n = Len(In.words), NEW s, s = SizeOf(Fn), NEW m, m = Pieces(n, s)
  PROVE  PiecesOnce
<1>. DEFINE w == In.size
            words == In.words
            a(k) == s * (k - 1)
            c(k) == Smaller(s, n - a(k))
            d(k) == FlattenSeq(SubSeq(words, a(k) + 1, a(k) + c(k)))
<1>1. /\ In \in [first : Nat, items : Nat, size : Nat \ {0}, words : Seq(Seq(Byte)), code : Nat]
      /\ In.items = n /\ \A i \in DOMAIN words : Len(words[i]) = w
      /\ Fn \in Words => w = 4 /\ In.first + 4 * n <= TOP
      /\ n \in Nat /\ s \in Nat \ {0} /\ m \in Nat /\ Len(job) = m /\ DOMAIN job = 1..m
      /\ \A k \in 1..m : job[k].op = "write" /\ job[k].args = ArgsOf(a(k)) /\ job[k].data = d(k)
  <2>1. IsWritesJob(n, s, m)
    BY WritesJob
  <2>. QED  BY <2>1, Zenon DEF IsWritesJob
<1>2. words \in Seq(Seq(Byte)) /\ w \in Nat \ {0} /\ In.first \in Nat
  BY <1>1
<1>. HIDE DEF w, words, d
<1>3. NothingOptional
  BY <1>1 DEF NothingOptional
<1>4. PICK l \in 0..m : Sent = [k \in 1..l |-> job[k]] /\ (status = "ok" => l = m)
  BY <1>1, <1>3, SentIs
<1>5. l \in Nat /\ \A k \in 1..l : k \in 1..m
  BY <1>1
<1>6. Len(Moving) = l /\ DOMAIN Moving = 1..l /\ \A k \in 1..l : Moving[k] = job[k]
  <2>1. Fn # "read_almanac"
    BY DEF Writes, Words
  <2>. QED  BY <1>4, <1>5, <2>1, MovingIs
<1>7. ASSUME NEW k \in 1..l PROVE Items(Moving[k]) = c(k) /\ FirstIs(Moving[k], a(k))
  <2>1. a(k) \in Nat /\ c(k) \in 1..s /\ c(k) \in Nat /\ a(k) + c(k) <= n
    BY <1>1, <1>5, PlaceOf
  <2>2. Moving[k].args = ArgsOf(a(k)) /\ Moving[k].data = d(k)
    BY <1>1, <1>5, <1>6
  <2>. HIDE DEF a, c
  <2>3. Len(d(k)) = w * c(k)
    <3>1. a(k) + c(k) <= Len(words)
      BY <2>1 DEF words
    <3>. DEFINE p == a(k)
                q == c(k)
    <3>2. words \in Seq(Seq(Byte)) /\ w \in Nat /\ p \in Nat /\ q \in Nat /\ p + q <= Len(words)
      BY <1>1, <1>2, <2>1, <3>1
    <3>4. Even(words, w)
      BY <1>1 DEF Even
    <3>. HIDE DEF p, q
    <3>3. Len(FlattenSeq(SubSeq(words, p + 1, p + q))) = w * q
      BY <3>2, <3>4, PieceData
    <3>. QED  BY <3>3 DEF d, p, q
  <2>4. (w * c(k)) \div w = c(k)
    BY <1>2, <2>1
  <2>5. Items(Moving[k]) = c(k)
    <3>1. CASE Fn \in Words
      <4>1. w = 4
        BY <1>1, <3>1
      <4>2. Items(Moving[k]) = Len(Moving[k].data) \div 4
        BY <3>1 DEF Items, Words
      <4>. QED  BY <2>2, <2>3, <2>4, <4>1, <4>2
    <3>2. CASE Fn = "almanac_update"
      BY <2>2, <2>3, <2>4, <3>2 DEF Items, Words, w
    <3>. QED  BY <3>1, <3>2 DEF Writes
  <2>6. FirstIs(Moving[k], a(k))
    <3>1. CASE Fn \in Words
      <4>. DEFINE x == In.first + 4 * a(k)
      <4>1. x \in Nat /\ x <= TOP
        <5>. DEFINE p == a(k)
                    f == In.first
        <5>1. p \in Nat /\ p <= n /\ f \in Nat /\ f + 4 * n <= TOP /\ n \in Nat
          BY <1>1, <1>2, <2>1, <3>1
        <5>. HIDE DEF p, f
        <5>2. f + 4 * p \in Nat /\ f + 4 * p <= f + 4 * n /\ TOP \in Nat
          BY <5>1 DEF TOP
        <5>. QED  BY <5>1, <5>2 DEF p, f
      <4>. HIDE DEF x
      <4>2. ((x \div 256) \div 256) \div 256 < 256
        BY <4>1, SMT DEF TOP
      <4>3. Value(Bytes(4, x)) = x
        BY <4>1, <4>2, ValueBytes
      <4>4. Moving[k].args = Bytes(4, x)
        BY <2>2, <3>1 DEF ArgsOf, Words, x
      <4>5. FirstIs(Moving[k], a(k)) = (Value(Moving[k].args) = In.first + 4 * a(k))
        BY <3>1, Zenon DEF FirstIs, Words
      <4>. QED  BY <4>3, <4>4, <4>5 DEF x
    <3>2. CASE Fn = "almanac_update"
      BY <3>2 DEF FirstIs, Words
    <3>. QED  BY <3>1, <3>2 DEF Writes
  <2>. QED  BY <2>5, <2>6
<1>8. IsPrefix(FlattenSeq([k \in DOMAIN Moving |-> Moving[k].data]), FlattenSeq(words))
  <2>. DEFINE b == [k \in 1..l |-> Moving[k].data]
  <2>1. \A k \in 1..l : b[k] = d(k)
    BY <1>1, <1>5, <1>6
  <2>. HIDE DEF b
  <2>2. Holds(b, words, s, l)
    <3>1. \A k \in 1..l : b[k] = FlattenSeq(SubSeq(words, s * (k - 1) + 1,
                                              s * (k - 1) + Smaller(s, n - s * (k - 1))))
      BY <2>1 DEF d
    <3>. QED  BY <3>1 DEF Holds, words
  <2>3. n = Len(words) /\ words \in Seq(Seq(Byte)) /\ s \in Nat \ {0}
    BY <1>1, <1>2 DEF words
  <2>4. IsPrefix(FlattenSeq([k \in 1..l |-> b[k]]), FlattenSeq(words))
    BY <2>2, <2>3, PrefixMoved
  <2>5. [k \in 1..l |-> b[k]] = [k \in DOMAIN Moving |-> Moving[k].data]
    BY <1>6 DEF b
  <2>. QED  BY <2>4, <2>5
<1>9. Fn \in Loops /\ In.words = words
  BY DEF Loops, words
<1>. QED  BY <1>1, <1>4, <1>6, <1>7, <1>8, <1>9, SplitKept, ZenonT(60)

\* The results of a scan, in pieces that one read can answer.
Chunk(size) == Smaller(1020 \div size, N_RESULTS_MAX_PER_CHUNK)

\* The transactions that read n results in m pieces of s of them.
IsWifiJob(n, s, m) ==
  /\ In \in [first : Nat, items : Nat, size : Nat \ {0}, words : Seq(Seq(Byte)), code : Nat]
  /\ In.size \in {22, 9, 79} /\ In.first + n <= 256
  /\ n \in Nat /\ s \in Nat \ {0} /\ m \in Nat /\ Len(job) = m /\ DOMAIN job = 1..m
  /\ \A k \in 1..m :
       /\ job[k].op = "read"
       /\ job[k].args = <<(In.first + s * (k - 1)) % 256, Smaller(s, n - s * (k - 1)), In.code>>
       /\ job[k].data = <<>> /\ job[k].answer = Smaller(s, n - s * (k - 1)) * In.size

\* The transactions that read the results of a scan (lr11xx_wifi.c:657).
LEMMA WifiJob ==
  ASSUME DriverInv, Fn = "wifi",
         NEW n, n = In.items, NEW s, s = Chunk(In.size),
         NEW m, m = Pieces(n, s)
  PROVE  IsWifiJob(n, s, m)
<1>1. IsLoopInput(Fn, In) /\ job = LoopProgram(Fn, In)
  BY CallIs DEF IsComputed, Loops
<1>2. /\ In \in [first : Nat, items : Nat, size : Nat \ {0}, words : Seq(Seq(Byte)), code : Nat]
      /\ In.size \in {22, 9, 79} /\ In.first + n <= 256
  BY <1>1 DEF IsLoopInput, Wifi!BASIC_COMPLETE, Wifi!BASIC_MAC_TYPE_CHANNEL, Wifi!EXTENDED_FULL
<1>3. n \in Nat /\ s \in Nat \ {0}
  <2>1. 1020 \div In.size \in Nat \ {0}
    <3>1. CASE In.size = 22 BY <3>1
    <3>2. CASE In.size = 9 BY <3>2
    <3>3. CASE In.size = 79 BY <3>3
    <3>. QED  BY <1>2, <3>1, <3>2, <3>3
  <2>2. N_RESULTS_MAX_PER_CHUNK \in Nat \ {0}
    BY BuildAssumption
  <2>. QED  BY <1>2, <2>1, <2>2 DEF Smaller, Chunk
<1>4. m \in Nat
  BY <1>3, PieceBounds
<1>. DEFINE a(k) == s * (k - 1)
            c(k) == Smaller(s, n - a(k))
            T == [k \in 1..m |-> Transaction("read", Wifi!Cmd.read_result,
                                             <<(In.first + a(k)) % 256, c(k), In.code>>, <<>>,
                                             c(k) * In.size)]
<1>5. job = Joined([k \in 1..m |-> <<T[k]>>])
  <2>. DEFINE format == [size |-> In.size, code |-> In.code]
              q == Smaller(1020 \div format.size, N_RESULTS_MAX_PER_CHUNK)
              b(k) == q * (k - 1)
              P(k) == <<Transaction("read", Wifi!Cmd.read_result,
                                    <<(In.first + b(k)) % 256, Smaller(q, n - b(k)), format.code>>,
                                    <<>>, Smaller(q, n - b(k)) * format.size)>>
  <2>1. job = Wifi!fetch_and_aggregate_all_results(In.first, n, format)
    BY <1>1 DEF LoopProgram, Words
  <2>2. Wifi!fetch_and_aggregate_all_results(In.first, n, format)
          = Wifi!Joined([k \in 1..Pieces(n, q) |-> P(k)])
    <3>. HIDE DEF format
    <3>. QED
      BY DEF Wifi!fetch_and_aggregate_all_results, Wifi!InPieces, Wifi!read_results_helper,
         Wifi!MAX_RESULT_PER_TRANSACTION, Wifi!READ_RESULT_LIMIT, Wifi!Read, Wifi!Transaction,
         Wifi!Smaller, Transaction, Smaller, Pieces
  <2>3. format.size = In.size /\ format.code = In.code
    OBVIOUS
  <2>. HIDE DEF format
  <2>4. q = s
    BY <2>3 DEF Chunk
  <2>. HIDE DEF q
  <2>5. \A k \in 1..m : P(k) = <<T[k]>>
    <3>1. \A k \in 1..m : b(k) = a(k)
      BY <2>4
    <3>. HIDE DEF a, b
    <3>. QED  BY <2>3, <2>4, <3>1
  <2>. HIDE DEF P, T
  <2>6. [k \in 1..Pieces(n, q) |-> P(k)] = [k \in 1..m |-> <<T[k]>>]
    BY <2>4, <2>5
  <2>. QED  BY <2>1, <2>2, <2>6, JoinedSame
<1>6. job = [k \in 1..m |-> T[k]]
  <2>. HIDE DEF T
  <2>. QED  BY <1>4, <1>5, JoinedSingles
<1>7. Len(job) = m /\ DOMAIN job = 1..m
  BY <1>4, <1>6
<1>8. \A k \in 1..m : /\ job[k].op = "read"
                      /\ job[k].args = <<(In.first + a(k)) % 256, c(k), In.code>>
                      /\ job[k].data = <<>> /\ job[k].answer = c(k) * In.size
  <2>. HIDE DEF a, c
  <2>. QED  BY <1>6 DEF Transaction
<1>. HIDE DEF T
<1>. QED  BY <1>2, <1>3, <1>4, <1>7, <1>8 DEF IsWifiJob

\* Nothing written: the beginning of anything.
LEMMA NoData ==
  ASSUME NEW l \in Nat, NEW d, \A k \in 1..l : d[k] = <<>>, NEW words \in Seq(Seq(Byte))
  PROVE  IsPrefix(FlattenSeq([k \in 1..l |-> d[k]]), FlattenSeq(words))
<1>. DEFINE ss == [k \in 1..l |-> d[k]]
            g == [k \in 1..l |-> <<>>]
            w == FlattenSeq(words)
<1>1. FlattenSeq(ss) = <<>>
  <2>1. CASE l = 0
    <3>1. ss = <<>>
      BY <2>1
    <3>. HIDE DEF ss
    <3>. QED  BY <3>1, FlattenNone
  <2>2. CASE l # 0
    <3>1. \A k \in 1..l : g[k] = <<>> /\ ss[k] = <<>> /\ (k # 1 => k - 1 \in 1..l)
      OBVIOUS
    <3>2. Len(ss) = l /\ l \in Nat \ {0} /\ l \in 1..l /\ <<>> \o <<>> = <<>>
      BY <2>2
    <3>. HIDE DEF ss, g
    <3>3. \A k \in 1..l : g[k] = IF k = 1 THEN ss[k] ELSE g[k - 1] \o ss[k]
      BY <3>1, <3>2
    <3>4. Flattens(g, ss, l)
      BY <3>2, <3>3 DEF Flattens
    <3>5. FlattenSeq(ss) = g[l]
      BY <3>4, FlattenBy
    <3>. QED  BY <3>1, <3>2, <3>5
  <2>. QED  BY <2>1, <2>2
<1>2. w \in Seq(Byte)
  BY FlattenIn
<1>. HIDE DEF ss, w
<1>3. Len(<<>>) <= Len(w) /\ SubSeq(<<>>, 1, Len(<<>>)) = SubSeq(w, 1, Len(<<>>))
  BY <1>2
<1>. QED  BY <1>1, <1>3 DEF IsPrefix, ss, w

\* The reading of the results keeps PiecesOnce.
LEMMA WifiKept ==
  ASSUME DriverInv, Fn = "wifi",
         NEW n, n = In.items, NEW s, s = Chunk(In.size),
         NEW m, m = Pieces(n, s)
  PROVE  PiecesOnce
<1>. DEFINE a(k) == s * (k - 1)
            c(k) == Smaller(s, n - a(k))
<1>1. /\ In \in [first : Nat, items : Nat, size : Nat \ {0}, words : Seq(Seq(Byte)), code : Nat]
      /\ In.size \in {22, 9, 79} /\ In.first + n <= 256
      /\ n \in Nat /\ s \in Nat \ {0} /\ m \in Nat /\ Len(job) = m /\ DOMAIN job = 1..m
      /\ \A k \in 1..m : /\ job[k].op = "read"
                         /\ job[k].args = <<(In.first + a(k)) % 256, c(k), In.code>>
                         /\ job[k].data = <<>> /\ job[k].answer = c(k) * In.size
  <2>1. IsWifiJob(n, s, m)
    BY WifiJob
  <2>. QED  BY <2>1, Zenon DEF IsWifiJob
<1>2. /\ n \in Nat /\ s \in Nat \ {0} /\ m \in Nat
      /\ In.first \in Nat /\ In.first + n <= 256 /\ In.size \in {22, 9, 79}
      /\ In.words \in Seq(Seq(Byte))
  BY <1>1
<1>3. NothingOptional
  BY <1>1, SMTT(40) DEF NothingOptional
<1>4. PICK l \in 0..m : Sent = [k \in 1..l |-> job[k]] /\ (status = "ok" => l = m)
  BY <1>1, <1>3, SentIs
<1>5. l \in Nat /\ \A k \in 1..l : k \in 1..m
  BY <1>1
<1>6. Len(Moving) = l /\ DOMAIN Moving = 1..l /\ \A k \in 1..l : Moving[k] = job[k]
  BY <1>4, <1>5, MovingIs
<1>7. ASSUME NEW k \in 1..l PROVE Items(Moving[k]) = c(k) /\ FirstIs(Moving[k], a(k))
  <2>1. a(k) \in Nat /\ c(k) \in 1..s /\ c(k) \in Nat /\ a(k) + c(k) <= n
    <3>1. n \in Nat /\ s \in Nat \ {0} /\ k \in 1..Pieces(n, s)
      BY <1>2, <1>5
    <3>2. /\ s * (k - 1) \in Nat
          /\ Smaller(s, n - s * (k - 1)) \in 1..s
          /\ s * (k - 1) + Smaller(s, n - s * (k - 1)) <= n
      BY <3>1, PlaceOf
    <3>. QED  BY <1>2, <3>2
  <2>. HIDE DEF a, c
  <2>2. /\ Moving[k].args = <<(In.first + a(k)) % 256, c(k), In.code>>
        /\ Moving[k].answer = c(k) * In.size
    BY <1>1, <1>5, <1>6
  <2>. DEFINE p == a(k)
              q == c(k)
              f == In.first
              z == In.size
  <2>3. /\ p \in Nat /\ q \in Nat /\ q # 0 /\ q <= s /\ p + q <= n /\ f \in Nat /\ f + n <= 256
        /\ z \in {22, 9, 79} /\ s = Smaller(1020 \div z, N_RESULTS_MAX_PER_CHUNK)
    BY <1>2, <2>1 DEF Chunk
  <2>4. /\ Items(Moving[k]) = Moving[k].args[2]
        /\ FirstIs(Moving[k], p) = /\ Moving[k].args[1] = f + p
                                   /\ Moving[k].answer = Moving[k].args[2] * z
                                   /\ Moving[k].answer <= 1020
    BY ZenonT(60) DEF Items, FirstIs, Words
  <2>5. Moving[k].args[1] = (f + p) % 256 /\ Moving[k].args[2] = q /\ Moving[k].answer = q * z
    BY <2>2
  <2>. HIDE DEF p, q, f, z
  <2>6. (f + p) % 256 = f + p
    <3>1. f + p \in Nat /\ f + p < 256
      BY <1>2, <2>3
    <3>. QED  BY <3>1
  <2>7. N_RESULTS_MAX_PER_CHUNK \in Nat
    BY BuildAssumption
  <2>8. q * z <= 1020
    <3>1. CASE z = 22 BY <2>3, <2>7, <3>1 DEF Smaller
    <3>2. CASE z = 9 BY <2>3, <2>7, <3>2 DEF Smaller
    <3>3. CASE z = 79 BY <2>3, <2>7, <3>3 DEF Smaller
    <3>. QED  BY <2>3, <3>1, <3>2, <3>3
  <2>9. Items(Moving[k]) = q /\ FirstIs(Moving[k], p)
    BY <2>4, <2>5, <2>6, <2>8
  <2>. QED  BY <2>9 DEF p, q
<1>8. IsPrefix(FlattenSeq([k \in DOMAIN Moving |-> Moving[k].data]), FlattenSeq(In.words))
  <2>. DEFINE b == [k \in 1..l |-> Moving[k].data]
              words == In.words
  <2>1. (\A k \in 1..l : b[k] = <<>>) /\ words \in Seq(Seq(Byte))
    <3>. HIDE DEF a, c
    <3>1. \A k \in 1..m : job[k].data = <<>>
      BY <1>1
    <3>. HIDE DEF words
    <3>. QED  BY <1>2, <1>5, <1>6, <3>1, ZenonT(60) DEF words
  <2>2. [k \in 1..l |-> b[k]] = [k \in DOMAIN Moving |-> Moving[k].data]
    BY <1>6
  <2>. HIDE DEF b, words
  <2>3. IsPrefix(FlattenSeq([k \in 1..l |-> b[k]]), FlattenSeq(words))
    BY <1>5, <2>1, NoData
  <2>. QED  BY <2>2, <2>3 DEF words
<1>9. Fn \in Loops
  BY DEF Loops
<1>10. \A k \in 1..l : /\ Items(Moving[k]) = Smaller(s, n - s * (k - 1))
                        /\ FirstIs(Moving[k], s * (k - 1))
  BY <1>7
<1>. HIDE DEF a, c
<1>. QED  BY <1>2, <1>4, <1>6, <1>8, <1>9, <1>10, SplitKept, ZenonT(60)

(***************************************************************************)
(* The loops that read: the almanac.                                       *)
(***************************************************************************)

\* The transactions that read the almanac back (lr11xx_gnss.c:740).
LEMMA AlmanacJob ==
  ASSUME DriverInv, Fn = "read_almanac", NEW m, m = ALMANAC_BURSTS
  PROVE  /\ In \in [first : Nat, items : Nat, size : Nat \ {0}, words : Seq(Seq(Byte)), code : Nat]
         /\ In.items = Burst * m /\ In.first + Burst * m <= TOP
         /\ m \in Nat /\ Len(job) = m + 1 /\ DOMAIN job = 1..(m + 1)
         /\ job[1].op = "read"
         /\ \A k \in 1..m :
              /\ job[k + 1].op = "read" /\ job[k + 1].oc = Regmem!Cmd.read_regmem32[1]
              /\ job[k + 1].args = Bytes(4, In.first + Burst * (k - 1)) \o <<47>>
              /\ job[k + 1].data = <<>> /\ job[k + 1].answer = Burst
<1>1. IsLoopInput(Fn, In) /\ job = LoopProgram(Fn, In)
  BY CallIs DEF IsComputed, Loops
<1>2. /\ In \in [first : Nat, items : Nat, size : Nat \ {0}, words : Seq(Seq(Byte)), code : Nat]
      /\ In.items = ALMANAC_BURSTS * 4 * Gnss!ALMANAC_READ_WORDS /\ In.first + In.items <= TOP
  BY <1>1 DEF IsLoopInput
<1>3. m \in Nat
  BY BuildAssumption
<1>4. In.items = Burst * m /\ In.first + Burst * m <= TOP
  BY <1>2, <1>3 DEF Burst, Gnss!ALMANAC_READ_WORDS
<1>. DEFINE where == Transaction("read", Gnss!Cmd.almanac_read, <<>>, <<>>, 6)
            a(k) == In.first + Burst * (k - 1)
            T == [k \in 1..m |-> Transaction("read", Regmem!Cmd.read_regmem32,
                                             Bytes(4, a(k)) \o <<47>>, <<>>, Burst)]
<1>5. job = <<where>> \o Joined([k \in 1..m |-> <<T[k]>>])
  <2>. DEFINE b(k) == In.first + (k - 1) * 4 * 47
              P(k) == <<Transaction("read", Regmem!Cmd.read_regmem32,
                                    Bytes(4, b(k)) \o <<47>>, <<>>, 4 * 47)>>
              Q(k) == Gnss!Regmem!read_regmem32(Gnss!Bytes(4, b(k)), 47)
  <2>1. job = Gnss!read_almanac(In.first)
    BY <1>1 DEF LoopProgram, Words
  <2>2. Gnss!read_almanac(In.first)
          = Gnss!get_almanac_address_size \o Gnss!Joined([k \in 1..m |-> Q(k)])
    BY DEF Gnss!read_almanac, Gnss!ALMANAC_READ_WORDS
  <2>3. Gnss!get_almanac_address_size = <<where>>
    BY DEF Gnss!get_almanac_address_size, Gnss!Read, Gnss!Transaction, Transaction
  <2>4. \A k \in 1..m : Q(k) = P(k)
    <3>. HIDE DEF b
    <3>. QED
      BY DEF Gnss!Regmem!read_regmem32, Gnss!Regmem!MAX_WRITE_READ_WORDS, Gnss!Regmem!Read,
         Gnss!Regmem!Transaction, Gnss!Regmem!Cmd, Gnss!Bytes, Transaction, Regmem!Cmd, Bytes
  <2>5. \A k \in 1..m : P(k) = <<T[k]>>
    <3>1. \A k \in 1..m : b(k) = a(k)
      BY <1>2 DEF Burst
    <3>2. 4 * 47 = Burst
      BY DEF Burst
    <3>. HIDE DEF a, b
    <3>. QED  BY <3>1, <3>2
  <2>. HIDE DEF P, Q, T, where
  <2>6. [k \in 1..m |-> Q(k)] = [k \in 1..m |-> <<T[k]>>]
    BY <2>4, <2>5
  <2>. QED  BY <2>1, <2>2, <2>3, <2>6, JoinedSame
<1>6. job = <<where>> \o [k \in 1..m |-> T[k]]
  <2>. HIDE DEF T, where
  <2>. QED  BY <1>3, <1>5, JoinedSingles
<1>. DEFINE U == [k \in 1..m |-> T[k]]
            S == {where} \cup {T[k] : k \in 1..m}
<1>7. U \in Seq(S) /\ Len(U) = m /\ where \in S /\ \A k \in 1..m : U[k] = T[k]
  <2>. HIDE DEF T, where
  <2>. QED  BY <1>3
<1>8. /\ Len(job) = m + 1 /\ DOMAIN job = 1..(m + 1) /\ job[1] = where
      /\ \A k \in 1..m : job[k + 1] = T[k]
  <2>1. job = <<where>> \o U
    BY <1>6
  <2>. HIDE DEF T, where, U, S
  <2>2. <<where>> \in Seq(S) /\ Len(<<where>>) = 1 /\ <<where>>[1] = where
    BY <1>7
  <2>. DEFINE w == <<where>>
  <2>. HIDE DEF w
  <2>3. w \in Seq(S) /\ Len(w) = 1 /\ w[1] = where /\ job = w \o U
    BY <2>1, <2>2 DEF w
  <2>4. /\ w \o U \in Seq(S) /\ Len(w \o U) = Len(w) + Len(U)
        /\ \A i \in 1..(Len(w) + Len(U)) :
             (w \o U)[i] = IF i <= Len(w) THEN w[i] ELSE U[i - Len(w)]
    BY <1>7, <2>3, ConcatProperties
  <2>. DEFINE v == w \o U
  <2>. HIDE DEF v
  <2>5. Len(v) = 1 + m /\ DOMAIN v = 1..(1 + m) /\ v[1] = where
    BY <1>3, <1>7, <2>3, <2>4 DEF v
  <2>6. \A k \in 1..m : v[k + 1] = T[k]
    BY <1>3, <1>7, <2>3, <2>4 DEF v
  <2>7. 1 + m = m + 1
    BY <1>3
  <2>. QED  BY <2>3, <2>5, <2>6, <2>7 DEF v
<1>9. \A k \in 1..m : /\ T[k].op = "read" /\ T[k].oc = Regmem!Cmd.read_regmem32[1]
                      /\ T[k].args = Bytes(4, a(k)) \o <<47>>
                      /\ T[k].data = <<>> /\ T[k].answer = Burst
  <2>. HIDE DEF a
  <2>. QED  BY DEF Transaction
<1>10. job[1].op = "read"
  BY <1>8 DEF Transaction
<1>. HIDE DEF T
<1>11. \A k \in 1..m : /\ job[k + 1].op = "read" /\ job[k + 1].oc = Regmem!Cmd.read_regmem32[1]
                       /\ job[k + 1].args = Bytes(4, a(k)) \o <<47>>
                       /\ job[k + 1].data = <<>> /\ job[k + 1].answer = Burst
  <2>. HIDE DEF a
  <2>. QED  BY <1>8, <1>9
<1>. QED  BY <1>2, <1>3, <1>4, <1>8, <1>10, <1>11

\* The reading of the almanac keeps PiecesOnce.
LEMMA AlmanacKept ==
  ASSUME DriverInv, Fn = "read_almanac"
  PROVE  PiecesOnce
<1>. DEFINE m == ALMANAC_BURSTS
            n == Burst * m
            first == In.first
            words == In.words
<1>1. /\ In \in [first : Nat, items : Nat, size : Nat \ {0}, words : Seq(Seq(Byte)), code : Nat]
      /\ In.items = n /\ first + n <= TOP
      /\ m \in Nat /\ Len(job) = m + 1 /\ DOMAIN job = 1..(m + 1)
      /\ job[1].op = "read"
      /\ \A k \in 1..m :
           /\ job[k + 1].op = "read" /\ job[k + 1].oc = Regmem!Cmd.read_regmem32[1]
           /\ job[k + 1].args = Bytes(4, first + Burst * (k - 1)) \o <<47>>
           /\ job[k + 1].data = <<>> /\ job[k + 1].answer = Burst
  BY AlmanacJob
<1>2. m \in Nat /\ first \in Nat /\ words \in Seq(Seq(Byte)) /\ In.items = n /\ first + n <= TOP
  BY <1>1
<1>3. /\ m = Pieces(n, Burst) /\ n \in Nat /\ Burst \in Nat \ {0}
      /\ \A k \in 1..m : Smaller(Burst, n - Burst * (k - 1)) = Burst
  <2>. HIDE DEF m
  <2>. QED  BY <1>2, AlmanacPieces
<1>. HIDE DEF m, first, words
<1>4. NothingOptional
  <2>1. \A i \in 1..(m + 1) : i = 1 \/ (i - 1 \in 1..m /\ (i - 1) + 1 = i)
    BY <1>2
  <2>. QED  BY <1>1, <2>1 DEF NothingOptional
<1>5. PICK j \in 0..(m + 1) : Sent = [k \in 1..j |-> job[k]] /\ (status = "ok" => j = m + 1)
  BY <1>1, <1>4, SentIs
<1>. DEFINE l == IF j = 0 THEN 0 ELSE j - 1
<1>6. j \in Nat /\ l \in 0..m /\ l \in Nat /\ (status = "ok" => l = m) /\ \A k \in 1..l : k \in 1..m
  BY <1>2, <1>5
<1>7. Len(Moving) = l /\ DOMAIN Moving = 1..l /\ \A k \in 1..l : Moving[k] = job[k + 1]
  BY <1>5, <1>6, MovingIs
<1>. HIDE DEF l, n
<1>8. ASSUME NEW k \in 1..l
      PROVE  /\ Items(Moving[k]) = Smaller(Burst, n - Burst * (k - 1))
             /\ FirstIs(Moving[k], Burst * (k - 1))
  <2>. DEFINE x == first + Burst * (k - 1)
              v == Bytes(4, x)
  <2>1. /\ Moving[k].oc = Regmem!Cmd.read_regmem32[1] /\ Moving[k].answer = Burst
        /\ Moving[k].args = v \o <<47>>
    BY <1>1, <1>6, <1>7, ZenonT(60) DEF first
  <2>2. Items(Moving[k]) = Smaller(Burst, n - Burst * (k - 1))
    BY <1>3, <1>6, <2>1 DEF Items, Words
  <2>3. x \in Nat /\ ((x \div 256) \div 256) \div 256 < 256
    <3>1. x \in Nat /\ x <= TOP
      BY <1>2, <1>6, SMT DEF Burst, TOP, n
    <3>. HIDE DEF x
    <3>. QED  BY <3>1, SMT DEF TOP
  <2>. HIDE DEF x
  <2>4. Value(v) = x
    BY <2>3, ValueBytes
  <2>5. v \in Seq(0..255) /\ Len(v) = 4
    BY <2>3, BytesIn
  <2>. HIDE DEF v
  <2>6. SubSeq(v \o <<47>>, 1, 4) = v
    <3>. DEFINE t == <<47>>
    <3>1. t \in Seq(0..255)
      OBVIOUS
    <3>. HIDE DEF t
    <3>2. SubSeq(v \o t, 1, Len(v)) = v
      BY <2>5, <3>1, HeadKept
    <3>. QED  BY <2>5, <3>2 DEF t
  <2>7. FirstIs(Moving[k], Burst * (k - 1))
    BY <2>1, <2>4, <2>6, Zenon DEF FirstIs, Words, first, x
  <2>. QED  BY <2>2, <2>7
<1>9. IsPrefix(FlattenSeq([k \in DOMAIN Moving |-> Moving[k].data]), FlattenSeq(words))
  <2>. DEFINE b == [k \in 1..l |-> Moving[k].data]
  <2>1. \A k \in 1..l : b[k] = <<>>
    BY <1>1, <1>6, <1>7
  <2>2. [k \in 1..l |-> b[k]] = [k \in DOMAIN Moving |-> Moving[k].data]
    BY <1>7
  <2>. HIDE DEF b
  <2>3. IsPrefix(FlattenSeq([k \in 1..l |-> b[k]]), FlattenSeq(words))
    BY <1>2, <1>6, <2>1, NoData
  <2>. QED  BY <2>2, <2>3
<1>10. Fn \in Loops
  BY DEF Loops
<1>11. In.items = n /\ IsPrefix(FlattenSeq([k \in DOMAIN Moving |-> Moving[k].data]), FlattenSeq(In.words))
  BY <1>2, <1>9 DEF words
<1>. QED  BY <1>3, <1>6, <1>7, <1>8, <1>10, <1>11, SplitKept

\* Every state of the invariant keeps PiecesOnce.
LEMMA PiecesKept == DriverInv => PiecesOnce
<1>. SUFFICES ASSUME DriverInv PROVE PiecesOnce
  OBVIOUS
<1>1. CASE Fn \in Writes
  BY <1>1, WritesKept
<1>2. CASE Fn = "wifi"
  BY <1>2, WifiKept
<1>3. CASE Fn = "read_almanac"
  BY <1>3, AlmanacKept
<1>4. CASE Fn \notin Loops
  BY <1>4 DEF PiecesOnce
<1>. QED  BY <1>1, <1>2, <1>3, <1>4 DEF Loops

\* A transfer that is split into pieces moves each item once and in order, and on success
\* all of them, for every size, every piece size and every failure: the flash of the
\* bootloader, the firmware image, the almanac both ways and the results of a Wi-Fi
\* scan (lr11xx_bootloader.c:217-244, lr11xx_crypto_engine.c:519-547, lr11xx_gnss.c:280-351,
\* lr11xx_wifi.c:667).
THEOREM DriverPieces == DriverSpec => []PiecesOnce
<1>. QED  BY DriverInvariant, PiecesKept, PTL

(***************************************************************************)
(* Times: quotients rounded up, GFSK and a LoRa symbol.                    *)
(***************************************************************************)

\* What a computed call returns, and from which inputs.
LEMMA ResultIs ==
  ASSUME DriverInv
  PROVE  /\ Fn \in Times \cup Settings \cup Answers => Out = Result(Fn, In)
         /\ Fn \in Timers => IsTimerInput(Fn, In) /\ job = TimerProgram(Fn, In)
         /\ IsTimeInput(Fn, In) /\ IsSettingInput(Fn, In) /\ IsAnswerInput(Fn, In)
<1>1. IsComputed(Calls[call]) /\ job = Calls[call].program
      /\ Fn = Calls[call].fn /\ In = Calls[call].in /\ Out = Calls[call].out
  BY CallIs
<1>. QED  BY <1>1 DEF IsComputed

\* Milliseconds of a number of units, rounded up.
LEMMA MsIs ==
  ASSUME NEW n \in Nat, NEW rate \in Nat \ {0}, NEW ms, ms = Radio!Ceil(1000 * n, rate)
  PROVE  InMs(ms, n, rate)
<1>. DEFINE a == 1000 * n
<1>1. a \in Nat
  OBVIOUS
<1>2. ms = (a + rate - 1) \div rate
  BY DEF Radio!Ceil
<1>. HIDE DEF a
<1>3. rate * (ms - 1) < a
  BY <1>1, <1>2, CeilIs
<1>4. a <= rate * ms
  BY <1>1, <1>2, CeilIs
<1>. QED  BY <1>3, <1>4 DEF InMs, a

\* The time on air of a GFSK frame (lr11xx_radio.c:1033).
LEMMA GfskTime ==
  ASSUME DriverInv, Fn = "gfsk_time"
  PROVE  InMs(Out, Radio!get_gfsk_time_on_air_numerator(In.pkt), In.rate)
<1>. DEFINE n == Radio!get_gfsk_time_on_air_numerator(In.pkt)
            pkt == In.pkt
            b1 == Radio!GfskHeaderBits[pkt.header_type]
            b2 == Radio!GfskCrcBytes[pkt.crc_type]
            b3 == IF pkt.address_filtering THEN 1 ELSE 0
<1>1. In \in GfskFrames /\ Out = Result(Fn, In)
  BY ResultIs DEF IsTimeInput, Times
<1>2. pkt.preamble_len_in_bits \in Nat /\ pkt.sync_word_len_in_bits \in Nat
      /\ pkt.pld_len_in_bytes \in Nat /\ In.rate \in Nat \ {0}
  <2>1. Short \subseteq Nat /\ Byte \subseteq Nat /\ 1..TOP \subseteq Nat \ {0}
    BY SMT DEF Short, Byte
  <2>. QED  BY <1>1, <2>1 DEF GfskFrames
<1>3. b1 \in Nat
  <2>1. pkt.header_type \in {"FIX_LEN", "VAR_LEN", "VAR_LEN_SX128X_COMP"}
    <3>1. pkt.header_type \in DOMAIN Radio!GfskHeaderBits
      BY <1>1 DEF GfskFrames
    <3>. QED  BY <3>1 DEF Radio!GfskHeaderBits
  <2>. QED  BY <2>1 DEF Radio!GfskHeaderBits
<1>4. b2 \in Nat
  <2>1. pkt.crc_type \in {"OFF", "ONE_BYTE", "TWO_BYTES", "ONE_BYTE_INV", "TWO_BYTES_INV"}
    <3>1. pkt.crc_type \in DOMAIN Radio!GfskCrcBytes
      BY <1>1 DEF GfskFrames
    <3>. QED  BY <3>1 DEF Radio!GfskCrcBytes
  <2>. QED  BY <2>1 DEF Radio!GfskCrcBytes
<1>5. b3 \in Nat
  OBVIOUS
<1>6. n = pkt.preamble_len_in_bits + b1 + pkt.sync_word_len_in_bits
          + 8 * (pkt.pld_len_in_bytes + b3 + b2)
  BY DEF Radio!get_gfsk_time_on_air_numerator
<1>. HIDE DEF b1, b2, b3, pkt
<1>7. n \in Nat
  BY <1>2, <1>3, <1>4, <1>5, <1>6
<1>8. Out = Radio!Ceil(1000 * n, In.rate)
  BY <1>1 DEF Result, Radio!get_gfsk_time_on_air_in_ms, Times
<1>. HIDE DEF n
<1>9. InMs(Out, n, In.rate)
  BY <1>2, <1>7, <1>8, MsIs
<1>. QED  BY <1>9 DEF n

\* Every LoRa bandwidth has its hertz (lr11xx_radio.c:1114).
LEMMA BandwidthIs ==
  ASSUME NEW bw \in DOMAIN Radio!BwInHz
  PROVE  /\ Radio!BwInHz[bw] \in Nat \ {0}
         /\ Radio!get_lora_bw_in_hz(bw) = Radio!BwInHz[bw]
<1>1. bw \in {8, 1, 9, 2, 10, 3, 4, 5, 6, 13, 14, 15}
  BY DEF Radio!BwInHz
<1>2. Radio!BwInHz[bw] \in Nat \ {0}
  BY <1>1 DEF Radio!BwInHz
<1>3. Radio!get_lora_bw_in_hz(bw) = Radio!BwInHz[bw]
  BY DEF Radio!get_lora_bw_in_hz
<1>. QED  BY <1>2, <1>3

\* The time of a LoRa symbol is cut to microseconds.
LEMMA SymbolTime ==
  ASSUME DriverInv, Fn = "symbol_time", NEW hz, hz = Radio!BwInHz[In.bw]
  PROVE  hz * Out <= 1000000 * 2^In.sf /\ 1000000 * 2^In.sf < hz * (Out + 1)
<1>. DEFINE p == 2^In.sf
            million == 1000000
<1>1. In \in [sf : 5..11, bw : DOMAIN Radio!BwInHz] /\ Out = Result("symbol_time", In)
  BY ResultIs, SMT DEF IsTimeInput, Times
<1>2. hz \in Nat \ {0} /\ Radio!get_lora_bw_in_hz(In.bw) = hz
  BY <1>1, BandwidthIs
<1>3. p \in Nat /\ million \in Nat
  <2>1. In.sf \in 5..12
    BY <1>1
  <2>. HIDE DEF million
  <2>2. p \in Nat
    BY <2>1, PowersIn
  <2>3. million \in Nat
    BY SMT DEF million
  <2>. QED  BY <2>2, <2>3
<1>4. Out = p * (million \div hz) + (p * (million % hz)) \div hz
  BY <1>1, <1>2, SMT DEF Result, Radio!get_lora_symb_time_in_us
<1>. HIDE DEF p, million
<1>5. hz * Out <= p * million /\ p * million < hz * (Out + 1)
  BY <1>2, <1>3, <1>4, QuotientApart
<1>6. p * million = million * p
  BY <1>3
<1>. QED  BY <1>5, <1>6, SMT DEF p, million

(***************************************************************************)
(* Times: LR-FHSS and LoRa.                                                *)
(***************************************************************************)

\* The bits of an LR-FHSS payload, coded.
LEMMA CodedBitsIs ==
  ASSUME NEW len \in Nat, NEW cr \in 0..3
  PROVE  /\ CodedBits(len, cr) = LrFhss!CodedBits(cr, 8 * (len + 2) + 6)
         /\ CodedBits(len, cr) \in Nat
<1>. DEFINE b == 8 * (len + 2) + 6
            up == <<5, 2, 1, 1>>[cr + 1]
            down == <<6, 3, 2, 3>>[cr + 1]
            P(n) == n * up >= b * down /\ (n - 1) * up < b * down
            x == LrFhss!CodedBits(cr, b)
<1>1. b \in Nat \ {0} /\ b % 2 = 0
  OBVIOUS
<1>2. CodedBits(len, cr) = CHOOSE n \in b..3 * b : P(n)
  BY DEF CodedBits
<1>. HIDE DEF b
<1>3. x \in b..3 * b /\ P(x) /\ \A n \in b..3 * b : P(n) => n = x
  <2>1. CASE cr = 0
    <3>1. up = 5 /\ down = 6 /\ x = (6 * b + 4) \div 5
      BY <2>1 DEF LrFhss!CodedBits
    <3>. HIDE DEF up, down, x
    <3>. QED  BY <1>1, <3>1
  <2>2. CASE cr = 1
    <3>1. up = 2 /\ down = 3 /\ x = (3 * b) \div 2
      BY <2>2 DEF LrFhss!CodedBits
    <3>. HIDE DEF up, down, x
    <3>. QED  BY <1>1, <3>1
  <2>3. CASE cr = 2
    <3>1. up = 1 /\ down = 2 /\ x = 2 * b
      BY <2>3 DEF LrFhss!CodedBits
    <3>. HIDE DEF up, down, x
    <3>. QED  BY <1>1, <3>1
  <2>4. CASE cr = 3
    <3>1. up = 1 /\ down = 3 /\ x = 3 * b
      BY <2>4 DEF LrFhss!CodedBits
    <3>. HIDE DEF up, down, x
    <3>. QED  BY <1>1, <3>1
  <2>. QED  BY <2>1, <2>2, <2>3, <2>4
<1>. HIDE DEF P, x
<1>4. CodedBits(len, cr) = x
  BY <1>2, <1>3
<1>5. x \in Nat
  BY <1>1, <1>3
<1>. QED  BY <1>4, <1>5 DEF b, x

\* The time on air of an LR-FHSS frame (lr11xx_lr_fhss.c:230).
LEMMA LrFhssTime ==
  ASSUME DriverInv, Fn = "lr_fhss_time",
         NEW coded, coded = CodedBits(In.len, In.cr),
         NEW bits, bits = 114 * In.headers + coded + 2 * ((coded + 47) \div 48)
  PROVE  InMs(Out, 256 * bits, 125000)
<1>. DEFINE p == [cr |-> In.cr, header_count |-> In.headers]
            nb == LrFhss!get_nb_bits(p, In.len)
<1>1. In \in [len : Byte, cr : 0..3, headers : 1..4] /\ Out = Result(Fn, In)
  BY ResultIs DEF IsTimeInput, Times
<1>2. In.len \in Nat /\ In.cr \in 0..3 /\ In.headers \in Nat
  BY <1>1, SMT DEF Byte
<1>3. coded \in Nat /\ coded = LrFhss!CodedBits(In.cr, 8 * (In.len + 2) + 6)
  BY <1>2, CodedBitsIs
<1>4. nb = 114 * In.headers + (coded \div 48) * (48 + 2)
             + IF coded % 48 > 0 THEN (coded % 48) + 2 ELSE 0
  BY <1>3 DEF LrFhss!get_nb_bits, LrFhss!FRAG_BITS, LrFhss!HEADER_BITS, LrFhss!BLOCK_PREAMBLE_BITS
<1>5. Out = (256 * nb + 124) \div 125
  BY <1>1 DEF Result, LrFhss!get_time_on_air_in_ms, Times
<1>. HIDE DEF nb
<1>6. nb = bits /\ nb \in Nat
  BY <1>2, <1>3, <1>4
<1>. DEFINE a == 256 * nb
<1>7. a \in Nat /\ Out = (a + 125 - 1) \div 125
  BY <1>5, <1>6
<1>. HIDE DEF a
<1>8. Out \in Nat /\ 125 * (Out - 1) < a /\ a <= 125 * Out
  BY <1>7
<1>9. InMs(Out, a, 125000)
  BY <1>7, <1>8, SMT DEF InMs
<1>. QED  BY <1>6, <1>9 DEF a

\* The least number of coding blocks with room for the bits beside the header.
IsBlocks(blocks, bits, room, block) ==
  /\ blocks \in Nat
  /\ blocks = CHOOSE k \in 0..bits : /\ room + block * k >= bits
                                     /\ k = 0 \/ room + block * (k - 1) < bits

\* The blocks that hold the bits of a frame after its header symbols.
LEMMA BlocksAre ==
  ASSUME NEW bits \in Nat, NEW room \in Nat, NEW block \in Nat \ {0},
         NEW rest, rest = (IF bits - room < 0 THEN 0 ELSE bits - room),
         NEW blocks, blocks = Radio!Ceil(rest, block)
  PROVE  IsBlocks(blocks, bits, room, block)
<1>. DEFINE P(k) == room + block * k >= bits /\ (k = 0 \/ room + block * (k - 1) < bits)
<1>1. rest \in Nat /\ rest <= bits
  OBVIOUS
<1>2. blocks = (rest + block - 1) \div block
  BY DEF Radio!Ceil
<1>3. blocks \in Nat /\ block * (blocks - 1) < rest /\ rest <= block * blocks
  BY <1>1, <1>2, CeilIs
<1>4. blocks = 0 \/ rest > 0
  <2>1. ASSUME blocks # 0 PROVE rest > 0
    <3>1. blocks - 1 \in Nat
      BY <1>3, <2>1
    <3>. DEFINE z == blocks - 1
    <3>. HIDE DEF z
    <3>2. block * z \in Nat
      BY <3>1 DEF z
    <3>. QED  BY <1>1, <1>3, <3>2 DEF z
  <2>. QED  BY <2>1
<1>5. \A k \in Nat : P(k) <=> rest <= block * k /\ (k = 0 \/ block * (k - 1) < rest)
  <2>. SUFFICES ASSUME NEW k \in Nat
                PROVE  P(k) <=> rest <= block * k /\ (k = 0 \/ block * (k - 1) < rest)
    OBVIOUS
  <2>. DEFINE y == block * k
              z == block * (k - 1)
  <2>1. y \in Nat /\ z \in Int /\ (k # 0 => z \in Nat)
    <3>1. y \in Nat
      OBVIOUS
    <3>2. k # 0 => k - 1 \in Nat
      OBVIOUS
    <3>. QED  BY <3>1, <3>2
  <2>. HIDE DEF y, z
  <2>2. /\ rest <= y <=> room + y >= bits
        /\ k # 0 => (z < rest <=> room + z < bits)
    BY <2>1
  <2>. QED  BY <2>2 DEF y, z
<1>6. P(blocks) /\ blocks \in 0..bits
  <2>1. P(blocks)
    BY <1>3, <1>5
  <2>2. blocks <= bits
    <3>1. CASE blocks = 0
      BY <3>1
    <3>2. CASE blocks # 0
      <4>. DEFINE z == blocks - 1
      <4>1. z \in Nat /\ blocks = z + 1
        BY <1>3, <3>2
      <4>. HIDE DEF z
      <4>2. z <= block * z
        BY <4>1
      <4>. QED  BY <1>1, <1>3, <4>1, <4>2 DEF z
    <3>. QED  BY <3>1, <3>2
  <2>. QED  BY <1>3, <2>1, <2>2
<1>7. \A k \in 0..bits : P(k) => k = blocks
  <2>. SUFFICES ASSUME NEW k \in 0..bits, P(k) PROVE k = blocks
    OBVIOUS
  <2>1. k \in Nat
    OBVIOUS
  <2>2. rest <= block * k /\ (k = 0 \/ block * (k - 1) < rest)
    BY <1>5, <2>1
  <2>. QED  BY <1>1, <1>3, <2>1, <2>2, OneQuotient
<1>8. blocks = CHOOSE k \in 0..bits : P(k)
  <2>. HIDE DEF P
  <2>. QED  BY <1>6, <1>7
<1>. QED  BY <1>3, <1>8 DEF IsBlocks

\* Bytes and 16-bit numbers are naturals.
LEMMA BytesAreNat == Short \subseteq Nat /\ Byte \subseteq Nat
<1>. QED  BY SMT DEF Short, Byte

\* The samples of a LoRa frame, as the driver counts them.
LEMMA SamplesAre ==
  ASSUME NEW pkt, pkt \in [preamble_len_in_symb : Short, pld_len_in_bytes : Byte,
                           crc : BOOLEAN, implicit : BOOLEAN],
         NEW mod, mod \in [sf : 5..12, cr : 1..4, ldro : 0..1, bw : DOMAIN Radio!BwInHz]
  PROVE  /\ Radio!get_lora_time_on_air_numerator(pkt, mod) = Samples(pkt, mod) - 1
         /\ Radio!get_lora_time_on_air_numerator(pkt, mod) \in Nat
         /\ Samples(pkt, mod) \in Nat
<1>. DEFINE sf == mod.sf
            cr == mod.cr
            pre == pkt.preamble_len_in_symb
            crc == IF pkt.crc THEN 2 ELSE 0
            bytes == pkt.pld_len_in_bytes + crc
            bits == 8 * bytes
            hdr == IF pkt.implicit THEN 0 ELSE 20
            fs == IF sf <= 6 THEN 1 ELSE 0
            low == IF mod.ldro # 0 THEN 2 ELSE 0
            per == sf - low
            start == 4 * sf + 8 * fs - 8 - hdr
            rest == IF bits - start < 0 THEN 0 ELSE bits - start
            blocks == Radio!Ceil(rest, 4 * per)
            q == 2^(sf - 2)
            room == 4 * (IF sf > 6 THEN sf - 2 ELSE sf) - hdr
            block == 4 * (sf - 2 * mod.ldro)
            chosen == CHOOSE k \in 0..bits : /\ room + block * k >= bits
                                             /\ k = 0 \/ room + block * (k - 1) < bits
            num == Radio!get_lora_time_on_air_numerator(pkt, mod)
<1>1. /\ sf \in 5..12 /\ cr \in 1..4 /\ mod.ldro \in {0, 1}
      /\ pre \in Nat /\ pkt.pld_len_in_bytes \in Nat
  <2>1. sf \in 5..12 /\ cr \in 1..4 /\ mod.ldro \in {0, 1}
    OBVIOUS
  <2>2. pre \in Short /\ pkt.pld_len_in_bytes \in Byte
    OBVIOUS
  <2>. HIDE DEF sf, cr, pre
  <2>. QED  BY <2>1, <2>2, BytesAreNat
<1>2. num = (4 * (pre + 4 + 2 * fs + (blocks * (cr + 4) + 8)) + 1) * q - 1
  <2>1. cr <= 4
    BY <1>1
  <2>. QED  BY <2>1 DEF Radio!get_lora_time_on_air_numerator
<1>3. Samples(pkt, mod)
        = ((4 * pre + 17 + IF sf <= 6 THEN 8 ELSE 0) + 4 * 8 + 4 * chosen * (cr + 4)) * q
  BY DEF Samples
<1>4. /\ room = start /\ block = 4 * per /\ start \in Nat /\ block \in Nat \ {0}
      /\ bits \in Nat /\ q \in Nat
      /\ (IF sf <= 6 THEN 8 ELSE 0) = 8 * fs /\ fs \in Nat
  <2>1. q \in Nat
    BY <1>1, PowersIn
  <2>. HIDE DEF q
  <2>. QED  BY <1>1, <2>1
<1>. HIDE DEF sf, cr, pre, bits, fs, per, start, q, room, block, num
<1>5. blocks = chosen /\ blocks \in Nat
  <2>1. blocks = Radio!Ceil(rest, block)
    BY <1>4
  <2>. HIDE DEF blocks, rest
  <2>2. rest = (IF bits - room < 0 THEN 0 ELSE bits - room)
    BY <1>4 DEF rest
  <2>3. room \in Nat
    BY <1>4
  <2>4. bits \in Nat /\ block \in Nat \ {0}
    BY <1>4
  <2>. HIDE DEF chosen
  <2>5. IsBlocks(blocks, bits, room, block)
    BY <2>1, <2>2, <2>3, <2>4, BlocksAre
  <2>. QED  BY <2>5, Zenon DEF chosen, IsBlocks
<1>. HIDE DEF blocks, chosen
<1>. DEFINE u == 4 * pre + 17 + 8 * fs + 32 + 4 * (blocks * (cr + 4))
<1>6. u \in Nat /\ u > 0
  BY <1>1, <1>4, <1>5
<1>7. num = u * q - 1 /\ Samples(pkt, mod) = u * q
  <2>. DEFINE w == blocks * (cr + 4)
  <2>1. w \in Nat /\ 4 * blocks * (cr + 4) = 4 * w
    BY <1>1, <1>5
  <2>2. Samples(pkt, mod) = ((4 * pre + 17 + 8 * fs) + 4 * 8 + 4 * w) * q
    BY <1>3, <1>4, <1>5, <2>1
  <2>3. num = (4 * (pre + 4 + 2 * fs + (w + 8)) + 1) * q - 1
    BY <1>2
  <2>. HIDE DEF w
  <2>4. /\ (4 * pre + 17 + 8 * fs) + 4 * 8 + 4 * w = 4 * pre + 17 + 8 * fs + 32 + 4 * w
        /\ 4 * (pre + 4 + 2 * fs + (w + 8)) + 1 = 4 * pre + 17 + 8 * fs + 32 + 4 * w
    BY <1>1, <1>4, <2>1
  <2>. QED  BY <2>2, <2>3, <2>4 DEF w
<1>8. q \in Nat \ {0}
  BY <1>1, PowersIn DEF q
<1>. HIDE DEF u
<1>9. u * q \in Nat /\ u * q # 0
  BY <1>6, <1>8
<1>. QED  BY <1>7, <1>9 DEF num

\* The time on air of a LoRa frame (lr11xx_radio.c:1058).
LEMMA LoraTime ==
  ASSUME DriverInv, Fn = "time_on_air"
  PROVE  LET n == Samples(In.pkt, In.mod)
         IN  Out.samples \in n - 1..n /\ InMs(Out.ms, Out.samples, Radio!BwInHz[In.mod.bw])
<1>. DEFINE n == Samples(In.pkt, In.mod)
            num == Radio!get_lora_time_on_air_numerator(In.pkt, In.mod)
            hz == Radio!BwInHz[In.mod.bw]
<1>1. In \in LoraFrames /\ Out = Result(Fn, In)
  BY ResultIs DEF IsTimeInput, Times
<1>2. /\ In.pkt \in [preamble_len_in_symb : Short, pld_len_in_bytes : Byte,
                      crc : BOOLEAN, implicit : BOOLEAN]
      /\ In.mod \in [sf : 5..12, cr : 1..4, ldro : 0..1, bw : DOMAIN Radio!BwInHz]
      /\ In.mod.bw \in DOMAIN Radio!BwInHz
  BY <1>1, Zenon DEF LoraFrames
<1>3. num = n - 1 /\ num \in Nat
  BY <1>2, SamplesAre
<1>4. hz \in Nat \ {0} /\ Radio!get_lora_bw_in_hz(In.mod.bw) = hz
  BY <1>2, BandwidthIs
<1>5. Out.samples = num /\ Out.ms = Radio!Ceil(1000 * num, hz)
  <2>1. Out = [samples |-> num, ms |-> Radio!get_lora_time_on_air_in_ms(In.pkt, In.mod)]
    BY <1>1 DEF Result, Times
  <2>2. Radio!get_lora_time_on_air_in_ms(In.pkt, In.mod) = Radio!Ceil(1000 * num, hz)
    <3>. HIDE DEF hz
    <3>. QED  BY <1>4 DEF Radio!get_lora_time_on_air_in_ms
  <2>. HIDE DEF num, hz
  <2>. QED  BY <2>1, <2>2
<1>6. n \in Nat
  BY <1>2, SamplesAre
<1>. HIDE DEF n, num, hz
<1>7. InMs(Out.ms, Out.samples, hz)
  BY <1>3, <1>4, <1>5, MsIs
<1>8. Out.samples \in n - 1..n
  BY <1>3, <1>5, <1>6
<1>. QED  BY <1>7, <1>8 DEF n, hz

(***************************************************************************)
(* Answers: bytes, a distance, an age, a country.                          *)
(***************************************************************************)

\* Every state of the invariant keeps TimeOnAir.
LEMMA TimeKept == DriverInv => TimeOnAir
<1>. SUFFICES ASSUME DriverInv PROVE TimeOnAir
  OBVIOUS
<1>1. Fn = "time_on_air" =>
        LET n == Samples(In.pkt, In.mod)
        IN  Out.samples \in n - 1..n /\ InMs(Out.ms, Out.samples, Radio!BwInHz[In.mod.bw])
  BY LoraTime
<1>2. Fn = "gfsk_time" => InMs(Out, Radio!get_gfsk_time_on_air_numerator(In.pkt), In.rate)
  BY GfskTime
<1>3. Fn = "lr_fhss_time" =>
        LET coded == CodedBits(In.len, In.cr)
            bits == 114 * In.headers + coded + 2 * ((coded + 47) \div 48)
        IN  InMs(Out, 256 * bits, 125000)
  BY LrFhssTime
<1>4. Fn = "symbol_time" =>
        LET hz == Radio!BwInHz[In.bw]
        IN  hz * Out <= 1000000 * 2^In.sf /\ 1000000 * 2^In.sf < hz * (Out + 1)
  BY SymbolTime, SMT
<1>. QED  BY <1>1, <1>2, <1>3, <1>4, SMT DEF TimeOnAir

\* The fields that a byte of a scan's result holds make it again.
LEMMA ByteFields ==
  ASSUME NEW b \in Byte, NEW o,
         o = [info |-> Wifi!parse_channel_info(b), frame |-> Wifi!parse_frame_type_info(b),
              rate |-> Wifi!parse_data_rate_info(b)]
  PROVE  /\ b % 128 = o.info.channel + 16 * o.info.mac_origin + 64 * Bit(~o.info.rssi_valid)
         /\ b = 64 * o.frame.type + 4 * o.frame.sub_type + 2 * Bit(o.frame.to_ds) + Bit(o.frame.from_ds)
         /\ b = 4 * o.rate.rate + o.rate.signal_type
<1>1. b \in Nat /\ b < 256
  BY SMT DEF Byte
<1>2. /\ o.info.channel = b % 16 /\ o.info.mac_origin = (b \div 16) % 4
      /\ o.info.rssi_valid = ((b \div 64) % 2 = 0)
  BY DEF Wifi!parse_channel_info
<1>3. /\ o.frame.type = b \div 64 /\ o.frame.sub_type = (b \div 4) % 16
      /\ o.frame.to_ds = ((b \div 2) % 2 = 1) /\ o.frame.from_ds = (b % 2 = 1)
  BY DEF Wifi!parse_frame_type_info
<1>4. o.rate.signal_type = b % 4 /\ o.rate.rate = b \div 4
  BY DEF Wifi!parse_data_rate_info
<1>5. b % 128 = (b % 16) + 16 * ((b \div 16) % 4) + 64 * ((b \div 64) % 2)
  BY <1>1
<1>6. b = 64 * (b \div 64) + 4 * ((b \div 4) % 16) + 2 * ((b \div 2) % 2) + (b % 2)
  BY <1>1
<1>7. b = 4 * (b \div 4) + (b % 4)
  BY <1>1
<1>8. Bit(~((b \div 64) % 2 = 0)) = (b \div 64) % 2
  BY <1>1 DEF Bit
<1>9. Bit((b \div 2) % 2 = 1) = (b \div 2) % 2 /\ Bit(b % 2 = 1) = b % 2
  BY <1>1 DEF Bit
<1>10. b % 128 = o.info.channel + 16 * o.info.mac_origin + 64 * Bit(~o.info.rssi_valid)
  BY <1>2, <1>5, <1>8
<1>11. b = 64 * o.frame.type + 4 * o.frame.sub_type + 2 * Bit(o.frame.to_ds) + Bit(o.frame.from_ds)
  BY <1>3, <1>6, <1>9
<1>12. b = 4 * o.rate.rate + o.rate.signal_type
  BY <1>4, <1>7
<1>. QED  BY <1>10, <1>11, <1>12

\* The bytes of a scan's results (lr11xx_wifi.c:437).
LEMMA BytesDecoded ==
  ASSUME DriverInv, Fn = "bytes", NEW b \in In, NEW o, o = Out[b]
  PROVE  /\ b % 128 = o.info.channel + 16 * o.info.mac_origin + 64 * Bit(~o.info.rssi_valid)
         /\ b = 64 * o.frame.type + 4 * o.frame.sub_type + 2 * Bit(o.frame.to_ds) + Bit(o.frame.from_ds)
         /\ b = 4 * o.rate.rate + o.rate.signal_type
<1>1. In \subseteq Byte /\ Out = Result(Fn, In)
  BY ResultIs DEF IsAnswerInput, Answers
<1>2. b \in Byte
  BY <1>1
<1>3. o = [info |-> Wifi!parse_channel_info(b), frame |-> Wifi!parse_frame_type_info(b),
           rate |-> Wifi!parse_data_rate_info(b)]
  BY <1>1 DEF Result, Times, Settings
<1>. HIDE DEF Out
<1>. QED  BY <1>2, <1>3, ByteFields

\* A distance is right to a metre (lr11xx_rttof.c:157).
LEMMA DistanceDecoded ==
  ASSUME DriverInv, Fn = "distance",
         NEW error, error = 4096 * Out - 300 * Rttof!BwScaling(In.bw) * In.raw
  PROVE  -4096 < error /\ error < 4096
<1>. DEFINE scale == Rttof!BwScaling(In.bw)
            sent == IF In.raw < 0 THEN In.raw + 2^24 ELSE In.raw
            retval == sent - IF sent >= 2^23 THEN 2^24 ELSE 0
            product == 300 * scale * retval
<1>1. /\ In.bw \in 4..6 /\ In.raw \in Int /\ In.raw \in -(2^23)..(2^23 - 1)
      /\ Out = Result(Fn, In)
  BY ResultIs, SMT DEF IsAnswerInput, Answers
<1>2. scale \in {1, 2, 4}
  BY <1>1, SMT DEF Rttof!BwScaling
<1>3. retval = In.raw
  BY <1>1, SMT
<1>4. Out = IF product < 0 THEN -((-product) \div 4096) ELSE product \div 4096
  BY <1>1, SMT DEF Result, Times, Settings, Rttof!distance_raw_to_meter
<1>. HIDE DEF retval, scale
<1>5. product = 300 * scale * In.raw /\ product \in Int
  BY <1>1, <1>2, <1>3, SMT
<1>. HIDE DEF product
<1>6. -4096 < 4096 * Out - product /\ 4096 * Out - product < 4096
  <2>1. \A n \in Nat : /\ n \div 4096 \in Nat
                     /\ 0 <= n - 4096 * (n \div 4096) /\ n - 4096 * (n \div 4096) < 4096
    BY SMT
  <2>2. CASE product < 0
    <3>. DEFINE n == -product
    <3>1. n \in Nat /\ product = -n
      BY <1>5, <2>2
    <3>. DEFINE q == n \div 4096
    <3>2. Out = -q
      BY <1>4, <2>2
    <3>. HIDE DEF n
    <3>3. q \in Nat /\ 0 <= n - 4096 * q /\ n - 4096 * q < 4096
      BY <2>1, <3>1
    <3>. HIDE DEF q
    <3>. QED  BY <3>1, <3>2, <3>3, SMT
  <2>3. CASE ~(product < 0)
    <3>. DEFINE q == product \div 4096
    <3>1. product \in Nat /\ Out = q
      BY <1>4, <1>5, <2>3
    <3>2. q \in Nat /\ 0 <= product - 4096 * q /\ product - 4096 * q < 4096
      BY <2>1, <3>1
    <3>. HIDE DEF q
    <3>. QED  BY <3>1, <3>2, SMT
  <2>. QED  BY <2>2, <2>3
<1>7. error = 4096 * Out - product
  BY <1>5 DEF scale
<1>. QED  BY <1>6, <1>7

\* A difference that keeps to 16 bits is undone by a sum that does.
LEMMA DifferenceUndone ==
  ASSUME NEW a \in Nat, NEW today \in Short, NEW age, age = (today - a) % 2^16
  PROVE  age \in Short /\ (a + age) % 2^16 = today
<1>1. today \in Nat /\ today < 65536
  BY SMT DEF Short
<1>2. age = (today - a) % 65536
  BY SMT
<1>. DEFINE d == today - a
            q == d \div 65536
<1>3. d \in Int /\ a + d = today
  BY <1>1
<1>. HIDE DEF d
<1>4. q \in Int /\ age \in Nat /\ age < 65536 /\ d = 65536 * q + age
  BY <1>2, <1>3, SMT DEF d
<1>. HIDE DEF q
<1>5. a + age = today + 65536 * (-q)
  BY <1>1, <1>3, <1>4, SMT
<1>6. (a + age) % 65536 = today
  BY <1>1, <1>4, <1>5, SMT
<1>. QED  BY <1>4, <1>6, SMT DEF Short

\* An almanac's age passes the end of its 16 bits (lr11xx_gnss.c:770).
LEMMA AgeDecoded ==
  ASSUME DriverInv, Fn = "almanac_age"
  PROVE  Out \in Short /\ (In.date + In.rollover + Out) % 2^16 = In.today
<1>. DEFINE a == In.date + In.rollover
            today == In.today
<1>1. In \in [date : Short, rollover : Short, today : Short] /\ Out = Result(Fn, In)
  BY ResultIs DEF IsAnswerInput, Answers
<1>2. In.date \in Nat /\ In.rollover \in Nat /\ today \in Short
  BY <1>1, BytesAreNat
<1>3. a \in Nat
  BY <1>2
<1>4. Out = (today - a) % 2^16
  BY <1>1 DEF Result, Times, Settings, Gnss!compute_almanac_age
<1>. HIDE DEF a, today
<1>5. Out \in Short /\ (a + Out) % 2^16 = today
  BY <1>2, <1>3, <1>4, DifferenceUndone
<1>. QED  BY <1>5, Zenon DEF a, today

\* The country codes are read from their own places (lr11xx_wifi.c:468).
LEMMA CountryDecoded ==
  ASSUME DriverInv, Fn = "country_code"
  PROVE  Out = 10 * In
<1>1. In \in 0..25 /\ Out = Result(Fn, In)
  BY ResultIs DEF IsAnswerInput, Answers
<1>2. Out = (In * 10) % 256
  BY <1>1 DEF Result, Times, Settings, Wifi!local_index, Wifi!COUNTRY_CODE_SIZE
<1>. QED  BY <1>1, <1>2

(***************************************************************************)
(* Answers: a status, packed and unpacked.                                 *)
(***************************************************************************)

\* A status gives its fields back (lr11xx_gnss.c:701).
LEMMA ContextDecoded ==
  ASSUME DriverInv, Fn = "context"
  PROVE  Out = {In}
<1>. DEFINE c == In
            x == 16 * c.error_code + 4 * Bit(c.almanac_update_beidou)
                   + 2 * Bit(c.almanac_update_gps) + c.freq_search_space \div 2
            y == 128 * (c.freq_search_space % 2)
            b == ContextStatus(c)
            r == [i \in 1..4 |-> c.global_almanac_crc[5 - i]]
<1>1. /\ c \in [firmware_version : Byte, global_almanac_crc : [1..4 -> Byte], error_code : 0..15,
               almanac_update_gps : BOOLEAN, almanac_update_beidou : BOOLEAN,
               freq_search_space : 0..3]
      /\ Out = Result(Fn, c)
  BY ResultIs DEF IsAnswerInput, Answers
<1>2. /\ x \in Nat /\ y \in Nat /\ x \div 16 = c.error_code
      /\ ((x \div 2) % 2 = 1) = c.almanac_update_gps
      /\ ((x \div 4) % 2 = 1) = c.almanac_update_beidou
      /\ 2 * (x % 2) + y \div 128 = c.freq_search_space
  <2>1. /\ c.error_code \in 0..15 /\ c.almanac_update_gps \in BOOLEAN
        /\ c.almanac_update_beidou \in BOOLEAN /\ c.freq_search_space \in 0..3
    BY <1>1
  <2>. DEFINE f1 == c.error_code
              f2 == c.almanac_update_gps
              f3 == c.almanac_update_beidou
              f4 == c.freq_search_space
  <2>2. x = FlagByte(f1, f2, f3, f4) /\ y = SpaceByte(f4)
    BY DEF FlagByte, SpaceByte
  <2>. HIDE DEF x, y, f1, f2, f3, f4
  <2>3. f1 \in 0..15 /\ f2 \in BOOLEAN /\ f3 \in BOOLEAN /\ f4 \in 0..3
    BY <2>1 DEF f1, f2, f3, f4
  <2>4. FlagsHave(FlagByte(f1, f2, f3, f4), SpaceByte(f4), f1, f2, f3, f4)
    BY <2>3, FlagsApart
  <2>. QED  BY <2>2, <2>4 DEF FlagsHave, f1, f2, f3, f4
<1>. DEFINE crc == c.global_almanac_crc
<1>3. crc \in [1..4 -> Nat] /\ c.firmware_version \in Nat
  <2>1. crc \in [1..4 -> Byte] /\ c.firmware_version \in Byte
    BY <1>1
  <2>. HIDE DEF crc
  <2>. QED  BY <2>1, BytesAreNat
<1>4. r \in [1..4 -> Nat] /\ \A i \in 1..4 : r[5 - i] = crc[i]
  <2>1. \A i \in 1..4 : 5 - i \in 1..4 /\ 5 - (5 - i) = i
    OBVIOUS
  <2>2. r = [i \in 1..4 |-> crc[5 - i]]
    OBVIOUS
  <2>. HIDE DEF r, crc
  <2>. QED  BY <1>3, <2>1, <2>2
<1>5. b = <<2, 24, c.firmware_version>> \o r \o <<x, y>>
  BY DEF ContextStatus
<1>. HIDE DEF b, r, x, y, crc
<1>6. /\ b[1] = 2 /\ b[2] = 24 /\ b[3] = c.firmware_version /\ b[8] = x /\ b[9] = y
      /\ \A i \in 1..4 : b[i + 3] = r[i]
  <2>. DEFINE fw == c.firmware_version
  <2>1. 2 \in Nat /\ 24 \in Nat /\ fw \in Nat /\ x \in Nat /\ y \in Nat
    BY <1>2, <1>3
  <2>2. b = Status(2, 24, fw, r, x, y)
    BY <1>5 DEF Status
  <2>. HIDE DEF fw
  <2>3. StatusHas(Status(2, 24, fw, r, x, y), 2, 24, fw, r, x, y)
    BY <1>4, <2>1, StatusBytes
  <2>. QED  BY <2>2, <2>3 DEF StatusHas, fw
<1>7. Out = Gnss!parse_context_status_buffer(b)
  BY <1>1 DEF Result, Times, Settings, b
<1>. DEFINE record == [firmware_version |-> b[3], global_almanac_crc |-> [i \in 1..4 |-> b[8 - i]],
                       error_code |-> b[8] \div 16,
                       almanac_update_gps |-> (b[8] \div 2) % 2 = 1,
                       almanac_update_beidou |-> (b[8] \div 4) % 2 = 1,
                       freq_search_space |-> 2 * (b[8] % 2) + b[9] \div 128]
<1>8. Out = {record}
  BY <1>6, <1>7 DEF Gnss!parse_context_status_buffer, Gnss!DESTINATION, Gnss!DMC_STATUS
<1>9. record = [firmware_version |-> c.firmware_version, global_almanac_crc |-> crc,
                error_code |-> c.error_code, almanac_update_gps |-> c.almanac_update_gps,
                almanac_update_beidou |-> c.almanac_update_beidou,
                freq_search_space |-> c.freq_search_space]
  <2>1. /\ b[3] = c.firmware_version /\ b[8] \div 16 = c.error_code
        /\ ((b[8] \div 2) % 2 = 1) = c.almanac_update_gps
        /\ ((b[8] \div 4) % 2 = 1) = c.almanac_update_beidou
        /\ 2 * (b[8] % 2) + b[9] \div 128 = c.freq_search_space
    BY <1>2, <1>6
  <2>2. \A i \in 1..4 : b[8 - i] = crc[i]
    <3>1. \A i \in 1..4 : 5 - i \in 1..4 /\ (5 - i) + 3 = 8 - i
      OBVIOUS
    <3>. QED  BY <1>4, <1>6, <3>1
  <2>3. [i \in 1..4 |-> b[8 - i]] = crc
    BY <1>3, <2>2
  <2>. QED  BY <2>1, <2>3
<1>10. c = [firmware_version |-> c.firmware_version, global_almanac_crc |-> crc,
            error_code |-> c.error_code, almanac_update_gps |-> c.almanac_update_gps,
            almanac_update_beidou |-> c.almanac_update_beidou,
            freq_search_space |-> c.freq_search_space]
  BY <1>1 DEF crc
<1>. HIDE DEF record
<1>. QED  BY <1>8, <1>9, <1>10

(***************************************************************************)
(* Answers: characters and their shortest forms.                           *)
(***************************************************************************)

\* The number that one to four bytes stand for.
LEMMA CodePointIs ==
  ASSUME NEW c \in Seq(Nat), Len(c) \in {1, 2, 3, 4}
  PROVE  /\ Len(c) = 1 => CodePoint(c) = c[1] % 128
         /\ Len(c) = 2 => CodePoint(c) = 64 * (c[1] % 32) + (c[2] % 64)
         /\ Len(c) = 3 => CodePoint(c) = 64 * (64 * (c[1] % 16) + (c[2] % 64)) + (c[3] % 64)
         /\ Len(c) = 4 => CodePoint(c) = 64 * (64 * (64 * (c[1] % 8) + (c[2] % 64)) + (c[3] % 64))
                                           + (c[4] % 64)
<1>. DEFINE t == Tail(c)
            start == c[1] % <<128, 32, 16, 8>>[Len(c)]
            n == Len(c)
<1>1. CodePoint(c) = Point(start, t)
  BY DEF CodePoint, Point
<1>4. n = 1 \/ n = 2 \/ n = 3 \/ n = 4
  OBVIOUS
<1>2. Len(t) = n - 1 /\ \A i \in 1..n - 1 : t[i] = c[i + 1]
  <2>. DEFINE S == Nat
  <2>1. c \in Seq(S) /\ c # <<>>
    OBVIOUS
  <2>. HIDE DEF S
  <2>2. /\ Len(t) = Len(c) - 1
        /\ \A i \in 1..Len(t) : t[i] = c[i + 1]
    BY <2>1, HeadTailProperties, Zenon
  <2>. QED  BY <2>2
<1>. HIDE DEF n
<1>3. /\ n = 1 => start = c[1] % 128
      /\ n = 2 => start = c[1] % 32
      /\ n = 3 => start = c[1] % 16
      /\ n = 4 => start = c[1] % 8
  <2>. DEFINE of == <<128, 32, 16, 8>>
  <2>1. of[1] = 128 /\ of[2] = 32 /\ of[3] = 16 /\ of[4] = 8
    OBVIOUS
  <2>2. start = c[1] % of[n]
    BY DEF n
  <2>. HIDE DEF of, start
  <2>. QED  BY <2>1, <2>2
<1>. HIDE DEF t, start
<1>5. /\ n >= 2 => t[1] = c[2]
      /\ n >= 3 => t[2] = c[3]
      /\ n >= 4 => t[3] = c[4]
  <2>1. n >= 2 => 1 \in 1..n - 1 /\ 1 + 1 = 2
    BY <1>4
  <2>2. n >= 3 => 2 \in 1..n - 1 /\ 2 + 1 = 3
    BY <1>4
  <2>3. n >= 4 => 3 \in 1..n - 1 /\ 3 + 1 = 4
    BY <1>4
  <2>. QED  BY <1>2, <2>1, <2>2, <2>3
<1>6. Len(t) \in {0, 1, 2, 3}
  BY <1>2, <1>4
<1>7. CASE n = 1
  <2>1. Len(t) = 0
    BY <1>2, <1>7
  <2>2. Point(start, t) = start
    BY <1>6, <2>1, PointIs
  <2>. QED  BY <1>1, <1>3, <1>7, <2>2 DEF n
<1>8. CASE n = 2
  <2>1. Len(t) = 1
    BY <1>2, <1>8
  <2>2. Point(start, t) = 64 * start + (t[1] % 64)
    BY <1>6, <2>1, PointIs
  <2>3. CodePoint(c) = 64 * (c[1] % 32) + (c[2] % 64)
    BY <1>1, <1>3, <1>5, <1>8, <2>2
  <2>. QED  BY <1>8, <2>3 DEF n
<1>9. CASE n = 3
  <2>1. Len(t) = 2
    BY <1>2, <1>9
  <2>2. Point(start, t) = 64 * (64 * start + (t[1] % 64)) + (t[2] % 64)
    BY <1>6, <2>1, PointIs
  <2>3. CodePoint(c) = 64 * (64 * (c[1] % 16) + (c[2] % 64)) + (c[3] % 64)
    BY <1>1, <1>3, <1>5, <1>9, <2>2
  <2>. QED  BY <1>9, <2>3 DEF n
<1>10. CASE n = 4
  <2>1. Len(t) = 3
    BY <1>2, <1>10
  <2>2. Point(start, t) = 64 * (64 * (64 * start + (t[1] % 64)) + (t[2] % 64)) + (t[3] % 64)
    BY <1>6, <2>1, PointIs
  <2>3. CodePoint(c) = 64 * (64 * (64 * (c[1] % 8) + (c[2] % 64)) + (c[3] % 64)) + (c[4] % 64)
    BY <1>1, <1>3, <1>5, <1>10, <2>2
  <2>. QED  BY <1>10, <2>3 DEF n
<1>. QED  BY <1>4, <1>7, <1>8, <1>9, <1>10

\* A character is one of the shortest forms.
LEMMA CharacterIs ==
  ASSUME NEW s \in Seq(Nat), Len(s) \in {1, 2, 3, 4}
  PROVE  IsCharacter(s) <=> Shortest(s)
<1>. DEFINE n == Len(s)
            a == s[1]
            b == s[2]
            c == s[3]
            d == s[4]
            h1 == 0..127
            h2 == 192..223
            h3 == 224..239
            h4 == 240..247
            heads == <<h1, h2, h3, h4>>
            leasts == <<0, 128, 2048, 65536>>
            tails == 128..191
<1>0. n = 1 \/ n = 2 \/ n = 3 \/ n = 4
  OBVIOUS
<1>1. \A i \in 1..n : s[i] \in Nat
  OBVIOUS
<1>3. \A x \in Nat : x \in tails <=> 128 <= x /\ x <= 191
  BY Within
<1>9. \A x \in Nat : /\ x \in h1 <=> x <= 127
                     /\ x \in h2 <=> 192 <= x /\ x <= 223
                     /\ x \in h3 <=> 224 <= x /\ x <= 239
                     /\ x \in h4 <=> 240 <= x /\ x <= 247
  BY Within
<1>. HIDE DEF h1, h2, h3, h4
<1>2. /\ heads[1] = h1 /\ heads[2] = h2 /\ heads[3] = h3 /\ heads[4] = h4
      /\ leasts[1] = 0 /\ leasts[2] = 128 /\ leasts[3] = 2048 /\ leasts[4] = 65536
  OBVIOUS
<1>4. IsCharacter(s) <=> /\ s[1] \in heads[n]
                         /\ \A i \in 2..n : s[i] \in tails
                         /\ Allowed(CodePoint(s), leasts[n])
  BY DEF IsCharacter, Allowed, h1, h2, h3, h4
<1>. HIDE DEF n, heads, leasts, tails, a, b, c, d
<1>5. CASE n = 1
  <2>. DEFINE p == a % 128
  <2>1. CodePoint(s) = p
    BY <1>5, CodePointIs DEF n, a
  <2>2. heads[n] = h1 /\ leasts[n] = 0
    BY <1>2, <1>5
  <2>3. a \in Nat
    BY <1>1, <1>5 DEF a
  <2>4. a \in h1 <=> a <= 127
    BY <2>3, <1>9
  <2>5. \A i \in 2..n : s[i] \in tails
    <3>1. 2..n = {}
      BY <1>5
    <3>. QED  BY <3>1 DEF a
  <2>6. OneByte(a) <=> a <= 127 /\ Allowed(p, 0)
    BY <2>3, OneAllowed
  <2>. HIDE DEF p
  <2>10. IsCharacter(s) <=> OneByte(a)
    BY <1>4, <2>1, <2>2, <2>4, <2>5, <2>6 DEF a
  <2>. QED  BY <1>5, <2>10 DEF Shortest, n, a
<1>6. CASE n = 2
  <2>. DEFINE p == 64 * (a % 32) + (b % 64)
  <2>1. CodePoint(s) = p
    BY <1>6, CodePointIs DEF n, a, b
  <2>2. heads[n] = h2 /\ leasts[n] = 128
    BY <1>2, <1>6
  <2>3. a \in Nat /\ b \in Nat
    BY <1>1, <1>6 DEF a, b
  <2>4. a \in h2 <=> 192 <= a /\ a <= 223
    BY <2>3, <1>9
  <2>5. (\A i \in 2..n : s[i] \in tails) <=> b \in tails
    <3>1. 2..n = {2}
      BY <1>6
    <3>. QED  BY <3>1 DEF a, b
  <2>6. TwoBytes(a, b) <=> 192 <= a /\ a <= 223 /\ 128 <= b /\ b <= 191 /\ Allowed(p, 128)
    BY <2>3, TwoAllowed
  <2>. HIDE DEF p
  <2>7. b \in tails <=> 128 <= b /\ b <= 191
    BY <2>3, <1>3
  <2>10. IsCharacter(s) <=> TwoBytes(a, b)
    BY <1>4, <2>1, <2>2, <2>4, <2>5, <2>6, <2>7 DEF a
  <2>. QED  BY <1>6, <2>10 DEF Shortest, n, a, b
<1>7. CASE n = 3
  <2>. DEFINE p == 64 * (64 * (a % 16) + (b % 64)) + (c % 64)
  <2>1. CodePoint(s) = p
    BY <1>7, CodePointIs DEF n, a, b, c
  <2>2. heads[n] = h3 /\ leasts[n] = 2048
    BY <1>2, <1>7
  <2>3. a \in Nat /\ b \in Nat /\ c \in Nat
    BY <1>1, <1>7 DEF a, b, c
  <2>4. a \in h3 <=> 224 <= a /\ a <= 239
    BY <2>3, <1>9
  <2>5. (\A i \in 2..n : s[i] \in tails) <=> b \in tails /\ c \in tails
    <3>1. 2..n = {2, 3}
      BY <1>7
    <3>. QED  BY <3>1 DEF a, b, c
  <2>6. ThreeBytes(a, b, c) <=> 224 <= a /\ a <= 239 /\ 128 <= b /\ b <= 191
                                /\ 128 <= c /\ c <= 191 /\ Allowed(p, 2048)
    BY <2>3, ThreeAllowed
  <2>. HIDE DEF p
  <2>7. b \in tails <=> 128 <= b /\ b <= 191
    BY <2>3, <1>3
  <2>8. c \in tails <=> 128 <= c /\ c <= 191
    BY <2>3, <1>3
  <2>10. IsCharacter(s) <=> ThreeBytes(a, b, c)
    BY <1>4, <2>1, <2>2, <2>4, <2>5, <2>6, <2>7, <2>8 DEF a
  <2>. QED  BY <1>7, <2>10 DEF Shortest, n, a, b, c
<1>8. CASE n = 4
  <2>. DEFINE p == 64 * (64 * (64 * (a % 8) + (b % 64)) + (c % 64)) + (d % 64)
  <2>1. CodePoint(s) = p
    BY <1>8, CodePointIs DEF n, a, b, c, d
  <2>2. heads[n] = h4 /\ leasts[n] = 65536
    BY <1>2, <1>8
  <2>3. a \in Nat /\ b \in Nat /\ c \in Nat /\ d \in Nat
    BY <1>1, <1>8 DEF a, b, c, d
  <2>4. a \in h4 <=> 240 <= a /\ a <= 247
    BY <2>3, <1>9
  <2>5. (\A i \in 2..n : s[i] \in tails) <=> b \in tails /\ c \in tails /\ d \in tails
    <3>1. 2..n = {2, 3, 4}
      BY <1>8
    <3>. QED  BY <3>1 DEF a, b, c, d
  <2>6. FourBytes(a, b, c, d) <=> 240 <= a /\ a <= 247 /\ 128 <= b /\ b <= 191
                                    /\ 128 <= c /\ c <= 191 /\ 128 <= d /\ d <= 191
                                    /\ Allowed(p, 65536)
    BY <2>3, FourAllowed
  <2>. HIDE DEF p
  <2>7. b \in tails <=> 128 <= b /\ b <= 191
    BY <2>3, <1>3
  <2>8. c \in tails <=> 128 <= c /\ c <= 191
    BY <2>3, <1>3
  <2>9. d \in tails <=> 128 <= d /\ d <= 191
    BY <2>3, <1>3
  <2>10. IsCharacter(s) <=> FourBytes(a, b, c, d)
    BY <1>4, <2>1, <2>2, <2>4, <2>5, <2>6, <2>7, <2>8, <2>9 DEF a
  <2>. QED  BY <1>8, <2>10 DEF Shortest, n, a, b, c, d
<1>. QED  BY <1>0, <1>5, <1>6, <1>7, <1>8

(***************************************************************************)
(* Answers: the driver's table of forms.                                   *)
(***************************************************************************)

\* The driver's table has exactly the shortest forms (lr11xx_wifi.c:811).
LEMMA FormsAre ==
  ASSUME NEW s \in Seq(Nat), Len(s) \in {1, 2, 3, 4}
  PROVE  (\E form \in Wifi!Utf8Forms : Fits(form, s)) <=> Shortest(s)
<1>. DEFINE t == \h80..\hBF
            h1 == 0..\h7F
            h2 == \hC2..\hDF
            h3 == {\hE0}
            t3 == \hA0..\hBF
            h4 == \hE1..\hEC
            h5 == {\hED}
            t5 == \h80..\h9F
            h6 == \hEE..\hEF
            h7 == {\hF0}
            t7 == \h90..\hBF
            h8 == \hF1..\hF3
            h9 == {\hF4}
            t9 == \h80..\h8F
            n == Len(s)
            a == s[1]
            b == s[2]
            c == s[3]
            d == s[4]
<1>0. n = 1 \/ n = 2 \/ n = 3 \/ n = 4
  OBVIOUS
<1>1. /\ n >= 1 => a \in Nat
      /\ n >= 2 => b \in Nat
      /\ n >= 3 => c \in Nat
      /\ n >= 4 => d \in Nat
  OBVIOUS
<1>2. \A x \in Nat : /\ x \in t <=> 128 <= x /\ x <= 191
                     /\ x \in t3 <=> 160 <= x /\ x <= 191
                     /\ x \in t5 <=> 128 <= x /\ x <= 159
                     /\ x \in t7 <=> 144 <= x /\ x <= 191
                     /\ x \in t9 <=> 128 <= x /\ x <= 143
  BY Within
<1>3. \A x \in Nat : /\ x \in h1 <=> x <= 127
                     /\ x \in h2 <=> 194 <= x /\ x <= 223
                     /\ x \in h4 <=> 225 <= x /\ x <= 236
                     /\ x \in h6 <=> 238 <= x /\ x <= 239
                     /\ x \in h8 <=> 241 <= x /\ x <= 243
  BY Within
<1>4. \A x : (x \in h3 <=> x = 224) /\ (x \in h5 <=> x = 237) /\ (x \in h7 <=> x = 240)
             /\ (x \in h9 <=> x = 244)
  OBVIOUS
<1>. HIDE DEF t, h1, h2, h3, t3, h4, h5, t5, h6, h7, t7, h8, h9, t9
<1>. DEFINE f1 == <<h1>>
            f2 == <<h2, t>>
            f3 == <<h3, t3, t>>
            f4 == <<h4, t, t>>
            f5 == <<h5, t5, t>>
            f6 == <<h6, t, t>>
            f7 == <<h7, t7, t, t>>
            f8 == <<h8, t, t, t>>
            f9 == <<h9, t9, t, t>>
<1>5. Wifi!Utf8Forms = {f1, f2, f3, f4, f5, f6, f7, f8, f9}
  BY Zenon DEF Wifi!Utf8Forms, t, h1, h2, h3, t3, h4, h5, t5, h6, h7, t7, h8, h9, t9
<1>6. Fits(f1, s) <=> n = 1 /\ a \in h1
  BY FitsOne, Zenon
<1>7. Fits(f2, s) <=> n = 2 /\ a \in h2 /\ b \in t
  BY FitsTwo, Zenon
<1>8. /\ Fits(f3, s) <=> n = 3 /\ a \in h3 /\ b \in t3 /\ c \in t
      /\ Fits(f4, s) <=> n = 3 /\ a \in h4 /\ b \in t /\ c \in t
      /\ Fits(f5, s) <=> n = 3 /\ a \in h5 /\ b \in t5 /\ c \in t
      /\ Fits(f6, s) <=> n = 3 /\ a \in h6 /\ b \in t /\ c \in t
  BY FitsThree, Zenon
<1>9. /\ Fits(f7, s) <=> n = 4 /\ a \in h7 /\ b \in t7 /\ c \in t /\ d \in t
      /\ Fits(f8, s) <=> n = 4 /\ a \in h8 /\ b \in t /\ c \in t /\ d \in t
      /\ Fits(f9, s) <=> n = 4 /\ a \in h9 /\ b \in t9 /\ c \in t /\ d \in t
  BY FitsFour, Zenon
<1>10. Shortest(s) <=> \/ n = 1 /\ OneByte(a)
                       \/ n = 2 /\ TwoBytes(a, b)
                       \/ n = 3 /\ ThreeBytes(a, b, c)
                       \/ n = 4 /\ FourBytes(a, b, c, d)
  BY DEF Shortest
<1>. HIDE DEF f1, f2, f3, f4, f5, f6, f7, f8, f9, n, a, b, c, d
<1>11. (\E form \in Wifi!Utf8Forms : Fits(form, s))
        <=> \/ Fits(f1, s) \/ Fits(f2, s) \/ Fits(f3, s) \/ Fits(f4, s) \/ Fits(f5, s)
            \/ Fits(f6, s) \/ Fits(f7, s) \/ Fits(f8, s) \/ Fits(f9, s)
  BY <1>5
<1>12. CASE n = 1
  <2>1. a \in h1 <=> OneByte(a)
    BY <1>1, <1>3, <1>12 DEF OneByte
  <2>. QED  BY <1>6, <1>7, <1>8, <1>9, <1>10, <1>11, <1>12, <2>1
<1>13. CASE n = 2
  <2>1. a \in h2 /\ b \in t <=> TwoBytes(a, b)
    BY <1>1, <1>2, <1>3, <1>13 DEF TwoBytes
  <2>. QED  BY <1>6, <1>7, <1>8, <1>9, <1>10, <1>11, <1>13, <2>1
<1>14. CASE n = 3
  <2>1. a \in Nat /\ b \in Nat /\ c \in Nat
    BY <1>1, <1>14
  <2>2. ThreeBytes(a, b, c) <=> \/ a \in h3 /\ b \in t3 /\ c \in t
                                \/ a \in h4 /\ b \in t /\ c \in t
                                \/ a \in h5 /\ b \in t5 /\ c \in t
                                \/ a \in h6 /\ b \in t /\ c \in t
    BY <1>2, <1>3, <1>4, <2>1 DEF ThreeBytes
  <2>. QED  BY <1>6, <1>7, <1>8, <1>9, <1>10, <1>11, <1>14, <2>2
<1>15. CASE n = 4
  <2>1. a \in Nat /\ b \in Nat /\ c \in Nat /\ d \in Nat
    BY <1>1, <1>15
  <2>2. FourBytes(a, b, c, d) <=> \/ a \in h7 /\ b \in t7 /\ c \in t /\ d \in t
                                  \/ a \in h8 /\ b \in t /\ c \in t /\ d \in t
                                  \/ a \in h9 /\ b \in t9 /\ c \in t /\ d \in t
    BY <1>2, <1>3, <1>4, <2>1 DEF FourBytes
  <2>. QED  BY <1>6, <1>7, <1>8, <1>9, <1>10, <1>11, <1>15, <2>2
<1>. QED  BY <1>0, <1>12, <1>13, <1>14, <1>15

\* Its forms have one to four bytes.
LEMMA FormLength ==
  ASSUME NEW form \in Wifi!Utf8Forms
  PROVE  Len(form) \in {1, 2, 3, 4} /\ DOMAIN form = 1..Len(form)
<1>. DEFINE t == \h80..\hBF
            h1 == 0..\h7F
            h2 == \hC2..\hDF
            h3 == {\hE0}
            t3 == \hA0..\hBF
            h4 == \hE1..\hEC
            h5 == {\hED}
            t5 == \h80..\h9F
            h6 == \hEE..\hEF
            h7 == {\hF0}
            t7 == \h90..\hBF
            h8 == \hF1..\hF3
            h9 == {\hF4}
            t9 == \h80..\h8F
<1>. HIDE DEF t, h1, h2, h3, t3, h4, h5, t5, h6, h7, t7, h8, h9, t9
<1>1. \/ form = <<h1>>
      \/ form = <<h2, t>>
      \/ form = <<h3, t3, t>> \/ form = <<h4, t, t>> \/ form = <<h5, t5, t>> \/ form = <<h6, t, t>>
      \/ form = <<h7, t7, t, t>> \/ form = <<h8, t, t, t>> \/ form = <<h9, t9, t, t>>
  BY ZenonT(60) DEF Wifi!Utf8Forms, t, h1, h2, h3, t3, h4, h5, t5, h6, h7, t7, h8, h9, t9
<1>. QED  BY <1>1

(***************************************************************************)
(* Answers: text, read form by form and character by character.            *)
(***************************************************************************)

\* Where text may go on from a place, by the driver and by what text is.
FormEnds(s, i, p) ==
  \E form \in Wifi!Utf8Forms :
    /\ i + Len(form) <= Len(s) /\ \A k \in DOMAIN form : s[i + k] \in form[k]
    /\ i + Len(form) = p

CharacterEnds(s, i, p) ==
  \E k \in 1..4 : i + k <= Len(s) /\ IsCharacter(SubSeq(s, i + 1, i + k)) /\ i + k = p

\* They are the same places.
LEMMA EndsMeet ==
  ASSUME NEW s \in Seq(Nat), NEW i \in Nat, NEW p \in Nat
  PROVE  FormEnds(s, i, p) <=> CharacterEnds(s, i, p)
<1>1. ASSUME NEW k \in {1, 2, 3, 4}, i + k <= Len(s)
      PROVE  IsCharacter(SubSeq(s, i + 1, i + k))
               <=> \E form \in Wifi!Utf8Forms :
                     Len(form) = k /\ \A j \in DOMAIN form : s[i + j] \in form[j]
  <2>. DEFINE t == SubSeq(s, i + 1, i + k)
  <2>1. t \in Seq(Nat) /\ Len(t) = k /\ \A j \in 1..k : t[j] = s[i + j]
    BY <1>1, PieceIs
  <2>. HIDE DEF t
  <2>2. IsCharacter(t) <=> Shortest(t)
    BY <2>1, CharacterIs
  <2>3. (\E form \in Wifi!Utf8Forms : Fits(form, t)) <=> Shortest(t)
    BY <2>1, FormsAre, Zenon
  <2>4. ASSUME NEW form \in Wifi!Utf8Forms
        PROVE  Fits(form, t) <=> Len(form) = k /\ \A j \in DOMAIN form : s[i + j] \in form[j]
    <3>1. DOMAIN form = 1..Len(form)
      BY FormLength
    <3>. QED  BY <2>1, <3>1, Zenon DEF Fits
  <2>5. IsCharacter(t) <=> \E form \in Wifi!Utf8Forms :
                             Len(form) = k /\ \A j \in DOMAIN form : s[i + j] \in form[j]
    BY <2>2, <2>3, <2>4, Zenon
  <2>. QED  BY <2>5, Zenon DEF t
<1>2. ASSUME FormEnds(s, i, p) PROVE CharacterEnds(s, i, p)
  <2>1. PICK form \in Wifi!Utf8Forms :
          /\ i + Len(form) <= Len(s) /\ \A k \in DOMAIN form : s[i + k] \in form[k]
          /\ i + Len(form) = p
    BY <1>2, Zenon DEF FormEnds
  <2>. DEFINE k == Len(form)
  <2>2. k \in {1, 2, 3, 4} /\ k \in 1..4
    <3>1. Len(form) \in {1, 2, 3, 4}
      BY FormLength
    <3>. HIDE DEF k
    <3>2. k \in {1, 2, 3, 4}
      BY <3>1 DEF k
    <3>. QED  BY <3>2
  <2>3. IsCharacter(SubSeq(s, i + 1, i + k))
    BY <1>1, <2>1, <2>2, Zenon
  <2>. HIDE DEF k
  <2>4. i + k <= Len(s) /\ i + k = p
    BY <2>1 DEF k
  <2>. QED  BY <2>2, <2>3, <2>4, Zenon DEF CharacterEnds
<1>3. ASSUME CharacterEnds(s, i, p) PROVE FormEnds(s, i, p)
  <2>1. PICK k \in 1..4 :
          i + k <= Len(s) /\ IsCharacter(SubSeq(s, i + 1, i + k)) /\ i + k = p
    BY <1>3, Zenon DEF CharacterEnds
  <2>2. k \in {1, 2, 3, 4}
    OBVIOUS
  <2>3. PICK form \in Wifi!Utf8Forms :
          Len(form) = k /\ \A j \in DOMAIN form : s[i + j] \in form[j]
    BY <1>1, <2>1, <2>2, Zenon
  <2>. QED  BY <2>1, <2>3, Zenon DEF FormEnds
<1>. QED  BY <1>2, <1>3

\* The driver's check accepts exactly the texts.
LEMMA SameText ==
  ASSUME NEW s \in Seq(Nat)
  PROVE  Wifi!is_well_formed_utf8_byte_sequence(s) <=> IsText(s)
<1>. DEFINE n == Len(s)
            Forms(g, i) == \/ i = n
                           \/ \E form \in Wifi!Utf8Forms :
                                /\ /\ i + Len(form) <= n
                                   /\ \A k \in DOMAIN form : s[i + k] \in form[k]
                                /\ g[i + Len(form)]
            Characters(g, i) == \/ i = n
                                \/ \E k \in 1..4 : /\ i + k <= n
                                                   /\ IsCharacter(SubSeq(s, i + 1, i + k))
                                                   /\ g[i + k]
            F == CHOOSE g : g = [i \in 0..n |-> Forms(g, i)]
            C == CHOOSE g : g = [i \in 0..n |-> Characters(g, i)]
<1>1. Wifi!is_well_formed_utf8_byte_sequence(s) = F[0]
  BY Zenon DEF Wifi!is_well_formed_utf8_byte_sequence
<1>2. IsText(s) = C[0]
  BY Zenon DEF IsText
<1>3. ASSUME NEW g, NEW i \in 0..n
      PROVE  Forms(g, i) = Characters(g, i)
  <2>1. Forms(g, i) <=> i = n \/ \E p \in Nat : FormEnds(s, i, p) /\ g[p]
    <3>1. ASSUME NEW form \in Wifi!Utf8Forms PROVE i + Len(form) \in Nat
      BY FormLength
    <3>. QED  BY <3>1, Zenon DEF FormEnds
  <2>2. Characters(g, i) <=> i = n \/ \E p \in Nat : CharacterEnds(s, i, p) /\ g[p]
    <3>1. ASSUME NEW k \in 1..4 PROVE i + k \in Nat
      OBVIOUS
    <3>. QED  BY <3>1, Zenon DEF CharacterEnds
  <2>3. \A p \in Nat : FormEnds(s, i, p) <=> CharacterEnds(s, i, p)
    <3>1. i \in Nat
      OBVIOUS
    <3>. QED  BY <3>1, EndsMeet, Zenon
  <2>. QED  BY <2>1, <2>2, <2>3, Zenon
<1>. HIDE DEF Forms, Characters
<1>4. \A g : [i \in 0..n |-> Forms(g, i)] = [i \in 0..n |-> Characters(g, i)]
  BY <1>3, Zenon
<1>5. F = C
  BY <1>4, Zenon
<1>. QED  BY <1>1, <1>2, <1>5, Zenon

\* The texts that the check lets through.
LEMMA TextDecoded ==
  ASSUME DriverInv, Fn = "text"
  PROVE  Out = {s \in In : IsText(s)}
<1>1. (\A s \in In : s \in Seq(Byte)) /\ Out = Result(Fn, In)
  BY ResultIs DEF IsAnswerInput, Answers
<1>2. Out = {s \in In : Wifi!is_well_formed_utf8_byte_sequence(s)}
  BY <1>1, Zenon DEF Result, Times, Settings
<1>3. ASSUME NEW s \in In PROVE Wifi!is_well_formed_utf8_byte_sequence(s) <=> IsText(s)
  <2>1. s \in Seq(Byte)
    BY <1>1, Zenon
  <2>2. s \in Seq(Nat)
    BY <2>1, BytesAreNat, WiderSeq
  <2>. QED  BY <2>2, SameText, Zenon
<1>. QED  BY <1>2, <1>3, Zenon

\* Every state of the invariant keeps AnswersDecoded.
LEMMA AnswersKept == DriverInv => AnswersDecoded
<1>. SUFFICES ASSUME DriverInv PROVE AnswersDecoded
  OBVIOUS
<1>1. Fn = "text" => Out = {s \in In : IsText(s)}
  BY TextDecoded, Zenon
<1>2. Fn = "bytes" => \A b \in In :
        LET o == Out[b] IN
        /\ b % 128 = o.info.channel + 16 * o.info.mac_origin + 64 * Bit(~o.info.rssi_valid)
        /\ b = 64 * o.frame.type + 4 * o.frame.sub_type + 2 * Bit(o.frame.to_ds) + Bit(o.frame.from_ds)
        /\ b = 4 * o.rate.rate + o.rate.signal_type
  BY BytesDecoded, Zenon
<1>3. Fn = "context" => Out = {In}
  BY ContextDecoded, Zenon
<1>4. Fn = "distance" => LET error == 4096 * Out - 300 * Rttof!BwScaling(In.bw) * In.raw
                         IN  -4096 < error /\ error < 4096
  <2>. SUFFICES ASSUME Fn = "distance"
                PROVE  LET error == 4096 * Out - 300 * Rttof!BwScaling(In.bw) * In.raw
                       IN  -4096 < error /\ error < 4096
    OBVIOUS
  <2>. QED  BY DistanceDecoded
<1>5. Fn = "almanac_age" => Out \in Short /\ (In.date + In.rollover + Out) % 2^16 = In.today
  BY AgeDecoded, Zenon
<1>6. Fn = "country_code" => Out = 10 * In
  BY CountryDecoded, Zenon
<1>. QED  BY <1>1, <1>2, <1>3, <1>4, <1>5, <1>6 DEF AnswersDecoded

\* The times on air that the driver computes are those of the frame's symbols or bits,
\* rounded up to a millisecond, for every frame, modulation and bit rate of which the sums
\* stay in 32 bits, LoRa with the short interleaver (lr11xx_radio.c:1070-1275,
\* lr11xx_radio_timings.c:227-231, lr11xx_lr_fhss.c:164-216).
THEOREM DriverTimes == DriverSpec => []TimeOnAir
BY DriverInvariant, TimeKept, PTL

\* Every answer is decoded to what it stands for: for every byte, status, distance, age
\* and each of the first 26 country codes, and for every sequence of bytes that may be text
\* (lr11xx_wifi.c:468, :811, lr11xx_gnss.c:701, :770, lr11xx_rttof.c:157).
THEOREM DriverAnswers == DriverSpec => []AnswersDecoded
BY DriverInvariant, AnswersKept, PTL

(***************************************************************************)
(* Settings: the GFSK filter.                                              *)
(***************************************************************************)

Limit(i) == Radio!GfskLimits[i][1]

Setting(i) == Radio!GfskLimits[i][2]

\* The table of GFSK filters rises.
LEMMA LimitsAre ==
  /\ DOMAIN Radio!GfskLimits = 1..21
  /\ \A i \in 1..21 : Limit(i) \in Nat
  /\ \A i, j \in 1..21 : i <= j => Limit(i) <= Limit(j)
<1>1. DOMAIN Radio!GfskLimits = 1..21
  BY DEF Radio!GfskLimits
<1>2. /\ Limit(1) = 4800 /\ Limit(2) = 5800 /\ Limit(3) = 7300 /\ Limit(4) = 9700
      /\ Limit(5) = 11700 /\ Limit(6) = 14600 /\ Limit(7) = 19500 /\ Limit(8) = 23400
      /\ Limit(9) = 29300 /\ Limit(10) = 39000 /\ Limit(11) = 46900 /\ Limit(12) = 58600
      /\ Limit(13) = 78200 /\ Limit(14) = 93800 /\ Limit(15) = 117300 /\ Limit(16) = 156200
      /\ Limit(17) = 187200 /\ Limit(18) = 234300 /\ Limit(19) = 312000 /\ Limit(20) = 373600
      /\ Limit(21) = 467000
  BY SMT DEF Limit, Radio!GfskLimits
<1>3. ASSUME NEW i \in 1..21
      PROVE  \/ i = 1 \/ i = 2 \/ i = 3 \/ i = 4 \/ i = 5 \/ i = 6 \/ i = 7 \/ i = 8 \/ i = 9
             \/ i = 10 \/ i = 11 \/ i = 12 \/ i = 13 \/ i = 14 \/ i = 15 \/ i = 16 \/ i = 17
             \/ i = 18 \/ i = 19 \/ i = 20 \/ i = 21
  OBVIOUS
<1>4. ASSUME NEW i \in 1..21 PROVE Limit(i) \in Nat
  BY <1>2, <1>3, SMT
<1>5. ASSUME NEW i \in 1..21, NEW j \in 1..21, i <= j PROVE Limit(i) <= Limit(j)
  BY <1>2, <1>3, <1>5, SMTT(30)
<1>. QED  BY <1>1, <1>4, <1>5

\* It names each filter once, with its bandwidth.
LEMMA SettingsAre ==
  /\ \A i \in 1..21 : /\ Setting(i) \in DOMAIN Radio!GFSK_BW
                      /\ Radio!GFSK_BW[Setting(i)] = Limit(i)
  /\ \A s \in DOMAIN Radio!GFSK_BW : \E i \in 1..21 : s = Setting(i)
<1>. DEFINE M == {8 * mantissa + exponent : mantissa \in 1..3, exponent \in 1..7}
            hz == Radio!GFSK_BW
<1>1. DOMAIN hz = M
  BY DEF Radio!GFSK_BW
<1>2. /\ Setting(1) = 31 /\ Setting(2) = 23 /\ Setting(3) = 15 /\ Setting(4) = 30
      /\ Setting(5) = 22 /\ Setting(6) = 14 /\ Setting(7) = 29 /\ Setting(8) = 21
      /\ Setting(9) = 13 /\ Setting(10) = 28 /\ Setting(11) = 20 /\ Setting(12) = 12
      /\ Setting(13) = 27 /\ Setting(14) = 19 /\ Setting(15) = 11 /\ Setting(16) = 26
      /\ Setting(17) = 18 /\ Setting(18) = 10 /\ Setting(19) = 25 /\ Setting(20) = 17
      /\ Setting(21) = 9
  BY SMT DEF Setting, Radio!GfskLimits
<1>3. /\ Limit(1) = 4800 /\ Limit(2) = 5800 /\ Limit(3) = 7300 /\ Limit(4) = 9700
      /\ Limit(5) = 11700 /\ Limit(6) = 14600 /\ Limit(7) = 19500 /\ Limit(8) = 23400
      /\ Limit(9) = 29300 /\ Limit(10) = 39000 /\ Limit(11) = 46900 /\ Limit(12) = 58600
      /\ Limit(13) = 78200 /\ Limit(14) = 93800 /\ Limit(15) = 117300 /\ Limit(16) = 156200
      /\ Limit(17) = 187200 /\ Limit(18) = 234300 /\ Limit(19) = 312000 /\ Limit(20) = 373600
      /\ Limit(21) = 467000
  BY SMT DEF Limit, Radio!GfskLimits
<1>4. /\ 31 \in M /\ 23 \in M /\ 15 \in M /\ 30 \in M
      /\ 22 \in M /\ 14 \in M /\ 29 \in M /\ 21 \in M
      /\ 13 \in M /\ 28 \in M /\ 20 \in M /\ 12 \in M
      /\ 27 \in M /\ 19 \in M /\ 11 \in M /\ 26 \in M
      /\ 18 \in M /\ 10 \in M /\ 25 \in M /\ 17 \in M
      /\ 9 \in M
  BY SMT
<1>5. /\ hz[31] = 4800 /\ hz[23] = 5800 /\ hz[15] = 7300 /\ hz[30] = 9700
      /\ hz[22] = 11700 /\ hz[14] = 14600 /\ hz[29] = 19500 /\ hz[21] = 23400
      /\ hz[13] = 29300 /\ hz[28] = 39000 /\ hz[20] = 46900 /\ hz[12] = 58600
      /\ hz[27] = 78200 /\ hz[19] = 93800 /\ hz[11] = 117300 /\ hz[26] = 156200
      /\ hz[18] = 187200 /\ hz[10] = 234300 /\ hz[25] = 312000 /\ hz[17] = 373600
      /\ hz[9] = 467000
  BY <1>4, SMT DEF Radio!GFSK_BW
<1>6. ASSUME NEW i \in 1..21
      PROVE  \/ i = 1 \/ i = 2 \/ i = 3 \/ i = 4 \/ i = 5 \/ i = 6 \/ i = 7
             \/ i = 8 \/ i = 9 \/ i = 10 \/ i = 11 \/ i = 12 \/ i = 13 \/ i = 14
             \/ i = 15 \/ i = 16 \/ i = 17 \/ i = 18 \/ i = 19 \/ i = 20 \/ i = 21
  OBVIOUS
<1>. HIDE DEF M, hz
<1>7. ASSUME NEW i \in 1..21
      PROVE  Setting(i) \in M /\ hz[Setting(i)] = Limit(i)
  BY <1>2, <1>3, <1>4, <1>5, <1>6
<1>8. ASSUME NEW s \in M
      PROVE  \/ s = 31 \/ s = 23 \/ s = 15 \/ s = 30 \/ s = 22 \/ s = 14 \/ s = 29
             \/ s = 21 \/ s = 13 \/ s = 28 \/ s = 20 \/ s = 12 \/ s = 27 \/ s = 19
             \/ s = 11 \/ s = 26 \/ s = 18 \/ s = 10 \/ s = 25 \/ s = 17 \/ s = 9
  <2>1. PICK m \in 1..3, e \in 1..7 : s = 8 * m + e
    BY DEF M
  <2>. QED  BY <2>1, SMT
<1>9. ASSUME NEW s \in M PROVE \E i \in 1..21 : s = Setting(i)
  BY <1>2, <1>8, SMT
<1>. QED  BY <1>1, <1>7, <1>9, Zenon DEF hz

\* The narrowest filter that is wide enough is taken (lr11xx_radio.c:1000).
LEMMA FilterKept ==
  ASSUME DriverInv
  PROVE  GfskFilter
<1>. SUFFICES ASSUME Fn = "gfsk_bandwidth" PROVE GfskFilter
  BY Zenon DEF GfskFilter
<1>. DEFINE fits == {i \in DOMAIN Radio!GfskLimits : In <= Radio!GfskLimits[i][1]}
            wide == {s \in DOMAIN Radio!GFSK_BW : Radio!GFSK_BW[s] >= In}
            first == Radio!Least(fits)
<1>1. In \in Nat /\ Out = Result(Fn, In)
  BY ResultIs DEF IsSettingInput, Settings
<1>2. Out = IF fits = {} THEN Radio!NoBandwidth ELSE Setting(first)
  BY <1>1, Zenon DEF Result, Times, Radio!get_gfsk_rx_bandwidth, Setting
<1>3. fits = {i \in 1..21 : In <= Limit(i)}
  BY LimitsAre, Zenon DEF Limit
<1>4. \A s : s \in wide <=> \E i \in fits : s = Setting(i)
  <2>1. \A i \in 1..21 : Limit(i) >= In <=> In <= Limit(i)
    BY <1>1, LimitsAre
  <2>2. ASSUME NEW i \in fits PROVE Setting(i) \in wide
    BY <1>3, <2>1, SettingsAre, Zenon
  <2>3. ASSUME NEW s \in wide PROVE \E i \in fits : s = Setting(i)
    BY <1>3, <2>1, <2>3, SettingsAre, Zenon
  <2>. QED  BY <2>2, <2>3, Zenon
<1>5. ASSUME fits # {} PROVE first \in fits /\ \A i \in fits : first <= i
  <2>. HIDE DEF fits
  <2>1. fits \subseteq Nat
    BY <1>3
  <2>2. \E n \in fits : \A m \in fits : n <= m
    BY <1>5, <2>1, LeastOf, Zenon
  <2>. QED  BY <2>2, Zenon DEF Radio!Least
<1>6. ASSUME fits # {}
      PROVE  Out \in wide /\ \A s \in wide : Radio!GFSK_BW[Out] <= Radio!GFSK_BW[s]
  <2>1. Out = Setting(first) /\ first \in fits /\ \A i \in fits : first <= i
    BY <1>2, <1>5, <1>6, Zenon
  <2>. HIDE DEF first, fits, wide
  <2>2. Out \in wide
    BY <1>4, <2>1, Zenon
  <2>3. ASSUME NEW s \in wide PROVE Radio!GFSK_BW[Out] <= Radio!GFSK_BW[s]
    <3>1. PICK i \in fits : s = Setting(i)
      BY <1>4, Zenon
    <3>2. i \in 1..21 /\ first \in 1..21 /\ first <= i
      BY <1>3, <2>1, Zenon
    <3>. QED  BY <2>1, <3>1, <3>2, LimitsAre, SettingsAre, Zenon
  <2>. QED  BY <2>2, <2>3, Zenon
<1>7. wide = {} <=> fits = {}
  BY <1>4, Zenon
<1>. HIDE DEF fits, first
<1>. QED  BY <1>2, <1>6, <1>7, Zenon DEF GfskFilter

(***************************************************************************)
(* Settings: the wait for a CAD and the table of a scan.                   *)
(***************************************************************************)

\* Half as much again, and ten milliseconds, is more than it takes (mode_scan.c:207-212).
LEMMA WaitIsEnough ==
  ASSUME NEW khz \in Nat \ {0}, NEW x \in Nat, NEW t, t = (3 * x) \div (2 * khz) + 10
  PROVE  t \in Nat /\ khz * t >= x
<1>. DEFINE y == 3 * x
            s == 2 * khz
            d == y \div s
<1>1. y \in Nat /\ s \in Nat \ {0} /\ t = d + 10
  OBVIOUS
<1>2. d \in Nat /\ y < s * d + s
  <2>. HIDE DEF y, s
  <2>. QED  BY <1>1, Divided
<1>3. s * d = 2 * (khz * d) /\ khz * d \in Nat /\ khz * (d + 10) = khz * d + 10 * khz
  <2>. HIDE DEF d
  <2>. QED  BY <1>2
<1>. HIDE DEF d
<1>. QED  BY <1>1, <1>2, <1>3

\* The wait for a CAD covers its symbols, where no setting was replaced by a slower one
\* (mode_scan.c:237).
WaitCovers(hz, symb) ==
  symb <= In.symb /\ 1000 * In.bw_khz <= hz => hz * Out >= 1000 * symb * 2^In.sf

\* It does so whatever the options are.
LEMMA WaitKept ==
  ASSUME DriverInv, Fn = "cad_wait"
  PROVE  WaitCovers(Radio!BwInHz[bw_to_enum(In.bw_khz, In.is_24g)], cad_symb_to_enum(In.symb))
<1>. DEFINE hz == Radio!BwInHz[bw_to_enum(In.bw_khz, In.is_24g)]
            symb == cad_symb_to_enum(In.symb)
<1>. SUFFICES ASSUME symb <= In.symb, 1000 * In.bw_khz <= hz
              PROVE  hz * Out >= 1000 * symb * 2^In.sf
  BY Zenon DEF WaitCovers
<1>. DEFINE khz == In.bw_khz
            p == 2^In.sf
            x == p * In.symb
            t == (3 * x) \div (2 * khz) + 10
<1>1. /\ In.sf \in 5..12 /\ In.symb \in Byte /\ In.is_24g \in BOOLEAN /\ khz \in Short \ {0}
      /\ Out = Result(Fn, In)
  BY ResultIs, SMT DEF IsSettingInput, Settings
<1>2. p \in Nat
  BY <1>1, PowersIn, ZenonT(30)
<1>3. In.symb \in Nat /\ khz \in Nat \ {0}
  <2>1. In.symb \in Byte /\ khz \in Short \ {0}
    BY <1>1, Zenon
  <2>. QED  BY <2>1, BytesAreNat, ZenonT(60)
<1>4. symb \in Nat
  BY <1>3, SMT DEF cad_symb_to_enum
<1>0. symb <= In.symb /\ 1000 * khz <= hz
  OBVIOUS
<1>5. hz \in Nat
  <2>1. bw_to_enum(khz, In.is_24g) \in DOMAIN Radio!BwInHz
    BY <1>1, SMT DEF bw_to_enum, Radio!BwInHz
  <2>2. \A b \in DOMAIN Radio!BwInHz : Radio!BwInHz[b] \in Nat
    BY SMT DEF Radio!BwInHz
  <2>. QED  BY <2>1, <2>2, Zenon
<1>. HIDE DEF hz, symb
<1>6. Out = IF t < 20 THEN 20 ELSE t
  <2>1. 3 * p * In.symb = 3 * x
    BY <1>2, <1>3
  <2>. HIDE DEF x
  <2>2. Out = LET u == (3 * p * In.symb) \div (2 * khz) + 10 IN IF u < 20 THEN 20 ELSE u
    BY <1>1, Zenon DEF Result, Times, cad_timeout_ms
  <2>. QED  BY <2>1, <2>2, Zenon
<1>7. x \in Nat /\ 1000 * symb * p <= 1000 * x /\ 1000 * khz <= hz
  <2>. DEFINE y == p * symb
              n == In.symb
  <2>1. n \in Nat /\ symb <= n /\ 1000 * khz <= hz
    BY <1>0, <1>3
  <2>. HIDE DEF p, n
  <2>2. p * n \in Nat /\ y \in Nat /\ y <= p * n
    BY <1>2, <1>4, <2>1, Product
  <2>3. 1000 * symb * p = 1000 * y
    BY <1>2, <1>4
  <2>. HIDE DEF y
  <2>. QED  BY <2>1, <2>2, <2>3 DEF n
<1>. HIDE DEF p, x
<1>8. t \in Nat /\ khz * t >= x
  <2>1. t = (3 * x) \div (2 * khz) + 10
    OBVIOUS
  <2>. HIDE DEF khz, t
  <2>. QED  BY <1>3, <1>7, <2>1, WaitIsEnough, ZenonT(60)
<1>. HIDE DEF khz, t
<1>9. Out \in Nat /\ khz * Out >= x
  <2>1. t < 20 => khz * t <= khz * 20 /\ khz * t \in Nat /\ khz * 20 \in Nat
    BY <1>3, <1>8, Product
  <2>. QED  BY <1>6, <1>7, <1>8, <2>1
<1>10. hz * Out >= 1000 * x
  <2>1. hz * Out >= (1000 * khz) * Out
    <3>. DEFINE k == 1000 * khz
    <3>1. k \in Nat /\ k <= hz
      BY <1>3, <1>7
    <3>. HIDE DEF k
    <3>2. Out * k <= Out * hz
      BY <1>5, <1>9, <3>1, Product
    <3>. QED  BY <1>5, <1>9, <3>1, <3>2 DEF k
  <2>2. (1000 * khz) * Out = 1000 * (khz * Out)
    BY <1>3, <1>9
  <2>3. khz * Out \in Nat /\ hz * Out \in Nat
    BY <1>3, <1>5, <1>9
  <2>. QED  BY <1>7, <1>9, <2>1, <2>2, <2>3
<1>11. hz * Out \in Nat /\ 1000 * symb * p \in Nat
  BY <1>2, <1>4, <1>5, <1>9
<1>. QED  BY <1>7, <1>10, <1>11 DEF p

\* The scan's table holds the lowest channels that fit (mode_scan.c).
LEMMA TableKept ==
  ASSUME DriverInv, Fn = "scan_table"
  PROVE  LET all == {f \in In.first..In.last : (f - In.first) % In.step = 0}
         IN  /\ \A i \in DOMAIN Out : Out[i] \in all /\ (i > 1 => Out[i - 1] < Out[i])
             /\ Len(Out) = Smaller(Cardinality(all), In.room)
             /\ \A f \in all \ {Out[i] : i \in DOMAIN Out} : \A i \in DOMAIN Out : Out[i] < f
<1>. DEFINE a == In.first
            z == In.last
            w == In.step
            r == In.room
            M == In.modulus
            all == {f \in a..z : (f - a) % w = 0}
            N == Fitting(a, z, w)
            Of(k) == At(a, w, k)
            freq(k) == (a + k * w) % M
            past == {k \in 0..r : freq(k) > z}
            least == CHOOSE k \in past : \A j \in past : k <= j
            n == IF past = {} THEN r ELSE least
<1>1. /\ a \in Nat /\ z \in Nat /\ w \in Nat \ {0} /\ r \in Nat /\ M \in Nat \ {0}
      /\ a <= z /\ a + r * w < M
      /\ Out = Result(Fn, In)
  BY ResultIs DEF IsSettingInput, Settings
<1>2. Out = [k \in 1..n |-> freq(k - 1)]
  BY <1>1, Zenon DEF Result, Times, Channels
<1>. HIDE DEF a, z, w, r, M
<1>3. /\ N \in Nat \ {0}
      /\ \A k \in Nat : Of(k) \in Nat /\ (Of(k) > z <=> k >= N)
      /\ \A j, k \in Nat : j < k => Of(j) < Of(k)
  BY <1>1, ChannelsIn, Zenon
<1>4. all = {Of(k) : k \in 0..N - 1} /\ Cardinality(all) = N
  BY <1>1, ChannelSet, Zenon
<1>5. ASSUME NEW k \in 0..r PROVE freq(k) = Of(k)
  <2>1. k \in Nat /\ k <= r /\ k * w = w * k /\ r * w = w * r
    BY <1>1
  <2>2. w * k <= w * r /\ w * k \in Nat
    BY <1>1, <2>1, Product
  <2>3. freq(k) = (a + w * k) % M
    BY <2>1
  <2>. DEFINE x == a + w * k
  <2>4. x \in Nat /\ x < M
    BY <1>1, <2>1, <2>2
  <2>. HIDE DEF x
  <2>5. x % M = x
    BY <1>1, <2>4
  <2>. QED  BY <2>3, <2>5, Zenon DEF At, x
<1>. HIDE DEF N, Of, freq, all
<1>6. past = {k \in 0..r : k >= N}
  BY <1>1, <1>3, <1>5
<1>7. n = Smaller(N, r) /\ n \in Nat /\ n <= r /\ n <= N
  <2>. HIDE DEF past
  <2>1. CASE past = {}
    <3>1. r < N
      <4>1. r \in 0..r
        BY <1>1
      <4>. QED  BY <1>1, <1>3, <1>6, <2>1, <4>1
    <3>. QED  BY <1>1, <1>3, <2>1, <3>1 DEF Smaller
  <2>2. CASE past # {}
    <3>1. N <= r /\ N \in past /\ \A j \in past : N <= j
      BY <1>1, <1>3, <1>6, <2>2
    <3>2. least \in past /\ \A j \in past : least <= j
      BY <3>1, Zenon
    <3>3. least = N
      <4>1. least <= N /\ N <= least /\ least \in Nat
        BY <1>1, <1>6, <3>1, <3>2
      <4>. HIDE DEF least
      <4>. QED  BY <1>3, <4>1
    <3>. HIDE DEF least
    <3>. QED  BY <1>1, <1>3, <2>2, <3>1, <3>3 DEF Smaller
  <2>. QED  BY <2>1, <2>2
<1>. HIDE DEF n
<1>8. Out = [k \in 1..n |-> Of(k - 1)]
  <2>1. \A k \in 1..n : k - 1 \in 0..r
    BY <1>1, <1>7
  <2>. QED  BY <1>2, <1>5, <2>1, Zenon
<1>. HIDE DEF Out
<1>9. DOMAIN Out = 1..n /\ Len(Out) = n /\ \A i \in 1..n : Out[i] = Of(i - 1)
  BY <1>7, <1>8
<1>10. ASSUME NEW i \in 1..n PROVE Out[i] \in all /\ (i > 1 => Out[i - 1] < Out[i])
  <2>1. i - 1 \in 0..N - 1 /\ i - 1 \in Nat
    BY <1>3, <1>7
  <2>2. Out[i] \in all
    BY <1>4, <1>9, <2>1, Zenon
  <2>3. i > 1 => Out[i - 1] < Out[i]
    <3>. SUFFICES ASSUME i > 1 PROVE Out[i - 1] < Out[i]
      OBVIOUS
    <3>. DEFINE j == i - 1
    <3>1. j \in 1..n /\ j - 1 \in Nat /\ j - 1 < i - 1
      BY <1>7
    <3>2. Of(j - 1) < Of(i - 1)
      BY <1>3, <2>1, <3>1
    <3>. HIDE DEF j
    <3>3. Out[j] < Out[i]
      BY <1>9, <3>1, <3>2
    <3>. QED  BY <3>3 DEF j
  <2>. QED  BY <2>2, <2>3
<1>11. ASSUME NEW f \in all, f \notin {Out[i] : i \in 1..n}, NEW i \in 1..n
       PROVE  Out[i] < f
  <2>1. PICK k \in 0..N - 1 : f = Of(k)
    BY <1>4
  <2>2. k \in Nat /\ i - 1 \in Nat
    BY <1>3, <1>7
  <2>3. k >= n
    <3>. SUFFICES ASSUME k < n PROVE FALSE
      BY <1>7, <2>2
    <3>. DEFINE j == k + 1
    <3>1. j \in 1..n /\ j - 1 = k
      BY <1>7, <2>2
    <3>. HIDE DEF j
    <3>. QED  BY <1>9, <1>11, <2>1, <3>1, Zenon
  <2>4. i - 1 < k
    BY <1>7, <2>2, <2>3
  <2>. QED  BY <1>3, <1>9, <2>1, <2>2, <2>4
<1>12. /\ \A i \in DOMAIN Out : Out[i] \in all /\ (i > 1 => Out[i - 1] < Out[i])
       /\ Len(Out) = Smaller(Cardinality(all), r)
       /\ \A f \in all \ {Out[i] : i \in DOMAIN Out} : \A i \in DOMAIN Out : Out[i] < f
  BY <1>4, <1>7, <1>9, <1>10, <1>11, Zenon
<1>. QED  BY <1>12, Zenon DEF all, a, z, w, r

(***************************************************************************)
(* Settings: timeouts in the radio's clock.                                *)
(***************************************************************************)

\* What has been sent is of the program.
LEMMA SentOne ==
  ASSUME DriverInv, NEW k \in DOMAIN carried
  PROVE  \E i \in DOMAIN job : Sent[k] = job[i]
BY Zenon DEF DriverInv, Reached, Sent

\* Both start with the workaround and then send the steps.
IsTimed(p, oc, x) ==
  \A i \in DOMAIN p : \/ p[i].oc = Regmem!Cmd.write_regmem32_mask[1]
                      \/ p[i].oc = oc /\ p[i].args = Radio!Low(3, Radio!RtcSteps(x))

\* set_rx and set_tx are (lr11xx_radio.c:209, lr11xx_radio.c:221).
LEMMA TimedPrograms ==
  ASSUME NEW x
  PROVE  IsTimed(Radio!set_rx(x), Radio!OC.set_rx, x) /\ IsTimed(Radio!set_tx(x), Radio!OC.set_tx, x)
<1>. DEFINE args == Radio!Low(3, Radio!RtcSteps(x))
            mask == Radio!Regmem!Transaction("write", Radio!Regmem!Cmd.write_regmem32_mask,
                      Radio!Bytes(4, \h00F30054) \o Radio!Bytes(4, 2^30) \o Radio!Bytes(4, 0), <<>>, 0)
            rx == Radio!Transaction("write", <<Radio!OC.set_rx, Radio!LEN.set_rx>>, args, <<>>, 0)
            tx == Radio!Transaction("write", <<Radio!OC.set_tx, Radio!LEN.set_tx>>, args, <<>>, 0)
<1>. DEFINE u == <<mask>>
            v == <<rx>>
            w == <<tx>>
            none == <<>>
            S == {mask, rx, tx}
<1>1. Radio!apply_high_acp_workaround = u
  BY SMT DEF Radio!apply_high_acp_workaround, Radio!Regmem!write_regmem32_mask, Radio!Regmem!Write
<1>4. mask.oc = Regmem!Cmd.write_regmem32_mask[1]
  BY SMT DEF Radio!Regmem!Transaction, Radio!Regmem!Cmd, Regmem!Cmd
<1>. HIDE DEF mask
<1>. DEFINE p == Radio!set_rx(x)
            q == Radio!set_tx(x)
<1>2. p = u \o v \o none
  <2>1. Radio!LNA.DIFFERENTIAL_LF0 \notin {Radio!LNA.SINGLE_RFI_P_LF0, Radio!LNA.SINGLE_RFI_N_LF0}
    BY DEF Radio!LNA
  <2>. QED
    BY <1>1, <2>1, Zenon DEF Radio!set_rx, Radio!set_rx_with_timeout_in_rtc_step,
      Radio!set_rx_with_timeout_in_rtc_step_and_lna_mode, Radio!Write
<1>3. q = u \o w
  BY <1>1, Zenon DEF Radio!set_tx, Radio!set_tx_with_timeout_in_rtc_step, Radio!Write
<1>5. rx.oc = Radio!OC.set_rx /\ rx.args = args /\ tx.oc = Radio!OC.set_tx /\ tx.args = args
  BY DEF Radio!Transaction
<1>. HIDE DEF rx, tx, args, p, q
<1>10. /\ u \in Seq(S) /\ v \in Seq(S) /\ w \in Seq(S)
       /\ Len(u) = 1 /\ Len(v) = 1 /\ Len(w) = 1
       /\ u[1] = mask /\ v[1] = rx /\ w[1] = tx
  OBVIOUS
<1>. HIDE DEF u, v, w, S
<1>. DEFINE uv == u \o v
            uw == u \o w
<1>6. p = uv /\ \A i \in DOMAIN uv : uv[i] = mask \/ uv[i] = rx
  <2>1. uv \in Seq(S)
    BY <1>10, ConcatProperties
  <2>2. uv \o none = uv
    <3>. HIDE DEF uv
    <3>. QED  BY <2>1, ConcatEmptySeq
  <2>3. \A i \in DOMAIN uv : uv[i] = u[1] \/ uv[i] = v[1]
    BY <1>10, TwoJoined
  <2>. QED  BY <1>2, <1>10, <2>2, <2>3, Zenon
<1>7. q = uw /\ \A i \in DOMAIN uw : uw[i] = mask \/ uw[i] = tx
  <2>1. \A i \in DOMAIN uw : uw[i] = u[1] \/ uw[i] = w[1]
    BY <1>10, TwoJoined
  <2>. QED  BY <1>3, <1>10, <2>1, Zenon
<1>. HIDE DEF uv, uw
<1>8. IsTimed(p, Radio!OC.set_rx, x)
  BY <1>4, <1>5, <1>6, Zenon DEF IsTimed, args
<1>9. IsTimed(q, Radio!OC.set_tx, x)
  BY <1>4, <1>5, <1>7, Zenon DEF IsTimed, args
<1>. QED  BY <1>8, <1>9, Zenon DEF p, q

\* The steps of the radio's clock that three bytes carry.
LEMMA StepsSent ==
  ASSUME NEW x, IsTimerInput("rx_timeout", x)
  PROVE  LET steps == Value(Radio!Low(3, Radio!RtcSteps(x)))
         IN  125 * steps <= 4096 * x /\ 4096 * x < 125 * (steps + 1)
<1>. DEFINE n == (x * 4096) \div 125
            f == Bytes(4, n)
            t == Bytes(3, n)
<1>1. Radio!RtcSteps(x) = f
  <2>1. \A v : Radio!Bytes(4, v) = Bytes(4, v)
    BY SMT DEF Radio!Bytes, Bytes
  <2>. HIDE DEF f
  <2>2. Radio!RtcSteps(x) = Radio!Bytes(4, n)
    BY SMT DEF Radio!RtcSteps, Radio!convert_time_in_ms_to_rtc_step
  <2>. HIDE DEF n
  <2>. QED  BY <2>1, <2>2, Zenon DEF f
<1>2. x \in Nat /\ n \in Nat /\ 125 * n <= 4096 * x /\ 4096 * x < 125 * (n + 1) /\ n < 2^24
  BY SMT DEF IsTimerInput
<1>. HIDE DEF n
<1>3. (n \div 256) \div 256 < 256
  BY <1>2, SMT
<1>4. Value(t) = n
  <2>1. n \in Nat
    BY <1>2
  <2>. QED  BY <1>3, <2>1, ValueBytes
<1>5. Radio!Low(3, f) = t
  <2>1. Len(f) = 4
    BY DEF Bytes
  <2>2. Radio!Low(3, f) = SubSeq(f, 2, 4)
    <3>. HIDE DEF f
    <3>1. 4 - 3 + 1 = 2
      OBVIOUS
    <3>2. Radio!Low(3, f) = SubSeq(f, 4 - 3 + 1, 4)
      BY <2>1, Zenon DEF Radio!Low
    <3>. QED  BY <3>1, <3>2, Zenon
  <2>3. SubSeq(f, 2, 4) = [i \in 1..3 |-> f[i + 1]]
    OBVIOUS
  <2>4. \A i \in 1..3 : f[i + 1] = (n \div 256^(3 - i)) % 256
    BY DEF Bytes
  <2>. QED  BY <2>2, <2>3, <2>4 DEF Bytes
<1>. HIDE DEF f, t
<1>6. Value(Radio!Low(3, Radio!RtcSteps(x))) = n
  BY <1>1, <1>4, <1>5, Zenon
<1>. QED  BY <1>2, <1>6

\* Both timeouts reach the radio in its clock's steps, cut to one.
LEMMA TimeoutsKept ==
  ASSUME DriverInv, NEW k \in DOMAIN carried,
         Fn \in {"rx_timeout", "tx_timeout"}, Sent[k].oc \in {Radio!OC.set_rx, Radio!OC.set_tx}
  PROVE  LET steps == Value(Sent[k].args)
         IN  125 * steps <= 4096 * In /\ 4096 * In < 125 * (steps + 1)
<1>. DEFINE t == Sent[k]
<1>1. IsTimerInput("rx_timeout", In) /\ job = TimerProgram(Fn, In)
  <2>1. IsTimerInput(Fn, In) /\ job = TimerProgram(Fn, In)
    BY ResultIs, Zenon DEF Timers
  <2>. QED  BY <2>1, SMT DEF IsTimerInput
<1>2. PICK i \in DOMAIN job : t = job[i]
  BY SentOne, Zenon
<1>3. /\ Radio!OC.set_rx # Regmem!Cmd.write_regmem32_mask[1]
      /\ Radio!OC.set_tx # Regmem!Cmd.write_regmem32_mask[1]
  BY SMT DEF Radio!OC, Regmem!Cmd
<1>4. IsTimed(job, Radio!OC.set_rx, In) \/ IsTimed(job, Radio!OC.set_tx, In)
  BY <1>1, TimedPrograms, Zenon DEF TimerProgram
<1>5. t.args = Radio!Low(3, Radio!RtcSteps(In))
  <2>. HIDE DEF t
  <2>1. t.oc # Regmem!Cmd.write_regmem32_mask[1]
    BY <1>3, Zenon DEF t
  <2>. QED  BY <1>2, <1>4, <2>1, Zenon DEF IsTimed
<1>. DEFINE v == Value(Radio!Low(3, Radio!RtcSteps(In)))
<1>6. 125 * v <= 4096 * In /\ 4096 * In < 125 * (v + 1)
  BY <1>1, StepsSent
<1>7. Value(t.args) = v
  BY <1>5, Zenon
<1>. HIDE DEF v
<1>. QED  BY <1>6, <1>7

(***************************************************************************)
(* Settings: the count that is sent.                                       *)
(***************************************************************************)

\* The count that is sent is the smallest there is that is large enough
\* (lr11xx_radio.c:1193).
LEMMA CountKept ==
  ASSUME NEW x \in Nat, 255 < x, x < 2^16,
         NEW me, me = Radio!convert_nb_symb_to_mant_exp(x)
  PROVE  /\ me.mant \in 0..31 /\ me.exp \in 0..7
         /\ me.mant * Unit(me.exp) >= x
         /\ \A s \in SyncTimeouts : s >= x => me.mant * Unit(me.exp) <= s
<1>. DEFINE mant == CHOOSE f : IsMantissa(f, x)
            few == {e \in 0..8 : mant[e] <= 31}
            e0 == Radio!Least(few)
            m == mant[e0]
<1>1. IsMantissa(mant, x)
  BY MantissaExists, Zenon
<1>2. me = [mant |-> m, exp |-> e0]
  BY Zenon DEF Radio!convert_nb_symb_to_mant_exp, IsMantissa
<1>. HIDE DEF mant
<1>3. \A e \in 0..8 : RoundsUp(mant[e], Unit(e), x)
  BY <1>1, MantissaIs, Zenon
<1>4. 6 \in few
  <2>1. mant[6] \in Nat /\ (mant[6] - 1) * Unit(6) < x
    BY <1>3 DEF RoundsUp
  <2>2. Unit(6) = 8192
    BY UnitsAre
  <2>3. mant[6] <= 31
    BY <2>1, <2>2, SMT
  <2>. QED  BY <2>3
<1>5. few \subseteq Nat /\ few # {}
  BY <1>4
<1>6. e0 \in few /\ \A e \in few : e0 <= e
  <2>. HIDE DEF few
  <2>1. \E n \in few : \A k \in few : n <= k
    BY <1>5, LeastOf, Zenon
  <2>. QED  BY <2>1, Zenon DEF Radio!Least
<1>. HIDE DEF e0
<1>7. e0 \in 0..7 /\ e0 \in 0..8 /\ m <= 31
  BY <1>4, <1>6
<1>8. m \in Nat /\ m * Unit(e0) >= x /\ (m - 1) * Unit(e0) < x
  BY <1>3, <1>7 DEF RoundsUp
<1>9. Unit(e0) \in Nat \ {0}
  BY <1>7, UnitsDivide
<1>10. ASSUME NEW s \in SyncTimeouts, s >= x PROVE m * Unit(e0) <= s
  <2>1. PICK n \in 0..31, f \in 0..7 : s = n * Unit(f)
    BY DEF SyncTimeouts, Unit
  <2>2. f \in 0..8 /\ n \in Nat /\ n <= 31
    OBVIOUS
  <2>3. Unit(f) \in Nat \ {0} /\ mant[f] \in Nat /\ (mant[f] - 1) * Unit(f) < x
    BY <1>3, <2>2, UnitsDivide DEF RoundsUp
  <2>. DEFINE u == Unit(f)
              k == mant[f]
              w == Unit(e0)
  <2>. HIDE DEF u, k, w
  <2>4. u \in Nat \ {0} /\ k \in Nat /\ (k - 1) * u < x /\ s = n * u
    BY <2>1, <2>3 DEF u, k
  <2>5. (k - 1) * u < n * u
    <3>1. (k - 1) * u \in Int /\ n * u \in Int
      BY <2>2, <2>4
    <3>. QED  BY <1>10, <2>4, <3>1
  <2>6. k - 1 < n
    <3>1. k - 1 \in Int /\ n \in Int
      BY <2>4
    <3>. QED  BY <2>4, <2>5, <3>1, LessTimes
  <2>7. mant[f] <= 31
    BY <2>2, <2>4, <2>6 DEF k
  <2>8. e0 <= f
    BY <1>6, <2>2, <2>7
  <2>9. PICK q \in Nat : u = q * w
    BY <1>7, <2>2, <2>8, UnitsDivide DEF u, w
  <2>10. w \in Nat \ {0} /\ (m - 1) * w < x /\ m \in Nat
    BY <1>8, <1>9 DEF w
  <2>. HIDE DEF m
  <2>. DEFINE nq == n * q
  <2>11. s = nq * w /\ nq \in Nat
    BY <2>2, <2>4, <2>9, <2>10
  <2>. HIDE DEF nq
  <2>12. (m - 1) * w < nq * w
    <3>1. (m - 1) * w \in Int /\ nq * w \in Int
      BY <2>10, <2>11
    <3>. QED  BY <1>10, <2>10, <2>11, <3>1
  <2>13. m - 1 < nq
    <3>1. m - 1 \in Int /\ nq \in Int
      BY <2>10, <2>11
    <3>. QED  BY <2>10, <2>12, <3>1, LessTimes
  <2>14. m * w <= nq * w
    <3>1. m <= nq
      BY <2>10, <2>11, <2>13
    <3>2. w * m <= w * nq
      BY <2>10, <2>11, <3>1, Product
    <3>. QED  BY <2>10, <2>11, <3>2
  <2>. QED  BY <2>11, <2>14 DEF w
<1>. HIDE DEF m
<1>11. me.mant = m /\ me.exp = e0
  BY <1>2
<1>12. m \in 0..31
  BY <1>7, <1>8 DEF m
<1>. QED  BY <1>7, <1>8, <1>10, <1>11, <1>12, Zenon DEF m

\* The same, of the byte that the radio gets.
LEMMA SyncTimeoutKept ==
  ASSUME DriverInv, NEW k \in DOMAIN carried, Fn = "sync_timeout", In > 255
  PROVE  LET t == Sent[k]
             nb == (t.args[1] \div 8) * 2^(2 * (t.args[1] % 8) + 1)
         IN  nb >= In /\ \A s \in SyncTimeouts : s >= In => nb <= s
<1>. DEFINE me == Radio!convert_nb_symb_to_mant_exp(In)
            m == me.mant
            e == me.exp
            args == <<8 * m + e, 1>>
            one == Radio!Transaction("write", <<Radio!OC.set_lora_sync_timeout,
                                                Radio!LEN.set_lora_sync_timeout_ext>>, args, <<>>, 0)
            t == Sent[k]
<1>1. IsTimerInput("sync_timeout", In) /\ job = Radio!set_lora_sync_timeout(In)
  <2>1. IsTimerInput(Fn, In) /\ job = TimerProgram(Fn, In)
    BY ResultIs, Zenon DEF Timers
  <2>. QED  BY <2>1, Zenon DEF TimerProgram
<1>2. In \in Nat /\ In < 2^16
  BY <1>1, SMT DEF IsTimerInput
<1>. HIDE DEF me
<1>3. /\ m \in 0..31 /\ e \in 0..7 /\ m * Unit(e) >= In
      /\ \A s \in SyncTimeouts : s >= In => m * Unit(e) <= s
  BY <1>2, CountKept, SMT DEF me
<1>4. m \in Nat /\ m <= 31 /\ e \in Nat /\ e <= 7
  BY <1>3
<1>5. job = <<one>>
  <2>1. ~(In <= 255) /\ ~(m > 31 \/ e > 7)
    BY <1>2, <1>4
  <2>. QED
    BY <1>1, <2>1, Zenon DEF Radio!set_lora_sync_timeout,
      Radio!set_lora_sync_timeout_with_mantissa_exponent, Radio!Write, me
<1>6. one.args = args
  BY DEF Radio!Transaction
<1>7. args[1] = 8 * m + e
  OBVIOUS
<1>. HIDE DEF m, e, args, one
<1>8. t = one
  <2>1. PICK i \in DOMAIN job : t = job[i]
    BY SentOne, Zenon
  <2>2. \A j \in DOMAIN <<one>> : <<one>>[j] = one
    OBVIOUS
  <2>. QED  BY <1>5, <2>1, <2>2, Zenon
<1>9. t.args[1] = 8 * m + e
  BY <1>6, <1>7, <1>8, Zenon
<1>10. (8 * m + e) \div 8 = m /\ (8 * m + e) % 8 = e
  BY <1>4
<1>11. (t.args[1] \div 8) * 2^(2 * (t.args[1] % 8) + 1) = m * Unit(e)
  BY <1>9, <1>10, Zenon DEF Unit
<1>. QED  BY <1>3, <1>11, Zenon

\* Every state of the invariant keeps TimersKept.
LEMMA TimersSet == DriverInv => TimersKept
<1>. SUFFICES ASSUME DriverInv, NEW k \in DOMAIN carried
     PROVE  LET t == Sent[k] IN
            /\ Fn \in {"rx_timeout", "tx_timeout"} /\ t.oc \in {Radio!OC.set_rx, Radio!OC.set_tx} =>
                 LET steps == Value(t.args)
                 IN  125 * steps <= 4096 * In /\ 4096 * In < 125 * (steps + 1)
            /\ Fn = "sync_timeout" /\ In > 255 =>
                 LET nb == (t.args[1] \div 8) * 2^(2 * (t.args[1] % 8) + 1)
                 IN  nb >= In /\ \A s \in SyncTimeouts : s >= In => nb <= s
  BY Zenon DEF TimersKept
<1>1. Fn \in {"rx_timeout", "tx_timeout"} /\ Sent[k].oc \in {Radio!OC.set_rx, Radio!OC.set_tx} =>
        LET steps == Value(Sent[k].args)
        IN  125 * steps <= 4096 * In /\ 4096 * In < 125 * (steps + 1)
  BY TimeoutsKept
<1>2. Fn = "sync_timeout" /\ In > 255 =>
        LET nb == (Sent[k].args[1] \div 8) * 2^(2 * (Sent[k].args[1] % 8) + 1)
        IN  nb >= In /\ \A s \in SyncTimeouts : s >= In => nb <= s
  BY SyncTimeoutKept
<1>. QED  BY <1>1, <1>2

\* Every state of the invariant keeps SettingsFit.
LEMMA SettingsKept == DriverInv => SettingsFit
<1>. SUFFICES ASSUME DriverInv PROVE SettingsFit
  OBVIOUS
<1>1. GfskFilter
  BY FilterKept
<1>2. TimersKept
  BY TimersSet
<1>3. ScanFits
  <2>1. Fn = "scan_table" =>
          LET all == {f \in In.first..In.last : (f - In.first) % In.step = 0}
          IN  /\ \A i \in DOMAIN Out : Out[i] \in all /\ (i > 1 => Out[i - 1] < Out[i])
              /\ Len(Out) = Smaller(Cardinality(all), In.room)
              /\ \A f \in all \ {Out[i] : i \in DOMAIN Out} : \A i \in DOMAIN Out : Out[i] < f
    BY TableKept, Zenon
  <2>2. Fn = "cad_wait" =>
          LET hz == Radio!BwInHz[bw_to_enum(In.bw_khz, In.is_24g)]
              symb == cad_symb_to_enum(In.symb)
          IN  symb <= In.symb /\ 1000 * In.bw_khz <= hz => hz * Out >= 1000 * symb * 2^In.sf
    BY WaitKept, Zenon DEF WaitCovers
  <2>. QED  BY <2>1, <2>2, Zenon DEF ScanFits
<1>. QED  BY <1>1, <1>2, <1>3 DEF SettingsFit

\* Every setting is the nearest that the radio has on the side that its purpose needs, for
\* every input: the filter, the time-outs and the count of symbols (lr11xx_radio.c:867-1068,
\* :1268-1343), the wait for a CAD, unless a setting was replaced by a slower one, and the
\* table of a scan (mode_scan.c:207-242).
THEOREM DriverSettings == DriverSpec => []SettingsFit
BY DriverInvariant, SettingsKept, PTL
=============================================================================
