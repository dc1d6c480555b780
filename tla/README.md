# Verification of lora-cli

TLA+ models, TLC runs and TLAPS proofs for lora-cli, a command line program that drives a
Semtech LR1121 radio over SPI from a Raspberry Pi. The models follow the C code under
`src/cli` and `src/src`; `PROJECT.json` maps every definition to the lines it stands for.

## 1. The system

| Component | Source | State it keeps | Operations |
|---|---|---|---|
| MAVLink transmit buffer | `cli/mode_mavlink.c:72-103` | a byte array, `head`, `tail`, `used` | `rb_reset`, `rb_push`, `rb_pop` |
| MAVLink helpers | `mode_mavlink.c:105-247` | none of their own: the radio, the transport, the buffer | `drain_transport`, `build_packet`, `radio_send`, `radio_rx`, `wait_irq`, `process_rx_packet` |
| Air side (drone, TDMA master) | `mode_mavlink.c:325-416` | `t_next_tx`, `got_gnd`, the buffer | one slot: send, listen until the slot is over |
| Ground side (TDMA slave) | `mode_mavlink.c:420-536` | `deadline`, `got_air`, the buffer, the TCP client | listen, guard time, reconnect, send |
| Transports, start-up | `mode_mavlink.c:251-321, 540-628` | a descriptor | UART, PTY, TCP accept; radio configuration; shutdown |
| LR1121 driver | `src/lr11xx_system.c`, `lr11xx_radio.c`, `lr11xx_regmem.c` | none; the chip has mode, status register, frame buffers | commands that marshal bytes; `get_and_clear_irq_status` is two commands |
| Board | `cli/board.c` | SPI and GPIO handles, `g_stop` | `lr11xx_hal_write/read`, BUSY polling, `wait_irq_rising` |
| Command line | `cli/main.c` | the parsed options | parsing, SIGINT handler, mode dispatch, tear-down |
| Radio configuration | `cli/radio.c` | none | modem parameters, image calibration, PA |
| Transmit, receive, scan, RF test, status modes | `cli/mode_tx.c`, `mode_rx.c`, `mode_scan.c`, `mode_txtest.c`, `mode_status.c` | counters, hit tables | one interrupt loop each; status only reads |
| Driver arithmetic | `src/lr11xx_radio.c`, `lr11xx_radio_timings.c` | none | time on air, receiver bandwidth, timers |
| Driver: bootloader, GNSS, Wi-Fi, crypto, LR-FHSS, ranging | `src/lr11xx_*.c` | none | commands, transfers split into pieces; no program in the repository calls them |

**Interaction.** Every program is one thread. It talks to the radio with blocking SPI
commands; the radio talks back by raising bits in a status register, whose logical OR is a
GPIO line, whose rising edges the kernel queues. Three clocks therefore run against each
other: the process, the radio (a transmission or a reception ends when it ends) and the
other side of the link with its own process and radio. A SIGINT handler sets `g_stop`. The
MAVLink bridge adds a byte stream in both directions (UART, PTY or TCP client).

Below a driver call lies the HAL of `board.c`. A call of the driver is one or several
transactions; a transaction polls the BUSY line, transfers, polls again, and a read fetches
its answer in a second transfer. It can give up at each of these points.

**What is hard.** The line, the edge queue and the status register can disagree: an edge
outlives the bits that raised it, and bits can be set while the line is already high, which
queues no edge. The reading of the status is two commands. Each command can fail, and a
failed command may have been carried out. An answer that nobody fetched stays in the radio.
`radio_rx`'s result is ignored. The two sides only
share a time division that each keeps by its own clock, and start at any time. A TCP client
can leave at any moment. The list with the lines is under `hazards` in `PROJECT.json`.

**What makes each component correct.** The buffer is a bounded FIFO queue. A side counts only
frames that went out whole, accepts a frame once, keeps sending and listening whatever fails,
and ends on Ctrl+C; the air side accepts one frame per slot; the ground side does not mix up
clients. The link keeps bytes in order, the sides do not transmit at once, every slot is
answered, and after a disturbance they find back to that. The other modes count only what
happened (packets sent, activity detected), take up every packet they are told of, obey
Ctrl+C, and leave the radio quiet. The HAL hands transactions on in order, each at most once,
reports success only when all were carried out, gives each command its own answer, and
returns. The driver's functions send commands of the length they declare, move every piece of
a split transfer once, and compute what the numbers stand for. The command line and the
set-ups leave a sender and a receiver started with the same options able to hear each other.

## 2. The modules

| Module | Models | Extends / uses |
|---|---|---|
| `BoundedFifo` | what the transmit buffer promises: a queue that takes a chunk whole or not at all | |
| `RingBuffer` | `ringbuf_t` and its three operations, array and indices | refines `BoundedFifo` |
| `Lr1121` | the chip as a record: mode, time left on air, lock on a frame, status bits, queued edge, frame buffers; commands and events as operators on it | |
| `Board` | the HAL: a driver call that fails, and may have been carried out all the same | extends `Lr1121` |
| `MavlinkPort` | what both sides share: the process state, the helpers (one step per driver call), the transport, the environment | extends `Board` |
| `MavlinkAir` | `run_air` and its shutdown | extends `MavlinkPort` |
| `MavlinkGnd` | `run_gnd`, the TCP client, SIGPIPE, and its shutdown | extends `MavlinkPort` |
| `OrderedPipe` | what one direction of the link promises: bytes in order, each at most once | |
| `MavlinkLink` | a drone, a ground station, the channel, one clock | instances of `MavlinkAir`, `MavlinkGnd`; refines `OrderedPipe` twice |
| `Main` | `main.c` around the other modes: start, reset, configuration, mode dispatch, the way out; the interrupt wait and read, sleep and standby that the modes share; Ctrl+C | extends `Board` |
| `TxMode`, `RxMode`, `ScanMode`, `TestMode` | the loops of `mode_tx.c`, `mode_rx.c`, `mode_scan.c`, `mode_txtest.c` | extend `Main` |
| `Cli` | the program in whichever mode the command line chose, and its properties | extends the four modes |
| `CommandChannel` | what the driver relies on: a call's transactions in order, each at most once, success only when all were carried out | |
| `Hal` | the seven functions of `lr11xx_hal.h` in `board.c`: BUSY polling, transfers, allocations, the pin; a radio that is slow, asleep or in reset | refines `CommandChannel` |
| `Command` | what a driver function is made of: a transaction with opcode, length, arguments, data, answer; marshalling; a loop over pieces | |
| `SystemDriver`, `RegmemDriver`, `RadioDriver`, `GnssDriver`, `WifiDriver`, `CryptoDriver`, `BootloaderDriver`, `RttofDriver`, `LrFhssDriver` | the functions of the driver's files, each as its program | extend `Command` |
| `RadioMath` | the arithmetic of `lr11xx_radio.c` and the symbol time of `lr11xx_radio_timings.c` | used by `RadioDriver` |
| `RadioConfig` | `radio.c` | instances of `SystemDriver`, `RadioDriver` |
| `ModeSetup` | what each mode sends before its loop, from its parameters | extends `RadioConfig` |
| `CommandLine` | `cfg_defaults` and `parse_args` | extends `Command` |
| `DriverFunctions` | the functions that split a transfer or compute: what each sends or returns as a function of its input, and the inputs it may be given | extends `ModeSetup`, instances of the driver's modules |
| `Driver` | the driver's calls on the HAL, with a record of the running one (`made`), and the properties of both | extends `Hal`, `DriverFunctions` |
| `DriverCalls` | the calls the runs sample, with their inputs | extends `DriverFunctions`, instance of `CommandLine` |
| `MCRingBuffer`, `MCAir`, `MCGnd`, `MCDriver` | values for the runs | |
| `*_proofs` | theorems and proofs | |

### How the state and the steps correspond to the code

`pc` is the point the process has reached: a name per driver call (`send_standby`,
`send_clear`, `send_buffer`, `send_tx`, `get_irq`, `clear_irq`, `rx_clear`, `rx_set`), per
blocking call (`wait`, `listen`, `guard`, `sleep`, `accept`) and per stretch of code between
them. `ret` is where the running helper returns to. `irq` is the local mask, `got` is
`got_gnd` or `got_air`, `pkt` the frame built, `txbuf` the queue the ring buffer implements
(the `ring` run and the proof `RingImplementsFifo` justify putting the queue in its place).
`left` and `due` are the ticks until the running wait gives up and until `t_next_tx` or
`deadline`: the code compares absolute times, the model counts the difference down. `faults`
is how many driver calls may still fail; a failed write leaves the chip as it was or as the
command would have made it (`board.c:363` reports an error when BUSY stays high after the
transfer). `link` and `base` say whether the TCP client is there and which bytes are its own.

One `poll` and what follows it is one step, `PollReturns`, in all three loops: drain the
transport, then take the edges. From there on each driver call is a step of its own, so a
frame can end, the clock can tick and Ctrl+C can come between any two of them.

Details left out, because no state of theirs is read back or nothing depends on them: the
sequence number and the packet counters, log lines, the RX LED and the pause of 3 ms that
shows it, the slicing of a wait into polls of 10 ms. `process_rx_packet` makes two reads of
the chip; the model makes one step of them (a failure of either has the same effect, and the
chip does not overwrite a payload between two reads in a row unless a whole frame arrives in
the meantime). A signal that arrives before the guard `poll` begins is treated like one that
arrives during it, so after Ctrl+C the guard time may be cut short at once. A client that
closes with unread data (a reset in place of a FIN) is not told apart from one that closes.

In `Main` and the modes, too, `pc` names the next driver call or blocking call, `irq` is the
local mask (emptied where the C variable goes out of scope), `left` what remains of the
running wait or sleep, `rc` the mode's result. The run begins after `parse_args`. Calls in a
row that only configure a radio in standby are one step (`Configure`): nothing can tell their
order, and the first that fails ends the mode. A scan may end before the reset (`ScanRefuses`,
an invalid range, `mode_scan.c:216-219`): a choice that stands for the options it was given.
The status mode is only this skeleton, since its reads change nothing. `wait_irq_rising` returns an error when a
signal interrupts it, so after Ctrl+C the model lets it, and lets it also wait on; without
Ctrl+C an error costs one of the failing calls. `sent`, `hits`, `ci` are the C variables;
`pass` counts the sweeps finished; `onAir`, `cadOn` and `detected` are what the radio did,
for the properties. `MaxPasses` bounds `--continuous`. LEDs, printing and the terminal are
left out. `LeftBehind` are the states an earlier program can have left the radio in.

**A driver function is its program**: the sequence of transactions it asks of the HAL, in
order, with every argument. This is exact, because each of these functions gives up at the
first transaction that fails, and none chooses its next transaction by an earlier answer;
where one does (`get_and_clear_irq_status`, the number of results), the answer is an argument
of the operator. A function that returns an error before it asks for anything is `Refuse`. A
mode's set-up is the concatenation of the programs it calls. Values of four bytes are strings
of bytes, since TLC's integers end at 2^31.

`Hal` runs one program after another: `step` is the point inside the transaction (`wait`,
`transfer`, `wait_answer`, `fetch`, `wait_last`), `at` the transaction, `polls` the reads of
BUSY left, `carried` the places the radio carried out, `answers` whose answer each read
brought. `chip.answer` is what the next read fetches: the running call's answer, one that an
earlier call left there (`foreign`), or the status that the radio sends when it has no answer.
A read of the pin can fail, a transfer can fail before or after the radio took it, an
allocation can fail. `Begin` starts with whatever the radio was left in.

Three things are taken from the radio's data sheet rather than the code, and marked external:
BUSY rises with a transfer and falls when the command is done, it stays high in sleep and in
reset, and a transfer while it is high is lost.

## 3. The runs

| Run | What it asks | Bounds | Result |
|---|---|---|---|
| `ring` | the circle is a FIFO queue, the indices agree | 4 cells, 2 byte values, chunks of up to 3 | holds |
| `air` | the air side alone, against any frames | slot, wait and time on air 1 tick; buffers 1 byte; 2 bytes offered; 1 failing call; damaged headers; Ctrl+C | holds |
| `air_tx_cut` | set_rx never cuts a frame short | slot 3 ticks, wait 2, a host that runs its steps in no time, no failures | **violated** |
| `gnd` | the ground side alone: safety | 2 bytes offered, read one at a time; 2 failing calls; damaged frames; a TCP client that leaves, with bytes still to be read, and comes | holds |
| `gnd_live` | the ground side alone: liveness | no data, 1 failing call, damaged headers, other senders, Ctrl+C, TCP client | holds |
| `gnd_guard` | the guard time is waited for | guard 2 ticks, 1 byte | **violated** |
| `link` | in step, nothing lost: no overlap, every slot answered, all delivered, bytes in order and none twice | slot 6, time on air 2, guard 1, wait 3; 2 bytes down, 1 up; 1 failing call on the ground | holds |
| `link_recover` | the sides fall in step | slot 4, time on air 1; 1 failing call per side, 1 lost frame, the drone switched on at any time | holds |
| `driver` | the HAL is a command channel, brings each command its own answer and returns; pieces, lengths, arithmetic, answers, settings of the calls | 1,400 calls, and after each of them possibly a second (a status read, a read, a reset, a wake-up); 2 reads of BUSY before giving up; every failure at every step; every state of the radio | holds |
| `image_cal` | a receiver's image is calibrated for its frequency | 13 command lines | **violated** |
| `cli` | the other modes: what is counted, how they end | 2 packets, 2 channels, 2 sweeps; waits of 1 and 2 ticks, time on air 1; 2 failing calls; Ctrl+C; the radio found quiet, sending a carrier or with an unfetched packet | holds |
| `rx_deaf` | the receive mode takes up every packet | as `cli`, no failing call, no Ctrl+C | **violated** |

Why such small bounds are enough. The one-sided runs let the environment do anything at any
time, and the clock run as it likes against the process: a slot of one tick already contains
every order of "frame ends", "slot ends", "wait ends" and every driver call. One byte of
buffer makes overflow, a full queue and a chunk dropped happen within two bytes; heard frames
carry no data or two bytes for a transport that has room for one, so writes are whole,
partial or refused. One failing call reaches every single failure at every point, two reach
the double failure that `NoFrameTwice` of the ground side is about. In the link runs the host
is prompt (its steps take no time beside a tick), as a process is against slots of 200 ms and
frames of 62 ms, and the proportions are those of the defaults: a slot longer than two frames
and the guard time (`main.c:119-120`), a wait for TX_DONE longer than a frame. In `link` the
first three properties hold until a call fails; the order of the bytes holds regardless.

In `driver` a call after a call shows what the first leaves behind; more than two add nothing,
because the second begins in the same states as the first and `Init` already allows all of
them. Two reads of BUSY stand for 500: the wait does the same at each. The sizes of a piece
are constants of the modules (`FLASH_WORDS`, `FW_IMAGE_WORDS`, `ALMANAC_BLOCKS`; 64, 64 and
some 50 in the code, 2 in the run), so that a few items make none, one, several and a
last piece that is full or not; Wi-Fi keeps its sizes, since there they are about 1020 bytes.
`DriverCalls` names every function of the driver at least once, and samples the arithmetic:
1,024 LoRa frames (every spreading factor, coding rate, both optimisations, four lengths, CRC
and header), both sides of every bandwidth limit and of every bound of a symbol time-out,
10,000 strings at every bound of UTF-8. The references they are compared with are written
from the meaning, not from the code: the fewest blocks that hold the bits, the narrowest
filter that is wide enough, the smallest number a mantissa and exponent can say, the code
point of a character.

In `cli` a mode's loop goes round twice, so what one round leaves behind (a bit, an edge, a
half-failed command) meets the next; a wait for TX_DONE as long as the frame lets the
time-out race the interrupt. `CAD_WAIT_MS` is longer than a CAD: `cad_timeout_ms`
(`mode_scan.c:207-212`) allows half as much again and 10 ms, and `HitsAreDetections` depends
on that being enough. `SettingsFit` says when it is: not when an option was replaced by a
slower setting (below), and then a late CAD can be counted for the next channel. Two failing calls reach every pair of failures, and `CountKept` counts
one packet too many for each.

**Fairness.** Weak fairness of the process (`Host`: the scheduler runs it), of the clock, of
the radio's end of transmission, and of the program that reads the transport. In `Cli` likewise: of the process, of the radio's
ending what it began, and of the clock. In `Driver` only of the process (`Course`, the steps of a
running call): nothing is asked of the radio, whose BUSY may stay high for ever, nor of who
makes the next call. A failing call
is bounded in number, not in time, so the liveness properties say: after the last failure,
whatever it left behind. Nobody owes the ground side a new TCP client, no frame is ever owed
to a side, and nothing is assumed of Ctrl+C. `KeepsSending` and `KeepsListening` except the
ground side's three ways to stop: waiting in `accept`, the end of the process, and SIGPIPE.
`CHECK_DEADLOCK FALSE` is set where the program may end or wait for good.

### What the violated runs show

- `air_tx_cut`: a ground frame that ends after the accepted one (`mode_mavlink.c:389` no
  longer looks at the line) or just when the slot ends leaves an edge in the kernel's queue.
  The next slot's `wait_irq` finds the line readable at once, reads a status that `radio_send`
  has cleared, returns the empty mask (`:203-204`), and `radio_rx` (`:370`) takes the radio out
  of TX. The header says "Switches to RX immediately after TX_DONE." (`:13`).
- `gnd_guard`: the guard time is one `poll` of the transport, so one byte of the client ends
  it (`:491`). The header says the ground side "waits guard_ms and transmits" (`:20-21`).
- `rx_deaf`: the radio raises HEADER_ERROR, the line rises, `mode_rx` reads the status
  (`mode_rx.c:120`); before the command that clears HEADER_ERROR arrives a packet ends and
  raises RX_DONE. The line never falls, `wait_irq_rising` sees no edge again, and the mode goes
  round its time-outs (`:118`) without ever looking at the status. `README.md:122` says that it
  "prints each received packet". The bridge's `wait_irq` shares the flaw, but its time-outs
  make it send, and `radio_send` clears everything.

- `image_cal`: `image_cal` (`radio.c:205-217`) passes step codes of 4 MHz (0xD7 is 860 MHz) to
  `lr11xx_system_calibrate_image_in_mhz`, which by its comment takes MHz
  (`lr11xx_system.h:243`) and divides by four once more (`lr11xx_system.c:281-285`). On 868.1
  MHz the radio is told to calibrate from 212 to 220 MHz; no frequency gets its own band.

### What the passing runs taught

- A status read can return another command's answer: `lr11xx_system_get_status` is a direct
  read, which sends no command, so when an earlier read gave up between its two transfers the
  bytes waiting in the radio are taken for the interrupt status. `OwnAnswers` says that only a
  direct read can, and the theorem that nothing else does.
- The wait for a CAD is sized from the options as given (`mode_scan.c:237`), while the radio
  gets the nearest settings it has (`:244`, `:256`): with `--scan --bw 400 --sf 12` below 1 GHz
  the wait is 25 ms and a symbol at 125 kHz takes 32.8 ms; `--cad-symb 0 --sf 12` waits 20 ms.
  `SettingsFit` excepts a replacement by something slower, and holds for all others, those by
  something faster included.
- `QuietAtEnd` has two exceptions. After a failed call the radio can go on sending: a start
  that was carried out but reported as failed ends the RF test without the standby command
  (`mode_txtest.c:114-118`), and the standby command itself can fail unnoticed. And a scan of an
  invalid range ends before the reset, so a radio that was found sending goes on
  (`mode_scan.c:216-219`). There is no third.
- `TxReturnsAtLast` says that the transmit mode returns, not that its count was sent: an error, a
  time-out or a failed call ends it earlier (`mode_tx.c:68-108`).
- Without a header, sender and receiver must agree on the payload's length, and the same options
  do not make them: the receiver takes `--payload-len`, 255 by default (`main.c:204`,
  `mode_rx.c:78`), the sender the length of its payload (`mode_tx.c:52`). `PeersAgree` asks for
  the agreement where the receiver was told a length that fits (`told`), likewise for a GFSK
  frame longer than the receiver takes.
- The time-outs in clock steps are computed in an `unsigned long` (`lr11xx_radio.c:1268-1271`).
  `convert_time_in_ms_to_rtc_step` takes it for 64 bits, as on a 64-bit system; on a 32-bit one
  time-outs above 131,071 ms wrap.
- A reset reports success whether or not the pin moved (`board.c:321-323`), so `CommandChannel`
  has a set of optional transactions, and `abort_blocking_cmd` does nothing (`:337-341`).
- `PeersAgree` excepts a GFSK signal wider than any filter: the receiver then programs a
  variable that was never set (`radio.c:293-294`).
- With a byte of the client in the ground's guard time the drone can miss the answer and lose
  the ground's bytes, though the two never overlap and the drone's bytes all arrive; so
  `EverySlotAnswered` asks for a silent client.
- The symbol time of SF12 overflows a signed integer (`lr11xx_radio_timings.c:230`), the time
  on air in milliseconds is exact up to 4,294,967 samples, a time-out beyond 511 s is cut to 24
  bits, and country codes from the 27th on wrap a byte (`lr11xx_wifi.c:470`). The samples stay
  inside these ranges; `AnswersDecoded` and the hazards say where they end.
- The usage text (`main.c:48-121`) promises more than `parse_args` does: the scan takes no
  `--freq`, `--cr` or `--preamble`, the bridge and the RF test no `--sync-word`, `--no-crc` or
  `--implicit`; values are cut to their type without a word (`--sf 263` is 7); an empty payload
  is sent with a length of 255. `CommandLine` keeps all of this.

- `NoFrameTwice` of the ground side holds up to two failed calls: a frame that ends between
  reading the status and reading the payload is written, its bit stays set, and only when the
  next send *and* the `radio_rx` after it fail is it read and written again. The property says
  so (`Failed >= 2`), and the theorem shows that fewer never suffice.
- The ground side's time-out, which sends although nothing was heard, makes frames overlap.
  It is also what brings a deaf radio back (`KeepsListening`), and the sides fall in step
  again by themselves (`FallsInStep`).

### Mutants

Every property of a passing run has a mutant: a plausible slip in one mapped definition
(`RbFitsOneMore`, `SendKeepsIrq`, `AirPollAlways`, `WaitAnswerSkipped`, `SetForgetsTx`, ...), written beside the definition it
replaces, that makes TLC find the property violated.

## 4. The proofs

| Theorem | Says, for all constants |
|---|---|
| `RingTypeOK`, `RingIndicesAgree` | indices in range, `tail` is `used` cells after `head` |
| `RingImplementsFifo` | `RingBuffer!Spec => BoundedFifo!Spec` with the cells from `head` on as the queue |
| `AirTypeOK`, `GndTypeOK` | type correctness of both sides, buffers within their limits |
| `AirCountedWasAired`, `GndCountedWasAired` | a frame counted went out whole |
| `AirNoFrameTwice`, `AirOneFramePerSlot` | a frame is accepted once, one frame per slot |
| `GndNoFrameTwice` | a frame is accepted again only after two failed calls |
| `GndNoStaleSession` | no frame carries a byte of an earlier client |
| `LinkUpInOrder` | towards the drone the link implements `OrderedPipe`: in order, at most once, unaltered |
| `LinkDownInOrder` | towards the client too, if at most one call fails on the ground |
| `LinkOverlapsNever` | while no call fails and nothing disturbs the link, both sides never transmit at once |
| `LinkEverySlotAnswered` | then, with a silent client, every slot of the drone brings an answer |
| `LinkUndisturbed` | nothing does disturb it without losses, on a serial line, with room in the kernel |
| `CliTypeOK` | type correctness of the other modes |
| `CliCountKept` | packets reported went out; at most `COUNT` go out, one more per failed call |
| `CliQuietAtEnd` | unless a call failed or the scan was refused, the radio ends in standby |
| `CliHitsAreDetections` | hits are detections, if `CAD_WAIT_MS > TOA` and no call failed |
| `TypeCorrect` | type correctness of the HAL |
| `AnswersOwned` | no call but one with a direct read takes an earlier call's answer |
| `ChannelImplemented` | `Hal!Spec => CommandChannel!Spec`: in order, at most once, success only when all is done |
| `DriverInvariant` | the radio has carried out the running call's program, in order, up to a point |
| `DriverPieces` | a split transfer moves each item once, in order, to its own place |
| `DriverTimes` | times on air are those of the frame's symbols or bits, rounded the right way |
| `DriverAnswers` | an answer is decoded to what it stands for; text is a string of characters |
| `DriverSettings` | filter, time-outs, symbol counts, scan table and CAD waits fit what was asked for |

Assumptions are those named in the modules (`SizeAssumption`, `ToaAssumption`,
`FaultsAssumption`, `PortAssumption`, `TcpAssumption`, `StopAssumption`, `TxAssumption`,
`RxAssumption`, `ScanAssumption`, `HalAssumption`, `BuildAssumption`, `DriverAssumption`,
`LinkAssumption`): positive capacities, natural times, and nothing about how slots, waits and
frames compare. `DriverAssumption` says that a call named after a function of `DriverFunctions`
has the program or the result which that function gives its input, and that the input is one
it may be given: the functions' own ranges, sums that stay in 32 bits. TLC evaluates them all
on every run. Five theorems ask for more, in their statements:
`CliHitsAreDetections`, that a CAD is over before the wait for it is; and those on the link
what is said below.

**The ring buffer.** `Inv` is the type invariant with `IndicesAgree`. The work is modular
arithmetic: lemmas about `At` and `Offset` (adding places on the circle, the inverse of a
place) give what a push and a pop do to the contents, and each step then maps to one step of
the queue or to none.

**The two sides.** `IInv == TypeOK /\ Control /\ TxDoneIsOurs /\ RxDoneIsNew` (and
`OneSession` on the ground), each checked with TLC before it was proved. `CountedWasAired`
alone is not inductive: it needs to know that nothing sets TX_DONE between the clearing of
the bits and `set_tx` (the radio is in standby there) and that from then on only this frame's
end does. `TxDoneIsOurs` says that for every point between. `RxDoneIsNew` says where the bit
of an accepted frame may still be set: on the air side only where `got_gnd` keeps the loop
from looking, on the ground side only between the acceptance and the next clear, unless calls
failed. `Control` says which helper may return where, and on the air side that the slot is
over when the next send begins. `MavlinkPort_proofs` has one lemma per shared step and per
invariant part; both sides cite them.

**The order of the link.** `OrderInv` of `MavlinkLink` holds both sides' `IInv`, and for each
direction where the bytes are. `Ordered` (in `MavlinkPort`) says that the transport's bytes,
the transmit buffer, the frame built and the frame on the air are increasing and lie one behind
the other; `UpOrder` and `DownOrder`, that what was delivered and what was heard lie behind
all that may still be heard (`Pending`), and that a frame heard and not yet accepted
(`fresh`) lies behind what was delivered. Without `fresh` this is false: after the acceptance the
frame is both. `Takes` then says that a step of a host delivers a prefix of a fresh frame or
nothing, and an increasing run of new bytes is what `OrderedPipe` may deliver. Downwards that
needs at most one failed call on the ground: with two the same frame is read again, as
`GndNoFrameTwice` says. The theorems and lemmas of the two sides are used of the drone and of
the ground station through instances of their proof modules (`AP`, `GP`); only the channel is
argued about anew.

**The slots.** `OverlapsNever` says nothing about how the two clocks compare, and so is far
from inductive. `Paced` does. It divides a slot into the stretches each process goes through
(`Prepares`, `Sends`, `Ends`, `Idle`, `TakesUp` on both sides, `Rearming` on the drone, `Guards`
on the ground), and says which may coincide and how many ticks are left: while the drone sends
or is about to, the ground listens and its deadline is further than the frame's end
(`DroneSends`); from the end of that frame on, the ticks to the drone's next frame are at
least those the answer still takes (`FrameEnded`, `GroundAnswers`); then the ground arms its radio
before they are over (`AnswerEnded`). One lemma per step and stretch says where it leads
(`Preparation`, `Transmission`, `Completion`, `Reception`, ...), and one lemma per action of the link
puts the two sides together. `Heeded` adds that an answer begins only when the drone listens,
so that it is locked on and taken up. TLC checked `Paced` and `Heeded` on the bounds of
`link` before the proof. The theorems take for granted:

- `Prompt`: the host runs its steps in no time, compared with a tick. Without it nothing bounds
  the delay between two calls, and the slots promise nothing.
- `Aligned`: the ground is listening, for longer than a frame takes, when the drone is
  switched on. Otherwise the first frames can overlap (`link_recover` shows that this ends).
- `SLOT_MS > 2 * TOA + GUARD_MS`: a slot has room for the two frames and the guard time.
  `TX_WAIT_MS > TOA`: `wait_irq` outlasts a frame. The program checks neither.
- `GUARD_MS >= 1`, for the answers: the drone needs the guard time to turn its radio round.
- `Undisturbed`: no frame is lost, the client is there, and when a frame is written to it
  there is room. Each of these can keep the ground from answering: after a frame not accepted
  it listens on until its own deadline of three slots and sends whenever that is.
  `LinkUndisturbed` says when it holds without being assumed; the bounds of `link` are such
  a case.
- No call of the driver has failed (`NoCallFailed`, in the properties themselves).

**The other modes.** What a driver call and an event do to the radio is stated at the head of
`Cli_proofs` (what the bridge needs of it, in `MavlinkPort_proofs`). `IInv` of `Cli` (at the end of that module) is `TypeOK /\ Control /\ NoOldEdge
/\ Counting /\ Quiet`. `CountKept` is not inductive: `Counting` says for every step where the
packet under way is - on the air, an unread TX_DONE in the radio, a mask read but not yet
counted - and that no TX_DONE or edge is left when the next is sent; `NoOldEdge`, that an
earlier program leaves no edge that such an argument would miss. `Quiet` extends
`QuietAtEnd` to the step before the end; the lemma `HostOutcome` shows that each way out
passes the standby command, has met a failed call or is the refused scan. For the scan, `ScanInv` adds
`Detecting`: from a CAD's start to the counting of its hit, the hits with the answer still
under way are the detections. Without `CAD_WAIT_MS > TOA` it is false, and so is the theorem:
a CAD that outlives its wait leaves an edge and a bit for the next channel.

**The HAL.** `Inv == TypeOK /\ StepFits /\ BusReady /\ InOrder /\ OwnAnswers`, for every set of
programs. `StepFits` says which kind of transaction each step belongs to; `BusReady`, that the
bus is only used with BUSY low and that the answer fetched by a read is its own; `InOrder`,
that what the radio carried out is what the call has passed, with the running transaction
before or after its transfer. The refinement needs `InOrder`: a transaction is handed on only
when all before it are settled, and `ok` is reported only past the last. Each step of the HAL
is then one step of the channel or none (`StepRefines`). The theorems are about every program,
so about every function of the driver; TLC checks them on the programs of `DriverCalls`.

**The driver's functions.** The theorems of `Driver_proofs` are about any table of calls and
every input that `DriverFunctions` permits. `DriverInv` is the HAL's invariant with `Reached`: in
a call of which nothing is optional, the radio has carried out the first transactions of the
program and no others. So each property is one about prefixes of a program. `DriverPieces`
then needs the arithmetic of a split (how many pieces, how long each, where it begins), that a
prefix of the pieces joined is a prefix of the items joined, and that a sum goes up piece by
piece. The sums and joins are folds, and no induction theorem can be instantiated here, so
these lemmas are proved by the least counterexample: of the lengths at which the claim
fails there is a smallest, and it is not the smallest. `DriverTimes` rests on what a quotient rounded
up or down says, `DriverSettings` on the order of the filter's limits, the rounding of a mantissa for each
exponent, and on the scan table being the arithmetic progression that it ought to be, counted.
For `DriverAnswers` every form of a character is shown to be the code points of
its length and no others, and two texts agree from any place on because the forms fix the length by
the first byte. The lemmas about folds, bytes and powers that these rest on are in
`Hal_proofs` too.

**Only model-checked.** Liveness (no prover here does fairness): that the loops keep sending
and listening, that Ctrl+C ends them, that a call returns, that the two sides fall in step again
after losses and failures. And `CommandLengths` and `PeersAgree`, which are statements about the
sampled calls, at every point of failure.

## 5. Not modelled, and the plan

Not modelled, and why:

- **Result fields.** What the driver copies out of an answer without computing (versions,
  statistics, scan results) is left out; `AnswersDecoded` is about the answers it takes apart.
- **Floating point and power.** `compute_power_consumption` of GNSS, `get_consumption_nah` of Wi-Fi, the Doppler
  solver's floats: sums and products of measured
  constants, and TLA+ has no floats.
- **Interrupt delays** of `lr11xx_radio_timings.c`: sums of tabulated times. Nothing calls them.
- **The CRC of SPI frames** (`lr11xx_hal.h`, inline): the program never enables it.
- **Handles.** `ctx_init` and `ctx_deinit` are one step each that may fail; which of the GPIO
  lines was opened is not modelled, nor the descriptor that `mode_mavlink.c:621` closes twice.
- **Transports.** Opening a UART, PTY or socket, baud rates.
- **Output.** Terminal drawing, the usage text, what is printed of a packet, LEDs.

What is left, in the order worth doing it:

1. `ctx_init` and `ctx_deinit` handle by handle, with the tear-down after each failure.
2. The opening of the transports and their descriptors.
3. `Board`'s "fails and may have been carried out" derived from `Hal` by a refinement, so that
   the loops run on the same HAL as the driver's calls.
4. Proofs: the slots when frames are lost (the ground's time-out of three slots then sets the
   pace), and the lengths of all commands for every argument.
