------------------------------- MODULE Driver -------------------------------
(* The calls of the LR11xx driver and of the modes that set the radio up, on *)
(* the channel that cli/board.c gives them: what has reached the radio at    *)
(* any point of a call that may fail at every step.                          *)
EXTENDS Hal, DriverFunctions, SequencesExt

CONSTANT Calls  \* each call: fn, its kind; in, its input; out, its result; program

\* Programs is the column of Calls that the channel runs.
ASSUME DriverAssumption ==
  /\ DOMAIN Programs = DOMAIN Calls
  /\ \A c \in DOMAIN Calls : Programs[c] = Calls[c].program /\ IsComputed(Calls[c])

VARIABLE made  \* the running or the last call: its fn, in and out

driverVars == <<halVars, made>>

Fn == made.fn
In == made.in
Out == made.out

Made(c) == LET C == Calls[c] IN [fn |-> C.fn, in |-> C.in, out |-> C.out]

DriverInit == Init /\ made = Made(call)
DriverBegin == Begin /\ made' = Made(call')
DriverCourse == Course /\ UNCHANGED made
DriverBusyFalls == BusyFalls /\ UNCHANGED made

DriverNext == DriverBegin \/ DriverCourse \/ DriverBusyFalls

DriverSpec == DriverInit /\ [][DriverNext]_driverVars

DriverLiveSpec == DriverSpec /\ WF_driverVars(DriverCourse)

\* The transactions of the running call that the radio has carried out.
Sent == [k \in DOMAIN carried |-> job[carried[k]]]

SentOf(oc) == SelectSeq(Sent, LAMBDA t : t.oc = oc)
SumOf(s) == Folded(LAMBDA acc, n : acc + n, 0, s)

(***************************************************************************)
(* The loops that split a transfer: the items that one transaction moves,  *)
(* the first of them and their number, and all the items of the call.      *)
(***************************************************************************)
Items(t) ==
  CASE Fn \in Words -> Len(t.data) \div 4
    [] Fn = "almanac_update" -> Len(t.data) \div In.size
    [] Fn = "read_almanac" -> t.answer
    [] Fn = "wifi" -> t.args[2]

\* The loop over the almanac's blocks says no place: the radio keeps count.
FirstIs(t, n) ==
  CASE Fn \in Words -> Value(t.args) = In.first + 4 * n
    [] Fn = "almanac_update" -> TRUE
    [] Fn = "read_almanac" -> t.oc = Regmem!Cmd.read_regmem32[1]
                              /\ Value(SubSeq(t.args, 1, 4)) = In.first + n
    [] Fn = "wifi" -> t.args[1] = In.first + n /\ t.answer = t.args[2] * In.size
                      /\ t.answer <= 1020

\* The transactions that move items: reading the almanac begins with asking where it is.
Moving == SubSeq(Sent, IF Fn = "read_almanac" THEN 2 ELSE 1, Len(Sent))

\* A transfer that is split moves every item once, in order, each to or from its
\* own place, wherever it fails, and succeeds only when all are moved: the flash and
\* firmware image writes (lr11xx_bootloader.c:217-244, lr11xx_crypto_engine.c:519-547),
\* the almanac (lr11xx_gnss.c:280-351), the Wi-Fi results, which also keep to the
\* SPI buffer of the radio (lr11xx_wifi.c:667).
PiecesOnce ==
  Fn \in Loops =>
    LET moved == Moving
        before(k) == SumOf([j \in 1..(k - 1) |-> Items(moved[j])])
        all == before(Len(moved) + 1)
    IN  /\ \A k \in DOMAIN moved : Items(moved[k]) > 0 /\ FirstIs(moved[k], before(k))
        /\ IsPrefix(FlattenSeq([k \in DOMAIN moved |-> moved[k].data]), FlattenSeq(In.words))
        /\ all <= In.items
        /\ status = "ok" => all = In.items

\* Every command goes out with the length it was marshalled to, and every byte of it
\* is a byte: no argument is longer than its place, shifted out of it or forgotten
\* (the cbuffer of each function of the driver against its CMD_LENGTH).
CommandLengths ==
  \A k \in DOMAIN carried :
    LET t == Sent[k] IN
    t.op \in {"write", "read"} =>
      /\ t.len = 2 + Len(t.args)
      /\ \A i \in DOMAIN t.args : t.args[i] \in 0..255
      /\ \A i \in DOMAIN t.data : t.data[i] \in 0..255

(***************************************************************************)
(* The arithmetic, against what the numbers stand for.                     *)
(***************************************************************************)
\* The symbols of a LoRa frame with the short interleaver: the first eight carry
\* four bits less the header's and a payload needs the fewest blocks that hold it.
Samples(pkt, mod) ==
  LET bits == 8 * (pkt.pld_len_in_bytes + IF pkt.crc THEN 2 ELSE 0)
      room == 4 * (IF mod.sf > 6 THEN mod.sf - 2 ELSE mod.sf) - IF pkt.implicit THEN 0 ELSE 20
      block == 4 * (mod.sf - 2 * mod.ldro)
      blocks == CHOOSE k \in 0..bits : /\ room + block * k >= bits
                                       /\ k = 0 \/ room + block * (k - 1) < bits
      preamble == 4 * pkt.preamble_len_in_symb + 17 + IF mod.sf <= 6 THEN 8 ELSE 0
  IN  (preamble + 4 * 8 + 4 * blocks * (mod.cr + 4)) * 2^(mod.sf - 2)

\* n units of a millionth, or of any other rate a second, in the fewest whole milliseconds.
InMs(ms, units, rate) == rate * (ms - 1) < 1000 * units /\ 1000 * units <= rate * ms

\* Coded bits of an LR-FHSS payload, and two more for each fragment begun.
CodedBits(len, cr) == LET bits == 8 * (len + 2) + 6 IN
  CHOOSE n \in bits..3 * bits : /\ n * <<5, 2, 1, 1>>[cr + 1] >= bits * <<6, 3, 2, 3>>[cr + 1]
                                /\ (n - 1) * <<5, 2, 1, 1>>[cr + 1] < bits * <<6, 3, 2, 3>>[cr + 1]

\* The time on air the driver computes is that of the frame's symbols, to one sample,
\* and the milliseconds and microseconds it makes of samples and bits are rounded the
\* right way (lr11xx_radio.c:1070-1225, lr11xx_radio_timings.c:222-232,
\* lr11xx_lr_fhss.c:164-216).
TimeOnAir ==
  status = "ok" =>
    /\ Fn = "time_on_air" =>
         LET n == Samples(In.pkt, In.mod)
         IN  Out.samples \in n - 1..n /\ InMs(Out.ms, Out.samples, Radio!BwInHz[In.mod.bw])
    /\ Fn = "gfsk_time" => InMs(Out, Radio!get_gfsk_time_on_air_numerator(In.pkt), In.rate)
    /\ Fn = "lr_fhss_time" =>
         LET coded == CodedBits(In.len, In.cr)
             bits == 114 * In.headers + coded + 2 * ((coded + 47) \div 48)
         IN  InMs(Out, 256 * bits, 125000)
    /\ Fn = "symbol_time" =>
         LET hz == Radio!BwInHz[In.bw]
         IN  hz * Out <= 1000000 * 2^In.sf /\ 1000000 * 2^In.sf < hz * (Out + 1)

\* A receiver's filter is the narrowest setting that is wide enough, or the one
\* left as it was when none is (lr11xx_radio.c:976-1068, lr11xx_radio_types.h:337-357).
GfskFilter ==
  Fn = "gfsk_bandwidth" /\ status = "ok" =>
    LET wide == {s \in DOMAIN Radio!GFSK_BW : Radio!GFSK_BW[s] >= In}
    IN  IF wide = {} THEN Out = Radio!NoBandwidth
        ELSE Out \in wide /\ \A s \in wide : Radio!GFSK_BW[Out] <= Radio!GFSK_BW[s]

\* The timers that reach the radio are those that were asked for, in its own units:
\* a time-out in clock steps, to less than one step (lr11xx_radio.c:1268-1271); a
\* count of symbols above 255 as the smallest that five bits and an exponent can say,
\* and refused when none is (lr11xx_radio.c:867-908, :1328-1343, lr11xx_radio.h:1013).
SyncTimeouts == {m * 2^(2 * e + 1) : m \in 0..31, e \in 0..7}

TimersKept ==
  \A k \in DOMAIN carried :
    LET t == Sent[k] IN
    /\ Fn \in {"rx_timeout", "tx_timeout"} /\ t.oc \in {Radio!OC.set_rx, Radio!OC.set_tx} =>
         LET steps == Value(t.args)
         IN  125 * steps <= 4096 * In /\ 4096 * In < 125 * (steps + 1)
    /\ Fn = "sync_timeout" /\ In > 255 =>
         LET nb == (t.args[1] \div 8) * 2^(2 * (t.args[1] % 8) + 1)
         IN  nb >= In /\ \A s \in SyncTimeouts : s >= In => nb <= s

\* The channels of a scan are those of its range, as far as the table has room
\* (mode_scan.c:224-233). The wait for a channel's CAD is at least as long as the symbols
\* that the radio is set to listen for (:237, :244, :256), unless a setting that cannot be
\* had was replaced by one that takes longer: the wait is sized for the options as given,
\* so with --bw 400 below 1 GHz (125 kHz instead) or --cad-symb 0 (1 instead) it can be
\* over before the CAD is.
ScanFits ==
  status = "ok" =>
    /\ Fn = "scan_table" =>
         LET all == {f \in In.first..In.last : (f - In.first) % In.step = 0}
         IN  /\ \A i \in DOMAIN Out : Out[i] \in all /\ (i > 1 => Out[i - 1] < Out[i])
             /\ Len(Out) = Smaller(Cardinality(all), In.room)
             /\ \A f \in all \ {Out[i] : i \in DOMAIN Out} : \A i \in DOMAIN Out : Out[i] < f
    /\ Fn = "cad_wait" =>
         LET hz == Radio!BwInHz[bw_to_enum(In.bw_khz, In.is_24g)]
             symb == cad_symb_to_enum(In.symb)
         IN  symb <= In.symb /\ 1000 * In.bw_khz <= hz => hz * Out >= 1000 * symb * 2^In.sf

\* What a caller asks for is what the radio is set to: the filter is the narrowest that
\* is wide enough, the timers are the ones asked for, and the scan's channels and waits
\* are those of its range (lr11xx_radio.c:867-1068, :1268-1343, mode_scan.c:207-242).
SettingsFit == GfskFilter /\ TimersKept /\ ScanFits

(***************************************************************************)
(* Answers taken apart.                                                    *)
(***************************************************************************)
\* The character that n bytes stand for, and the least that needs so many.
CodePoint(s) ==
  Folded(LAMBDA acc, b : 64 * acc + (b % 64), s[1] % <<128, 32, 16, 8>>[Len(s)], Tail(s))

IsCharacter(s) ==
  /\ s[1] \in <<0..127, 192..223, 224..239, 240..247>>[Len(s)]
  /\ \A i \in 2..Len(s) : s[i] \in 128..191
  /\ CodePoint(s) >= <<0, 128, 2048, 65536>>[Len(s)]
  /\ CodePoint(s) <= \h10FFFF /\ (CodePoint(s) < \hD800 \/ CodePoint(s) > \hDFFF)

IsText(s) ==
  LET text[i \in 0..Len(s)] ==
        \/ i = Len(s)
        \/ \E n \in 1..4 : i + n <= Len(s) /\ IsCharacter(SubSeq(s, i + 1, i + n)) /\ text[i + n]
  IN  text[0]

\* What the driver makes of an answer is what was put into it: a network's name is text
\* when it is a string of characters in their shortest form (lr11xx_wifi.c:811), a
\* status gives its fields back (lr11xx_gnss.c:701), a distance is right to a metre
\* (lr11xx_rttof.c:157), an almanac's age passes the end of its 16 bits
\* (lr11xx_gnss.c:770), and of the country codes only the first 26 are read from
\* their own places, the index being a byte (lr11xx_wifi.c:468).
AnswersDecoded ==
  status = "ok" =>
    /\ Fn = "text" => Out = {s \in In : IsText(s)}
    /\ Fn = "bytes" => \A b \in In :
         LET o == Out[b] IN
         /\ b % 128 = o.info.channel + 16 * o.info.mac_origin + 64 * Bit(~o.info.rssi_valid)
         /\ b = 64 * o.frame.type + 4 * o.frame.sub_type + 2 * Bit(o.frame.to_ds) + Bit(o.frame.from_ds)
         /\ b = 4 * o.rate.rate + o.rate.signal_type
    /\ Fn = "context" => Out = {In}
    /\ Fn = "distance" => LET error == 4096 * Out - 300 * Rttof!BwScaling(In.bw) * In.raw
                          IN  -4096 < error /\ error < 4096
    /\ Fn = "almanac_age" => Out \in Short /\ (In.date + In.rollover + Out) % 2^16 = In.today
    /\ Fn = "country_code" => Out = 10 * In

(***************************************************************************)
(* The modes' set-ups.                                                     *)
(***************************************************************************)
\* What commands leave set: the arguments of its last command of that opcode.
Left(commands, oc) ==
  LET set == SelectSeq(commands, LAMBDA t : t.oc = oc)
  IN  IF set = <<>> THEN <<>> ELSE Last(set).args

\* The packet parameters but for the payload length: the fourth of the six bytes of
\* LoRa, the seventh of the nine of GFSK.
LengthAt(args) == IF Len(args) = 9 THEN 7 ELSE 4
PacketForm(args) == IF args = <<>> THEN <<>> ELSE ReplaceAt(args, LengthAt(args), 0)

\* A LoRa frame with a header says how long it is; without one (third byte) both sides
\* must know. A GFSK frame of variable length must not be longer than the receiver takes.
LengthHeard(receives, sends) ==
  LET r == receives[LengthAt(receives)]
      s == sends[LengthAt(sends)]
  IN  CASE Len(receives) = 9 -> s <= r
        [] Len(receives) # 9 /\ receives[3] = 1 -> s = r
        [] OTHER -> TRUE

OnAir(commands) ==
  LET OC == Radio!OC IN
  <<Left(commands, OC.set_pkt_type), Left(commands, OC.set_rf_frequency),
    Left(commands, OC.set_modulation_param), PacketForm(Left(commands, OC.set_pkt_param)),
    Left(commands, OC.set_lora_sync_word), Left(commands, OC.set_gfsk_sync_word)>>

\* A receiver that is up hears a sender started with the same options: both have set
\* the same frequency, modem, modulation, packet form and sync word, though each mode
\* keeps its own copy of every option (main.c:251-466, mode_rx.c:40-107,
\* mode_tx.c:12-75), and the receiver takes a frame of the sender's length. Not so for a
\* GFSK signal wider than any filter (radio.c:288-296), nor when the receiver was not told
\* a length that fits (main.c:75: "expected payload bytes (implicit)"): the sender does
\* not use that option, and its default is 255 bytes.
PeersAgree ==
  Fn = "rx" /\ status = "ok" /\ In.fits =>
    LET form(commands) == Left(commands, Radio!OC.set_pkt_param)
    IN  /\ OnAir(Sent) = OnAir(In.sender)
        /\ In.told => LengthHeard(form(Sent), form(In.sender))

\* The receiver starts on a frequency that the image was calibrated for
\* (lr11xx_system.h:243: "a calibration valid for all frequencies inside an interval,
\* in MHz"), below 2.4 GHz where the modes calibrate it (radio.c:203-217).
ImageCalibrated ==
  Fn = "rx" /\ SentOf(Radio!OC.set_rx) # <<>> =>
    LET freq == Left(Sent, Radio!OC.set_rf_frequency)
        steps == Left(Sent, System!Cmd.calibrate_image[1])
    IN  Below(freq, 2400) =>
          ~Below(freq, 4 * steps[1]) /\ Below(freq, 4 * steps[2] + 1)
=============================================================================
