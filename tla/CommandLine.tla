----------------------------- MODULE CommandLine -----------------------------
(* cli/main.c: what the options of the command line leave each mode. A       *)
(* command line is a sequence of options, <<flag>> or <<flag, value>>; a     *)
(* frequency is the string of its four bytes, any other number is as atoi or *)
(* strtoul read it. A payload is the string of its bytes.                    *)
EXTENDS Command, TLC

Lora868 == [freq_hz |-> Bytes(4, 868100000), sf |-> 7, bw_khz |-> 125, cr |-> 5,
            preamble |-> 8, crc |-> TRUE, implicit |-> FALSE, ldro |-> FALSE,
            invert_iq |-> FALSE, sync_word |-> 0, fsk |-> FALSE, fsk_bitrate |-> 0,
            fsk_fdev_hz |-> 0]

cfg_defaults ==
  [pins |-> "spi0", payload |-> <<>>,
   mode |->
     [rx |-> [boosted_rx |-> FALSE, payload_len |-> 255] @@ Lora868,
      tx |-> [power_dbm |-> 14, hp_pa |-> FALSE, count |-> 1, interval_ms |-> 1000] @@ Lora868,
      scan |-> [freq_start |-> Bytes(4, 863000000), freq_end |-> Bytes(4, 870000000),
                freq_step |-> Bytes(4, 200000), sf |-> 7, bw_khz |-> 125, cad_symb |-> 1,
                cad_peak |-> 0, cad_min |-> 0, continuous |-> FALSE],
      txtest |-> [freq_hz |-> Bytes(4, 868000000), power_dbm |-> 14, hp_pa |-> FALSE,
                  cw |-> FALSE, fsk |-> FALSE, sf |-> 7, bw_khz |-> 125,
                  fsk_bitrate |-> 0, fsk_fdev_hz |-> 0],
      mavlink |-> [freq_hz |-> <<\h91, \h6F, \h5A, 0>>, sf |-> 7, bw_khz |-> 800, cr |-> 5,
                   preamble |-> 8, power_dbm |-> 13, air_side |-> FALSE, slot_ms |-> 200,
                   guard_ms |-> 10, uart_path |-> "", uart_baud |-> 57600,
                   tcp_port |-> 0, pty_path |-> ""]]]

Modes == {"status", "rx", "tx", "scan", "txtest", "mavlink"}
ModeFlag == "--status" :> "status" @@ "--rx" :> "rx" @@ "--tx" :> "tx" @@ "--scan" :> "scan"
            @@ "--txtest" :> "txtest" @@ "--mavlink" :> "mavlink"

\* Flags without a value: the modes whose parameter they set, and to what.
Switch ==
  "--no-crc" :> <<{"rx", "tx"}, "crc", FALSE>>
  @@ "--implicit" :> <<{"rx", "tx"}, "implicit", TRUE>>
  @@ "--ldro" :> <<{"rx", "tx"}, "ldro", TRUE>>
  @@ "--invert-iq" :> <<{"rx", "tx"}, "invert_iq", TRUE>>
  @@ "--fsk" :> <<{"rx", "tx", "txtest"}, "fsk", TRUE>>
  @@ "--cw" :> <<{"txtest"}, "cw", TRUE>>
  @@ "--bw-boosted" :> <<{"rx"}, "boosted_rx", TRUE>>
  @@ "--hp-pa" :> <<{"tx", "txtest"}, "hp_pa", TRUE>>
  @@ "--continuous" :> <<{"scan"}, "continuous", TRUE>>
  @@ "--air" :> <<{"mavlink"}, "air_side", TRUE>>

(***************************************************************************)
(* What is kept of a value: a number cut to the width of its type, a power *)
(* to a signed byte. A frequency, a name or a wide number is kept whole.   *)
(***************************************************************************)
Whole(v) == v
U8(v) == v % 2^8
U16(v) == v % 2^16
S8(v) == ((v + 128) % 2^8) - 128

\* Flags with a value: the modes, the parameter, and what is kept.
ModemOption ==
  "--sync-word" :> <<{"rx", "tx"}, "sync_word", "U8">>
  @@ "--freq" :> <<{"rx", "tx", "mavlink", "txtest"}, "freq_hz", "Whole">>
  @@ "--sf" :> <<{"rx", "tx", "scan", "mavlink", "txtest"}, "sf", "U8">>
  @@ "--bw" :> <<{"rx", "tx", "scan", "mavlink", "txtest"}, "bw_khz", "U16">>
  @@ "--cr" :> <<{"rx", "tx", "mavlink"}, "cr", "U8">>
  @@ "--preamble" :> <<{"rx", "tx", "mavlink"}, "preamble", "U16">>
  @@ "--payload-len" :> <<{"rx"}, "payload_len", "U8">>
  @@ "--power" :> <<{"tx", "mavlink", "txtest"}, "power_dbm", "S8">>
  @@ "--bitrate" :> <<{"rx", "tx", "txtest"}, "fsk_bitrate", "Whole">>
  @@ "--fdev" :> <<{"rx", "tx", "txtest"}, "fsk_fdev_hz", "Whole">>

ModeOption ==
  "--count" :> <<{"tx"}, "count", "Whole">>
  @@ "--interval" :> <<{"tx"}, "interval_ms", "Whole">>
  @@ "--freq-start" :> <<{"scan"}, "freq_start", "Whole">>
  @@ "--freq-end" :> <<{"scan"}, "freq_end", "Whole">>
  @@ "--freq-step" :> <<{"scan"}, "freq_step", "Whole">>
  @@ "--cad-symb" :> <<{"scan"}, "cad_symb", "U8">>
  @@ "--cad-peak" :> <<{"scan"}, "cad_peak", "U8">>
  @@ "--cad-min" :> <<{"scan"}, "cad_min", "U8">>

BridgeOption ==
  "--uart" :> <<{"mavlink"}, "uart_path", "Whole">>
  @@ "--baud" :> <<{"mavlink"}, "uart_baud", "Whole">>
  @@ "--tcp-port" :> <<{"mavlink"}, "tcp_port", "Whole">>
  @@ "--pty" :> <<{"mavlink"}, "pty_path", "Whole">>
  @@ "--slot-ms" :> <<{"mavlink"}, "slot_ms", "Whole">>
  @@ "--guard-ms" :> <<{"mavlink"}, "guard_ms", "Whole">>

Option == ModemOption @@ ModeOption @@ BridgeOption

Kept(width, v) ==
  CASE width = "U8" -> U8(v) [] width = "U16" -> U16(v) [] width = "S8" -> S8(v)
    [] width = "Whole" -> Whole(v)

\* Spreading factor and coding rate are looked at once they are a byte.
Refused(flag, v) == \/ flag = "--sf" /\ U8(v) \notin 5..12
                    \/ flag = "--cr" /\ U8(v) \notin 5..8

PAYLOAD_SIZE == 255

\* hex: digits 0..15, or -1 for a character that is none (a blank, a sign and an x
\* are not asked for). A pair is read as far as its digits go. The payload, if any.
HexByte(hi, lo) == IF lo = -1 THEN hi ELSE 16 * hi + lo

parse_hex(hex) ==
  LET n == Len(hex) \div 2 IN
  IF Len(hex) % 2 # 0 \/ n > PAYLOAD_SIZE \/ \E i \in 1..n : hex[2 * i - 1] = -1 THEN {}
  ELSE {[i \in 1..n |-> HexByte(hex[2 * i - 1], hex[2 * i])]}

(***************************************************************************)
(* parse_args, an option at a time; the last of two that disagree wins.    *)
(***************************************************************************)
\* A mutant: the transmitter's copy of an option is forgotten.
SetForgetsTx(c, modes, field, v) ==
  [c EXCEPT !.app.mode =
     [m \in DOMAIN @ |-> IF m \in modes /\ ~(m = "tx" /\ field = "invert_iq")
                         THEN [@[m] EXCEPT ![field] = v] ELSE @[m]]]

Set(c, modes, field, v) ==
  [c EXCEPT !.app.mode = [m \in DOMAIN @ |-> IF m \in modes THEN [@[m] EXCEPT ![field] = v]
                                             ELSE @[m]]]

Error(c) == [c EXCEPT !.ok = FALSE]

Takes(c, o) ==
  LET flag == o[1] IN
  CASE flag \in DOMAIN ModeFlag -> [c EXCEPT !.chosen = ModeFlag[flag]]
    [] flag \in DOMAIN Switch -> Set(c, Switch[flag][1], Switch[flag][2], Switch[flag][3])
    [] flag = "--spi" /\ Len(o) = 2 /\ o[2] \in {"spi0", "spi1"} -> [c EXCEPT !.app.pins = o[2]]
    [] flag = "--payload" /\ Len(o) = 2 /\ Len(o[2]) <= PAYLOAD_SIZE ->
         [c EXCEPT !.app.payload = o[2], !.payload_set = TRUE]
    [] flag = "--payload-hex" /\ Len(o) = 2 /\ parse_hex(o[2]) # {} ->
         [c EXCEPT !.app.payload = CHOOSE p \in parse_hex(o[2]) : TRUE, !.payload_set = TRUE]
    [] flag \in DOMAIN Option /\ Len(o) = 2 /\ ~Refused(flag, o[2]) ->
         Set(c, Option[flag][1], Option[flag][2], Kept(Option[flag][3], o[2]))
    [] OTHER -> Error(c)

\* "lora-cli test"
DEFAULT_PAYLOAD == <<\h6C, \h6F, \h72, \h61, \h2D, \h63, \h6C, \h69, \h20, \h74, \h65, \h73, \h74>>

parse_args(argv) ==
  LET start == [app |-> cfg_defaults, chosen |-> "none", payload_set |-> FALSE, ok |-> TRUE]
      end == Folded(LAMBDA c, o : IF c.ok THEN Takes(c, o) ELSE c, start, argv)
      parsed == IF end.chosen \in Modes THEN end ELSE Error(end)
  IN  IF parsed.ok /\ parsed.chosen = "tx" /\ ~parsed.payload_set
      THEN [parsed EXCEPT !.app.payload = DEFAULT_PAYLOAD] ELSE parsed
=============================================================================
