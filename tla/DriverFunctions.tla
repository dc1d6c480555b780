-------------------------- MODULE DriverFunctions --------------------------
(* The functions of the LR11xx driver that split a transfer or compute:      *)
(* what each sends and what it returns, as functions of its input, and the   *)
(* inputs it may be given.                                                   *)
EXTENDS ModeSetup

CONSTANTS  \* choices of the driver's build, see its modules
  FLASH_WORDS, FW_IMAGE_WORDS, ALMANAC_BLOCKS, ALMANAC_BURSTS, N_RESULTS_MAX_PER_CHUNK

ASSUME BuildAssumption ==
  {FLASH_WORDS, FW_IMAGE_WORDS, ALMANAC_BLOCKS, ALMANAC_BURSTS, N_RESULTS_MAX_PER_CHUNK}
    \subseteq Nat \ {0}

Boot == INSTANCE BootloaderDriver
Crypto == INSTANCE CryptoDriver
Gnss == INSTANCE GnssDriver
Wifi == INSTANCE WifiDriver
Rttof == INSTANCE RttofDriver
LrFhss == INSTANCE LrFhssDriver

Byte == 0..255
Short == 0..2^16 - 1

\* The last address and the largest number: those of the code end at 2^32.
TOP == \h7FFFFFFF

(***************************************************************************)
(* The loops. in: the first address or place; how many items, of how many  *)
(* bytes; the items that are written; the code of the format that is read. *)
(***************************************************************************)
Words == {"flash", "fw_image"}
Writes == Words \cup {"almanac_update"}
Loops == Writes \cup {"read_almanac", "wifi"}

LoopProgram(fn, in) ==
  CASE fn = "flash" -> Boot!write_flash_encrypted_full(in.first, in.words)
    [] fn = "fw_image" -> Crypto!check_encrypted_firmware_image_full(in.first, in.words)
    [] fn = "almanac_update" -> Gnss!almanac_update(in.words)
    [] fn = "read_almanac" -> Gnss!read_almanac(in.first)
    [] fn = "wifi" -> Wifi!fetch_and_aggregate_all_results(
                        in.first, in.items, [size |-> in.size, code |-> in.code])

\* Nothing reaches past the last address, or the places that a byte can name.
IsLoopInput(fn, in) ==
  /\ in \in [first : Nat, items : Nat, size : Nat \ {0}, words : Seq(Seq(Byte)), code : Nat]
  /\ fn \in Writes => /\ in.items = Len(in.words)
                      /\ \A i \in DOMAIN in.words : Len(in.words[i]) = in.size
  /\ fn \in Words => in.size = 4 /\ in.first + 4 * in.items <= TOP
  /\ fn = "read_almanac" => /\ in.items = ALMANAC_BURSTS * 4 * Gnss!ALMANAC_READ_WORDS
                            /\ in.first + in.items <= TOP
  /\ fn = "wifi" => /\ [size |-> in.size, code |-> in.code]
                         \in {Wifi!BASIC_COMPLETE, Wifi!BASIC_MAC_TYPE_CHANNEL, Wifi!EXTENDED_FULL}
                    /\ in.first + in.items <= 256

(***************************************************************************)
(* The timers and the arithmetic.                                          *)
(***************************************************************************)
Timers == {"rx_timeout", "tx_timeout", "sync_timeout"}

TimerProgram(fn, in) ==
  CASE fn = "rx_timeout" -> Radio!set_rx(in)
    [] fn = "tx_timeout" -> Radio!set_tx(in)
    [] fn = "sync_timeout" -> Radio!set_lora_sync_timeout(in)

\* "a maximal timeout of 511 seconds" (lr11xx_radio.h:328), and 16 bits of symbols.
IsTimerInput(fn, in) ==
  /\ in \in Nat
  /\ fn \in {"rx_timeout", "tx_timeout"} => in <= 511999
  /\ fn = "sync_timeout" => in < 2^16

Times == {"time_on_air", "gfsk_time", "lr_fhss_time", "symbol_time"}
Settings == {"gfsk_bandwidth", "cad_wait", "scan_table"}
Answers == {"text", "bytes", "context", "distance", "almanac_age", "country_code"}

\* A context status as the radio sends it.
ContextStatus(c) ==
  <<2, \h18, c.firmware_version>> \o [i \in 1..4 |-> c.global_almanac_crc[5 - i]]
  \o <<16 * c.error_code + 4 * Bit(c.almanac_update_beidou) + 2 * Bit(c.almanac_update_gps)
         + c.freq_search_space \div 2,
       128 * (c.freq_search_space % 2)>>

Result(fn, in) ==
  CASE fn = "time_on_air" -> [samples |-> Radio!get_lora_time_on_air_numerator(in.pkt, in.mod),
                              ms |-> Radio!get_lora_time_on_air_in_ms(in.pkt, in.mod)]
    [] fn = "gfsk_time" -> Radio!get_gfsk_time_on_air_in_ms(in.pkt, in.rate)
    [] fn = "lr_fhss_time" ->
         LrFhss!get_time_on_air_in_ms([cr |-> in.cr, header_count |-> in.headers], in.len)
    [] fn = "symbol_time" -> Radio!get_lora_symb_time_in_us(in.sf, in.bw)
    [] fn = "gfsk_bandwidth" -> Radio!get_gfsk_rx_bandwidth(in)
    [] fn = "cad_wait" -> cad_timeout_ms(in.sf, in.bw_khz, in.symb)
    [] fn = "scan_table" -> Channels(in.first, in.last, in.step, in.modulus, in.room)
    [] fn = "text" -> {s \in in : Wifi!is_well_formed_utf8_byte_sequence(s)}
    [] fn = "bytes" -> [b \in in |-> [info |-> Wifi!parse_channel_info(b),
                                      frame |-> Wifi!parse_frame_type_info(b),
                                      rate |-> Wifi!parse_data_rate_info(b)]]
    [] fn = "context" -> Gnss!parse_context_status_buffer(ContextStatus(in))
    [] fn = "distance" ->
         Rttof!distance_raw_to_meter(in.bw, IF in.raw < 0 THEN in.raw + 2^24 ELSE in.raw)
    [] fn = "almanac_age" -> Gnss!compute_almanac_age(in.date, in.rollover, in.today)
    [] fn = "country_code" -> Wifi!local_index(in)
    [] OTHER -> 0

\* The frames of the short interleaver, and of these the ones whose samples fit 32 bits a
\* thousandfold (lr11xx_radio.c:1211); symbols whose microseconds do, so not those of SF12
\* (lr11xx_radio_timings.c:230); any number as a bandwidth but zero, of which the wait for a
\* CAD makes an infinite float.
MAX_SAMPLES == 4294155

LoraFrames ==
  [pkt : [preamble_len_in_symb : Short, pld_len_in_bytes : Byte, crc : BOOLEAN, implicit : BOOLEAN],
   mod : [sf : 5..12, cr : 1..4, ldro : 0..1, bw : DOMAIN Radio!BwInHz]]

GfskFrames ==
  [pkt : [preamble_len_in_bits : Short, header_type : DOMAIN Radio!GfskHeaderBits,
          sync_word_len_in_bits : Byte, pld_len_in_bytes : Byte,
          address_filtering : BOOLEAN, crc_type : DOMAIN Radio!GfskCrcBytes],
   rate : 1..TOP]

IsTimeInput(fn, in) ==
  /\ fn = "time_on_air" =>
       in \in LoraFrames /\ Radio!get_lora_time_on_air_numerator(in.pkt, in.mod) <= MAX_SAMPLES
  /\ fn = "gfsk_time" => in \in GfskFrames
  /\ fn = "lr_fhss_time" => in \in [len : Byte, cr : 0..3, headers : 1..4]
  /\ fn = "symbol_time" => in \in [sf : 5..11, bw : DOMAIN Radio!BwInHz]

IsSettingInput(fn, in) ==
  /\ fn = "gfsk_bandwidth" => in \in Nat
  /\ fn = "cad_wait" =>
       in \in [sf : 5..12, symb : Byte, bw_khz : Short \ {0}, is_24g : BOOLEAN]
  /\ fn = "scan_table" =>
       /\ in \in [first : Nat, last : Nat, step : Nat \ {0}, room : Nat, modulus : Nat \ {0}]
       /\ in.first <= in.last /\ in.first + in.room * in.step < in.modulus

IsAnswerInput(fn, in) ==
  /\ fn = "text" => \A s \in in : s \in Seq(Byte) /\ Len(s) <= 255
  /\ fn = "bytes" => in \subseteq Byte
  /\ fn = "context" =>
       in \in [firmware_version : Byte, global_almanac_crc : [1..4 -> Byte], error_code : 0..15,
               almanac_update_gps : BOOLEAN, almanac_update_beidou : BOOLEAN,
               freq_search_space : 0..3]
  /\ fn = "distance" => /\ in \in [bw : 4..6, raw : Int]
                        /\ in.raw \in -(2^23)..(2^23 - 1)
                        /\ 300 * Rttof!BwScaling(in.bw) * in.raw \in -TOP..TOP
  /\ fn = "almanac_age" => in \in [date : Short, rollover : Short, today : Short]
  /\ fn = "country_code" => in \in 0..25

\* A call whose program and result the driver works out from the input.
IsComputed(C) ==
  /\ C.fn \in Loops => IsLoopInput(C.fn, C.in) /\ C.program = LoopProgram(C.fn, C.in)
  /\ C.fn \in Timers => IsTimerInput(C.fn, C.in) /\ C.program = TimerProgram(C.fn, C.in)
  /\ C.fn \in Times \cup Settings \cup Answers => C.out = Result(C.fn, C.in)
  /\ IsTimeInput(C.fn, C.in) /\ IsSettingInput(C.fn, C.in) /\ IsAnswerInput(C.fn, C.in)
=============================================================================
