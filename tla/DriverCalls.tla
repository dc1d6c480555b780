----------------------------- MODULE DriverCalls -----------------------------
(* Samples of every function of the driver and of every mode's set-up, for   *)
(* the runs of Driver. TLC evaluates them once.                              *)
EXTENDS DriverFunctions

Cli == INSTANCE CommandLine

\* The sequence itself: TLC keeps its elements and does not evaluate them again.
Kept(s) == s \o <<>>

\* Op of a value that is worked out once.
Of(Op(_), v) == CHOOSE r \in {Op(x) : x \in {v}} : TRUE

KeptAll(program) == Kept([i \in DOMAIN program |->
                            [program[i] EXCEPT !.args = Kept(@), !.data = Kept(@)]])

Call(fn, in, out, program) == [fn |-> fn, in |-> in, out |-> out, program |-> Of(KeptAll, program)]
Commands(programs) == [i \in DOMAIN programs |-> Call("command", 0, 0, programs[i])]
Plain(programs) == Of(Commands, programs)
Each(s, C(_)) == [i \in DOMAIN s |-> C(s[i])]

B(n) == [i \in 1..n |-> i]  \* n bytes
Word == <<1, 2, 3, 4>>
TenWords == [i \in 1..10 |-> [k \in 1..4 |-> 4 * i + k]]

SystemCalls == Plain(<<
  System!get_status, System!get_version, System!reset, System!wakeup,
  System!abort_blocking_cmd, System!clear_reset_status_info, System!get_errors,
  System!clear_errors, System!calibrate(B(1)), System!set_reg_mode(B(1)),
  System!calibrate_image(B(1), B(1)), System!calibrate_image_in_mhz(902, 928),
  System!get_and_clear_irq_status(Word), System!get_and_clear_irq_status(<<0, 0, 0, 0>>),
  System!cfg_lfclk(1, TRUE), System!set_tcxo_mode(B(1), Word), System!reboot(TRUE),
  System!get_vbat, System!get_temp,
  System!set_sleep([is_rtc_timeout |-> TRUE, is_warm_start |-> TRUE], Word),
  System!set_standby(B(1)), System!set_fs, System!erase_infopage(B(1)),
  System!write_infopage(B(1), B(2), <<Word>>), System!read_infopage(B(1), B(2), 2),
  System!read_uid, System!read_join_eui, System!read_pin,
  System!read_pin_custom_eui(B(8), B(8), B(1)), System!get_random_number,
  System!enable_spi_crc(TRUE), System!drive_dio_in_sleep_mode(FALSE),
  Regmem!write_regmem32(Word, <<Word, Word>>), Regmem!write_regmem32(Word, [i \in 1..65 |-> Word]),
  Regmem!read_regmem32(Word, 64), Regmem!read_regmem32(Word, 65), Regmem!read_buffer8(B(1), 3),
  Regmem!clear_rxbuffer >>)

RadioCalls == Plain(<<
  Radio!reset_stats, Radio!get_gfsk_stats, Radio!get_lora_stats, Radio!get_pkt_type,
  Radio!get_rx_buffer_status, Radio!get_gfsk_pkt_status, Radio!get_lora_pkt_status,
  Radio!get_rssi_inst, Radio!get_lora_rx_info, Radio!set_lora_public_network(B(1)),
  Radio!set_rx_and_lna_mode(1, Radio!LNA.SINGLE_RFI_N_LF0), Radio!auto_tx_rx(Word, B(1), Word),
  Radio!set_bpsk_mod_params([br_in_bps |-> Word, pulse_shape |-> B(1)]),
  Radio!set_bpsk_pkt_params([pld_len_in_bytes |-> B(1), ramp_up_delay |-> B(2),
                             ramp_down_delay |-> B(2), pld_len_in_bits |-> B(2)]),
  Radio!set_pkt_address(B(1), B(1)), Radio!set_rx_tx_fallback_mode(B(1)),
  Radio!set_rx_duty_cycle(10, 20, B(1)), Radio!stop_timeout_on_preamble(TRUE),
  Radio!set_gfsk_crc_params(Word, Word), Radio!set_gfsk_whitening_seed(B(2)),
  Radio!set_rssi_calibration(B(17), B(2)),
  Radio!cfg_bluetooth_low_energy_beaconning_compatibility(B(1), Word),
  Radio!cfg_and_send_bluetooth_low_energy_beaconning_compatibility(B(1), Word),
  Radio!workaround_gfsk_1_2_kbps, Radio!workaround_gfsk_0_6_kbps_sub_ghz,
  Radio!workaround_gfsk_0_6_kbps_ghz, Radio!workaround_gfsk_reset,
  Rttof!set_address(Word, B(1)), Rttof!set_request_address(Word),
  Rttof!set_rx_tx_delay_indicator(Word), Rttof!set_parameters(B(1)), Rttof!get_raw_result(B(1)),
  LrFhss!init,
  LrFhss!build_frame([sync_word |-> Word, header_count |-> 2, cr |-> 1, modulation_type |-> 0,
                      grid |-> 1, enable_hopping |-> TRUE, bw |-> 8, device_offset |-> 0],
                     B(2), B(9)) >>)

SomeKey == B(16)
CryptoCalls == Plain(<<
  Crypto!set_key(B(1), SomeKey), Crypto!derive_key(B(1), B(1), SomeKey),
  Crypto!process_join_accept(B(1), B(1), 0, B(12), B(16)),
  Crypto!process_join_accept(B(1), B(1), 1, B(12), B(32)),
  Crypto!process_join_accept(B(1), B(1), 1, B(12), B(33)),
  Crypto!process_join_accept(B(1), B(1), 2, B(12), B(16)),
  Crypto!compute_aes_cmac(B(1), B(5)), Crypto!verify_aes_cmac(B(1), B(5), Word),
  Crypto!aes_encrypt_01(B(1), SomeKey), Crypto!aes_encrypt(B(1), SomeKey),
  Crypto!aes_decrypt(B(1), SomeKey), Crypto!store_to_flash, Crypto!restore_from_flash,
  Crypto!set_parameter(B(1), Word), Crypto!get_parameter(B(1)),
  Crypto!get_check_encrypted_firmware_image_result,
  Boot!get_hash, Boot!get_status, Boot!clear_reset_status_info, Boot!get_version,
  Boot!erase_flash, Boot!reboot(TRUE), Boot!read_pin, Boot!read_chip_eui, Boot!read_join_eui >>)

Somewhere == [latitude |-> -33, longitude |-> 151]
GnssCalls == Plain(<<
  Gnss!get_result_size, Gnss!read_results(9), Gnss!get_almanac_age_for_satellite(1000, 3),
  Gnss!push_solver_msg(Word), Gnss!push_dmc_msg(Word), Gnss!set_constellations_to_use(B(1)),
  Gnss!read_used_constellations, Gnss!set_almanac_update(B(1)), Gnss!read_almanac_update,
  Gnss!set_freq_search_space(B(1)), Gnss!read_freq_search_space, Gnss!read_firmware_version,
  Gnss!read_supported_constellations, Gnss!set_scan_mode(B(1)), Gnss!scan(B(1), B(1), B(1)),
  Gnss!set_assistance_position(Somewhere), Gnss!read_assistance_position,
  Gnss!get_context_status, Gnss!get_nb_detected_satellites, Gnss!get_detected_satellites(33),
  Gnss!read_almanac_per_satellites(B(1), 2), Gnss!read_gnss_rssi_test,
  Gnss!get_nb_visible_satellites(Word, Somewhere, 0), Gnss!get_visible_satellites(3),
  Gnss!fetch_time(B(1), B(1)), Gnss!read_time, Gnss!reset_time, Gnss!reset_position,
  Gnss!read_week_number_rollover, Gnss!read_demod_status, Gnss!read_cumulative_timing,
  Gnss!set_time(Word, B(2)), Gnss!config_delay_reset_assistance_position(Word),
  Gnss!read_doppler_solver_result, Gnss!read_delay_reset_assistance_position,
  Gnss!almanac_update_from_sat(B(1), B(1)), Gnss!read_keep_sync_status(B(1)),
  Gnss!read_almanac_status, Gnss!config_almanac_update_period(B(1), B(1), B(2)),
  Gnss!read_almanac_update_period(B(1), B(1)), Gnss!get_sv_sync(B(1), 4),
  Gnss!set_gps_bit_mask_sat_activated(Word),
  Gnss!set_beidou_bit_mask_sat_activated(Word, Word), Gnss!read_last_scan_mode_launched >>)

AnyScan == [signal_type |-> B(1), channels |-> B(2), scan_mode |-> B(1), max_results |-> B(1),
            nb_scan_per_channel |-> B(1), timeout_in_ms |-> B(2), abort_on_timeout |-> TRUE,
            timeout_per_channel_ms |-> B(2), timeout_per_scan_ms |-> B(2)]

WifiCalls == Plain(<<
  Wifi!scan(AnyScan), Wifi!search_country_code(AnyScan), Wifi!scan_time_limit(AnyScan),
  Wifi!search_country_code_time_limit(AnyScan), Wifi!get_nb_results,
  Wifi!reset_cumulative_timing, Wifi!read_cumulative_timing, Wifi!get_nb_country_code_results,
  Wifi!read_country_code_results(0, 32), Wifi!cfg_timestamp_ap_phone(Word),
  Wifi!read_version >>)

\* A function of DriverFunctions with its input, and the calls that ask for each of some.
Ask(fn, in) == [fn |-> fn, in |-> in]
Looped(asked) ==
  Kept([i \in DOMAIN asked |-> LET a == asked[i] IN Call(a.fn, a.in, 0, LoopProgram(a.fn, a.in))])
Timed(asked) ==
  Kept([i \in DOMAIN asked |-> LET a == asked[i] IN Call(a.fn, a.in, 0, TimerProgram(a.fn, a.in))])
Computed(asked) ==
  Kept([i \in DOMAIN asked |-> LET a == asked[i] IN Call(a.fn, a.in, Result(a.fn, a.in), <<>>)])

(***************************************************************************)
(* Split transfers: none, one piece, several, the last one full or not.    *)
(***************************************************************************)
Transfer4(fn, n) ==
  Ask(fn, [first |-> 252, items |-> n, size |-> 4, words |-> SubSeq(TenWords, 1, n), code |-> 0])

WifiResults(n, format) ==
  Ask("wifi", [first |-> 0, items |-> n, size |-> format.size, words |-> <<>>,
               code |-> format.code])

LoopsAsked ==
  Each(<<0, 1, 2, 3, 4, 5>>, LAMBDA n : Transfer4("flash", n))
  \o Each(<<0, 1, 2, 3, 4, 5>>, LAMBDA n : Transfer4("fw_image", n))
  \o Each(<<0, 1, 2, 3, 4, 5>>, LAMBDA n : Transfer4("almanac_update", n))
  \o <<Ask("read_almanac", [first |-> 1000, items |-> 4 * 47 * ALMANAC_BURSTS, size |-> 1,
                            words |-> <<>>, code |-> 0])>>
  \o Each(<<0, 1, 32>>, LAMBDA n : WifiResults(n, Wifi!BASIC_COMPLETE))
  \o Each(<<31, 33>>, LAMBDA n : WifiResults(n, Wifi!BASIC_MAC_TYPE_CHANNEL))
  \o Each(<<12, 13, 32>>, LAMBDA n : WifiResults(n, Wifi!EXTENDED_FULL))

(***************************************************************************)
(* Arithmetic: every LoRa modulation with frames from the shortest to the  *)
(* longest, counts of symbols and bandwidths on both sides of every bound. *)
(***************************************************************************)
\* n - 1, n and n + 1 for each n of a sequence.
Around(s) == [i \in 1..(3 * Len(s)) |-> s[(i + 2) \div 3] + (i % 3) - 1]

Frame(len, crc, implicit) ==
  [preamble_len_in_symb |-> 8, pld_len_in_bytes |-> len, crc |-> crc, implicit |-> implicit]

TimeOnAirOf(sf, cr, ldro, len, crc, implicit) ==
  Ask("time_on_air", [pkt |-> Frame(len, crc, implicit),
                      mod |-> [sf |-> sf, cr |-> cr, ldro |-> ldro, bw |-> 4]])

\* The 1024 combinations, by their number.
FramesAsked ==
  [i \in 1..1024 |->
     TimeOnAirOf(5 + (i % 8), 1 + ((i \div 8) % 4), (i \div 32) % 2,
                 <<1, 13, 64, 255>>[1 + ((i \div 64) % 4)],
                 (i \div 256) % 2 = 0, (i \div 512) % 2 = 0)]

GfskTime(header_type, crc_type, br) ==
  Ask("gfsk_time",
      [pkt |-> [preamble_len_in_bits |-> 40, header_type |-> header_type,
                sync_word_len_in_bits |-> 32, pld_len_in_bytes |-> 255,
                address_filtering |-> TRUE, crc_type |-> crc_type],
       rate |-> br])

LrFhssTime(len, cr) == Ask("lr_fhss_time", [cr |-> cr, headers |-> 3, len |-> len])

\* By the number of the bandwidth; the product of SF 12 and a million is beyond TLC.
SymbolTime(sf, bw) == Ask("symbol_time", [sf |-> sf, bw |-> bw])

TimesAsked ==
  FramesAsked
  \o <<GfskTime("FIX_LEN", "OFF", 600), GfskTime("VAR_LEN", "TWO_BYTES", 50000),
       GfskTime("VAR_LEN_SX128X_COMP", "ONE_BYTE_INV", 300000)>>
  \o Each(<<0, 1, 5, 50, 125>>, LAMBDA len : LrFhssTime(len, 0))
  \o Each(<<2, 27, 126>>, LAMBDA len : LrFhssTime(len, 1))
  \o Each(<<3, 10>>, LAMBDA len : LrFhssTime(len, 2)) \o Each(<<4, 11>>, LAMBDA len : LrFhssTime(len, 3))
  \o Each(<<5, 7, 11>>, LAMBDA sf : SymbolTime(sf, 4)) \o Each(<<6, 11>>, LAMBDA sf : SymbolTime(sf, 15))

TimersAsked ==
  Each(<<0, 254, 65535>> \o Around(<<256, 62, 1000, 1984, 7936, 31744, 63488>>),
       LAMBDA n : Ask("sync_timeout", n))
  \o Each(<<0, 1, 3, 125, 1000, 511999>>, LAMBDA ms : Ask("rx_timeout", ms))
  \o Each(<<2, 999>>, LAMBDA ms : Ask("tx_timeout", ms))

\* Bandwidths by their names on the command line, and numbers that name none in the band.
CadWait(sf, symb, bw_khz, is_24g) ==
  Ask("cad_wait", [sf |-> sf, symb |-> symb, bw_khz |-> bw_khz, is_24g |-> is_24g])

\* Sums below the modulus.
ScanTable(first, last, gap) ==
  Ask("scan_table", [first |-> first, last |-> last, step |-> gap, room |-> 5, modulus |-> 64])

ScansAsked ==
  Each(<<5, 9, 12>>, LAMBDA sf : CadWait(sf, 16, 125, FALSE))
  \o Each(<<5, 9, 12>>, LAMBDA sf : CadWait(sf, 1, 500, FALSE))
  \o Each(<<7, 12>>, LAMBDA sf : CadWait(sf, 8, 200, TRUE))
  \o Each(<<0, 3, 15, 255>>, LAMBDA symb : CadWait(12, symb, 125, FALSE))
  \o Each(<<1, 100, 400, 812, 65535>>, LAMBDA khz : CadWait(12, 2, khz, FALSE))
  \o Each(<<125, 406, 407, 500>>, LAMBDA khz : CadWait(12, 2, khz, TRUE))
  \o Each(<<10, 11, 20, 24, 29, 30, 31, 40>>, LAMBDA last : ScanTable(10, last, 5))

BandwidthsAsked ==
  Each(<<0>> \o Around([i \in DOMAIN Radio!GfskLimits |-> Radio!GfskLimits[i][1]]),
       LAMBDA hz : Ask("gfsk_bandwidth", hz))

(***************************************************************************)
(* Answers: bytes on both sides of every bound of UTF-8; every bit.        *)
(***************************************************************************)
Leads == <<\h41, \h7F, \h80, \hC1, \hC2, \hDF, \hE0, \hE1, \hEC, \hED, \hEE, \hEF, \hF0, \hF1, \hF3,
           \hF4, \hF5>>
Tails == {\h7F, \h80, \h8F, \h90, \h9F, \hA0, \hBF, \hC0}

Texts(lead) == Ask("text", UNION {{<<lead>> \o t : t \in [1..n -> Tails]} : n \in 0..3})

WifiBytes == Ask("bytes", {0, 1, 2, 4, 8, 16, 32, 64, 128, 255})

Context(error_code, gps, beidou, freq_search_space) ==
  Ask("context",
      [firmware_version |-> 7, global_almanac_crc |-> Word, error_code |-> error_code,
       almanac_update_gps |-> gps, almanac_update_beidou |-> beidou,
       freq_search_space |-> freq_search_space])

Distance(bw, raw) == Ask("distance", [bw |-> bw, raw |-> raw])

AnswersAsked ==
  Each(Leads, Texts)
  \o <<WifiBytes, Context(0, TRUE, FALSE, 0), Context(15, FALSE, TRUE, 1),
       Context(1, TRUE, TRUE, 2), Context(2, FALSE, FALSE, 3),
       Distance(6, 13653), Distance(5, -1), Distance(4, -100000), Distance(4, 4095)>>
  \o Each(<<0, 1, 65535>>, LAMBDA days : Ask("almanac_age",
            [date |-> 1000, rollover |-> 2048, today |-> (3048 + days) % 2^16]))
  \o Each(<<0, 1, 25>>, LAMBDA i : Ask("country_code", i))

(***************************************************************************)
(* The modes, each started from a command line.                            *)
(***************************************************************************)
\* A whole number of MHz, in Hz.
Hz(mhz) == Bytes(3, (15625 * mhz) \div 4) \o <<64 * ((15625 * mhz) % 4)>>

Lines == <<
  << >>, <<<<"--freq", Hz(433)>>>>, <<<<"--freq", Hz(915)>>, <<"--bw", 500>>, <<"--sf", 12>>>>,
  <<<<"--freq", Hz(2440)>>, <<"--bw", 800>>, <<"--sf", 5>>, <<"--bw-boosted">>>>,
  <<<<"--ldro">>, <<"--invert-iq">>, <<"--no-crc">>, <<"--cr", 8>>>>,
  <<<<"--implicit">>, <<"--preamble", 300>>, <<"--sync-word", \h34>>, <<"--hp-pa">>>>,
  <<<<"--implicit">>, <<"--payload-len", 8>>>>, <<<<"--payload-len", 4>>>>,
  <<<<"--fsk">>>>, <<<<"--fsk">>, <<"--payload-len", 4>>>>, <<<<"--fsk">>, <<"--payload-len", 8>>>>,
  <<<<"--fsk">>, <<"--freq", Hz(2440)>>, <<"--bitrate", 1200>>, <<"--fdev", 600>>>>,
  <<<<"--fsk">>, <<"--bitrate", 250000>>, <<"--fdev", 125000>>, <<"--power", 22>>>> >>

Parsed(mode, line) == Cli!parse_args(<<<<mode>>>> \o line).app

\* What an uninitialised byte of each of two processes holds.
ByteOfRx == 1
ByteOfTx == 2

\* The sender's payload: eight bytes, by their digits.
Digits == [i \in 1..16 |-> i - 1]
PAYLOAD_LEN == 8

Sender(line) ==
  Of(LAMBDA app : mode_tx(app.mode.tx, app.payload, ByteOfTx),
     Parsed("--tx", <<<<"--payload-hex", Digits>>>> \o line))

Fits(p) == p.fsk => FskBandwidth(Or(p.fsk_bitrate, 50000), Or(p.fsk_fdev_hz, 25000))
                      # Radio!NoBandwidth

\* Whether the receiver was told a length that fits the sender's payload.
Told(p) == /\ p.fsk => Or(p.payload_len, 255) >= PAYLOAD_LEN
           /\ ~p.fsk /\ p.implicit => p.payload_len = PAYLOAD_LEN

RxCall(line) ==
  Of(LAMBDA p : Call("rx", [sender |-> Sender(line), fits |-> Fits(p), told |-> Told(p)], 0,
                     mode_rx(p, ByteOfRx)),
     Parsed("--rx", line).mode.rx)

RxCalls == Each(Lines, RxCall)

Carrier(line) == Of(LAMBDA p : mode_txtest(p, ByteOfTx), Parsed("--txtest", line).mode.txtest)
Scan(line) == Of(mode_scan, Parsed("--scan", line).mode.scan)
Bridge(line) == Of(mode_mavlink, Parsed("--mavlink", line).mode.mavlink)

ModeCalls ==
  RxCalls
  \o Plain(Each(Lines, Sender))
  \o Plain(Each(<< <<<<"--cw">>>>, <<<<"--fsk">>>>, <<>> >>, Carrier))
  \o Plain(Each(<< <<>>, <<<<"--freq-start", Hz(2400)>>, <<"--freq-end", Hz(2480)>>,
                     <<"--cad-symb", 4>>, <<"--cad-peak", 30>>>>,
                   <<<<"--freq-start", Hz(870)>>>>, <<<<"--freq-step", Bytes(4, 0)>>>> >>,
                Scan))
  \o Plain(Each(<< <<>>, <<<<"--freq", Hz(915)>>, <<"--power", 20>>>> >>, Bridge))
  \o Plain(Each(<<Hz(868), Hz(2440)>>, ScanChannel))

\* Calls that may follow any other, ended as it may be.
Again == Plain(<<System!get_status, System!get_version, System!reset, System!wakeup>>)

LoopCalls == Looped(LoopsAsked)
TimerCalls == Timed(TimersAsked)
ComputedCalls == Computed(TimesAsked \o BandwidthsAsked \o ScansAsked \o AnswersAsked)

AllCalls == Again \o SystemCalls \o RadioCalls \o CryptoCalls \o GnssCalls \o WifiCalls
            \o LoopCalls \o TimerCalls \o ComputedCalls \o ModeCalls
ProgramsIn(calls) == Kept([c \in DOMAIN calls |-> calls[c].program])
ProgramsOf(calls) == Of(ProgramsIn, calls)

AllPrograms == ProgramsOf(AllCalls)

ReceiverPrograms == ProgramsOf(RxCalls)
=============================================================================
