---------------------------- MODULE RadioConfig ----------------------------
(* cli/radio.c: what the modes share to set the radio up, as programs of the *)
(* driver. A frequency is the string of its four bytes.                      *)
EXTENDS Command

System == INSTANCE SystemDriver
Radio == INSTANCE RadioDriver

(***************************************************************************)
(* Settings of the command line and what the radio calls them.             *)
(***************************************************************************)
\* A frequency against one in MHz: both counted in steps of 64 Hz.
Below(freq_hz, mhz) ==
  4 * Value(SubSeq(freq_hz, 1, 3)) + freq_hz[4] \div 64 < 15625 * mhz

freq_is_24g(freq_hz) == ~Below(freq_hz, 2400)

sf_to_enum(sf) == IF sf \in 5..12 THEN sf ELSE 7

bw_to_enum(bw_khz, is_24g) ==
  IF is_24g
  THEN CASE bw_khz = 200 -> 13 [] bw_khz = 800 -> 15 [] OTHER -> 14
  ELSE CASE bw_khz = 250 -> 5 [] bw_khz = 500 -> 6 [] OTHER -> 4

cr_to_enum(cr) == IF cr \in 5..8 THEN cr - 4 ELSE 1
cad_symb_to_enum(symb) == IF symb \in {1, 2, 4, 8, 16} THEN symb ELSE 1

cad_thresholds(sf) ==
  CASE sf <= 6 -> [peak |-> 30, min |-> 14]
    [] sf \in {7, 8} -> [peak |-> 28, min |-> 12]
    [] OTHER -> [peak |-> 24, min |-> 10]

(***************************************************************************)
(* The start every mode makes.                                             *)
(***************************************************************************)
STANDBY_RC == <<0>>
STANDBY_XOSC == <<1>>
PKT_TYPE_GFSK == <<1>>
PKT_TYPE_LORA == <<2>>

\* The switch is driven by RFSW0 to receive and by RFSW1 to send below 1 GHz.
RFSW0_HIGH == 1
RFSW1_HIGH == 2

RfSwitch(rx, tx) ==
  System!set_dio_as_rf_switch(
    [enable |-> <<RFSW0_HIGH + RFSW1_HIGH>>, standby |-> <<0>>, rx |-> <<rx>>,
     tx |-> <<tx>>, tx_hp |-> <<tx>>, tx_hf |-> <<0>>, gnss |-> <<0>>, wifi |-> <<0>>])

rf_switch_subghz == RfSwitch(RFSW0_HIGH, RFSW1_HIGH)
rf_switch_24g == RfSwitch(0, 0)

\* 3.3 V, 10 ms in clock steps.
enable_tcxo == System!set_standby(STANDBY_RC) \o System!set_tcxo_mode(<<7>>, Bytes(4, 328))

radio_common_init(is_24g) ==
  System!reset \o System!wakeup \o System!clear_errors
  \o enable_tcxo \o System!set_standby(STANDBY_XOSC) \o System!clear_errors
  \o (IF is_24g THEN rf_switch_24g ELSE rf_switch_subghz)
  \o Radio!set_pkt_type(PKT_TYPE_LORA)

(***************************************************************************)
(* The amplifier: HF at 2.4 GHz, else high power or low power.             *)
(***************************************************************************)
RAMP_48_US == <<2>>
PaCfg(sel, supply, duty_cycle, hp_sel) ==
  [pa_sel |-> <<sel>>, pa_reg_supply |-> <<supply>>,
   pa_duty_cycle |-> <<duty_cycle>>, pa_hp_sel |-> <<hp_sel>>]

PA_HF == PaCfg(2, 0, 0, 0)
PA_HP == PaCfg(1, 1, 7, 7)
PA_LP == PaCfg(0, 0, 4, 0)

\* power_dbm: a signed 8-bit number.
SetPa(pa, power_dbm) ==
  Radio!set_pa_cfg(pa) \o Radio!set_tx_params(Bytes(1, power_dbm), RAMP_48_US)

radio_configure_pa(is_24g, hp_pa, power_dbm) ==
  SetPa(CASE is_24g -> PA_HF [] ~is_24g /\ (hp_pa \/ power_dbm > 15) -> PA_HP [] OTHER -> PA_LP,
        power_dbm)

(***************************************************************************)
(* The modem.                                                              *)
(***************************************************************************)
image_cal(freq_hz) ==
  LET f == CASE Below(freq_hz, 446) -> <<\h6B, \h6F>>
             [] ~Below(freq_hz, 446) /\ Below(freq_hz, 877) -> <<\hD7, \hDB>>
             [] OTHER -> <<\hE1, \hE9>>
  IN  System!calibrate_image_in_mhz(f[1], f[2])

RfFreq(freq_hz, is_24g) ==
  Radio!set_rf_freq(freq_hz) \o IF is_24g THEN <<>> ELSE image_cal(freq_hz)

LoraMod(sf, bw, cr, ldro) ==
  Radio!set_lora_mod_params([sf |-> <<sf>>, bw |-> <<bw>>, cr |-> <<cr>>, ldro |-> Flag(ldro)])

\* p: preamble, crc, implicit, payload_len, invert_iq, sync_word; a zero length or
\* sync word stands for the default.
radio_set_lora_modem(freq_hz, sf, bw, cr, ldro, p, is_24g) ==
  RfFreq(freq_hz, is_24g)
  \o LoraMod(sf, bw, cr, ldro)
  \o Radio!set_lora_pkt_params(
       [preamble_len_in_symb |-> Bytes(2, p.preamble), header_type |-> Flag(p.implicit),
        pld_len_in_bytes |-> <<IF p.payload_len = 0 THEN 255 ELSE p.payload_len>>,
        crc |-> Flag(p.crc), iq |-> Flag(p.invert_iq)])
  \o Radio!set_lora_sync_word(<<IF p.sync_word = 0 THEN \h12 ELSE p.sync_word>>)

FSK_DEFAULT_BITRATE == 50000
FSK_DEFAULT_FDEV == 25000
Or(n, default) == IF n = 0 THEN default ELSE n

\* Carson's rule and a margin of one half.
FskBandwidth(bitrate, fdev) ==
  LET carson_bw == 2 * (fdev + bitrate \div 2)
  IN  Radio!get_gfsk_rx_bandwidth(carson_bw + carson_bw \div 2)

\* unset: the byte an uninitialised bw_enum holds, sent when no bandwidth is wide enough.
radio_set_fsk_modem(freq_hz, bitrate_bps, fdev_hz, payload_len, is_24g, unset) ==
  LET bitrate == Or(bitrate_bps, FSK_DEFAULT_BITRATE)
      fdev == Or(fdev_hz, FSK_DEFAULT_FDEV)
      bw == FskBandwidth(bitrate, fdev)
  IN  Radio!set_pkt_type(PKT_TYPE_GFSK)
      \o RfFreq(freq_hz, is_24g)
      \o Radio!set_gfsk_mod_params(
           [br_in_bps |-> Bytes(4, bitrate), pulse_shape |-> <<9>>,
            bw_dsb_param |-> <<IF bw = Radio!NoBandwidth THEN unset ELSE bw>>,
            fdev_in_hz |-> Bytes(4, fdev)])
      \o Radio!set_gfsk_pkt_params(
           [preamble_len_in_bits |-> Bytes(2, 40), preamble_detector |-> <<5>>,
            sync_word_len_in_bits |-> <<32>>, address_filtering |-> <<0>>,
            header_type |-> <<1>>, pld_len_in_bytes |-> <<Or(payload_len, 255)>>,
            crc_type |-> <<2>>, dc_free |-> <<1>>])
      \o Radio!set_gfsk_sync_word(<<\h2D, \hD4, \h2D, \hD4, 0, 0, 0, 0>>)
=============================================================================
