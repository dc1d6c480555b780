---------------------------- MODULE RadioDriver ----------------------------
(* src/lr11xx_radio.c: the commands of the radio modem. Its arithmetic that  *)
(* sends nothing is in RadioMath.                                            *)
EXTENDS Command, RadioMath

Regmem == INSTANCE RegmemDriver

OC ==
  [reset_stats |-> \h0200, get_stats |-> \h0201, get_pkt_type |-> \h0202,
   get_rxbuffer_status |-> \h0203, get_pkt_status |-> \h0204, get_rssi_inst |-> \h0205,
   set_gfsk_sync_word |-> \h0206, set_lora_public_network |-> \h0208,
   set_rx |-> \h0209, set_tx |-> \h020A, set_rf_frequency |-> \h020B,
   autotxrx |-> \h020C, set_cad_params |-> \h020D, set_pkt_type |-> \h020E,
   set_modulation_param |-> \h020F, set_pkt_param |-> \h0210, set_tx_params |-> \h0211,
   set_pkt_adrs |-> \h0212, set_rx_tx_fallback_mode |-> \h0213,
   set_rx_duty_cycle |-> \h0214, set_pa_cfg |-> \h0215,
   stop_timeout_on_preamble |-> \h0217, set_cad |-> \h0218, set_tx_cw |-> \h0219,
   set_tx_infinite_preamble |-> \h021A, set_lora_sync_timeout |-> \h021B,
   set_gfsk_crc_params |-> \h0224, set_gfsk_whitening_params |-> \h0225,
   set_rx_boosted |-> \h0227, set_rssi_calibration |-> \h0229,
   set_lora_sync_word |-> \h022B, set_lr_fhss_sync_word |-> \h022D,
   cfg_bluetooth_low_energy_beaconning |-> \h022E, get_lora_rx_info |-> \h0230,
   bluetooth_low_energy_beaconning_send |-> \h0231]

CMD_LENGTH ==
  [reset_stats |-> 2, get_stats |-> 2, get_pkt_type |-> 2, get_rxbuffer_status |-> 2,
   get_pkt_status |-> 2, get_rssi_inst |-> 2, set_gfsk_sync_word |-> 2+8,
   set_lr_fhss_sync_word |-> 2+0, set_rx |-> 2+3, set_tx |-> 2+3,
   set_rf_frequency |-> 2+4, set_auto_tx_rx |-> 2+7, set_cad_params |-> 2+7,
   set_pkt_type |-> 2+1, set_modulation_params_gfsk |-> 2+10,
   set_modulation_params_bpsk |-> 2+5, set_modulation_params_lora |-> 2+4,
   set_modulation_params_lr_fhss |-> 2+5, set_pkt_param_gfsk |-> 2+9,
   set_pkt_param_bpsk |-> 2+7, set_pkt_param_lora |-> 2+6, set_tx_params |-> 2+2,
   set_pkt_address |-> 2+2, set_rx_tx_fallback_mode |-> 2+1, set_rx_duty_cycle |-> 2+7,
   set_pa_cfg |-> 2+4, stop_timeout_on_preamble |-> 2+1, set_cad |-> 2, set_tx_cw |-> 2,
   set_tx_infinite_preamble |-> 2, set_lora_sync_timeout |-> 2+1,
   set_lora_sync_timeout_ext |-> 2+2, set_gfsk_crc_params |-> 2+8,
   set_gfsk_whitening |-> 2+2, set_rx_boosted |-> 2+1, set_rssi_calibration |-> 2+11,
   set_lora_sync_word |-> 2+1, get_lora_rx_info |-> 2,
   cfg_bluetooth_low_energy_beaconning |-> 2+1,
   bluetooth_low_energy_beaconning_send |-> 2+1]

LEN == CMD_LENGTH

reset_stats          == Write(<<OC.reset_stats, LEN.reset_stats>>, <<>>)
get_gfsk_stats       == Read(<<OC.get_stats, LEN.get_stats>>, <<>>, 6)
get_lora_stats       == Read(<<OC.get_stats, LEN.get_stats>>, <<>>, 8)
get_pkt_type         == Read(<<OC.get_pkt_type, LEN.get_pkt_type>>, <<>>, 1)
get_rx_buffer_status == Read(<<OC.get_rxbuffer_status, LEN.get_rxbuffer_status>>, <<>>, 2)
get_gfsk_pkt_status  == Read(<<OC.get_pkt_status, LEN.get_pkt_status>>, <<>>, 4)
get_lora_pkt_status  == Read(<<OC.get_pkt_status, LEN.get_pkt_status>>, <<>>, 3)
get_rssi_inst        == Read(<<OC.get_rssi_inst, LEN.get_rssi_inst>>, <<>>, 1)
get_lora_rx_info     == Read(<<OC.get_lora_rx_info, LEN.get_lora_rx_info>>, <<>>, 1)

set_gfsk_sync_word(sync_word) ==
  Write(<<OC.set_gfsk_sync_word, LEN.set_gfsk_sync_word>>, sync_word)
set_lora_sync_word(sync_word) ==
  Write(<<OC.set_lora_sync_word, LEN.set_lora_sync_word>>, sync_word)

\* The buffer is declared eight bytes long, the command is sent with one.
set_lora_public_network(network_type) ==
  Write(<<OC.set_lora_public_network, 2 + 1>>, network_type)

set_lr_fhss_sync_word(sync_word) ==
  WriteData(<<OC.set_lr_fhss_sync_word, LEN.set_lr_fhss_sync_word>>, <<>>, sync_word)

apply_high_acp_workaround ==
  Regmem!write_regmem32_mask(Bytes(4, \h00F30054), Bytes(4, 2^30), Bytes(4, 0))

\* lr11xx_radio_lna_mode_t
LNA == [SINGLE_RFI_N_LF0 |-> 1, SINGLE_RFI_P_LF0 |-> 2, DIFFERENTIAL_LF0 |-> 3]

set_lna_mode(lna_config) ==
  Regmem!write_regmem32_mask(Bytes(4, \h00F3008C), Bytes(4, \hF0), Bytes(4, 16 * lna_config))

set_rx_with_timeout_in_rtc_step_and_lna_mode(timeout, lna_mode) ==
  apply_high_acp_workaround
  \o Write(<<OC.set_rx, LEN.set_rx>>, Low(3, timeout))
  \o IF lna_mode \in {LNA.SINGLE_RFI_P_LF0, LNA.SINGLE_RFI_N_LF0}
     THEN set_lna_mode(lna_mode) ELSE <<>>

set_rx_with_timeout_in_rtc_step(timeout) ==
  set_rx_with_timeout_in_rtc_step_and_lna_mode(timeout, LNA.DIFFERENTIAL_LF0)

RtcSteps(time_in_ms) == Bytes(4, convert_time_in_ms_to_rtc_step(time_in_ms))

set_rx(timeout_in_ms) == set_rx_with_timeout_in_rtc_step(RtcSteps(timeout_in_ms))

set_rx_and_lna_mode(timeout_in_ms, lna_mode) ==
  set_rx_with_timeout_in_rtc_step_and_lna_mode(RtcSteps(timeout_in_ms), lna_mode)

set_tx_with_timeout_in_rtc_step(timeout) ==
  apply_high_acp_workaround \o Write(<<OC.set_tx, LEN.set_tx>>, Low(3, timeout))

set_tx(timeout_in_ms) == set_tx_with_timeout_in_rtc_step(RtcSteps(timeout_in_ms))

set_rf_freq(freq_in_hz) == Write(<<OC.set_rf_frequency, LEN.set_rf_frequency>>, freq_in_hz)

auto_tx_rx(delay, intermediary_mode, timeout) ==
  Write(<<OC.autotxrx, LEN.set_auto_tx_rx>>,
        Low(3, delay) \o intermediary_mode \o Low(3, timeout))

set_cad_params(p) ==
  Write(<<OC.set_cad_params, LEN.set_cad_params>>,
        p.cad_symb_nb \o p.cad_detect_peak \o p.cad_detect_min \o p.cad_exit_mode
        \o Low(3, p.cad_timeout))

set_pkt_type(pkt_type) == Write(<<OC.set_pkt_type, LEN.set_pkt_type>>, pkt_type)

set_gfsk_mod_params(p) ==
  Write(<<OC.set_modulation_param, LEN.set_modulation_params_gfsk>>,
        p.br_in_bps \o p.pulse_shape \o p.bw_dsb_param \o p.fdev_in_hz)
set_bpsk_mod_params(p) ==
  Write(<<OC.set_modulation_param, LEN.set_modulation_params_bpsk>>,
        p.br_in_bps \o p.pulse_shape)
set_lora_mod_params(p) ==
  Write(<<OC.set_modulation_param, LEN.set_modulation_params_lora>>,
        p.sf \o p.bw \o p.cr \o p.ldro)
set_lr_fhss_mod_params(p) ==
  Write(<<OC.set_modulation_param, LEN.set_modulation_params_lr_fhss>>,
        p.br_in_bps \o p.pulse_shape)

set_gfsk_pkt_params(p) ==
  Write(<<OC.set_pkt_param, LEN.set_pkt_param_gfsk>>,
        p.preamble_len_in_bits \o p.preamble_detector \o p.sync_word_len_in_bits
        \o p.address_filtering \o p.header_type \o p.pld_len_in_bytes \o p.crc_type
        \o p.dc_free)
set_bpsk_pkt_params(p) ==
  Write(<<OC.set_pkt_param, LEN.set_pkt_param_bpsk>>,
        p.pld_len_in_bytes \o p.ramp_up_delay \o p.ramp_down_delay \o p.pld_len_in_bits)
set_lora_pkt_params(p) ==
  Write(<<OC.set_pkt_param, LEN.set_pkt_param_lora>>,
        p.preamble_len_in_symb \o p.header_type \o p.pld_len_in_bytes \o p.crc \o p.iq)

set_tx_params(pwr_in_dbm, ramp_time) ==
  Write(<<OC.set_tx_params, LEN.set_tx_params>>, pwr_in_dbm \o ramp_time)
set_pkt_address(node_address, broadcast_address) ==
  Write(<<OC.set_pkt_adrs, LEN.set_pkt_address>>, node_address \o broadcast_address)
set_rx_tx_fallback_mode(fallback_mode) ==
  Write(<<OC.set_rx_tx_fallback_mode, LEN.set_rx_tx_fallback_mode>>, fallback_mode)

set_rx_duty_cycle_with_timings_in_rtc_step(rx_period, sleep_period, mode) ==
  Write(<<OC.set_rx_duty_cycle, LEN.set_rx_duty_cycle>>,
        Low(3, rx_period) \o Low(3, sleep_period) \o mode)
set_rx_duty_cycle(rx_period_in_ms, sleep_period_in_ms, mode) ==
  set_rx_duty_cycle_with_timings_in_rtc_step(RtcSteps(rx_period_in_ms),
                                             RtcSteps(sleep_period_in_ms), mode)

set_pa_cfg(p) ==
  Write(<<OC.set_pa_cfg, LEN.set_pa_cfg>>,
        p.pa_sel \o p.pa_reg_supply \o p.pa_duty_cycle \o p.pa_hp_sel)
stop_timeout_on_preamble(stop) ==
  Write(<<OC.stop_timeout_on_preamble, LEN.stop_timeout_on_preamble>>, Flag(stop))

set_cad == apply_high_acp_workaround \o Write(<<OC.set_cad, LEN.set_cad>>, <<>>)
set_tx_cw == Write(<<OC.set_tx_cw, LEN.set_tx_cw>>, <<>>)
set_tx_infinite_preamble ==
  apply_high_acp_workaround
  \o Write(<<OC.set_tx_infinite_preamble, LEN.set_tx_infinite_preamble>>, <<>>)

set_lora_sync_timeout_with_mantissa_exponent(mantissa, exponent) ==
  IF mantissa > 31 \/ exponent > 7 THEN Refuse
  ELSE Write(<<OC.set_lora_sync_timeout, LEN.set_lora_sync_timeout_ext>>,
             <<8 * mantissa + exponent, 1>>)

set_lora_sync_timeout(nb_symbol) ==
  IF nb_symbol <= 255
  THEN Write(<<OC.set_lora_sync_timeout, LEN.set_lora_sync_timeout>>, <<nb_symbol>>)
  ELSE LET me == convert_nb_symb_to_mant_exp(nb_symbol)
       IN  set_lora_sync_timeout_with_mantissa_exponent(me.mant, me.exp)

set_gfsk_crc_params(seed, polynomial) ==
  Write(<<OC.set_gfsk_crc_params, LEN.set_gfsk_crc_params>>, seed \o polynomial)
set_gfsk_whitening_seed(seed) ==
  Write(<<OC.set_gfsk_whitening_params, LEN.set_gfsk_whitening>>, seed)
cfg_rx_boosted(enable_boost_mode) ==
  Write(<<OC.set_rx_boosted, LEN.set_rx_boosted>>, Flag(enable_boost_mode))

\* gain_tune: the eighteen gain steps g4 .. g13hp7 in the order of the structure, four bits each.
set_rssi_calibration(gain_tune, gain_offset) ==
  LET Nibble(i) == IF i > Len(gain_tune) THEN 0 ELSE gain_tune[i] % 16 IN
  Write(<<OC.set_rssi_calibration, LEN.set_rssi_calibration>>,
        [i \in 1..9 |-> 16 * Nibble(2 * i) + Nibble(2 * i - 1)] \o gain_offset)

cfg_bluetooth_low_energy_beaconning_compatibility(channel_id, buffer) ==
  WriteData(<<OC.cfg_bluetooth_low_energy_beaconning,
              LEN.cfg_bluetooth_low_energy_beaconning>>, channel_id, buffer)
cfg_and_send_bluetooth_low_energy_beaconning_compatibility(channel_id, buffer) ==
  WriteData(<<OC.bluetooth_low_energy_beaconning_send,
              LEN.bluetooth_low_energy_beaconning_send>>, channel_id, buffer)

\* The registers of the GFSK workarounds.
GFSK_WORKAROUND_1 == Bytes(4, \h00f20344)
GFSK_WORKAROUND_2 == Bytes(4, \h00f20348)
GFSK_WORKAROUND_3 == Bytes(4, \h00f20244)

workaround_gfsk_1_2_kbps ==
  Regmem!write_regmem32_mask(GFSK_WORKAROUND_1, Bytes(4, \h30), Bytes(4, \h10))
  \o Regmem!write_regmem32_mask(GFSK_WORKAROUND_2, Bytes(4, 5), Bytes(4, 4))

workaround_gfsk_0_6_kbps_base(value) ==
  Regmem!write_regmem32_mask(GFSK_WORKAROUND_3, Bytes(4, \h01ff03), Bytes(4, value))
workaround_gfsk_0_6_kbps_sub_ghz == workaround_gfsk_0_6_kbps_base(\h0600)
workaround_gfsk_0_6_kbps_ghz == workaround_gfsk_0_6_kbps_base(\h1100)

workaround_gfsk_reset ==
  Regmem!write_regmem32_mask(GFSK_WORKAROUND_1, Bytes(4, \h30), Bytes(4, \h10))
  \o Regmem!write_regmem32_mask(GFSK_WORKAROUND_2, Bytes(4, 5), Bytes(4, 1))
  \o Regmem!write_regmem32_mask(GFSK_WORKAROUND_3, Bytes(4, \h01ff03), Bytes(4, \h0a01))
=============================================================================
