----------------------------- MODULE GnssDriver -----------------------------
(* src/lr11xx_gnss.c: the commands of the satellite scanner. What is only    *)
(* decoded from an answer into a structure is left out; an answer that       *)
(* decides what is asked next is a parameter.                                *)
EXTENDS Command

CONSTANT
  ALMANAC_BLOCKS,  \* LR11XX_GNSS_ALMANAC_UPDATE_MAX_NB_OF_BLOCKS: blocks per write
  ALMANAC_BURSTS   \* N_READ_ALMANAC_REGMEM32: memory reads of the whole almanac

Regmem == INSTANCE RegmemDriver

Cmd ==
  [read_gnss_rssi_test |-> <<\h0222, 2+2>>, set_constellation |-> <<\h0400, 2+1>>,
   read_constellation |-> <<\h0401, 2>>, set_almanac_update |-> <<\h0402, 2+1>>,
   read_almanac_update |-> <<\h0403, 2>>, set_freq_search_space |-> <<\h0404, 2+1>>,
   read_freq_search_space |-> <<\h0405, 2>>, read_fw_version |-> <<\h0406, 2>>,
   read_supported_constellation |-> <<\h0407, 2>>, set_scan_mode |-> <<\h0408, 2+1>>,
   scan |-> <<\h040B, 2+3>>, scan_get_res_size |-> <<\h040C, 2>>,
   scan_read_res |-> <<\h040D, 2>>, almanac_update |-> <<\h040E, 2>>,
   almanac_read |-> <<\h040F, 2>>, set_assistance_position |-> <<\h0410, 2+4>>,
   read_assistance_position |-> <<\h0411, 2>>, push_solver_msg |-> <<\h0414, 2>>,
   push_dm_msg |-> <<\h0415, 2>>, get_context_status |-> <<\h0416, 2>>,
   get_nb_satellites |-> <<\h0417, 2>>, get_satellites |-> <<\h0418, 2>>,
   read_almanac_per_satellite |-> <<\h041A, 2+2>>, get_sv_visible |-> <<\h041F, 2+9>>,
   get_sv_visible_doppler |-> <<\h0420, 2>>, read_last_scan_mode_launched |-> <<\h0426, 2>>,
   fetch_time |-> <<\h0432, 2+2>>, read_time |-> <<\h0434, 2>>,
   reset_time |-> <<\h0435, 2>>, reset_position |-> <<\h0437, 2>>,
   read_week_number_rollover |-> <<\h0438, 2>>, read_demod_status |-> <<\h0439, 2>>,
   read_cumulative_timing |-> <<\h044A, 2>>, set_time |-> <<\h044B, 2+6>>,
   config_delay_reset_ap |-> <<\h044D, 2+3>>, read_doppler_solver_result |-> <<\h044F, 2>>,
   read_delay_reset_ap |-> <<\h0453, 2>>, almanac_update_from_sat |-> <<\h0454, 2+2>>,
   read_keep_sync_status |-> <<\h0456, 2+1>>, read_almanac_status |-> <<\h0457, 2>>,
   config_almanac_update_period |-> <<\h0463, 2+4>>,
   read_almanac_update_period |-> <<\h0464, 2+2>>, get_sv_sync |-> <<\h0466, 2+1>>,
   write_gps_bit_mask_sat_activated |-> <<\h0472, 2+5>>,
   write_beidou_bit_mask_sat_activated |-> <<\h0472, 2+9>>]

GPS_MASK == <<1>>
BEIDOU_MASK == <<2>>
SINGLE_ALMANAC_READ_SIZE == 22
ALMANAC_READ_WORDS == 47  \* LR11XX_GNSS_READ_ALMANAC_TEMPBUFFER_SIZE_BYTE

get_result_size == Read(Cmd.scan_get_res_size, <<>>, 2)
read_results(result_buffer_size) == Read(Cmd.scan_read_res, <<>>, result_buffer_size)

\* blocks: the almanac of one satellite each, twenty bytes long.
almanac_update(blocks) ==
  LET Some(first, count) ==
        WriteData(Cmd.almanac_update, <<>>,
                  Joined(SubSeq(blocks, first + 1, first + count)))
  IN  InPieces(Len(blocks), ALMANAC_BLOCKS, Some)

get_almanac_address_size == Read(Cmd.almanac_read, <<>>, 6)

\* almanac_address: what the first command answers.
read_almanac(almanac_address) ==
  get_almanac_address_size
  \o Joined([i \in 1..ALMANAC_BURSTS |->
       Regmem!read_regmem32(Bytes(4, almanac_address + (i - 1) * 4 * ALMANAC_READ_WORDS),
                            ALMANAC_READ_WORDS)])

\* Where the two bytes of a satellite's date are, and how many words hold them.
AlmanacDate(almanac_base_address, sv_id) ==
  LET unaligned == almanac_base_address + sv_id * SINGLE_ALMANAC_READ_SIZE + 1
      aligned == 4 * (unaligned \div 4)
      offset == unaligned % aligned
  IN  [aligned |-> aligned, offset |-> offset, words |-> IF offset >= 3 THEN 2 ELSE 1]

get_almanac_age_for_satellite(almanac_base_address, sv_id) ==
  LET date == AlmanacDate(almanac_base_address, sv_id)
  IN  get_almanac_address_size
      \o Regmem!read_regmem32(Bytes(4, date.aligned), date.words)

push_solver_msg(payload) == WriteData(Cmd.push_solver_msg, <<>>, payload)
push_dmc_msg(dmc_msg) == WriteData(Cmd.push_dm_msg, <<>>, dmc_msg)

set_constellations_to_use(mask) == Write(Cmd.set_constellation, mask)
read_used_constellations == Read(Cmd.read_constellation, <<>>, 1)
set_almanac_update(mask) == Write(Cmd.set_almanac_update, mask)
read_almanac_update == Read(Cmd.read_almanac_update, <<>>, 1)
set_freq_search_space(space) == Write(Cmd.set_freq_search_space, space)
read_freq_search_space == Read(Cmd.read_freq_search_space, <<>>, 1)
read_firmware_version == Read(Cmd.read_fw_version, <<>>, 2)
read_supported_constellations == Read(Cmd.read_supported_constellation, <<>>, 1)
set_scan_mode(scan_mode) == Write(Cmd.set_scan_mode, scan_mode)

scan(effort_mode, gnss_input_parameters, nb_sat) ==
  Write(Cmd.scan, effort_mode \o gnss_input_parameters \o nb_sat)

(***************************************************************************)
(* A position in whole degrees, each coordinate scaled to a signed 16-bit  *)
(* number and cut towards zero.                                            *)
(***************************************************************************)
SCALING_LATITUDE == 90
SCALING_LONGITUDE == 180

Scaled(degrees, scaling) ==
  LET v == (2048 * (IF degrees < 0 THEN -degrees ELSE degrees)) \div scaling
  IN  Bytes(2, IF degrees < 0 THEN 65536 - v ELSE v)

Position(p) == Scaled(p.latitude, SCALING_LATITUDE) \o Scaled(p.longitude, SCALING_LONGITUDE)

set_assistance_position(position) == Write(Cmd.set_assistance_position, Position(position))
read_assistance_position == Read(Cmd.read_assistance_position, <<>>, 4)

get_context_status == Read(Cmd.get_context_status, <<>>, 9)

MAX_DETECTED_SV == 32
get_nb_detected_satellites == Read(Cmd.get_nb_satellites, <<>>, 1)
get_detected_satellites(nb) ==
  Read(Cmd.get_satellites, <<>>, 4 * Smaller(nb, MAX_DETECTED_SV))

read_almanac_per_satellites(sv_id_init, n_sv) ==
  Read(Cmd.read_almanac_per_satellite, sv_id_init \o <<n_sv>>,
       n_sv * SINGLE_ALMANAC_READ_SIZE)
read_gnss_rssi_test == Read(Cmd.read_gnss_rssi_test, <<9, 0>>, 2)

get_nb_visible_satellites(date, position, constellation) ==
  Read(Cmd.get_sv_visible, date \o Position(position) \o <<(constellation - 1) % 256>>, 1)
get_visible_satellites(nb) == Read(Cmd.get_sv_visible_doppler, <<>>, 5 * nb)

fetch_time(effort_mode, option) == Write(Cmd.fetch_time, effort_mode \o option)
read_time == Read(Cmd.read_time, <<>>, 12)
reset_time == Write(Cmd.reset_time, <<>>)
reset_position == Write(Cmd.reset_position, <<>>)
read_week_number_rollover == Read(Cmd.read_week_number_rollover, <<>>, 2)
read_demod_status == Read(Cmd.read_demod_status, <<>>, 2)
read_cumulative_timing == Read(Cmd.read_cumulative_timing, <<>>, 125)
set_time(time, time_accuracy) == Write(Cmd.set_time, time \o time_accuracy)
config_delay_reset_assistance_position(delay) ==
  Write(Cmd.config_delay_reset_ap, Low(3, delay))
read_doppler_solver_result == Read(Cmd.read_doppler_solver_result, <<>>, 18)
read_delay_reset_assistance_position == Read(Cmd.read_delay_reset_ap, <<>>, 3)
almanac_update_from_sat(mask, effort_mode) ==
  Write(Cmd.almanac_update_from_sat, effort_mode \o mask)
read_keep_sync_status(mask) == Read(Cmd.read_keep_sync_status, mask, 5)
read_almanac_status == Read(Cmd.read_almanac_status, <<>>, 53)
config_almanac_update_period(mask, sv_type, period) ==
  Write(Cmd.config_almanac_update_period, mask \o sv_type \o period)
read_almanac_update_period(mask, sv_type) ==
  Read(Cmd.read_almanac_update_period, mask \o sv_type, 2)
get_sv_sync(mask, nb_sv_to_get) == Read(Cmd.get_sv_sync, mask, nb_sv_to_get)
set_gps_bit_mask_sat_activated(sats) ==
  Write(Cmd.write_gps_bit_mask_sat_activated, GPS_MASK \o sats)
set_beidou_bit_mask_sat_activated(sats_1_32, sats_33_63) ==
  Write(Cmd.write_beidou_bit_mask_sat_activated, BEIDOU_MASK \o sats_1_32 \o sats_33_63)
read_last_scan_mode_launched == Read(Cmd.read_last_scan_mode_launched, <<>>, 1)

(***************************************************************************)
(* Arithmetic on answers that asks for nothing. Dates are 16-bit day counts. *)
(***************************************************************************)
compute_almanac_age(almanac_date, rollover, days_since_epoch) ==
  (days_since_epoch - (almanac_date + rollover)) % 2^16

\* The destination byte of a scan result, and the message code of a status for the radio.
DESTINATION == [HOST |-> 0, SOLVER |-> 1, DMC |-> 2]
DMC_STATUS == \h18

\* Bytes 8 and 9 of a context status share its flags; a foreign message is refused.
parse_context_status_buffer(b) ==
  IF b[1] # DESTINATION.DMC \/ b[2] # DMC_STATUS THEN {}
  ELSE {[firmware_version |-> b[3], global_almanac_crc |-> [i \in 1..4 |-> b[8 - i]],
         error_code |-> b[8] \div 16,
         almanac_update_gps |-> (b[8] \div 2) % 2 = 1,
         almanac_update_beidou |-> (b[8] \div 4) % 2 = 1,
         freq_search_space |-> 2 * (b[8] % 2) + b[9] \div 128]}
=============================================================================
