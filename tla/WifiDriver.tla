----------------------------- MODULE WifiDriver -----------------------------
(* src/lr11xx_wifi.c: the commands of the Wi-Fi scanner. Of a result that is *)
(* read, its place in the answer is kept; its fields are not.                *)
EXTENDS Command

\* LR11XX_WIFI_N_RESULTS_MAX_PER_CHUNK, a choice of the build.
CONSTANT N_RESULTS_MAX_PER_CHUNK

Cmd ==
  [scan |-> <<\h0300, 2+9>>, scan_time_limit |-> <<\h0301, 2+9>>,
   search_country_code |-> <<\h0302, 2+7>>, country_code_time_limit |-> <<\h0303, 2+7>>,
   get_result_size |-> <<\h0305, 2>>, read_result |-> <<\h0306, 2+3>>,
   reset_cumul_timing |-> <<\h0307, 2>>, read_cumul_timing |-> <<\h0308, 2>>,
   get_size_country_result |-> <<\h0309, 2>>, read_country_code |-> <<\h030A, 2+2>>,
   configure_timestamp_ap_phone |-> <<\h030B, 2+4>>, get_version |-> <<\h0320, 2>>]

scan(p) ==
  Write(Cmd.scan, p.signal_type \o p.channels \o p.scan_mode \o p.max_results
                  \o p.nb_scan_per_channel \o p.timeout_in_ms \o Flag(p.abort_on_timeout))
search_country_code(p) ==
  Write(Cmd.search_country_code,
        p.channels \o p.max_results \o p.nb_scan_per_channel \o p.timeout_in_ms
        \o Flag(p.abort_on_timeout))
scan_time_limit(p) ==
  Write(Cmd.scan_time_limit,
        p.signal_type \o p.channels \o p.scan_mode \o p.max_results
        \o p.timeout_per_channel_ms \o p.timeout_per_scan_ms)
search_country_code_time_limit(p) ==
  Write(Cmd.country_code_time_limit,
        p.channels \o p.max_results \o p.timeout_per_channel_ms \o p.timeout_per_scan_ms)

get_nb_results == Read(Cmd.get_result_size, <<>>, 1)
reset_cumulative_timing == Write(Cmd.reset_cumul_timing, <<>>)
read_cumulative_timing == Read(Cmd.read_cumul_timing, <<>>, 16)
get_nb_country_code_results == Read(Cmd.get_size_country_result, <<>>, 1)
cfg_timestamp_ap_phone(timestamp_in_s) ==
  Write(Cmd.configure_timestamp_ap_phone, timestamp_in_s)
read_version == Read(Cmd.get_version, <<>>, 2)

COUNTRY_CODE_SIZE == 10
read_country_code_results(start_result_index, nb) ==
  Read(Cmd.read_country_code, <<start_result_index, nb>>, nb * COUNTRY_CODE_SIZE)

\* Where in the answer the code takes its result result_index from: an 8-bit index.
local_index(result_index) == (result_index * COUNTRY_CODE_SIZE) % 256

(***************************************************************************)
(* Results are read in chunks that fit one SPI transfer.                   *)
(***************************************************************************)
READ_RESULT_LIMIT == 1020

BASIC_COMPLETE == [size |-> 22, code |-> 1]
BASIC_MAC_TYPE_CHANNEL == [size |-> 9, code |-> 4]
EXTENDED_FULL == [size |-> 79, code |-> 1]

read_results_helper(start_index, n_elem, format) ==
  Read(Cmd.read_result, <<start_index, n_elem, format.code>>, n_elem * format.size)

MAX_RESULT_PER_TRANSACTION(format) ==
  Smaller(READ_RESULT_LIMIT \div format.size, N_RESULTS_MAX_PER_CHUNK)

fetch_and_aggregate_all_results(start, nb_results, format) ==
  LET Chunk(first, count) == read_results_helper((start + first) % 256, count, format)
  IN  InPieces(nb_results, MAX_RESULT_PER_TRANSACTION(format), Chunk)

read_basic_complete_results(start, nb) ==
  fetch_and_aggregate_all_results(start, nb, BASIC_COMPLETE)
read_basic_mac_type_channel_results(start, nb) ==
  fetch_and_aggregate_all_results(start, nb, BASIC_MAC_TYPE_CHANNEL)
read_extended_full_results(start, nb) ==
  fetch_and_aggregate_all_results(start, nb, EXTENDED_FULL)

\* Fields of the information bytes.
parse_channel_info(b) ==
  [channel |-> b % 16, mac_origin |-> (b \div 16) % 4, rssi_valid |-> (b \div 64) % 2 = 0]
parse_frame_type_info(b) ==
  [type |-> b \div 64, sub_type |-> (b \div 4) % 16, to_ds |-> (b \div 2) % 2 = 1,
   from_ds |-> b % 2 = 1]
parse_data_rate_info(b) == [signal_type |-> b % 4, rate |-> b \div 4]

(***************************************************************************)
(* A network's name is well formed when it is a row of these forms, each a *)
(* sequence of ranges of bytes.                                            *)
(***************************************************************************)
\* A mutant: two bytes after an E0 may be any, so a character may be longer than it need.
Utf8FormsLong ==
  LET tail == \h80..\hBF IN
  { << 0..\h7F >>, << \hC2..\hDF, tail >>, << \hE0..\hEF, tail, tail >>,
    << {\hF0}, \h90..\hBF, tail, tail >>, << \hF1..\hF3, tail, tail, tail >>,
    << {\hF4}, \h80..\h8F, tail, tail >> }

Utf8Forms ==
  LET tail == \h80..\hBF IN
  { << 0..\h7F >>, << \hC2..\hDF, tail >>,
    << {\hE0}, \hA0..\hBF, tail >>, << \hE1..\hEC, tail, tail >>,
    << {\hED}, \h80..\h9F, tail >>, << \hEE..\hEF, tail, tail >>,
    << {\hF0}, \h90..\hBF, tail, tail >>, << \hF1..\hF3, tail, tail, tail >>,
    << {\hF4}, \h80..\h8F, tail, tail >> }

is_well_formed_utf8_byte_sequence(buffer) ==
  LET n == Len(buffer)
      Matches(form, i) == /\ i + Len(form) <= n
                          /\ \A k \in DOMAIN form : buffer[i + k] \in form[k]
      wellFormedFrom[i \in 0..n] ==
        i = n \/ \E form \in Utf8Forms : Matches(form, i) /\ wellFormedFrom[i + Len(form)]
  IN  wellFormedFrom[0]
=============================================================================
