---------------------------- MODULE RttofDriver ----------------------------
(* src/lr11xx_rttof.c: ranging by round-trip time of flight.                 *)
EXTENDS Command

Cmd ==
  [set_address |-> <<\h021C, 2+5>>, set_request_address |-> <<\h021D, 2+4>>,
   set_rx_tx_delay |-> <<\h021F, 2+4>>, set_parameters |-> <<\h0228, 2+2>>,
   get_result |-> <<\h021E, 2+1>>]

set_address(address, check_length) == Write(Cmd.set_address, address \o check_length)
set_request_address(address) == Write(Cmd.set_request_address, address)
set_rx_tx_delay_indicator(delay) == Write(Cmd.set_rx_tx_delay, delay)
set_parameters(nb_symbols) == Write(Cmd.set_parameters, <<0>> \o nb_symbols)
get_raw_result(type) == Read(Cmd.get_result, type, 4)

\* lr11xx_radio_lora_bw_t: 6, 5 and 4 are 500, 250 and 125 kHz.
BwScaling(bw) == CASE bw = 6 -> 1 [] bw = 5 -> 2 [] bw = 4 -> 4 [] OTHER -> 0

\* A 24-bit two's complement number, in steps of 300 / 4096 metres at 500 kHz; C
\* division cuts towards zero. Distances whose product leaves 32 bits are not asked for.
distance_raw_to_meter(bw, raw_distance) ==
  LET retval == raw_distance - IF raw_distance >= 2^23 THEN 2^24 ELSE 0
      product == 300 * BwScaling(bw) * retval
  IN  IF product < 0 THEN -((-product) \div 4096) ELSE product \div 4096
=============================================================================
