---------------------------- MODULE LrFhssDriver ----------------------------
(* src/lr11xx_lr_fhss.c: frames sent by frequency hopping.                   *)
EXTENDS Command

Radio == INSTANCE RadioDriver

Cmd == [build_frame |-> <<\h022C, 2 + 9>>]

PKT_TYPE_LR_FHSS == <<4>>
BITRATE_488_BPS == <<\h80, \h01, \hE8, \h48>>
PULSE_SHAPE_BT_1 == <<\h0B>>

init ==
  Radio!set_pkt_type(PKT_TYPE_LR_FHSS)
  \o Radio!set_lr_fhss_mod_params([br_in_bps |-> BITRATE_488_BPS,
                                   pulse_shape |-> PULSE_SHAPE_BT_1])

build_frame(p, hop_sequence_id, payload) ==
  Radio!set_lr_fhss_sync_word(p.sync_word)
  \o WriteData(Cmd.build_frame,
               <<p.header_count, p.cr, p.modulation_type, p.grid,
                 Bit(p.enable_hopping), p.bw>> \o hop_sequence_id \o <<p.device_offset>>,
               payload)

HEADER_BITS == 114
FRAG_BITS == 48
BLOCK_PREAMBLE_BITS == 2

\* The bits of a payload after coding, by coding rate: 5/6, 2/3, 1/2, 1/3.
CodedBits(cr, b) ==
  CASE cr = 0 -> (6 * b + 4) \div 5 [] cr = 1 -> (3 * b) \div 2
    [] cr = 2 -> 2 * b [] cr = 3 -> 3 * b

get_nb_bits(p, payload_length) ==
  LET bits == CodedBits(p.cr, 8 * (payload_length + 2) + 6)
      last == bits % FRAG_BITS
  IN  HEADER_BITS * p.header_count
      + (bits \div FRAG_BITS) * (FRAG_BITS + BLOCK_PREAMBLE_BITS)
      + IF last > 0 THEN last + BLOCK_PREAMBLE_BITS ELSE 0

\* 256/125 ms a bit, rounded up.
get_time_on_air_in_ms(p, payload_length) ==
  (256 * get_nb_bits(p, payload_length) + 124) \div 125
=============================================================================
