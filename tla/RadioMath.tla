------------------------------ MODULE RadioMath ------------------------------
(* The arithmetic of src/lr11xx_radio.c and src/lr11xx_radio_timings.c: no   *)
(* command is sent. Numbers are the unsigned 32-bit ones of the code wherever *)
(* they stay below 2^31; the inputs are kept there.                          *)
EXTENDS Integers, Sequences

\* A mutant: rounds down.
Floor(a, b) == a \div b

Ceil(a, b) == (a + b - 1) \div b
Least(S) == CHOOSE x \in S : \A y \in S : x <= y

\* timeout * 32768 / 1000, the product in the 64 bits of an unsigned long.
convert_time_in_ms_to_rtc_step(time_in_ms) == (time_in_ms * 4096) \div 125

(***************************************************************************)
(* Mantissa and exponent of a count of symbols: halved once, then quartered *)
(* until five bits hold it, rounding up every time.                        *)
(***************************************************************************)
convert_nb_symb_to_mant_exp(nb_symbol) ==
  LET mant[exp \in 0..8] ==
        IF exp = 0 THEN (nb_symbol + 1) \div 2 ELSE (mant[exp - 1] + 3) \div 4
      exp_loc == Least({e \in 0..8 : mant[e] <= 31})
  IN  [mant |-> mant[exp_loc], exp |-> exp_loc]

\* The bandwidth settings in the order they are tried, each with its limit in Hz.
GfskLimits ==
  << <<4800, \h1F>>, <<5800, \h17>>, <<7300, \h0F>>, <<9700, \h1E>>, <<11700, \h16>>,
     <<14600, \h0E>>, <<19500, \h1D>>, <<23400, \h15>>, <<29300, \h0D>>, <<39000, \h1C>>,
     <<46900, \h14>>, <<58600, \h0C>>, <<78200, \h1B>>, <<93800, \h13>>, <<117300, \h0B>>,
     <<156200, \h1A>>, <<187200, \h12>>, <<234300, \h0A>>, <<312000, \h19>>,
     <<373600, \h11>>, <<467000, \h09>> >>

\* lr11xx_radio_gfsk_bw_t: the bandwidth in Hz that each setting is named for.
GFSK_BW ==
  LET Of(s) ==
        CASE s = \h1F -> 4800 [] s = \h17 -> 5800 [] s = \h0F -> 7300 [] s = \h1E -> 9700
          [] s = \h16 -> 11700 [] s = \h0E -> 14600 [] s = \h1D -> 19500 [] s = \h15 -> 23400
          [] s = \h0D -> 29300 [] s = \h1C -> 39000 [] s = \h14 -> 46900 [] s = \h0C -> 58600
          [] s = \h1B -> 78200 [] s = \h13 -> 93800 [] s = \h0B -> 117300 [] s = \h1A -> 156200
          [] s = \h12 -> 187200 [] s = \h0A -> 234300 [] s = \h19 -> 312000 [] s = \h11 -> 373600
          [] s = \h09 -> 467000
  IN  [s \in {8 * mantissa + exponent : mantissa \in 1..3, exponent \in 1..7} |-> Of(s)]

NoBandwidth == -1  \* LR11XX_STATUS_ERROR: *bw_parameter is left as it was

\* A mutant: a setting that fits exactly is passed over.
GfskBandwidthAbove(bw_in_hz) ==
  LET fits == {i \in DOMAIN GfskLimits : bw_in_hz < GfskLimits[i][1]}
  IN  IF fits = {} THEN NoBandwidth ELSE GfskLimits[Least(fits)][2]

get_gfsk_rx_bandwidth(bw_in_hz) ==
  LET fits == {i \in DOMAIN GfskLimits : bw_in_hz <= GfskLimits[i][1]}
  IN  IF fits = {} THEN NoBandwidth ELSE GfskLimits[Least(fits)][2]

(***************************************************************************)
(* Time on air of a LoRa frame, in samples: symbols are counted in quarters. *)
(***************************************************************************)
get_lora_time_on_air_numerator(pkt, mod) ==
  LET sf == mod.sf
      fine_synch == IF sf <= 6 THEN 1 ELSE 0
      bytes == pkt.pld_len_in_bytes + IF pkt.crc THEN 2 ELSE 0
      perSymbol == sf - IF mod.ldro # 0 THEN 2 ELSE 0
      AtLeast0(n) == IF n < 0 THEN 0 ELSE n
      \* long interleaver: cr > 4
      denominator == IF mod.cr = 7 THEN 8 ELSE mod.cr
      start == sf - 2 + 2 * fine_synch
      implicitLong == IF 8 * bytes * denominator <= 28 * start
                      THEN Ceil(8 * bytes * denominator, 4 * start)
                      ELSE Ceil(32 * perSymbol + 8 * bytes * denominator - 32 * start,
                                4 * perSymbol)
      inHeader == 8 * ((4 * sf + 8 * fine_synch - 28) \div 8)
      header == IF inHeader < 8 * bytes /\ inHeader > 8 * pkt.pld_len_in_bytes
                THEN 8 * pkt.pld_len_in_bytes ELSE inHeader
      explicitLong == Ceil(AtLeast0(8 * bytes - header) * denominator + 32 * perSymbol,
                           4 * perSymbol)
      \* short interleaver
      shortHeader == 4 * sf + 8 * fine_synch - 8 - IF pkt.implicit THEN 0 ELSE 20
      short == Ceil(AtLeast0(8 * bytes - shortHeader), 4 * perSymbol) * (mod.cr + 4) + 8
      symbols == IF mod.cr <= 4 THEN short
                 ELSE IF pkt.implicit THEN implicitLong ELSE explicitLong
  IN  (4 * (pkt.preamble_len_in_symb + 4 + 2 * fine_synch + symbols) + 1) * 2^(sf - 2) - 1

\* lr11xx_radio_lora_bw_t and the bandwidths in Hz.
BwInHz ==
  [b \in {8, 1, 9, 2, 10, 3, 4, 5, 6, 13, 14, 15} |->
     CASE b = 8 -> 10417 [] b = 1 -> 15625 [] b = 9 -> 20833 [] b = 2 -> 31250
       [] b = 10 -> 41667 [] b = 3 -> 62500 [] b = 4 -> 125000 [] b = 5 -> 250000
       [] b = 6 -> 500000 [] b = 13 -> 203000 [] b = 14 -> 406000 [] b = 15 -> 812000]

get_lora_bw_in_hz(bw) == IF bw \in DOMAIN BwInHz THEN BwInHz[bw] ELSE 0

get_lora_time_on_air_in_ms(pkt, mod) ==
  LET hz == get_lora_bw_in_hz(mod.bw) IN
  IF hz = 0 THEN 0 ELSE Ceil(1000 * get_lora_time_on_air_numerator(pkt, mod), hz)

GfskHeaderBits == [FIX_LEN |-> 0, VAR_LEN |-> 8, VAR_LEN_SX128X_COMP |-> 9]

GfskCrcBytes ==
  [OFF |-> 0, ONE_BYTE |-> 1, TWO_BYTES |-> 2, ONE_BYTE_INV |-> 1, TWO_BYTES_INV |-> 2]

get_gfsk_time_on_air_numerator(pkt) ==
  pkt.preamble_len_in_bits + GfskHeaderBits[pkt.header_type] + pkt.sync_word_len_in_bits
  + 8 * (pkt.pld_len_in_bytes + (IF pkt.address_filtering THEN 1 ELSE 0)
         + GfskCrcBytes[pkt.crc_type])

get_gfsk_time_on_air_in_ms(pkt, br_in_bps) ==
  Ceil(1000 * get_gfsk_time_on_air_numerator(pkt), br_in_bps)

\* 2^sf * 1000000 / bw_in_hz, with the product of the largest factors taken apart.
get_lora_symb_time_in_us(sf, bw) ==
  LET hz == get_lora_bw_in_hz(bw)
  IN  2^sf * (1000000 \div hz) + (2^sf * (1000000 % hz)) \div hz
=============================================================================
