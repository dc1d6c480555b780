----------------------------- MODULE ModeSetup -----------------------------
(* What each mode asks of the driver before it runs, from the parameters the *)
(* command line left it (p): cli/mode_rx.c, mode_tx.c, mode_scan.c,          *)
(* mode_txtest.c, mode_mavlink.c. A mode gives up at the first failure.      *)
EXTENDS RadioConfig

Regmem == INSTANCE RegmemDriver

\* lr11xx_system_irq_mask_t, the bits the program names.
IRQ == [TX_DONE |-> 2^2, RX_DONE |-> 2^3, HEADER_ERROR |-> 2^6, CRC_ERROR |-> 2^7,
        CAD_DONE |-> 2^8, CAD_DETECTED |-> 2^9, TIMEOUT |-> 2^10, ERROR |-> 2^23]

\* Bits 2 to 11, 14 to 25 and 27.
IRQ_ALL_MASK == <<\h0B, \hFF, \hCF, \hFC>>

\* The interrupts that raise the line; none raises the other line.
DioIrq(mask) == System!set_dio_irq_params(Bytes(4, mask), Bytes(4, 0))

LoraModem(p, payload_len, is_24g) ==
  radio_set_lora_modem(p.freq_hz, sf_to_enum(p.sf), bw_to_enum(p.bw_khz, is_24g),
                       cr_to_enum(p.cr), p.ldro,
                       [preamble |-> p.preamble, crc |-> p.crc, implicit |-> p.implicit,
                        payload_len |-> payload_len, invert_iq |-> p.invert_iq,
                        sync_word |-> p.sync_word], is_24g)

FskModem(p, payload_len, is_24g, unset) ==
  radio_set_fsk_modem(p.freq_hz, p.fsk_bitrate, p.fsk_fdev_hz, payload_len, is_24g, unset)

Modem(p, payload_len, is_24g, unset) ==
  IF p.fsk THEN FskModem(p, payload_len, is_24g, unset)
           ELSE LoraModem(p, payload_len, is_24g)

\* Both branches start a receiver without end, with the same LNA.
start_rx_continuous(is_24g) ==
  IF is_24g THEN Radio!set_rx_with_timeout_in_rtc_step(<<0, 255, 255, 255>>)
  ELSE Radio!set_rx_with_timeout_in_rtc_step_and_lna_mode(<<0, 255, 255, 255>>,
                                                          Radio!LNA.DIFFERENTIAL_LF0)

mode_rx(p, unset) ==
  LET is_24g == freq_is_24g(p.freq_hz) IN
  radio_common_init(is_24g) \o Modem(p, p.payload_len, is_24g, unset)
  \o (IF p.boosted_rx THEN Radio!cfg_rx_boosted(TRUE) ELSE <<>>)
  \o DioIrq(IRQ.RX_DONE + IRQ.TIMEOUT + IRQ.CRC_ERROR + IRQ.HEADER_ERROR + IRQ.ERROR)
  \o System!clear_irq_status(IRQ_ALL_MASK)
  \o start_rx_continuous(is_24g)

\* Up to the first frame on the air.
mode_tx(p, payload, unset) ==
  LET is_24g == freq_is_24g(p.freq_hz) IN
  radio_common_init(is_24g) \o Modem(p, Len(payload), is_24g, unset)
  \o radio_configure_pa(is_24g, p.hp_pa, p.power_dbm)
  \o DioIrq(IRQ.TX_DONE + IRQ.TIMEOUT + IRQ.ERROR)
  \o System!clear_irq_status(IRQ_ALL_MASK)
  \o Regmem!write_buffer8(payload)
  \o Radio!set_tx(0)

mode_txtest(p, unset) ==
  LET is_24g == freq_is_24g(p.freq_hz)
      modem == CASE p.cw -> Radio!set_rf_freq(p.freq_hz)
                 [] ~p.cw /\ p.fsk -> FskModem(p, 0, is_24g, unset)
                 [] OTHER -> Radio!set_rf_freq(p.freq_hz)
                             \o LoraMod(sf_to_enum(p.sf), bw_to_enum(p.bw_khz, is_24g), 1, FALSE)
  IN  radio_common_init(is_24g) \o modem
      \o radio_configure_pa(is_24g, p.hp_pa, p.power_dbm)
      \o IF p.cw THEN Radio!set_tx_cw ELSE Radio!set_tx_infinite_preamble

(***************************************************************************)
(* The scan: its channels, the wait for each, the commands.                *)
(***************************************************************************)
MAX_SCAN_CHANNELS == 4096

\* Frequencies count in steps of the scan from freq_start, a sum of 32 bits (here
\* of any modulus) that wraps; the table is full after MAX_SCAN_CHANNELS.
Channels(freq_start, freq_end, freq_step, modulus, max) ==
  LET freq(k) == (freq_start + k * freq_step) % modulus
      past == {k \in 0..max : freq(k) > freq_end}
      n == IF past = {} THEN max ELSE CHOOSE k \in past : \A j \in past : k <= j
  IN  [k \in 1..n |-> freq(k - 1)]

\* 1.5 times the symbols, and 10 ms; at least 20.
cad_timeout_ms(sf, bw_khz, symb) ==
  LET t == (3 * 2^sf * symb) \div (2 * bw_khz) + 10 IN IF t < 20 THEN 20 ELSE t

\* An unsigned number before another, each the string of its bytes.
Precedes(a, b) ==
  \E i \in DOMAIN a : a[i] < b[i] /\ \A j \in 1..(i - 1) : a[j] = b[j]

ScanRange(p) == Precedes(p.freq_start, p.freq_end) /\ p.freq_step # Bytes(4, 0)

mode_scan(p) ==
  LET is_24g == freq_is_24g(p.freq_start)
      default == cad_thresholds(p.sf)
  IN  IF ~ScanRange(p) THEN Refuse
      ELSE
      radio_common_init(is_24g)
      \o LoraMod(sf_to_enum(p.sf), bw_to_enum(p.bw_khz, is_24g), 1, FALSE)
      \o Radio!set_cad_params(
           [cad_symb_nb |-> <<cad_symb_to_enum(p.cad_symb)>>,
            cad_detect_peak |-> <<Or(p.cad_peak, default.peak)>>,
            cad_detect_min |-> <<Or(p.cad_min, default.min)>>,
            cad_exit_mode |-> <<0>>, cad_timeout |-> Bytes(4, 0)])
      \o DioIrq(IRQ.CAD_DONE + IRQ.CAD_DETECTED)

\* Before each channel is listened to.
ScanChannel(freq_hz) ==
  Radio!set_rf_freq(freq_hz) \o System!clear_irq_status(IRQ_ALL_MASK) \o Radio!set_cad

(***************************************************************************)
(* The bridge: a fixed sync word, CRC and explicit header.                 *)
(***************************************************************************)
mode_mavlink(p) ==
  LET is_24g == freq_is_24g(p.freq_hz) IN
  radio_common_init(is_24g)
  \o radio_set_lora_modem(p.freq_hz, sf_to_enum(p.sf), bw_to_enum(p.bw_khz, is_24g),
                          cr_to_enum(p.cr), FALSE,
                          [preamble |-> p.preamble, crc |-> TRUE, implicit |-> FALSE,
                           payload_len |-> 0, invert_iq |-> FALSE, sync_word |-> \h12], is_24g)
  \o SetPa(IF is_24g THEN PA_HF ELSE PA_LP, p.power_dbm)
  \o DioIrq(IRQ.RX_DONE + IRQ.TX_DONE + IRQ.TIMEOUT + IRQ.CRC_ERROR + IRQ.HEADER_ERROR + IRQ.ERROR)
=============================================================================
