---------------------------- MODULE SystemDriver ----------------------------
(* src/lr11xx_system.c: power, clock, calibration, interrupt and             *)
(* identification commands of the radio.                                     *)
EXTENDS Command

Cmd ==
  [get_status |-> <<\h0100, 2>>, get_version |-> <<\h0101, 2>>,
   get_errors |-> <<\h010D, 2>>, clear_errors |-> <<\h010E, 2>>,
   calibrate |-> <<\h010F, 2+1>>, set_regmode |-> <<\h0110, 2+1>>,
   calibrate_image |-> <<\h0111, 2+2>>, set_dio_as_rf_switch |-> <<\h0112, 2+8>>,
   set_dioirqparams |-> <<\h0113, 2+8>>, clear_irq |-> <<\h0114, 2+4>>,
   cfg_lfclk |-> <<\h0116, 2+1>>, set_tcxo_mode |-> <<\h0117, 2+4>>,
   reboot |-> <<\h0118, 2+1>>, get_vbat |-> <<\h0119, 2>>,
   get_temp |-> <<\h011A, 2>>, set_sleep |-> <<\h011B, 2+5>>,
   set_standby |-> <<\h011C, 2+1>>, set_fs |-> <<\h011D, 2>>,
   get_random |-> <<\h0120, 2>>, erase_infopage |-> <<\h0121, 2+1>>,
   write_infopage |-> <<\h0122, 2+3>>, read_infopage |-> <<\h0123, 2+4>>,
   read_uid |-> <<\h0125, 2>>, read_join_eui |-> <<\h0126, 2>>,
   read_pin |-> <<\h0127, 2>>, read_pin_custom_eui |-> <<\h0127, 2+17>>,
   enable_spi_crc |-> <<\h0128, 3>>, drive_dio_in_sleep_mode |-> <<\h012A, 3>>]

reset == HalReset
wakeup == HalWakeup
abort_blocking_cmd == HalAbort

get_status == DirectRead(6)
get_irq_status == get_status
clear_reset_status_info == Write(Cmd.get_status, <<>>)
get_version == Read(Cmd.get_version, <<>>, 4)
get_errors == Read(Cmd.get_errors, <<>>, 2)
clear_errors == Write(Cmd.clear_errors, <<>>)

calibrate(calib_param) == Write(Cmd.calibrate, calib_param)
set_reg_mode(reg_mode) == Write(Cmd.set_regmode, reg_mode)
calibrate_image(freq1, freq2) == Write(Cmd.calibrate_image, freq1 \o freq2)

\* The interval in MHz, widened to steps of four; each step count is cut to a byte.
IMAGE_CALIBRATION_STEP_IN_MHZ == 4

calibrate_image_in_mhz(freq1_in_mhz, freq2_in_mhz) ==
  LET step == IMAGE_CALIBRATION_STEP_IN_MHZ IN
  calibrate_image(Bytes(1, freq1_in_mhz \div step),
                  Bytes(1, (freq2_in_mhz + step - 1) \div step))

set_dio_as_rf_switch(cfg) ==
  Write(Cmd.set_dio_as_rf_switch,
        cfg.enable \o cfg.standby \o cfg.rx \o cfg.tx \o cfg.tx_hp \o cfg.tx_hf
        \o cfg.gnss \o cfg.wifi)

set_dio_irq_params(irqs_to_enable_dio1, irqs_to_enable_dio2) ==
  Write(Cmd.set_dioirqparams, irqs_to_enable_dio1 \o irqs_to_enable_dio2)

clear_irq_status(irqs_to_clear) == Write(Cmd.clear_irq, irqs_to_clear)

\* irq: the interrupts the status read shows.
get_and_clear_irq_status(irq) ==
  get_irq_status \o IF Value(Low(3, irq)) # 0 \/ irq[1] # 0
                    THEN clear_irq_status(irq) ELSE <<>>

cfg_lfclk(lfclock_cfg, wait_for_32k_ready) ==
  Write(Cmd.cfg_lfclk, <<lfclock_cfg + 4 * Bit(wait_for_32k_ready)>>)

set_tcxo_mode(tune, timeout) == Write(Cmd.set_tcxo_mode, tune \o Low(3, timeout))
reboot(stay_in_bootloader) == Write(Cmd.reboot, <<IF stay_in_bootloader THEN 3 ELSE 0>>)
get_vbat == Read(Cmd.get_vbat, <<>>, 1)
get_temp == Read(Cmd.get_temp, <<>>, 2)

set_sleep(sleep_cfg, sleep_time) ==
  Write(Cmd.set_sleep,
        <<2 * Bit(sleep_cfg.is_rtc_timeout) + Bit(sleep_cfg.is_warm_start)>> \o sleep_time)

set_standby(standby_cfg) == Write(Cmd.set_standby, standby_cfg)
set_fs == Write(Cmd.set_fs, <<>>)

erase_infopage(infopage_id) == Write(Cmd.erase_infopage, infopage_id)

write_infopage(infopage_id, address, words) ==
  WriteData(Cmd.write_infopage, infopage_id \o address, Joined(words))

read_infopage(infopage_id, address, length) ==
  Read(Cmd.read_infopage, infopage_id \o address \o <<length>>, 4 * length)

read_uid == Read(Cmd.read_uid, <<>>, 8)
read_join_eui == Read(Cmd.read_join_eui, <<>>, 8)
read_pin == Read(Cmd.read_pin, <<>>, 4)

read_pin_custom_eui(device_eui, join_eui, rfu) ==
  Read(Cmd.read_pin_custom_eui, device_eui \o join_eui \o rfu, 4)

get_random_number == Read(Cmd.get_random, <<>>, 4)
enable_spi_crc(enable_crc) == Write(Cmd.enable_spi_crc, Flag(enable_crc))

drive_dio_in_sleep_mode(enable_drive) ==
  Write(Cmd.drive_dio_in_sleep_mode, Flag(enable_drive))
=============================================================================
