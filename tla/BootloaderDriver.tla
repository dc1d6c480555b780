-------------------------- MODULE BootloaderDriver --------------------------
(* src/lr11xx_bootloader.c: the commands of the radio's boot loader.         *)
EXTENDS Command

CONSTANT FLASH_WORDS  \* LR11XX_FLASH_DATA_MAX_LENGTH_UINT32: words per write

Cmd ==
  [get_status |-> <<\h0100, 2>>, get_version |-> <<\h0101, 2>>,
   erase_flash |-> <<\h8000, 2>>, write_flash_encrypted |-> <<\h8003, 2+4>>,
   get_hash |-> <<\h8004, 2>>, reboot |-> <<\h8005, 2+1>>, get_pin |-> <<\h800B, 2>>,
   read_chip_eui |-> <<\h800C, 2>>, read_join_eui |-> <<\h800D, 2>>]

get_hash == Read(Cmd.get_hash, <<>>, 16)
get_status == DirectRead(2 + 4)
clear_reset_status_info == Write(Cmd.get_status, <<>>)
get_version == Read(Cmd.get_version, <<>>, 4)
erase_flash == Write(Cmd.erase_flash, <<>>)

write_flash_encrypted(offset_in_byte, words) ==
  WriteData(Cmd.write_flash_encrypted, offset_in_byte, Joined(words))

\* A mutant: the offset counts words.
FullByWords(offset_in_byte, buffer) ==
  LET Block(first, count) ==
        write_flash_encrypted(Bytes(4, offset_in_byte + first),
                              SubSeq(buffer, first + 1, first + count))
  IN  InPieces(Len(buffer), FLASH_WORDS, Block)

write_flash_encrypted_full(offset_in_byte, buffer) ==
  LET Block(first, count) ==
        write_flash_encrypted(Bytes(4, offset_in_byte + 4 * first),
                              SubSeq(buffer, first + 1, first + count))
  IN  InPieces(Len(buffer), FLASH_WORDS, Block)

reboot(stay_in_bootloader) == Write(Cmd.reboot, <<IF stay_in_bootloader THEN 3 ELSE 0>>)
read_pin == Read(Cmd.get_pin, <<>>, 4)
read_chip_eui == Read(Cmd.read_chip_eui, <<>>, 8)
read_join_eui == Read(Cmd.read_join_eui, <<>>, 8)
=============================================================================
