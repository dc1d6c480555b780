---------------------------- MODULE RegmemDriver ----------------------------
(* src/lr11xx_regmem.c: register and buffer memory access.                   *)
EXTENDS Command

Cmd ==
  [write_regmem32 |-> <<\h0105, 2+4>>, read_regmem32 |-> <<\h0106, 2+4+1>>,
   write_buffer8 |-> <<\h0109, 2>>, read_buffer8 |-> <<\h010A, 2+2>>,
   clear_rxbuffer |-> <<\h010B, 2>>, write_regmem32_mask |-> <<\h010C, 2+4+4+4>>]

MAX_WRITE_READ_WORDS == 64

write_regmem32(address, words) ==
  IF Len(words) > MAX_WRITE_READ_WORDS THEN Refuse
  ELSE WriteData(Cmd.write_regmem32, address, Joined(words))

read_regmem32(address, length) ==
  IF length > MAX_WRITE_READ_WORDS THEN Refuse
  ELSE Read(Cmd.read_regmem32, address \o <<length>>, 4 * length)

write_buffer8(buffer) == WriteData(Cmd.write_buffer8, <<>>, buffer)

read_buffer8(offset, length) ==
  Read(Cmd.read_buffer8, offset \o <<length>>, length)

clear_rxbuffer == Write(Cmd.clear_rxbuffer, <<>>)

write_regmem32_mask(address, mask, data) ==
  Write(Cmd.write_regmem32_mask, address \o mask \o data)
=============================================================================
