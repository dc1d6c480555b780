---------------------------- MODULE CryptoDriver ----------------------------
(* src/lr11xx_crypto_engine.c: the commands of the radio's crypto engine.    *)
(* The first byte of an answer is the engine's own status.                   *)
EXTENDS Command

CONSTANT FW_IMAGE_WORDS  \* LR11XX_CRYPTO_FW_IMAGE_DATA_MAX_LENGTH_UINT32

OC ==
  [set_key |-> \h0502, derive_key |-> \h0503, process_join_accept |-> \h0504,
   compute_aes_cmac |-> \h0505, verify_aes_cmac |-> \h0506,
   encrypt_aes_01 |-> \h0507, encrypt_aes |-> \h0508, decrypt_aes |-> \h0509,
   store_to_flash |-> \h050A, restore_from_flash |-> \h050B,
   set_parameter |-> \h050D, get_parameter |-> \h050E,
   check_encrypted_fw_image |-> \h050F,
   get_check_encrypted_fw_image_result |-> \h0510]

\* The buffer sizes; where the length varies, the longest command.
CMD_LENGTH ==
  [set_key |-> 2+17, derive_key |-> 2+18, process_join_accept |-> 2+3+12+32,
   compute_aes_cmac |-> 2+1+272, verify_aes_cmac |-> 2+1+4+256,
   aes_encrypt |-> 2+1+256, aes_decrypt |-> 2+1+256, store_to_flash |-> 2,
   restore_from_flash |-> 2, set_parameter |-> 2+1+4, get_parameter |-> 2+1,
   check_encrypted_fw_image |-> 2+4, get_check_encrypted_fw_image_result |-> 2]

STATUS == 1
MIC == 4
MAX_JOIN_ACCEPT_DATA_SIZE == 32

set_key(key_id, key) == Read(<<OC.set_key, CMD_LENGTH.set_key>>, key_id \o key, STATUS)

derive_key(src_key_id, dest_key_id, nonce) ==
  Read(<<OC.derive_key, CMD_LENGTH.derive_key>>, src_key_id \o dest_key_id \o nonce, STATUS)

\* header_length by the LoRaWAN version, 0 for 1.0.x and 1 for 1.1.x.
HeaderLength == [v \in 0..1 |-> IF v = 0 THEN 1 ELSE 12]

process_join_accept(dec_key_id, ver_key_id, lorawan_version, header, data) ==
  IF lorawan_version \notin DOMAIN HeaderLength \/ Len(data) > MAX_JOIN_ACCEPT_DATA_SIZE
  THEN Refuse
  ELSE LET h == HeaderLength[lorawan_version] IN
       Read(<<OC.process_join_accept, 2 + 3 + h + Len(data)>>,
            dec_key_id \o ver_key_id \o <<lorawan_version>> \o SubSeq(header, 1, h) \o data,
            STATUS + Len(data))

\* A mutant: the key's place is not counted.
KeyDataShort(oc, key_id, data, n) == Read(<<oc, 2 + Len(data)>>, key_id \o data, n)

KeyData(oc, key_id, data, n) == Read(<<oc, 3 + Len(data)>>, key_id \o data, n)

compute_aes_cmac(key_id, data) == KeyData(OC.compute_aes_cmac, key_id, data, STATUS + MIC)

verify_aes_cmac(key_id, data, mic) ==
  Read(<<OC.verify_aes_cmac, 3 + MIC + Len(data)>>, key_id \o mic \o data, STATUS)

aes_encrypt_01(key_id, data) == KeyData(OC.encrypt_aes_01, key_id, data, STATUS + Len(data))
aes_encrypt(key_id, data) == KeyData(OC.encrypt_aes, key_id, data, STATUS + Len(data))
aes_decrypt(key_id, data) == KeyData(OC.decrypt_aes, key_id, data, STATUS + Len(data))

store_to_flash == Read(<<OC.store_to_flash, CMD_LENGTH.store_to_flash>>, <<>>, STATUS)

restore_from_flash ==
  Read(<<OC.restore_from_flash, CMD_LENGTH.restore_from_flash>>, <<>>, STATUS)

set_parameter(param_id, parameter) ==
  Read(<<OC.set_parameter, CMD_LENGTH.set_parameter>>, param_id \o parameter, STATUS)

get_parameter(param_id) ==
  Read(<<OC.get_parameter, CMD_LENGTH.get_parameter>>, param_id, STATUS + 4)

check_encrypted_firmware_image(offset_in_byte, words) ==
  WriteData(<<OC.check_encrypted_fw_image, CMD_LENGTH.check_encrypted_fw_image>>,
            offset_in_byte, Joined(words))

check_encrypted_firmware_image_full(offset_in_byte, buffer) ==
  LET Block(first, count) ==
        check_encrypted_firmware_image(Bytes(4, offset_in_byte + 4 * first),
                                       SubSeq(buffer, first + 1, first + count))
  IN  InPieces(Len(buffer), FW_IMAGE_WORDS, Block)

get_check_encrypted_firmware_image_result ==
  Read(<<OC.get_check_encrypted_fw_image_result,
         CMD_LENGTH.get_check_encrypted_fw_image_result>>, <<>>, 1)
=============================================================================
