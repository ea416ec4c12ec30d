------------------------------ MODULE Encoding ------------------------------
(***************************************************************************)
(* The conversions of utility/util.cpp and libETH/ERC20Abi.cpp.  A byte is *)
(* a number below 256; the digits of a hexadecimal string are a sequence   *)
(* of numbers below 16, and a string of the ETH functions is a record of   *)
(* them and of whether 0x stands before them.                              *)
(***************************************************************************)
EXTENDS Integers, Sequences

(* DecStringToHexString and numberToHexString: no leading zeros.           *)
numberToHexString[n \in Nat] ==
  IF n < 16 THEN <<n>> ELSE Append(numberToHexString[n \div 16], n % 16)

(* Mutant: a missing digit is added behind.                                *)
HexStr2CharPtr_behind(str) ==
  LET strHex == IF Len(str) % 2 = 1 THEN Append(str, 0) ELSE str
  IN  [i \in 1 .. Len(strHex) \div 2 |-> 16 * strHex[2 * i - 1] + strHex[2 * i]]

HexStr2CharPtr(str) ==
  LET strHex == IF Len(str) % 2 = 1 THEN <<0>> \o str ELSE str
  IN  [i \in 1 .. Len(strHex) \div 2 |-> 16 * strHex[2 * i - 1] + strHex[2 * i]]

CharPtr2HexStr(v) ==
  [i \in 1 .. 2 * Len(v) |-> IF i % 2 = 1 THEN v[(i + 1) \div 2] \div 16 ELSE v[i \div 2] % 16]

(* A string without 0x is no bytes at all.                                 *)
ETHHexStr2CharPtr(str) == IF str.prefix THEN HexStr2CharPtr(str.digits) ELSE <<>>

(* Mutant: 0x81 and 0x82, which announce longer lengths, stand for         *)
(* themselves.                                                             *)
ToTlv_bare(tag, data) ==
  LET len == Len(data)
  IN  (IF len >= 256 THEN <<tag, 130, (len \div 256) % 256, len % 256>>
       ELSE IF len > 130 THEN <<tag, 129, len>>
       ELSE <<tag, len>>) \o data

(* The length has at most two bytes: of a longer one the rest is dropped.  *)
ToTlv(tag, data) ==
  LET len == Len(data)
  IN  (IF len >= 256 THEN <<tag, 130, (len \div 256) % 256, len % 256>>
       ELSE IF len > 128 THEN <<tag, 129, len>>
       ELSE <<tag, len>>) \o data

(* Mutant: filled up behind.                                               *)
Word_behind(data) == data \o [i \in 1 .. 32 - Len(data) |-> 0]

(* A word of a contract call, for at most 32 bytes.                        *)
Word(data) == [i \in 1 .. 32 - Len(data) |-> 0] \o data

ABI_METHOD_ID_TRANSFER == <<10, 9, 0, 5, 9, 12, 11, 11>>

(* ERC20Abi::serialize.                                                    *)
serialize(address, value) == HexStr2CharPtr(ABI_METHOD_ID_TRANSFER) \o Word(address) \o Word(value)
=============================================================================
