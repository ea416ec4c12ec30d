----------------------------- MODULE EthRequest -----------------------------
(***************************************************************************)
(* JUB_BuildERC20AbiETH and JUB_SignTransactionETH up to the APDU that     *)
(* asks for the signature, and the device that takes the APDU apart.       *)
(*                                                                         *)
(* A decimal argument is the number it writes, an argument in hexadecimal  *)
(* a string of module Encoding with, beside, whether its letters are       *)
(* capitals.  An element of a path stands for its text, which is short.    *)
(*                                                                         *)
(* External: the device, which reads one TLV after another.                *)
(***************************************************************************)
EXTENDS Encoding

CONSTANTS
  Requests,    \* what callers sign
  Transfers    \* receiver and amount of a token transfer

VARIABLES
  req,       \* the arguments of JUB_SignTransactionETH
  transfer,  \* those of JUB_BuildERC20AbiETH before it, NoTransfer for none
  pc,        \* where the caller is
  abi,       \* what JUB_BuildERC20AbiETH returned
  apdu,      \* ins and data of the APDU
  pos,       \* external: where the device reads
  fields     \* external: the values it read, by tag

vars == <<req, transfer, pc, abi, apdu, pos, fields>>

NoTransfer == [to |-> [prefix |-> FALSE, digits |-> <<>>], value |-> 0]
NoValue == -1        \* valueInWei is nullptr or ""
EmptyString == [prefix |-> FALSE, digits |-> <<>>, capitals |-> FALSE]
NoApdu == [ins |-> 0, data |-> <<>>]

Number(n) == HexStr2CharPtr(numberToHexString[n])

(* What callers pass, as far as ToTlv can tell its length.                 *)
TwoBytes == 0 .. 65535
HexString ==
  [prefix : BOOLEAN, digits : {d \in Seq(0 .. 15) : Len(HexStr2CharPtr(d)) \in TwoBytes}, capitals : BOOLEAN]
Amount == {n \in Nat : Len(Number(n)) \in TwoBytes}
Request ==
  [nonce : Amount, gasLimit : Amount, gasPrice : Amount, to : HexString, value : Amount \cup {NoValue},
   input : HexString, path : [main : Nat, change : Nat, addressIndex : Nat], chainID : Nat]
Transfer == [to : HexString, value : Nat]

Init ==
  /\ req \in Requests /\ transfer \in Transfers \cup {NoTransfer}
  /\ pc = (IF transfer = NoTransfer THEN "sign" ELSE "abi")
  /\ abi = EmptyString /\ apdu = NoApdu /\ pos = 1 /\ fields = <<>>

(* ContextETH::BuildERC20Abi.  A word longer than 32 bytes makes the count *)
(* of zeros before it wrap: undefined.                                     *)
BuildERC20Abi ==
  /\ pc = "abi"
  /\ LET vTo == ETHHexStr2CharPtr(transfer.to)
         vValue == Number(transfer.value)
     IN  IF Len(vTo) > 32 \/ Len(vValue) > 32 THEN pc' = "undefined" /\ UNCHANGED abi
         ELSE /\ abi' = [prefix |-> TRUE, digits |-> CharPtr2HexStr(serialize(vTo, vValue)),
                         capitals |-> FALSE]
              /\ pc' = "sign"
  /\ UNCHANGED <<req, transfer, apdu, pos, fields>>

(* A token transfer is signed with its abi as input.                       *)
Input == IF transfer = NoTransfer THEN req.input ELSE abi

Begins(digits, with) == Len(with) <= Len(digits) /\ SubSeq(digits, 1, Len(with)) = with

(* The bytes of the string are compared: capitals are not the same.        *)
IsTransfer(input) ==
  input.prefix /\ ~input.capitals /\ Begins(input.digits, ABI_METHOD_ID_TRANSFER)

(* _FullBip32Path.                                                         *)
FullPath(path) == <<path.main, path.change, path.addressIndex>>

Nonce(n) == LET vNonce == Number(n) IN IF vNonce[1] = 0 THEN <<65, 0>> ELSE ToTlv(65, vNonce)

(* The data of SignTXETH's APDU, tags 0x41 to 0x48.                        *)
RequestData(r, input) ==
  Nonce(r.nonce)
    \o ToTlv(66, Number(r.gasPrice)) \o ToTlv(67, Number(r.gasLimit))
    \o ToTlv(68, ETHHexStr2CharPtr(r.to))
    \o ToTlv(69, IF r.value = NoValue THEN <<>> ELSE Number(r.value))
    \o ToTlv(70, ETHHexStr2CharPtr(input))
    \o ToTlv(71, FullPath(r.path)) \o ToTlv(72, <<r.chainID % 256>>)

SignTransaction ==
  /\ pc = "sign"
  /\ apdu' = [ins |-> IF IsTransfer(Input) THEN 200 ELSE 42, data |-> RequestData(req, Input)]
  /\ pc' = "sent"
  /\ UNCHANGED <<req, transfer, abi, pos, fields>>

(* External.                                                               *)
DeviceReads ==
  /\ pc = "sent" /\ pos <= Len(apdu.data)
  /\ LET d == apdu.data
         size == IF d[pos + 1] = 130 THEN 3 ELSE IF d[pos + 1] = 129 THEN 2 ELSE 1
         len == IF size = 3 THEN 256 * d[pos + 2] + d[pos + 3]
                ELSE IF size = 2 THEN d[pos + 2] ELSE d[pos + 1]
     IN  /\ fields' = Append(fields, [tag |-> d[pos], value |-> SubSeq(d, pos + 1 + size, pos + size + len)])
         /\ pos' = pos + 1 + size + len
  /\ UNCHANGED <<req, transfer, pc, abi, apdu>>

WasRead == pc = "sent" /\ pos > Len(apdu.data)

(* The request was read, or its transfer is undefined.                     *)
Finished == (pc = "undefined" \/ WasRead) /\ UNCHANGED vars

Next == BuildERC20Abi \/ SignTransaction \/ DeviceReads \/ Finished

Spec == Init /\ [][Next]_vars

-----------------------------------------------------------------------------
(* Reference: the number that big-endian bytes write; and what it is for   *)
(* bytes to end in hexadecimal digits, with zeros before them, and to      *)
(* spell them, with at most the one zero that completes the first byte.    *)
NumberOf(bytes) == LET n[i \in 0 .. Len(bytes)] == IF i = 0 THEN 0 ELSE 256 * n[i - 1] + bytes[i]
                   IN  n[Len(bytes)]
Writes(bytes, n) == NumberOf(bytes) = n /\ (Len(bytes) > 1 => bytes[1] # 0)
Digit(bytes, j) == IF j % 2 = 1 THEN bytes[(j + 1) \div 2] \div 16 ELSE bytes[j \div 2] % 16
EndsIn(bytes, digits) ==
  LET zeros == 2 * Len(bytes) - Len(digits)
  IN  /\ zeros >= 0
      /\ \A j \in 1 .. 2 * Len(bytes) : Digit(bytes, j) = IF j <= zeros THEN 0 ELSE digits[j - zeros]
Spells(bytes, digits) == EndsIn(bytes, digits) /\ 2 * Len(bytes) <= Len(digits) + 1

Field(tag) == fields[tag - 64].value

(* The device reads the caller's transaction: eight values in order, each  *)
(* number the one the caller wrote and without zeros before it, and a      *)
(* receiver and an input that begin with 0x as they were.  But the chain's *)
(* number is cut to a byte; and of a receiver or an input without 0x       *)
(* nothing is claimed here: InputIsSigned is about those.                  *)
DeviceReadsRequest ==
  WasRead =>
    /\ [i \in 1 .. Len(fields) |-> fields[i].tag] = [i \in 1 .. 8 |-> 64 + i]
    /\ Writes(Field(65), req.nonce) /\ Writes(Field(66), req.gasPrice) /\ Writes(Field(67), req.gasLimit)
    /\ req.to.prefix => Spells(Field(68), req.to.digits)
    /\ IF req.value = NoValue THEN Field(69) = <<>> ELSE Writes(Field(69), req.value)
    /\ Input.prefix => Spells(Field(70), Input.digits)
    /\ Field(71) = FullPath(req.path)
    /\ Field(72) = <<req.chainID % 256>>

(* What is signed has the input the caller gave.  The repository's own     *)
(* test gives JUB_SignTransactionETH one without 0x and takes the request  *)
(* it gets back for the signed one; ETHHexStr2CharPtr makes nothing of it. *)
InputIsSigned == WasRead => Spells(Field(70), Input.digits)

(* What the device is told to show as a token transfer is one, unless the  *)
(* input has an odd number of digits, which moves them all by one.  A      *)
(* transfer built by JUB_BuildERC20AbiETH is told so, and pays the amount  *)
(* to the receiver that the caller gave: both stand at the end of their    *)
(* words, with zeros before them.                                          *)
TransferPays ==
  /\ WasRead /\ apdu.ins = 200 /\ Len(Input.digits) % 2 = 0 => Begins(Field(70), <<169, 5, 156, 187>>)
  /\ WasRead /\ transfer # NoTransfer => apdu.ins = 200
  /\ WasRead /\ transfer # NoTransfer /\ transfer.to.prefix =>
       /\ Len(Field(70)) = 68
       /\ EndsIn(SubSeq(Field(70), 5, 36), transfer.to.digits)
       /\ NumberOf(SubSeq(Field(70), 37, 68)) = transfer.value
=============================================================================
