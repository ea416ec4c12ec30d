------------------------------ MODULE Formats ------------------------------
(***************************************************************************)
(* The formats that the SDK writes and reads, one in a behaviour: HID      *)
(* reports, BLE packets, TLVs, and requests to sign.  Their modules share  *)
(* nothing but time: the variables of those that do not run keep the       *)
(* values that AtRest gives them.                                          *)
(***************************************************************************)
EXTENDS HidFraming, Sequences

CONSTANTS FidoCmdLen, FidoRetLen, Lists, Cuts, Txs, Requests, Transfers

VARIABLES
  format,                                              \* which of them runs
  at,                                                  \* its pc, but for HID
  size, sendMsgIndex, fIndex, out, recv, packets, removeIndex, temp, parsed,
  list, cut, answer, starts, pos, words,
  tx, coin, segwit, k, raw, changes,
  req, transfer, abi, apdu, fields

Fido == INSTANCE FidoFraming WITH CmdLen <- FidoCmdLen, RetLen <- FidoRetLen, pc <- at, len <- size
Tlv == INSTANCE TlvParse WITH pc <- at, out <- words
Tx == INSTANCE TxSerialize WITH pc <- at
Eth == INSTANCE EthRequest WITH pc <- at

TwoBytes == 0 .. 65535

\* What the buffers of SendData and parseFidoApdu hold, what two bytes of length
\* can say, and what a transaction and a request are.
ASSUME FormatAssumption ==
  /\ FidoCmdLen \subseteq 0 .. 1943 /\ FidoRetLen \subseteq 0 .. 509
  /\ Lists \subseteq Seq(TwoBytes) /\ Cuts \subseteq Nat
  /\ Txs \subseteq [inputs : Seq(Tx!Input), outputs : Seq(Tx!Output)]
  /\ Requests \subseteq Eth!Request /\ Transfers \subseteq Eth!Transfer

tlvVars == <<list, cut, answer, starts, words>>
txVars == <<tx, coin, segwit, k, raw, changes>>
ethVars == <<req, transfer, abi, apdu, fields>>
fidoVars == <<size, sendMsgIndex, fIndex, out, recv, packets, removeIndex, temp, parsed>>

-----------------------------------------------------------------------------
HidAtRest ==
  /\ pc = "failed" /\ len = 0 /\ offset = 0 /\ count = 0 /\ dev = Idle
  /\ retLen = 2 /\ waits = 0 /\ next = 0 /\ payload = 0 /\ matched = TRUE
FidoAtRest ==
  /\ size = 0 /\ sendMsgIndex = 0 /\ fIndex = 0 /\ out = <<>> /\ recv = <<>> /\ packets = 0
  /\ removeIndex = 0 /\ temp = <<>> /\ parsed = <<>>
TlvAtRest == list = <<>> /\ cut = 0 /\ answer = <<>> /\ starts = <<1>> /\ words = <<>>
TxAtRest ==
  /\ tx = [inputs |-> <<>>, outputs |-> <<>>] /\ coin = "none" /\ segwit = FALSE
  /\ k = 0 /\ raw = <<>> /\ changes = <<>>
EthAtRest ==
  req = Eth!NoTransfer /\ transfer = Eth!NoTransfer /\ abi = <<>> /\ apdu = Eth!NoApdu /\ fields = <<>>

FormatInit ==
  \/ /\ format = "HID" /\ Init
     /\ at = "" /\ pos = 0 /\ FidoAtRest /\ TlvAtRest /\ TxAtRest /\ EthAtRest
  \/ /\ format = "FIDO" /\ Fido!Init
     /\ HidAtRest /\ pos = 0 /\ TlvAtRest /\ TxAtRest /\ EthAtRest
  \/ /\ format = "TLV" /\ Tlv!Init
     /\ HidAtRest /\ FidoAtRest /\ TxAtRest /\ EthAtRest
  \/ /\ format = "TX" /\ Tx!Init
     /\ HidAtRest /\ pos = 0 /\ FidoAtRest /\ TlvAtRest /\ EthAtRest
  \/ /\ format = "ETH" /\ Eth!Init
     /\ HidAtRest /\ FidoAtRest /\ TlvAtRest /\ TxAtRest

FormatNext ==
  \/ format = "HID" /\ Next /\ UNCHANGED <<format, at, pos, fidoVars, tlvVars, txVars, ethVars>>
  \/ format = "FIDO" /\ Fido!Next /\ UNCHANGED <<format, vars, pos, tlvVars, txVars, ethVars>>
  \/ format = "TLV" /\ Tlv!Next /\ UNCHANGED <<format, vars, fidoVars, txVars, ethVars>>
  \/ format = "TX" /\ Tx!Next /\ UNCHANGED <<format, vars, pos, fidoVars, tlvVars, ethVars>>
  \/ format = "ETH" /\ Eth!Next /\ UNCHANGED <<format, vars, fidoVars, tlvVars, txVars>>

FormatSpec == FormatInit /\ [][FormatNext]_<<format, vars, at, pos, fidoVars, tlvVars, txVars, ethVars>>

-----------------------------------------------------------------------------
(* The properties of HidFraming are checked as they are; a format at rest  *)
(* satisfies them.  Those of the others hold while their format runs.      *)

(* FidoFraming: a command is wrapped to its frame.                         *)
WrapsToFrame == format = "FIDO" => Fido!WrapsToFrame
(* FidoFraming: an answer is complete with its last packet, and parsing it *)
(* gives the payload back.                                                 *)
ParsesToPayload == format = "FIDO" => Fido!ParsesToPayload

(* TlvParse: every value of an answer that came whole is found, and no     *)
(* value of one that was cut off is a shortened one.                       *)
FindsWholeValues == format = "TLV" => Tlv!FindsWholeValues

(* TxSerialize: a transaction is read as it was given, change included.    *)
ReadsAsGiven == format = "TX" => Tx!ReadsAsGiven

(* EthRequest: the device reads what the caller gave.                      *)
DeviceReadsRequest == format = "ETH" => Eth!DeviceReadsRequest
(* EthRequest: what is signed has the input the caller gave, as the        *)
(* repository's test of JUB_SignTransactionETH has it.                     *)
InputIsSigned == format = "ETH" => Eth!InputIsSigned
(* EthRequest: a transfer is told so and pays its amount to its receiver.  *)
TransferPays == format = "ETH" => Eth!TransferPays
=============================================================================
