---------------------------- MODULE TxSerialize ----------------------------
(***************************************************************************)
(* The unsigned BTC or BCH transaction a context makes for the device, and *)
(* the list that tells the device which outputs are change.                *)
(*                                                                         *)
(* The transaction is a sequence of fields as wide as the format has them, *)
(* each with its name and what it was made from: the number of the input   *)
(* or output, or a count.  Addresses are of a few kinds, for the scripts   *)
(* they stand for.                                                         *)
(***************************************************************************)
EXTENDS Integers, Sequences

CONSTANT
  Txs    \* transactions: inputs and outputs

VARIABLES
  tx,       \* vInputs and vOutputs
  coin,     \* _coinType: "BTC" for all that are serialised as it, "BCH", or another
  segwit,   \* _transType is p2sh_p2wpkh
  pc,       \* where ContextBTC::SignTX is
  k,        \* inputs or outputs dealt with in the loop that runs
  raw,      \* unsignedTrans
  changes   \* vChangeIndex

vars == <<tx, coin, segwit, pc, k, raw, changes>>
given == <<tx, coin, segwit>>

(* An input is final if its nSequence is 0xffffffff.                       *)
Input == [type : {"P2PKH", "P2SH_MULTISIG"}, final : BOOLEAN]
Base58 == {"p2pkh", "p2sh", "unknown version"}
Bech32 == {"p2wpkh", "p2wsh", "other size", "other chain"}
Output == [type : {"P2PKH", "P2SH_MULTISIG"}, address : Base58 \cup Bech32, change : BOOLEAN]
            \cup [type : {"RETURN0"}, dataLen : 0 .. 40]

F(name, what) == [f |-> name, v |-> what]
Byte(n) == n % 256

-----------------------------------------------------------------------------
(* Scripts.  Pushes have a length of one byte: hashes are 20 or 32 long.   *)

Hash160 == <<"hash160", 20, "hash", "equal">>
PayToHash == <<"dup", "hash160", 20, "hash", "equalverify", "checksig">>
NoScript == <<>>

(* btc::buildScriptPubFromAddress, <<>> for JUBR_ERROR: the branches for   *)
(* bech32 addresses build the script and run on into the error.            *)
ScriptBTC(address) ==
  CASE address = "p2sh"  -> Hash160
    [] address = "p2pkh" -> PayToHash
    [] OTHER             -> NoScript

(* bch::buildScriptPubFromAddress, for cash addresses.                     *)
ScriptBCH(address) ==
  CASE address = "p2pkh" -> PayToHash
    [] address = "p2sh"  -> Hash160
    [] OTHER             -> NoScript

(* The BCH code writes dataLen, two bytes wide, as it is.                  *)
ReturnScript(n) ==
  IF coin = "BCH" THEN <<"return", Byte(n), n \div 256, "data">>
  ELSE <<"return", Byte(n), "data">>

Script(o) ==
  IF o.type = "RETURN0" THEN ReturnScript(o.dataLen)
  ELSE IF coin = "BCH" THEN ScriptBCH(o.address) ELSE ScriptBTC(o.address)

(* ContextBTC::BuildUSDTOutputs: the transfer itself, 20 bytes of data, and *)
(* a token amount of bitcoin for the receiver.                             *)
USDTOutputs(to) ==
  <<[type |-> "RETURN0", dataLen |-> 20], [type |-> "P2PKH", address |-> to, change |-> FALSE]>>

-----------------------------------------------------------------------------
Init ==
  /\ tx \in Txs /\ coin \in {"BTC", "BCH", "other"} /\ segwit \in BOOLEAN
  /\ pc = "changes" /\ k = 0 /\ raw = <<>> /\ changes = <<>>

IsChange(o) == o.type = "P2PKH" /\ o.change

(* Mutant: indexes count the change outputs.                               *)
FindChange_counts ==
  /\ pc = "changes" /\ k < Len(tx.outputs)
  /\ changes' = IF IsChange(tx.outputs[k + 1]) THEN Append(changes, Byte(Len(changes))) ELSE changes
  /\ k' = k + 1
  /\ UNCHANGED <<given, pc, raw>>

(* The outputs the device need not show, by index.                         *)
FindChange ==
  /\ pc = "changes" /\ k < Len(tx.outputs)
  /\ changes' = IF IsChange(tx.outputs[k + 1]) THEN Append(changes, Byte(k)) ELSE changes
  /\ k' = k + 1
  /\ UNCHANGED <<given, pc, raw>>

ChangesDone ==
  /\ pc = "changes" /\ k = Len(tx.outputs)
  /\ pc' = IF coin = "other" THEN "error" ELSE "version"
  /\ k' = 0
  /\ UNCHANGED <<given, raw, changes>>

Marked == segwit /\ coin # "BCH"

Version ==
  /\ pc = "version"
  /\ raw' = <<F("version", 1)>>
              \o (IF Marked THEN <<F("marker", 0), F("flag", 1)>> ELSE <<>>)
              \o <<F("count", Byte(Len(tx.inputs)))>>
  /\ pc' = "inputs"
  /\ UNCHANGED <<given, k, changes>>

(* nSequence of an input, 0 for 0xffffffff: BCH inputs are final whatever  *)
(* they were given.                                                        *)
Sequence(i) == IF coin = "BCH" \/ tx.inputs[i].final THEN 0 ELSE i

InputFields(i) ==
  <<F("preHash", i), F("preIndex", i), F("scriptSig", 0), F("sequence", Sequence(i))>>

(* An input that is not P2PKH is an error for BCH; BTC counts and skips it. *)
AddInput ==
  /\ pc = "inputs" /\ k < Len(tx.inputs)
  /\ IF tx.inputs[k + 1].type = "P2PKH" THEN raw' = raw \o InputFields(k + 1) /\ k' = k + 1 /\ UNCHANGED pc
     ELSE IF coin = "BCH" THEN pc' = "error" /\ UNCHANGED <<k, raw>>
     ELSE k' = k + 1 /\ UNCHANGED <<pc, raw>>
  /\ UNCHANGED <<given, changes>>

InputsDone ==
  /\ pc = "inputs" /\ k = Len(tx.inputs)
  /\ raw' = Append(raw, F("count", Byte(Len(tx.outputs))))
  /\ pc' = "outputs" /\ k' = 0
  /\ UNCHANGED <<given, changes>>

(* BCH counts and skips outputs that are neither P2PKH nor RETURN0; BTC    *)
(* goes by their address.                                                  *)
AddOutput ==
  /\ pc = "outputs" /\ k < Len(tx.outputs)
  /\ LET o == tx.outputs[k + 1]
     IN  IF coin = "BCH" /\ o.type = "P2SH_MULTISIG" THEN k' = k + 1 /\ UNCHANGED <<pc, raw>>
         ELSE IF Script(o) = NoScript THEN pc' = "error" /\ UNCHANGED <<k, raw>>
         ELSE raw' = raw \o <<F("amount", k + 1), F("script", Script(o))>> /\ k' = k + 1 /\ UNCHANGED pc
  /\ UNCHANGED <<given, changes>>

OutputsDone ==
  /\ pc = "outputs" /\ k = Len(tx.outputs)
  /\ raw' = raw \o (IF Marked THEN <<F("witness", 0)>> ELSE <<>>) \o <<F("lockTime", 0)>>
  /\ pc' = "done"
  /\ UNCHANGED <<given, k, changes>>

(* SignTX hands the transaction to the token, or returns an error.          *)
Finished == pc \in {"done", "error"} /\ UNCHANGED vars

Next ==
  \/ FindChange \/ ChangesDone \/ Version \/ AddInput \/ InputsDone \/ AddOutput \/ OutputsDone
  \/ Finished

Spec == Init /\ [][Next]_vars

-----------------------------------------------------------------------------
(* What a reader of the format finds: fields at positions that follow from *)
(* the counts read before them.                                            *)

At(p) == IF p \in 1 .. Len(raw) THEN raw[p] ELSE F("end", 0)
HasWitness == At(2).f = "marker"
InputsAt == IF HasWitness THEN 5 ELSE 3
InputsRead == At(InputsAt - 1).v
OutputsAt == InputsAt + 4 * InputsRead + 1
OutputsRead == At(OutputsAt - 1).v
EndsAt == OutputsAt + 2 * OutputsRead + (IF HasWitness THEN 1 ELSE 0)

WellFormed ==
  /\ At(InputsAt - 1).f = "count" /\ At(OutputsAt - 1).f = "count"
  /\ \A i \in 1 .. InputsRead : At(InputsAt + 4 * (i - 1)).f = "preHash"
  /\ \A j \in 1 .. OutputsRead : At(OutputsAt + 2 * (j - 1)).f = "amount"
  /\ At(EndsAt).f = "lockTime" /\ Len(raw) = EndsAt

(* What the counts, of one byte, and the types allow.                      *)
Plain ==
  /\ Len(tx.inputs) < 256 /\ Len(tx.outputs) < 256
  /\ \A i \in 1 .. Len(tx.inputs) : tx.inputs[i].type = "P2PKH"
  /\ \A j \in 1 .. Len(tx.outputs) : tx.outputs[j].type # "P2SH_MULTISIG"

(* A transaction of P2PKH inputs and of ordinary outputs is read as it was *)
(* given: every input spends what it should, with its nSequence unless it  *)
(* is BCH, and every output pays its amount to its address, which has a    *)
(* script.  The device is told as change exactly the outputs the caller    *)
(* marked: at each index it reads the amount of such an output.  A BCH     *)
(* transaction with other inputs is never short of one.                    *)
ReadsAsGiven ==
  pc = "done" =>
    /\ Plain =>
         /\ WellFormed /\ (HasWitness <=> coin = "BTC" /\ segwit)
         /\ InputsRead = Len(tx.inputs) /\ OutputsRead = Len(tx.outputs)
         /\ \A i \in 1 .. Len(tx.inputs) :
              /\ At(InputsAt + 4 * (i - 1)).v = i /\ At(InputsAt + 4 * (i - 1) + 1).v = i
              /\ coin = "BTC" => (At(InputsAt + 4 * (i - 1) + 3).v = 0 <=> tx.inputs[i].final)
         /\ \A j \in 1 .. Len(tx.outputs) :
              /\ At(OutputsAt + 2 * (j - 1)).v = j
              /\ At(OutputsAt + 2 * (j - 1) + 1).v = Script(tx.outputs[j]) /\ Script(tx.outputs[j]) # NoScript
         /\ {At(OutputsAt + 2 * changes[c]).v : c \in 1 .. Len(changes)}
              = {j \in 1 .. Len(tx.outputs) : IsChange(tx.outputs[j])}
    /\ coin = "BCH" /\ Len(tx.inputs) < 256 =>
         InputsRead = Len(tx.inputs) /\ At(OutputsAt - 1).f = "count"
=============================================================================
