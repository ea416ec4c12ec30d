----------------------------- MODULE MCFormats -----------------------------
(* Values for Formats: lengths, counts and numbers at every limit.         *)
EXTENDS Formats

\* The names that values of Txs and Requests are made of.
TxNames == INSTANCE TxSerialize WITH pc <- at, Txs <- {}
EthNames == INSTANCE EthRequest WITH pc <- at, Requests <- {}, Transfers <- {}

-----------------------------------------------------------------------------
(* HID: every command that announces its length in one byte, and answers   *)
(* around every boundary of the reading loop.                              *)
ShortCmd == 0 .. 255
Edge(n) == LET b == FirstPackMaxLen + NextPackMaxLen * n IN {b - 1, b, b + 1}
Answers == {0, 2} \cup UNION {Edge(n) : n \in {0, 1, 2, 4}} \cup {255, 256, 257}
             \cup {4101, 4102, 4103} \cup Edge(187) \cup Edge(188)

(* BLE: several packets with every remainder, and the longest messages the *)
(* buffers are meant for.                                                  *)
FidoCommands == 0 .. 130 \cup 250 .. 275 \cup {1942, 1943}
FidoAnswers == 0 .. 130 \cup 250 .. 275 \cup 490 .. 509

(* Up to two values of lengths at every limit of the encoding.             *)
Lengths == {0, 1, 16, 127, 128, 129, 130, 131, 255, 256, 257, 700}
SomeLists == {<<>>} \cup {<<m>> : m \in Lengths} \cup {<<m, n>> : m \in Lengths, n \in Lengths}
               \cup {<<65535>>}
SomeCuts == 0 .. 5

(* Up to two inputs and three outputs of every kind that matters, and the  *)
(* counts at the limit of a byte.                                          *)
In(t, f) == [type |-> t, final |-> f]
Pay(a, c) == [type |-> "P2PKH", address |-> a, change |-> c]
SomeIn == {In("P2PKH", TRUE), In("P2PKH", FALSE), In("P2SH_MULTISIG", TRUE)}
SomeOut == {Pay("p2pkh", TRUE), Pay("p2sh", FALSE), Pay("p2wpkh", FALSE), Pay("other chain", FALSE),
            [type |-> "P2SH_MULTISIG", address |-> "p2sh", change |-> TRUE],
            [type |-> "RETURN0", dataLen |-> 20]}
UpTo(S, n) == UNION {[1 .. m -> S] : m \in 1 .. n}
Rep(x, n) == [i \in 1 .. n |-> x]
SomeTxs ==
  [inputs : UpTo(SomeIn, 2), outputs : {TxNames!USDTOutputs(a) : a \in {"p2pkh", "p2sh", "p2wsh"}}]
    \cup [inputs : UpTo(SomeIn, 2), outputs : UpTo(SomeOut, 3)]
    \cup {[inputs |-> Rep(In("P2PKH", TRUE), n), outputs |-> Rep(Pay("p2pkh", TRUE), m)] :
            n \in {1, 255, 256}, m \in {2, 254, 255}}

(* Numbers at the limits of their encoding, receivers and inputs with and  *)
(* without 0x, of lengths at the limits of ToTlv; and the request of the   *)
(* repository's own test, whose input has no 0x (test/json/testETH.json).  *)
Numbers == {0, 1, 15, 16, 255, 256, 4095, 65536}
Hex(prefix, digits, capitals) == [prefix |-> prefix, digits |-> digits, capitals |-> capitals]
Inputs == {EthNames!EmptyString, Hex(FALSE, <<4, 10, 7, 5, 6, 2>>, TRUE), Hex(TRUE, <<4, 10, 7, 5, 6, 2>>, FALSE),
           Hex(TRUE, EthNames!ABI_METHOD_ID_TRANSFER \o Rep(1, 248), FALSE),
           Hex(TRUE, EthNames!ABI_METHOD_ID_TRANSFER \o Rep(1, 250), TRUE),
           Hex(TRUE, EthNames!ABI_METHOD_ID_TRANSFER \o <<1>>, FALSE),
           Hex(FALSE, EthNames!ABI_METHOD_ID_TRANSFER, FALSE), Hex(TRUE, Rep(1, 512), FALSE)}
PlainRequest ==
  [nonce |-> 13, gasLimit |-> 310000, gasPrice |-> 1000000, to |-> Hex(TRUE, Rep(14, 40), FALSE),
   value |-> EthNames!NoValue, input |-> EthNames!EmptyString,
   path |-> [main |-> 44, change |-> 0, addressIndex |-> 7], chainID |-> 1]
SomeRequests ==
  {[PlainRequest EXCEPT !.nonce = n, !.gasPrice = g, !.value = v, !.input = i] :
     n \in Numbers, g \in {0, 4096}, v \in {EthNames!NoValue, 0, 16}, i \in Inputs}
    \cup {[PlainRequest EXCEPT !.gasLimit = n, !.to = Hex(p, Rep(14, m), FALSE), !.chainID = c] :
            n \in Numbers, m \in {39, 40}, p \in BOOLEAN, c \in {1, 255, 256}}
TestRequest ==
  [PlainRequest EXCEPT !.input =
     Hex(FALSE, <<4, 10, 7, 5, 6, 2, 6, 9, 7, 4, 6, 5, 7, 2, 5, 7, 6, 1, 6, 12, 6, 12, 6, 5, 7, 4>>, TRUE)]
TestRequests == {TestRequest}
SomeTransfers ==
  {[to |-> Hex(p, Rep(9, n), FALSE), value |-> v] : p \in BOOLEAN, n \in {39, 40, 64, 66}, v \in {0, 255, 4096}}
=============================================================================
