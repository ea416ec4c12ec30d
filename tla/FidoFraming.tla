----------------------------- MODULE FidoFraming -----------------------------
(***************************************************************************)
(* The framing of Fido.cpp, byte by byte: wrapFidoApdu puts an index in    *)
(* front of every 19 bytes after the first packet, checkResponse decides   *)
(* from the announced length that an answer is complete, and parseFidoApdu *)
(* takes the indices and the header out again.  A behaviour is one command *)
(* being wrapped or one answer being received and parsed.  BLETransport    *)
(* has the packets as units, and relies on what is shown here.             *)
(***************************************************************************)
EXTENDS Naturals, Sequences

CONSTANTS
  CmdLen,  \* lengths of commands: up to 1943, what sendMsg holds as a frame
  RetLen   \* lengths of answers: up to 509, what tempMsg holds with its header

VARIABLES
  pc,            \* where the function that runs is
  len,           \* ulSendMsgLen, or the length the answer announces
  sendMsgIndex,  \* wrapFidoApdu
  fIndex,        \* wrapFidoApdu
  out,           \* the wrapped command
  recv,          \* mRecvMsg
  packets,       \* external: packets of the answer delivered
  removeIndex,   \* removePkgIndex
  temp,          \* removePkgIndex: tempMsg
  parsed         \* what parseFidoApdu returns

wrapping == <<sendMsgIndex, fIndex, out>>
receiving == <<recv, packets>>
parsing == <<removeIndex, temp, parsed>>
vars == <<pc, len, wrapping, receiving, parsing>>

FIDO_HEADER_LEN == 3
FIDO_DATA_BLOCK_SIZE == 19
FIDO_BLOCK_SIZE == 20

(* A byte is one of the header, an index, or byte i of the message.        *)
Header(n) == [i \in 1 .. FIDO_HEADER_LEN |-> <<"header", n>>]
Index(i) == <<"index", i % 256>>
Data(from, to) == [i \in 1 .. to - from |-> <<"data", from + i - 1>>]

Least(a, b) == IF a < b THEN a ELSE b

(* A message of n bytes as the link has it: packets of 20 bytes, the first *)
(* with the header, each of the others with its index in front.  Both      *)
(* sides of the link mean this by a frame.                                 *)
FrameByte(n, i) ==
  LET packet == i \div 20
      place == i % 20
  IN  IF packet = 0 THEN IF place < 3 THEN Header(n)[place + 1] ELSE <<"data", place - 3>>
      ELSE IF place = 0 THEN Index(packet - 1) ELSE <<"data", 19 * packet + place - 3>>
Bytes(n, from, to) == [i \in 1 .. to - from |-> FrameByte(n, from + i - 1)]

FrameSize(n) == 1 + (n + 1) \div 19
FrameLen(n) == 3 + n + (n + 1) \div 19
Frame(n) == Bytes(n, 0, FrameLen(n))
FramePacket(n, i) == Bytes(n, 20 * i, Least(20 * i + 20, FrameLen(n)))

-----------------------------------------------------------------------------
Init ==
  /\ \/ pc = "wrap" /\ len \in CmdLen
     \/ pc = "receiving" /\ len \in RetLen
  /\ sendMsgIndex = 17 /\ fIndex = 0 /\ out = <<>>
  /\ recv = <<>> /\ packets = 0
  /\ removeIndex = FIDO_BLOCK_SIZE /\ temp = <<>> /\ parsed = <<>>

(* basicApduAddHeadAndLength, and the first packet.                        *)
WrapHead ==
  /\ pc = "wrap"
  /\ LET apdu == Header(len) \o Data(0, len)
     IN  IF FIDO_BLOCK_SIZE >= Len(apdu)
           THEN out' = apdu /\ pc' = "wrapped"
           ELSE out' = SubSeq(apdu, 1, FIDO_BLOCK_SIZE) /\ pc' = "index"
  /\ UNCHANGED <<len, sendMsgIndex, fIndex, receiving, parsing>>

(* Mutant: the test for a last packet that is exactly full is missing.     *)
WrapNext_exactlyFull ==
  /\ pc = "index"
  /\ LET end == Least(sendMsgIndex + FIDO_DATA_BLOCK_SIZE, len)
     IN  out' = out \o <<Index(fIndex)>> \o Data(sendMsgIndex, end)
  /\ sendMsgIndex' = sendMsgIndex + FIDO_DATA_BLOCK_SIZE
  /\ IF sendMsgIndex' > len THEN pc' = "wrapped" /\ UNCHANGED fIndex
                            ELSE fIndex' = fIndex + 1 /\ UNCHANGED pc
  /\ UNCHANGED <<len, receiving, parsing>>

WrapNext ==
  /\ pc = "index"
  /\ LET end == Least(sendMsgIndex + FIDO_DATA_BLOCK_SIZE, len)
     IN  out' = out \o <<Index(fIndex)>> \o Data(sendMsgIndex, end)
  /\ sendMsgIndex' = sendMsgIndex + FIDO_DATA_BLOCK_SIZE
  /\ IF sendMsgIndex' >= len THEN pc' = "wrapped" /\ UNCHANGED fIndex
                             ELSE fIndex' = fIndex + 1 /\ UNCHANGED pc
  /\ UNCHANGED <<len, receiving, parsing>>

-----------------------------------------------------------------------------
(* fLen of checkResponse.                                                  *)
IndexBytes(n) ==
  IF n > 17 THEN (n - 17) \div 19 + (IF (n - 17) % 19 > 0 THEN 1 ELSE 0) ELSE 0

CheckResponse(buf) ==
  CASE buf = <<>> -> "empty"
    [] buf # <<>> /\ FIDO_HEADER_LEN >= Len(buf) -> "invalid"
    [] FIDO_HEADER_LEN < Len(buf) ->
         IF len + FIDO_HEADER_LEN + IndexBytes(len) <= Len(buf) THEN "done" ELSE "receiving"

(* RecvCallBack merges the packet that the link delivers.                  *)
MergePacket ==
  /\ pc = "receiving" /\ packets < FrameSize(len)
  /\ recv' = recv \o FramePacket(len, packets)
  /\ packets' = packets + 1
  /\ pc' = CheckResponse(recv')
  /\ UNCHANGED <<len, wrapping, parsing>>

(* parseFidoApdu up to the loop of removePkgIndex.                         *)
RemovePkgIndex ==
  /\ pc = "done"
  /\ IF FIDO_BLOCK_SIZE >= len + FIDO_HEADER_LEN
       THEN temp' = recv /\ pc' = "strip"
       ELSE temp' = SubSeq(recv, 1, FIDO_BLOCK_SIZE) /\ pc' = "remove"
  /\ UNCHANGED <<len, wrapping, receiving, removeIndex, parsed>>

(* Mutant: the index byte is left in.                                      *)
RemoveNext_keepsIndex ==
  /\ pc = "remove"
  /\ LET end == Least(removeIndex + 1 + FIDO_DATA_BLOCK_SIZE, Len(recv))
     IN  /\ temp' = temp \o SubSeq(recv, removeIndex + 1, end)
         /\ removeIndex' = end
         /\ pc' = IF end = Len(recv) THEN "strip" ELSE "remove"
  /\ UNCHANGED <<len, wrapping, receiving, parsed>>

RemoveNext ==
  /\ pc = "remove"
  /\ LET end == Least(removeIndex + 1 + FIDO_DATA_BLOCK_SIZE, Len(recv))
     IN  /\ temp' = temp \o SubSeq(recv, removeIndex + 2, end)
         /\ removeIndex' = end
         /\ pc' = CASE end < Len(recv) -> "remove"
                    [] end = Len(recv) ->
                         IF Len(temp') = len + FIDO_HEADER_LEN THEN "strip" ELSE "bad"
  /\ UNCHANGED <<len, wrapping, receiving, parsed>>

RemoveCmdHead ==
  /\ pc = "strip"
  /\ parsed' = SubSeq(temp, FIDO_HEADER_LEN + 1, Len(temp))
  /\ pc' = "parsed"
  /\ UNCHANGED <<len, wrapping, receiving, removeIndex, temp>>

Finished == pc \in {"wrapped", "parsed", "invalid", "bad"} /\ UNCHANGED vars

Next ==
  \/ WrapHead \/ WrapNext
  \/ MergePacket \/ RemovePkgIndex \/ RemoveNext \/ RemoveCmdHead
  \/ Finished

Spec == Init /\ [][Next]_vars

-----------------------------------------------------------------------------
(* The wrapped command is its frame: every byte once and in order, an      *)
(* index in front of each packet but the first, and no packet too many     *)
(* when the last one is full.                                              *)
WrapsToFrame == pc = "wrapped" => out = Frame(len)

(* An answer counts as complete with its last packet, no earlier and no    *)
(* later, so that a caller that waits has packets to wait for; and parsing *)
(* it gives the payload back, and never fails.                             *)
ParsesToPayload ==
  /\ pc = "receiving" => packets < FrameSize(len)
  /\ pc \in {"done", "remove", "strip", "parsed"} => recv = Frame(len)
  /\ pc # "bad"
  /\ pc = "parsed" => parsed = Data(0, len)
=============================================================================
