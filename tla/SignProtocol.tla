---------------------------- MODULE SignProtocol ----------------------------
(***************************************************************************)
(* Signing over APDUs.  A BTC transaction goes to the device as a first    *)
(* pack and three TLVs cut into chunks, is signed by an APDU of its own,   *)
(* and is read back in pieces.  An ETH transaction is one APDU.            *)
(*                                                                         *)
(* An APDU is sent, carried out by the device and answered in steps of     *)
(* their own.  The host may give any of them up, by a timeout, a spurious  *)
(* wakeup or a lost link, and go on to the next request: what it gave up   *)
(* may still be carried out then, as when the user presses the button      *)
(* late, and its answer be taken for another's.  The device may lose power *)
(* between any two steps.                                                  *)
(*                                                                         *)
(* Data is a sequence of spans: where it comes from and which bytes.       *)
(*                                                                         *)
(* External: the device, which carries out one APDU after the other in the *)
(* order they were sent, takes packs only after a first one, starts anew   *)
(* with every first pack, signs once the last one arrived, forgets the     *)
(* packs when it refuses an APDU, and hands out the signed transaction     *)
(* from the offset it is given.  What else a session sends between two     *)
(* requests is left out.                                                   *)
(***************************************************************************)
EXTENDS Integers, Sequences

CONSTANTS
  ChunkLen,    \* kSendOnceLen, 230
  PieceLen,    \* kReadOnceLen, 256
  EthMax,      \* size of SignTXETH's buffer, 2048
  Sizes,       \* BTC requests: the length of each TLV
  RawLens,     \* lengths a signed transaction may have
  Shorts,      \* what a device may hand out instead of a whole piece
  MaxSign      \* bound: requests

TLVs == {"path", "tx", "change"}
NoTLVs == [b \in TLVs |-> 0]

ASSUME SignAssumption ==
  /\ ChunkLen \in Nat \ {0} /\ PieceLen \in Nat \ {0} /\ EthMax \in Nat
  /\ Sizes \subseteq [TLVs -> Nat \ {0}]
  /\ RawLens \subseteq Nat \ {0} /\ Shorts \subseteq Nat \ {0}
  /\ MaxSign \in Nat

VARIABLES
  pc,        \* where the signing thread is
  jobs,      \* the requests so far: chain, and the size of each TLV
  times,     \* loop counter of _TranPack, then of the reading loop
  total,     \* totalReadLen
  room,      \* ulRetLen: what the next piece may fill
  raw,       \* sigRawTx, the spans read so far
  result,    \* of the last request
  waits,     \* the thread waits in SendData
  inbox,     \* external: APDUs sent and not carried out
  answers,   \* external: answers under way
  started,   \* external: the device got a first pack
  buf,       \* external: the data it got since
  complete,  \* external: it got the last pack
  held,      \* external: the data whose signature it hands out, <<>> for none
  signed,    \* history: all the data the device signed, in order
  short,     \* history: a piece of this request came short
  abandoned, \* history: an APDU was given up
  crossed    \* history: while this request was busy an APDU was sent before an
             \* earlier one was carried out and answered

host == <<pc, jobs, times, total, room, raw, result>>
device == <<started, buf, complete, held, signed>>
link == <<waits, inbox, answers>>
history == <<short, abandoned, crossed>>
vars == <<host, device, link, history>>

request == Len(jobs)
job == jobs[request]

Span(of, from, upto) == [of |-> of, from |-> from, upto |-> upto]

(* Adjacent spans of one source are one span.                              *)
Glue(s, x) ==
  IF s # <<>> /\ s[Len(s)].of = x.of /\ s[Len(s)].upto = x.from
  THEN [s EXCEPT ![Len(s)] = Span(x.of, @.from, x.upto)]
  ELSE Append(s, x)

(* The data of request r: the number and amounts of the inputs, the paths, *)
(* the transaction and the changes.                                        *)
Part(r, blob, n) == Span(<<r, blob>>, 0, n)
Whole(r) ==
  IF jobs[r].chain = "eth" THEN <<Part(r, "eth", 1)>>
  ELSE <<Part(r, "amounts", 1), Part(r, "path", jobs[r].size["path"]),
         Part(r, "tx", jobs[r].size["tx"]), Part(r, "change", jobs[r].size["change"])>>

-----------------------------------------------------------------------------
(* _TranPack: the chunks before the last, which is full if the chunks fit. *)
NextTimes(n) == IF n % ChunkLen = 0 THEN n \div ChunkLen - 1 ELSE n \div ChunkLen
Left(n) == IF n % ChunkLen = 0 THEN ChunkLen ELSE n % ChunkLen

NextTLV == [path |-> "tx", tx |-> "change", change |-> "sign"]

(* Mutant: the loop ends a piece too early.                                *)
more_early == times + 1 < total \div PieceLen

more == times < total \div PieceLen

(* An APDU is named by the request and the loop counter it is made from;   *)
(* Pack is the data it carries.                                            *)
le == IF pc # "read" THEN 0 ELSE IF more THEN PieceLen ELSE total % PieceLen

apdu == [of |-> request, op |-> pc, times |-> times, le |-> le]

IsLast(x) == x.times >= NextTimes(jobs[x.of].size[x.op])

(* Mutant: the last chunk is taken from where the one before it began.     *)
Pack_again(x) ==
  IF ~IsLast(x) THEN Span(<<x.of, x.op>>, x.times * ChunkLen, x.times * ChunkLen + ChunkLen)
  ELSE Span(<<x.of, x.op>>, (x.times - 1) * ChunkLen,
            (x.times - 1) * ChunkLen + Left(jobs[x.of].size[x.op]))

Pack(x) ==
  LET lc == IF ~IsLast(x) THEN ChunkLen ELSE Left(jobs[x.of].size[x.op])
  IN  Span(<<x.of, x.op>>, x.times * ChunkLen, x.times * ChunkLen + lc)

-----------------------------------------------------------------------------
(* External: the device carries out the APDU x.                            *)
NoBytes == Span(<<>>, 0, 0)

Size(bytes) == bytes.upto - bytes.from

Answer(sw, bytes) == answers' = Append(answers, [sw |-> sw, bytes |-> bytes])

Forgets == started' = FALSE /\ buf' = <<>> /\ complete' = FALSE

DeviceStarts(x) ==
  /\ x.op = "first"
  /\ started' = TRUE /\ complete' = FALSE
  /\ buf' = <<Part(x.of, "amounts", 1)>>
  /\ UNCHANGED <<held, signed>> /\ Answer("ok", NoBytes)

DeviceTakes(x) ==
  /\ x.op \in TLVs /\ started /\ ~complete
  /\ buf' = Glue(buf, Pack(x)) /\ complete' = (x.op = "change" /\ IsLast(x))
  /\ UNCHANGED <<started, held, signed>> /\ Answer("ok", NoBytes)

DeviceSigns(x) ==
  /\ x.op = "sign" /\ complete
  /\ signed' = Append(signed, buf) /\ held' = buf
  /\ Forgets /\ Answer("ok", Span(<<Part(x.of, "length", 2)>>, 0, 2))

(* The user refuses.                                                       *)
DeviceCancels(x) ==
  /\ x.op = "sign" /\ complete
  /\ Forgets /\ Answer("cancelled", NoBytes)
  /\ UNCHANGED <<held, signed>>

DeviceSignsETH(x) ==
  /\ x.op = "eth"
  /\ signed' = Append(signed, Whole(x.of)) /\ held' = Whole(x.of)
  /\ Forgets
  /\ \E n \in RawLens : Answer("ok", Span(Whole(x.of), 0, n))

DeviceHandsOut(x) ==
  /\ x.op = "read" /\ held # <<>>
  /\ \E n \in {x.le} \cup {m \in Shorts : m < x.le} :
       Answer("ok", Span(held, x.times * PieceLen, x.times * PieceLen + n))
  /\ UNCHANGED device

DeviceRefuses ==
  /\ Forgets /\ Answer("error", NoBytes)
  /\ UNCHANGED <<held, signed>>

DeviceWorks(x) ==
  /\ \/ DeviceStarts(x) \/ DeviceTakes(x) \/ DeviceSigns(x) \/ DeviceCancels(x)
     \/ DeviceSignsETH(x) \/ DeviceHandsOut(x) \/ DeviceRefuses
  /\ inbox' = Tail(inbox)
  /\ UNCHANGED <<host, waits, history>>

DeviceRestarts ==
  /\ started \/ held # <<>> \/ inbox # <<>> \/ answers # <<>>
  /\ Forgets /\ held' = <<>>
  /\ inbox' = <<>> /\ answers' = <<>>
  /\ UNCHANGED <<host, waits, signed, history>>

-----------------------------------------------------------------------------
Init ==
  /\ pc = "idle" /\ jobs = <<>> /\ times = 0 /\ total = 0 /\ room = 0 /\ raw = <<>>
  /\ result = "none" /\ waits = FALSE /\ inbox = <<>> /\ answers = <<>>
  /\ started = FALSE /\ buf = <<>> /\ complete = FALSE /\ held = <<>>
  /\ signed = <<>> /\ short = FALSE /\ abandoned = FALSE /\ crossed = FALSE

(* A transaction type the wallet does not sign is refused unsent.          *)
SignTX ==
  /\ pc = "idle" /\ request < MaxSign
  /\ \/ \E s \in Sizes : /\ jobs' = Append(jobs, [chain |-> "btc", size |-> s])
                         /\ pc' = "first"
     \/ \E c \in {"eth", "unsupported"} :
          jobs' = Append(jobs, [chain |-> c, size |-> NoTLVs]) /\ pc' = c
  /\ result' = "busy"
  /\ times' = 0 /\ total' = 0 /\ room' = 0 /\ raw' = <<>> /\ short' = FALSE /\ crossed' = FALSE
  /\ UNCHANGED <<device, link, abandoned>>

Ends(r) == pc' = "idle" /\ result' = r

NotSupported ==
  /\ pc = "unsupported"
  /\ Ends("error")
  /\ UNCHANGED <<jobs, times, total, room, raw, device, link, history>>

Sends == pc \in {"first", "sign", "eth"} \cup TLVs \/ le > 0

(* The transport takes the APDU and the thread waits, or it does not.      *)
_SendApdu ==
  /\ Sends /\ ~waits
  /\ \/ /\ inbox' = Append(inbox, apdu) /\ waits' = TRUE
        /\ crossed' = (crossed \/ inbox # <<>> \/ answers # <<>>)
        /\ UNCHANGED <<pc, result>>
     \/ Ends("error") /\ UNCHANGED <<inbox, waits, crossed>>
  /\ UNCHANGED <<jobs, times, total, room, raw, device, answers, short, abandoned>>

GivesUp ==
  /\ waits
  /\ waits' = FALSE /\ abandoned' = TRUE /\ Ends("error")
  /\ UNCHANGED <<jobs, times, total, room, raw, device, inbox, answers, short, crossed>>

(* An answer comes, to whichever APDU; one that nobody waits for is        *)
(* dropped.                                                                *)
answer == Head(answers)

Answered == waits /\ waits' = FALSE /\ answers # <<>> /\ answers' = Tail(answers) /\ UNCHANGED inbox

NobodyWaits ==
  /\ ~waits /\ answers # <<>> /\ answers' = Tail(answers)
  /\ UNCHANGED <<host, device, waits, inbox, history>>

FirstPack ==
  /\ pc = "first" /\ Answered
  /\ IF answer.sw = "ok" THEN pc' = "path" /\ UNCHANGED result ELSE Ends("error")
  /\ UNCHANGED <<jobs, times, total, room, raw, device, history>>

_TranPack ==
  /\ pc \in TLVs /\ Answered
  /\ IF answer.sw # "ok" THEN Ends("error") /\ UNCHANGED times
     ELSE /\ UNCHANGED result
          /\ IF ~IsLast(apdu) THEN times' = times + 1 /\ UNCHANGED pc
             ELSE times' = 0 /\ pc' = NextTLV[pc]
  /\ UNCHANGED <<jobs, total, room, raw, device, history>>

(* The APDU that signs answers with the length of the signed transaction.  *)
SignTransactions ==
  /\ pc = "sign" /\ Answered
  /\ \/ /\ answer.sw = "ok" /\ Size(answer.bytes) = 2
        /\ total' \in RawLens /\ room' = PieceLen
        /\ pc' = "read" /\ UNCHANGED result
     \/ answer.sw = "cancelled" /\ Ends("cancelled") /\ UNCHANGED <<total, room>>
     \/ /\ answer.sw = "error" \/ (answer.sw = "ok" /\ Size(answer.bytes) # 2)
        /\ Ends("error") /\ UNCHANGED <<total, room>>
  /\ UNCHANGED <<jobs, times, raw, device, history>>

(* The buffer size _SendApdu is given for a piece is what it returned for  *)
(* the piece before: after a short piece a longer one does not fit.  It is *)
(* set anew for the last one.                                              *)
Refused(n) == answer.sw # "ok" \/ Size(answer.bytes) > n

Copy(bytes) ==
  /\ raw' = IF Size(bytes) = 0 THEN raw ELSE Glue(raw, bytes)
  /\ room' = Size(bytes)
  /\ short' = (short \/ Size(bytes) < le)

ReadPiece ==
  /\ pc = "read" /\ more /\ Answered
  /\ IF Refused(room) THEN Ends("error") /\ UNCHANGED <<raw, room, times, short>>
     ELSE Copy(answer.bytes) /\ times' = times + 1 /\ UNCHANGED <<pc, result>>
  /\ UNCHANGED <<jobs, total, device, abandoned, crossed>>

ReadRest ==
  /\ pc = "read" /\ ~more /\ Answered
  /\ IF Refused(le) THEN Ends("error") /\ UNCHANGED <<raw, room, short>>
     ELSE Copy(answer.bytes) /\ Ends("ok")
  /\ UNCHANGED <<jobs, times, total, device, abandoned, crossed>>

NothingLeft ==
  /\ pc = "read" /\ le = 0
  /\ Ends("ok")
  /\ UNCHANGED <<jobs, times, total, room, raw, device, link, history>>

(* SignTXETH: one pack, and an answer that may exceed the buffer.          *)
SignETH ==
  /\ pc = "eth" /\ Answered
  /\ IF Refused(EthMax) THEN Ends("error") /\ UNCHANGED <<total, raw>>
     ELSE /\ Ends("ok") /\ total' = Size(answer.bytes)
          /\ raw' = IF Size(answer.bytes) = 0 THEN <<>> ELSE <<answer.bytes>>
  /\ UNCHANGED <<jobs, times, room, device, history>>

-----------------------------------------------------------------------------
Next ==
  \/ SignTX \/ NotSupported \/ _SendApdu \/ GivesUp \/ NobodyWaits
  \/ FirstPack \/ _TranPack \/ SignTransactions \/ ReadPiece \/ ReadRest \/ NothingLeft
  \/ SignETH
  \/ (inbox # <<>> /\ DeviceWorks(Head(inbox))) \/ DeviceRestarts

Spec == Init /\ [][Next]_vars

-----------------------------------------------------------------------------
Ops == {"first", "sign", "read", "eth"} \cup TLVs
Apdus == [of : Nat, op : Ops, times : Nat, le : Nat]
Data == Seq([of : Nat \X ({"amounts", "eth", "length"} \cup TLVs), from : Nat, upto : Nat])
Bytes == {b \in [of : Data, from : Nat, upto : Nat] : b.from <= b.upto}

(* Type correctness.                                                       *)
TypeOK ==
  /\ pc \in {"idle", "unsupported"} \cup Ops
  /\ jobs \in Seq([chain : {"btc", "eth", "unsupported"}, size : Sizes \cup {NoTLVs}])
  /\ pc # "idle" => jobs # <<>>
  /\ times \in Nat /\ total \in Nat /\ room \in Nat /\ raw \in Seq(Bytes)
  /\ result \in {"none", "busy", "ok", "error", "cancelled"}
  /\ inbox \in Seq(Apdus)
  /\ answers \in Seq([sw : {"ok", "error", "cancelled"}, bytes : Bytes])
  /\ buf \in Data /\ held \in Data /\ signed \in Seq(Data)
  /\ started \in BOOLEAN /\ complete \in BOOLEAN /\ waits \in BOOLEAN
  /\ short \in BOOLEAN /\ abandoned \in BOOLEAN /\ crossed \in BOOLEAN

(* SignTX returns the transaction the device signed for this request, all  *)
(* of it and in order, if the device handed out whole pieces and no APDU   *)
(* that was given up before came between.                                  *)
RawIsWhole == result = "ok" /\ ~short /\ ~crossed => raw = <<Span(Whole(request), 0, total)>>

(* The signing protocol implements signing: what the device signs is all   *)
(* of one request and nothing else, no chunk missing or doubled, nothing   *)
(* of a call that was given up in between, each request at most once and   *)
(* in order, and a caller who gets his transaction gets one that was       *)
(* signed.  Other data would be the request 0, which is never asked.       *)
RequestOf(data) ==
  IF \E r \in 1 .. request : data = Whole(r)
  THEN CHOOSE r \in 1 .. request : data = Whole(r)
  ELSE 0

Abstract == INSTANCE Signing WITH
  asked <- request,
  signed <- [i \in 1 .. Len(signed) |-> RequestOf(signed[i])]

ImplementsSigning == Abstract!Spec
=============================================================================
