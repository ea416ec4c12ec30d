--------------------------- MODULE Formats_proofs ---------------------------
(* Theorems about the formats: HidFraming and FidoFraming for every length *)
(* of command and answer, TxSerialize for every transaction, TlvParse for  *)
(* every answer, and EthRequest for every request and transfer.            *)
EXTENDS Formats, SequenceTheorems, WellFoundedInduction, TLAPS

-----------------------------------------------------------------------------
(* What Chunk takes, and that a length of one byte announces itself.       *)
LEMMA ChunkBounds ==
  ASSUME NEW max \in Nat \ {0}, NEW rest \in Nat
  PROVE  /\ Chunk(max, rest) \in 0 .. rest
         /\ Chunk(max, rest) <= max
         /\ rest > 0 => Chunk(max, rest) > 0
         /\ Chunk(max, rest) < rest => Chunk(max, rest) = max
  BY DEF Chunk

LEMMA AnnouncedNat == ASSUME NEW n \in Nat PROVE Announced(n) \in Nat
  BY DEF Announced

LEMMA AnnouncedShort == ASSUME NEW n \in 0 .. 255 PROVE Announced(n) = n
<1>1. n \div 256 = 0 /\ n % 256 = n
  OBVIOUS
<1> QED
  BY <1>1 DEF Announced

LEMMA ReportType ==
  ASSUME NEW n \in Nat, NEW i \in Nat, i = 0 \/ ReportFrom(i) < n
  PROVE  /\ Report(n, i).mark \in Nat /\ Report(n, i).announced = n
         /\ Report(n, i).from = ReportFrom(i) /\ ReportFrom(i) \in 0 .. n
         /\ Report(n, i).size = Chunk(IF i = 0 THEN 57 ELSE 59, n - ReportFrom(i))
  BY DEF Report, ReportFrom, Chunk, MSG, FirstPackMaxLen, NextPackMaxLen

-----------------------------------------------------------------------------
(* Types, and where the reading loop stands.                               *)
Reading ==
  /\ pc = "write" => next = 0
  /\ pc = "read" /\ offset = 0 => payload = 0
  /\ pc \in {"write", "read"} /\ next = 0 => payload = 0

TypeInv == TypeOK /\ Reading

LEMMA TypeInit == Init => TypeInv
  BY FramingAssumption DEF Init, TypeInv, TypeOK, Reading, Idle

LEMMA DeviceType ==
  ASSUME NEW r, r.mark \in Nat, r.announced \in Nat, r.size \in Nat, r.from \in Nat, TypeOK
  PROVE  DeviceReads(dev, r) \in [state : {"idle", "reading", "executed"}, want : Nat,
                                  got : Nat, astray : Nat]
  BY DEF DeviceReads, TypeOK

LEMMA TypeStep == TypeInv /\ [Next]_vars => TypeInv'
<1> SUFFICES ASSUME TypeInv, [Next]_vars PROVE TypeInv'
  OBVIOUS
<1> USE FramingAssumption
<1>t. /\ len \in Nat /\ retLen \in Nat /\ offset \in Nat /\ count \in Nat /\ next \in Nat
      /\ payload \in Nat /\ waits \in Nat
  BY DEF TypeInv, TypeOK
<1>1. CASE WritePacket
  <2> DEFINE max == IF offset = 0 THEN FirstPackMaxLen ELSE NextPackMaxLen
             piece == Chunk(max, len - offset)
             r == [mark |-> IF offset = 0 THEN MSG ELSE count % 256,
                   announced |-> Announced(len), from |-> offset, size |-> piece]
  <2>1. piece \in Nat
    BY <1>1, <1>t, ChunkBounds DEF WritePacket, FirstPackMaxLen, NextPackMaxLen
  <2>2. r.mark \in Nat /\ r.announced \in Nat /\ r.size \in Nat /\ r.from \in Nat
    BY <2>1, <1>t, AnnouncedNat DEF MSG
  <2>3. dev' = DeviceReads(dev, r) /\ offset' = offset + piece
    BY <1>1 DEF WritePacket
  <2>4. dev' \in [state : {"idle", "reading", "executed"}, want : Nat, got : Nat, astray : Nat]
    <3> HIDE DEF r
    <3> QED BY <2>2, <2>3, DeviceType DEF TypeInv
  <2> QED
    BY <2>1, <2>3, <2>4, <1>1, <1>t DEF WritePacket, TypeInv, TypeOK, Reading
<1>2. CASE WritesDone
  BY <1>2, <1>t DEF WritesDone, TypeInv, TypeOK, Reading
<1>3. CASE WriteFails
  BY <1>3, <1>t DEF WriteFails, TypeInv, TypeOK, Reading
<1>4. CASE SkipReport
  BY <1>4, <1>t DEF SkipReport, TypeInv, TypeOK, Reading
<1>5. CASE ReadFirst
  <2> DEFINE r == Report(retLen, next)
  <2>1. r.announced = retLen
    BY DEF Report
  <2>2. Chunk(FirstPackMaxLen, retLen) \in 0 .. retLen
    BY <1>t, ChunkBounds DEF FirstPackMaxLen
  <2>3. retLen > 0 => Chunk(FirstPackMaxLen, retLen) > 0
    BY <1>t, ChunkBounds DEF FirstPackMaxLen
  <2>4. payload' = retLen /\ next' = next + 1
    BY <1>5, <2>1 DEF ReadFirst
  <2>5. \/ pc' = "small" /\ UNCHANGED <<offset, matched>>
        \/ CopyReport(r, retLen, FirstPackMaxLen)
    BY <1>5, <2>1 DEF ReadFirst
  <2>6. \/ pc' = "small" /\ UNCHANGED <<offset, matched>>
        \/ /\ offset' = Chunk(FirstPackMaxLen, retLen) /\ matched' \in BOOLEAN
           /\ pc' = IF Chunk(FirstPackMaxLen, retLen) >= retLen THEN "ok" ELSE "read"
    <3>1. offset = 0
      BY <1>5 DEF ReadFirst
    <3>2. CASE CopyReport(r, retLen, FirstPackMaxLen)
      <4>1. matched' \in BOOLEAN
        BY <3>2, Zenon DEF CopyReport
      <4> HIDE DEF r
      <4> QED BY <3>1, <3>2, <4>1, <2>2, <1>t DEF CopyReport
    <3> QED BY <3>2, <2>5
  <2> HIDE DEF r
  <2> QED
    BY <1>5, <1>t, <2>2, <2>3, <2>4, <2>6 DEF ReadFirst, TypeInv, TypeOK, Reading
<1>6. CASE ReadNext
  <2>1. payload - offset \in Nat /\ offset <= payload
    BY <1>6, <1>t DEF ReadNext, TypeInv, TypeOK
  <2> DEFINE piece == Chunk(NextPackMaxLen, payload - offset)
  <2>2. piece \in 0 .. (payload - offset)
    <3>1. NextPackMaxLen \in Nat \ {0}
      BY DEF NextPackMaxLen
    <3> QED BY <3>1, <2>1, ChunkBounds
  <2>3. offset' = offset + piece /\ pc' \in {"ok", "read"} /\ matched' \in BOOLEAN
    BY <1>6 DEF ReadNext, CopyReport
  <2> HIDE DEF piece
  <2> QED
    BY <1>6, <1>t, <2>1, <2>2, <2>3 DEF ReadNext, TypeInv, TypeOK, Reading
<1>7. CASE ReadFails
  BY <1>7, <1>t DEF ReadFails, TypeInv, TypeOK, Reading
<1>8. CASE UNCHANGED vars
  BY <1>8 DEF vars, TypeInv, TypeOK, Reading
<1> QED
  BY <1>1, <1>2, <1>3, <1>4, <1>5, <1>6, <1>7, <1>8 DEF Next, Finished

(* The reading loop never copies past the vector it made for the answer    *)
(* (offset <= ulPlayloadSize in SendData), and the rest of the types.      *)
THEOREM FramingTypeCorrect == Spec => []TypeOK
<1>1. TypeInv => TypeOK
  BY DEF TypeInv
<1> QED
  BY <1>1, TypeInit, TypeStep, PTL DEF Spec

-----------------------------------------------------------------------------
(* How much the device has, for commands whose length is one byte: what    *)
(* the loop has written, in its place.                                     *)
Writing ==
  /\ pc = "write" => offset <= len
  /\ pc = "write" /\ offset = 0 => dev = Idle /\ count = 0
  /\ pc = "write" /\ offset > 0 =>
       /\ dev.want = len /\ dev.got = offset /\ dev.astray = 0
       /\ dev.state = IF offset = len THEN "executed" ELSE "reading"
       /\ offset < len => offset = 57 + 59 * count
  /\ dev.state = "executed" => dev.want = len /\ dev.got = len /\ dev.astray = 0

LEMMA WritingInit == Init => Writing
  BY FramingAssumption DEF Init, Writing, Idle

LEMMA DeviceOpens ==
  ASSUME NEW d, NEW r, d.state # "executed", r.mark = MSG, r.from = 0,
         r.size \in Nat, r.announced \in Nat, r.size <= r.announced, d.astray = 0
  PROVE  LET new == DeviceReads(d, r)
         IN  /\ new.state = IF r.size = r.announced THEN "executed" ELSE "reading"
             /\ new.want = r.announced /\ new.got = r.size /\ new.astray = 0
  BY DEF DeviceReads

LEMMA DeviceGoesOn ==
  ASSUME NEW d, NEW r, d.state = "reading", r.mark # MSG, r.from = d.got, d.astray = 0,
         d.got \in Nat, d.want \in Nat, r.size \in Nat, d.got + r.size <= d.want
  PROVE  LET new == DeviceReads(d, r)
         IN  /\ new.state = IF d.got + r.size = d.want THEN "executed" ELSE "reading"
             /\ new.want = d.want /\ new.got = d.got + r.size /\ new.astray = 0
  BY DEF DeviceReads

LEMMA WritingStep ==
  ASSUME CmdLen \subseteq 0 .. 255
  PROVE  TypeInv /\ Writing /\ [Next]_vars => Writing'
<1> SUFFICES ASSUME TypeInv, Writing, [Next]_vars PROVE Writing'
  OBVIOUS
<1>t. len \in 0 .. 255 /\ offset \in Nat /\ count \in Nat
  BY DEF TypeInv, TypeOK
<1>1. CASE WritePacket
  <2> DEFINE max == IF offset = 0 THEN FirstPackMaxLen ELSE NextPackMaxLen
             piece == Chunk(max, len - offset)
             r == [mark |-> IF offset = 0 THEN MSG ELSE count % 256,
                   announced |-> Announced(len), from |-> offset, size |-> piece]
  <2>0. pc = "write" /\ offset < len /\ dev' = DeviceReads(dev, r) /\ offset' = offset + piece
        /\ count' = (IF offset = 0 THEN count ELSE count + 1) /\ pc' = pc /\ len' = len
    BY <1>1 DEF WritePacket
  <2>1. /\ piece \in 1 .. (len - offset)
        /\ piece < len - offset => piece = max
    <3>1. max \in Nat \ {0} /\ len - offset \in Nat /\ len - offset > 0
      BY <2>0, <1>t DEF FirstPackMaxLen, NextPackMaxLen
    <3> HIDE DEF max
    <3> QED BY <3>1, ChunkBounds
  <2>2. r.announced = len /\ r.from = offset /\ r.size = piece
    BY <1>t, AnnouncedShort
  <2>3. CASE offset = 0
    <3>1. r.mark = MSG /\ dev = Idle /\ count = 0
      BY <2>3, <2>0 DEF Writing
    <3>2. /\ dev'.state = IF piece = len THEN "executed" ELSE "reading"
          /\ dev'.want = len /\ dev'.got = piece /\ dev'.astray = 0
      <4> HIDE DEF r, piece
      <4> QED BY <2>0, <2>1, <2>2, <2>3, <3>1, <1>t, DeviceOpens DEF Idle
    <3>3. piece < len => piece = 57
      BY <2>1, <2>3, <1>t DEF FirstPackMaxLen
    <3> HIDE DEF r, piece
    <3> QED
      BY <2>0, <2>1, <2>3, <3>1, <3>2, <3>3, <1>t DEF Writing
  <2>4. CASE offset > 0
    <3>1. /\ dev.want = len /\ dev.got = offset /\ dev.astray = 0 /\ dev.state = "reading"
          /\ offset = 57 + 59 * count
      BY <2>4, <2>0, <1>t DEF Writing
    <3>2. count < 4 /\ r.mark = count % 256
      BY <3>1, <2>0, <2>4, <1>t
    <3>3. r.mark # MSG
      BY <3>2, <1>t DEF MSG
    <3>4. /\ dev'.state = IF offset + piece = len THEN "executed" ELSE "reading"
          /\ dev'.want = len /\ dev'.got = offset + piece /\ dev'.astray = 0
      <4> HIDE DEF r, piece
      <4> QED BY <2>0, <2>1, <2>2, <3>1, <3>3, <1>t, DeviceGoesOn
    <3>5. offset + piece < len => piece = 59
      BY <2>1, <2>4, <1>t DEF NextPackMaxLen
    <3> HIDE DEF r, piece
    <3> QED
      BY <2>0, <2>1, <2>4, <3>1, <3>4, <3>5, <1>t DEF Writing
  <2> QED
    BY <2>3, <2>4, <1>t
<1>2. CASE ~WritePacket
  <2>1. UNCHANGED <<len, dev>> /\ (pc' = "write" => UNCHANGED <<pc, offset, count>>)
    BY <1>2 DEF Next, WritesDone, WriteFails, SkipReport, ReadFirst, ReadNext, CopyReport,
                ReadFails, Finished, vars
  <2> QED
    BY <2>1 DEF Writing
<1> QED
  BY <1>1, <1>2

(* A command of up to 255 bytes that the device executes is the command    *)
(* SendData was given, whatever fails and however the reports fall.  The   *)
(* bound is that of the length byte: the high one is always zero.          *)
THEOREM CommandIsWhole == ASSUME CmdLen \subseteq 0 .. 255 PROVE Spec => []CommandWhole
<1>1. Writing => CommandWhole
  BY DEF Writing, CommandWhole
<1>2. Init => TypeInv /\ Writing
  BY TypeInit, WritingInit
<1>3. (TypeInv /\ Writing) /\ [Next]_vars => (TypeInv /\ Writing)'
  BY TypeStep, WritingStep
<1> QED
  BY <1>1, <1>2, <1>3, PTL DEF Spec

-----------------------------------------------------------------------------
LEMMA CopyRight ==
  ASSUME NEW r, NEW room, NEW max, CopyReport(r, room, max), matched,
         r.from = offset, r.size = Chunk(max, room), Chunk(max, room) \in Nat
  PROVE  /\ offset' = offset + Chunk(max, room) /\ matched'
         /\ pc' = IF Chunk(max, room) >= room THEN "ok" ELSE "read"
<1> DEFINE piece == Chunk(max, room)
<1>1. /\ offset' = offset + piece
      /\ matched' = (matched /\ r.from = offset /\ piece <= r.size)
      /\ pc' = IF piece >= room THEN "ok" ELSE "read"
  BY DEF CopyReport
<1>2. piece <= r.size
  OBVIOUS
<1> QED
  BY <1>1, <1>2, Zenon

(* Between reports the copied bytes are those of the reports so far.       *)
Copying ==
  /\ pc = "write" => next = 0 /\ matched
  /\ pc = "read" /\ offset = 0 => next = 0 /\ matched
  /\ pc = "read" /\ offset > 0 =>
       /\ payload = retLen /\ retLen <= Capacity
       /\ matched /\ next > 0 /\ offset < retLen /\ offset = ReportFrom(next)
  /\ AnswerWhole

LEMMA CopyingInit == Init => Copying
  BY DEF Init, Copying, AnswerWhole

LEMMA CopyingStep ==
  ASSUME Capacity <= 57 + 59 * 187
  PROVE  TypeInv /\ Copying /\ [Next]_vars => Copying'
<1> SUFFICES ASSUME TypeInv, Copying, [Next]_vars PROVE Copying'
  OBVIOUS
<1>t. /\ retLen \in Nat /\ offset \in Nat /\ next \in Nat /\ payload \in Nat
      /\ Capacity \in Nat /\ waits \in Nat
  BY FramingAssumption DEF TypeInv, TypeOK
<1>1. CASE WritePacket \/ WritesDone \/ WriteFails \/ ReadFails \/ UNCHANGED vars
  BY <1>1 DEF WritePacket, WritesDone, WriteFails, ReadFails, vars, Copying, AnswerWhole
<1>2. CASE SkipReport
  <2>1. CASE waits > 0
    BY <1>2, <2>1, <1>t DEF SkipReport, Copying, AnswerWhole
  <2>2. CASE waits = 0
    <3>1. Report(retLen, next).mark = 187 /\ pc = "read" /\ Arrived
      BY <1>2, <2>2, <1>t DEF SkipReport, Waiting, FIDO2_WAIT_FLAG
    <3>2. next > 0 /\ (next - 1) % 256 = 187
      BY <3>1, <1>t DEF Report, MSG
    <3>3. next - 1 >= 187
      BY <3>2, <1>t
    <3>4. ReportFrom(next) >= 57 + 59 * 187
      BY <3>2, <3>3, <1>t DEF ReportFrom, FirstPackMaxLen, NextPackMaxLen
    <3>5. ReportFrom(next) < retLen /\ offset > 0 /\ retLen <= Capacity
      BY <3>1, <3>2, <1>t DEF Arrived, Copying
    <3> QED
      BY <3>4, <3>5, <1>t DEF ReportFrom, FirstPackMaxLen, NextPackMaxLen
  <2> QED
    BY <2>1, <2>2, <1>t
<1>3. CASE ReadFirst
  <2>1. next = 0 /\ matched /\ pc = "read" /\ offset = 0 /\ ReportFrom(next) = 0
    BY <1>3 DEF ReadFirst, Copying, ReportFrom
  <2> DEFINE r == Report(retLen, next)
             piece == Chunk(57, retLen)
  <2>2. r.announced = retLen /\ r.from = 0 /\ r.size = piece
    BY <2>1, <1>t, ReportType
  <2>3. /\ piece \in 0 .. retLen /\ (piece < retLen => piece = 57)
        /\ (retLen > 0 => piece > 0)
    BY <1>t, ChunkBounds
  <2>4. payload' = retLen /\ next' = 1 /\ retLen' = retLen
    BY <1>3, <2>1, <2>2 DEF ReadFirst
  <2>5. CASE Capacity < retLen
    <3>1. pc' = "small"
      BY <1>3, <2>2, <2>5 DEF ReadFirst
    <3> QED BY <3>1 DEF Copying, AnswerWhole
  <2>6. CASE ~(Capacity < retLen)
    <3>1. CopyReport(r, retLen, 57)
      BY <1>3, <2>2, <2>6 DEF ReadFirst, FirstPackMaxLen
    <3>2. /\ offset' = piece /\ matched'
          /\ pc' = IF piece >= retLen THEN "ok" ELSE "read"
      <4> HIDE DEF r
      <4> QED BY <3>1, <2>1, <2>2, <2>3, <1>t, CopyRight
    <3>3. ReportFrom(next') = 57
      BY <2>4 DEF ReportFrom, FirstPackMaxLen, NextPackMaxLen
    <3> HIDE DEF piece
    <3>4. CASE piece >= retLen
      BY <3>2, <3>4, <2>3, <2>4, <2>6, <1>t DEF Copying, AnswerWhole
    <3>5. CASE piece < retLen
      BY <3>2, <3>3, <3>5, <2>3, <2>4, <2>6, <1>t DEF Copying, AnswerWhole
    <3> QED BY <3>4, <3>5, <2>3, <1>t
  <2> QED BY <2>5, <2>6
<1>4. CASE ReadNext
  <2>1. /\ payload = retLen /\ retLen <= Capacity /\ matched /\ next > 0 /\ pc = "read"
        /\ offset > 0 /\ offset < retLen /\ offset = ReportFrom(next)
    BY <1>4, <1>t DEF ReadNext, Copying
  <2> DEFINE r == Report(retLen, next)
             piece == Chunk(59, retLen - offset)
  <2>2. r.from = offset /\ r.size = piece
    BY <2>1, <1>t, ReportType
  <2>3. piece \in 1 .. (retLen - offset) /\ (piece < retLen - offset => piece = 59)
    <3>1. retLen - offset \in Nat /\ retLen - offset > 0
      BY <2>1, <1>t
    <3> QED BY <3>1 DEF Chunk
  <2>4. payload' = retLen /\ next' = next + 1 /\ retLen' = retLen
    BY <1>4, <2>1 DEF ReadNext
  <2>5. CopyReport(r, retLen - offset, 59)
    BY <1>4, <2>1 DEF ReadNext, NextPackMaxLen
  <2>6. /\ offset' = offset + piece /\ matched'
        /\ pc' = IF piece >= retLen - offset THEN "ok" ELSE "read"
    <3> HIDE DEF r
    <3> QED BY <2>5, <2>1, <2>2, <2>3, <1>t, CopyRight
  <2>7. ReportFrom(next') = ReportFrom(next) + 59
    BY <2>1, <2>4, <1>t DEF ReportFrom, FirstPackMaxLen, NextPackMaxLen
  <2> HIDE DEF piece
  <2>8. CASE piece >= retLen - offset
    BY <2>8, <2>1, <2>3, <2>4, <2>6, <1>t DEF Copying, AnswerWhole
  <2>9. CASE piece < retLen - offset
    BY <2>9, <2>1, <2>3, <2>4, <2>6, <2>7, <1>t DEF Copying, AnswerWhole
  <2> QED BY <2>8, <2>9, <2>3, <1>t
<1> QED
  BY <1>1, <1>2, <1>3, <1>4 DEF Next, Finished

(* An answer that SendData reports as received is the device's: complete,  *)
(* every byte in its place, and within the buffer.  A buffer of up to      *)
(* 11090 bytes keeps the index of a report away from the byte that means   *)
(* "keep waiting"; that of _SendApdu has 4102.                             *)
THEOREM AnswerIsWhole == ASSUME Capacity <= 57 + 59 * 187 PROVE Spec => []AnswerWhole
<1>1. Copying => AnswerWhole
  BY DEF Copying
<1>2. Init => TypeInv /\ Copying
  BY TypeInit, CopyingInit
<1>3. (TypeInv /\ Copying) /\ [Next]_vars => (TypeInv /\ Copying)'
  BY TypeStep, CopyingStep
<1> QED
  BY <1>1, <1>2, <1>3, PTL DEF Spec

-----------------------------------------------------------------------------
(* BLE.  Bytes of a frame, and what is put together of them.               *)
FidoByte == {"header", "index", "data"} \X Nat

LEMMA ByteType ==
  ASSUME NEW n \in Nat, NEW i \in Nat
  PROVE  Fido!FrameByte(n, i) \in FidoByte
<1>1. i \div 20 \in Nat /\ i % 20 \in 0 .. 19 /\ i = 20 * (i \div 20) + (i % 20)
  OBVIOUS
<1>2. CASE i \div 20 = 0 /\ i % 20 < 3
  <2>1. Fido!Header(n)[(i % 20) + 1] = <<"header", n>>
    BY <1>1, <1>2 DEF Fido!Header, Fido!FIDO_HEADER_LEN
  <2> QED BY <1>2, <2>1 DEF Fido!FrameByte, FidoByte
<1>3. CASE i \div 20 = 0 /\ ~(i % 20 < 3)
  BY <1>1, <1>3 DEF Fido!FrameByte, FidoByte
<1>4. CASE i \div 20 # 0 /\ i % 20 = 0
  <2>1. (i \div 20 - 1) % 256 \in Nat
    BY <1>1, <1>4
  <2> QED BY <2>1, <1>4 DEF Fido!FrameByte, FidoByte, Fido!Index
<1>5. CASE i \div 20 # 0 /\ i % 20 # 0
  BY <1>1, <1>5 DEF Fido!FrameByte, FidoByte
<1> QED
  BY <1>2, <1>3, <1>4, <1>5

LEMMA BytesAre ==
  ASSUME NEW n \in Nat, NEW a \in Nat, NEW m \in Nat
  PROVE  /\ Fido!Bytes(n, a, a + m) \in Seq(FidoByte) /\ Len(Fido!Bytes(n, a, a + m)) = m
         /\ \A j \in 1 .. m : Fido!Bytes(n, a, a + m)[j] = Fido!FrameByte(n, a + j - 1)
<1>1. \A j \in 1 .. m : a + j - 1 \in Nat
  OBVIOUS
<1>2. \A j \in 1 .. m : Fido!FrameByte(n, a + j - 1) \in FidoByte
  BY <1>1, ByteType
<1>3. Fido!Bytes(n, a, a + m) = [j \in 1 .. m |-> Fido!FrameByte(n, a + j - 1)]
  <2>1. (a + m) - a = m
    OBVIOUS
  <2> QED BY <2>1 DEF Fido!Bytes
<1>4. Fido!Bytes(n, a, a + m) \in [1 .. m -> FidoByte]
  BY <1>2, <1>3
<1> QED
  BY <1>3, <1>4

LEMMA DataAre ==
  ASSUME NEW a \in Nat, NEW m \in Nat
  PROVE  /\ Fido!Data(a, a + m) \in Seq(FidoByte) /\ Len(Fido!Data(a, a + m)) = m
         /\ \A j \in 1 .. m : Fido!Data(a, a + m)[j] = <<"data", a + j - 1>>
<1>1. Fido!Data(a, a + m) = [j \in 1 .. m |-> <<"data", a + j - 1>>]
  <2>1. (a + m) - a = m
    OBVIOUS
  <2> QED BY <2>1 DEF Fido!Data
<1>2. Fido!Data(a, a + m) \in [1 .. m -> FidoByte]
  BY <1>1 DEF FidoByte
<1> QED
  BY <1>1, <1>2

LEMMA HeaderIs ==
  ASSUME NEW n \in Nat
  PROVE  /\ Fido!Header(n) \in Seq(FidoByte) /\ Len(Fido!Header(n)) = 3
         /\ \A j \in 1 .. 3 : Fido!Header(n)[j] = <<"header", n>>
<1>1. Fido!Header(n) \in [1 .. 3 -> FidoByte]
  BY DEF Fido!Header, FidoByte, Fido!FIDO_HEADER_LEN
<1> QED
  BY <1>1 DEF Fido!Header, Fido!FIDO_HEADER_LEN

(* A sequence is the concatenation of two others if it begins with one and *)
(* goes on with the other.                                                 *)
LEMMA ConcatIs ==
  ASSUME NEW S, NEW s \in Seq(S), NEW t \in Seq(S), NEW u \in Seq(S), Len(u) = Len(s) + Len(t),
         \A j \in 1 .. Len(s) : u[j] = s[j], \A j \in 1 .. Len(t) : u[Len(s) + j] = t[j]
  PROVE  s \o t = u
<1>1. /\ s \o t \in Seq(S) /\ Len(s \o t) = Len(s) + Len(t) /\ Len(s) \in Nat /\ Len(t) \in Nat
      /\ \A i \in 1 .. Len(s) + Len(t) :
            (s \o t)[i] = IF i <= Len(s) THEN s[i] ELSE t[i - Len(s)]
  BY ConcatProperties, LenProperties
<1>2. ASSUME NEW i \in 1 .. Len(s) + Len(t) PROVE (s \o t)[i] = u[i]
  <2>1. CASE i <= Len(s)
    BY <1>1, <2>1
  <2>2. CASE i > Len(s)
    <3>1. i - Len(s) \in 1 .. Len(t) /\ Len(s) + (i - Len(s)) = i
      BY <1>1, <2>2
    <3>2. u[i] = t[i - Len(s)]
      BY <3>1
    <3> QED BY <1>1, <2>2, <3>2
  <2> QED BY <1>1, <2>1, <2>2
<1> QED
  BY <1>1, <1>2, SeqEqual

(* Lengths, and bytes put behind the bytes before them.                    *)
LEMMA BytesFrom ==
  ASSUME NEW n \in Nat, NEW a \in Nat, NEW b \in Nat, a <= b
  PROVE  Fido!Bytes(n, a, b) \in Seq(FidoByte) /\ Len(Fido!Bytes(n, a, b)) = b - a
<1>1. PICK m \in Nat : b = a + m
  OBVIOUS
<1>2. Fido!Bytes(n, a, a + m) \in Seq(FidoByte) /\ Len(Fido!Bytes(n, a, a + m)) = m
  BY <1>1, BytesAre
<1>3. b - a = m
  BY <1>1
<1> QED
  BY <1>1, <1>2, <1>3

LEMMA DataFrom ==
  ASSUME NEW a \in Nat, NEW b \in Nat, a <= b
  PROVE  Fido!Data(a, b) \in Seq(FidoByte) /\ Len(Fido!Data(a, b)) = b - a
<1>1. PICK m \in Nat : b = a + m
  OBVIOUS
<1>2. Fido!Data(a, a + m) \in Seq(FidoByte) /\ Len(Fido!Data(a, a + m)) = m
  BY <1>1, DataAre
<1>3. b - a = m
  BY <1>1
<1> QED
  BY <1>1, <1>2, <1>3

LEMMA BytesJoin ==
  ASSUME NEW n \in Nat, NEW a \in Nat, NEW b \in Nat, NEW c \in Nat, a <= b, b <= c
  PROVE  Fido!Bytes(n, a, b) \o Fido!Bytes(n, b, c) = Fido!Bytes(n, a, c)
<1>1. PICK i \in Nat : b = a + i
  OBVIOUS
<1>2. PICK m \in Nat : c = b + m
  OBVIOUS
<1> DEFINE s == Fido!Bytes(n, a, a + i)
           t == Fido!Bytes(n, b, b + m)
           u == Fido!Bytes(n, a, a + (i + m))
<1>3. i \in Nat /\ m \in Nat /\ i + m \in Nat
  BY <1>1, <1>2
<1>4. /\ s \in Seq(FidoByte) /\ Len(s) = i
      /\ \A j \in 1 .. i : s[j] = Fido!FrameByte(n, a + j - 1)
  BY <1>3, BytesAre, ZenonT(60)
<1>5. /\ t \in Seq(FidoByte) /\ Len(t) = m
      /\ \A j \in 1 .. m : t[j] = Fido!FrameByte(n, b + j - 1)
  BY <1>3, BytesAre, ZenonT(60)
<1>6. /\ u \in Seq(FidoByte) /\ Len(u) = i + m
      /\ \A j \in 1 .. i + m : u[j] = Fido!FrameByte(n, a + j - 1)
  BY <1>3, BytesAre, ZenonT(60)
<1>7. s = Fido!Bytes(n, a, b) /\ t = Fido!Bytes(n, b, c) /\ u = Fido!Bytes(n, a, c)
  <2>1. a + i = b /\ b + m = c /\ a + (i + m) = c
    BY <1>1, <1>2
  <2> QED BY <2>1
<1> HIDE DEF s, t, u
<1>8. ASSUME NEW j \in 1 .. Len(s) PROVE u[j] = s[j]
  <2>1. j \in 1 .. i /\ j \in 1 .. i + m
    BY <1>3, <1>4
  <2> QED BY <2>1, <1>4, <1>6
<1>9. ASSUME NEW j \in 1 .. Len(t) PROVE u[Len(s) + j] = t[j]
  <2>1. j \in 1 .. m /\ i + j \in 1 .. i + m /\ a + (i + j) - 1 = b + j - 1
    BY <1>1, <1>3, <1>5
  <2> QED BY <2>1, <1>4, <1>5, <1>6
<1>10. s \o t = u
  BY <1>4, <1>5, <1>6, <1>8, <1>9, ConcatIs
<1> QED
  BY <1>7, <1>10

LEMMA DataJoin ==
  ASSUME NEW a \in Nat, NEW b \in Nat, NEW c \in Nat, a <= b, b <= c
  PROVE  Fido!Data(a, b) \o Fido!Data(b, c) = Fido!Data(a, c)
<1>1. PICK i \in Nat : b = a + i
  OBVIOUS
<1>2. PICK m \in Nat : c = b + m
  OBVIOUS
<1> DEFINE s == Fido!Data(a, a + i)
           t == Fido!Data(b, b + m)
           u == Fido!Data(a, a + (i + m))
<1>3. i \in Nat /\ m \in Nat /\ i + m \in Nat
  BY <1>1, <1>2
<1>4. /\ s \in Seq(FidoByte) /\ Len(s) = i
      /\ \A j \in 1 .. i : s[j] = <<"data", a + j - 1>>
  BY <1>3, DataAre
<1>5. /\ t \in Seq(FidoByte) /\ Len(t) = m
      /\ \A j \in 1 .. m : t[j] = <<"data", b + j - 1>>
  BY <1>3, DataAre
<1>6. /\ u \in Seq(FidoByte) /\ Len(u) = i + m
      /\ \A j \in 1 .. i + m : u[j] = <<"data", a + j - 1>>
  BY <1>3, DataAre
<1>7. s = Fido!Data(a, b) /\ t = Fido!Data(b, c) /\ u = Fido!Data(a, c)
  <2>1. a + i = b /\ b + m = c /\ a + (i + m) = c
    BY <1>1, <1>2
  <2> QED BY <2>1
<1> HIDE DEF s, t, u
<1>8. ASSUME NEW j \in 1 .. Len(s) PROVE u[j] = s[j]
  <2>1. j \in 1 .. i /\ j \in 1 .. i + m
    BY <1>3, <1>4
  <2> QED BY <2>1, <1>4, <1>6
<1>9. ASSUME NEW j \in 1 .. Len(t) PROVE u[Len(s) + j] = t[j]
  <2>1. j \in 1 .. m /\ i + j \in 1 .. i + m /\ a + (i + j) - 1 = b + j - 1
    BY <1>1, <1>3, <1>5
  <2> QED BY <2>1, <1>4, <1>5, <1>6
<1>10. s \o t = u
  BY <1>4, <1>5, <1>6, <1>8, <1>9, ConcatIs
<1> QED
  BY <1>7, <1>10

(* The bytes of a frame by packet: the first, and packet p + 1.            *)
LEMMA FirstBytes ==
  ASSUME NEW n \in Nat, NEW m \in 0 .. 17
  PROVE  Fido!Header(n) \o Fido!Data(0, m) = Fido!Bytes(n, 0, 3 + m)
<1> DEFINE s == Fido!Header(n)
           t == Fido!Data(0, 0 + m)
           u == Fido!Bytes(n, 0, 0 + (3 + m))
<1>0. m \in Nat /\ 0 \in Nat /\ 3 + m \in Nat
  OBVIOUS
<1>1. /\ s \in Seq(FidoByte) /\ Len(s) = 3
      /\ \A j \in 1 .. 3 : s[j] = <<"header", n>>
  BY HeaderIs
<1>2. /\ t \in Seq(FidoByte) /\ Len(t) = m
      /\ \A j \in 1 .. m : t[j] = <<"data", 0 + j - 1>>
  BY <1>0, DataAre
<1>3. /\ u \in Seq(FidoByte) /\ Len(u) = 3 + m
      /\ \A j \in 1 .. 3 + m : u[j] = Fido!FrameByte(n, 0 + j - 1)
  BY <1>0, BytesAre
<1>4. ASSUME NEW j \in 1 .. 3
      PROVE  Fido!FrameByte(n, 0 + j - 1) = <<"header", n>>
  <2> DEFINE i == 0 + j - 1
  <2>1. i \div 20 = 0 /\ i % 20 = i /\ i < 3 /\ i + 1 = j
    OBVIOUS
  <2> HIDE DEF i
  <2>2. Fido!FrameByte(n, i) = Fido!Header(n)[i + 1]
    BY <2>1 DEF Fido!FrameByte
  <2>3. Fido!FrameByte(n, i) = <<"header", n>>
    BY <2>1, <2>2, HeaderIs
  <2> QED BY <2>3 DEF i
<1>5. ASSUME NEW j \in 1 .. m
      PROVE  Fido!FrameByte(n, 0 + (3 + j) - 1) = <<"data", 0 + j - 1>>
  <2> DEFINE i == 0 + (3 + j) - 1
  <2>1. i \div 20 = 0 /\ i % 20 = i /\ ~(i < 3) /\ i - 3 = 0 + j - 1
    OBVIOUS
  <2> HIDE DEF i
  <2>2. Fido!FrameByte(n, i) = <<"data", i - 3>>
    BY <2>1 DEF Fido!FrameByte
  <2> QED BY <2>1, <2>2 DEF i
<1> HIDE DEF s, t, u
<1>6. ASSUME NEW j \in 1 .. Len(s) PROVE u[j] = s[j]
  <2>1. j \in 1 .. 3 /\ j \in 1 .. 3 + m
    BY <1>0, <1>1
  <2>2. u[j] = Fido!FrameByte(n, 0 + j - 1)
    BY <2>1, <1>3
  <2>3. Fido!FrameByte(n, 0 + j - 1) = <<"header", n>>
    BY <2>1, <1>4
  <2>4. s[j] = <<"header", n>>
    BY <2>1, <1>1
  <2> QED BY <2>2, <2>3, <2>4
<1>7. ASSUME NEW j \in 1 .. Len(t) PROVE u[Len(s) + j] = t[j]
  <2>1. j \in 1 .. m /\ 3 + j \in 1 .. 3 + m
    BY <1>2
  <2> QED BY <2>1, <1>1, <1>2, <1>3, <1>5
<1>8. s \o t = u
  <2>1. Len(u) = Len(s) + Len(t)
    BY <1>1, <1>2, <1>3
  <2> QED BY <2>1, <1>1, <1>2, <1>3, <1>6, <1>7, ConcatIs
<1>9. 0 + m = m /\ 0 + (3 + m) = 3 + m
  BY <1>0
<1> QED
  BY <1>8, <1>9 DEF s, t, u

LEMMA IndexByte ==
  ASSUME NEW n \in Nat, NEW p \in Nat
  PROVE  <<Fido!Index(p)>> = Fido!Bytes(n, 20 * p + 20, 20 * p + 20 + 1)
<1> DEFINE a == 20 * p + 20
<1>1. a \div 20 = p + 1 /\ a % 20 = 0 /\ a \in Nat /\ 1 \in Nat
  OBVIOUS
<1>2. Fido!FrameByte(n, a) = Fido!Index(p)
  BY <1>1 DEF Fido!FrameByte
<1> HIDE DEF a
<1>3. /\ Fido!Bytes(n, a, a + 1) \in Seq(FidoByte) /\ Len(Fido!Bytes(n, a, a + 1)) = 1
      /\ \A j \in 1 .. 1 : Fido!Bytes(n, a, a + 1)[j] = Fido!FrameByte(n, a + j - 1)
  BY <1>1, BytesAre
<1>4. Fido!Bytes(n, a, a + 1)[1] = Fido!Index(p)
  BY <1>1, <1>2, <1>3
<1> QED
  BY <1>3, <1>4 DEF a

LEMMA DataBytes ==
  ASSUME NEW n \in Nat, NEW p \in Nat, NEW m \in 0 .. 19
  PROVE  Fido!Data(17 + 19 * p, 17 + 19 * p + m) = Fido!Bytes(n, 20 * p + 21, 20 * p + 21 + m)
<1> DEFINE a == 17 + 19 * p
           b == 20 * p + 21
           t == Fido!Data(a, a + m)
           u == Fido!Bytes(n, b, b + m)
<1>0. a \in Nat /\ b \in Nat /\ m \in Nat
  OBVIOUS
<1>1. ASSUME NEW j \in 1 .. m
      PROVE  Fido!FrameByte(n, b + j - 1) = <<"data", a + j - 1>>
  <2>1. (b + j - 1) \div 20 = p + 1 /\ (b + j - 1) % 20 = j /\ j # 0
    OBVIOUS
  <2>2. 19 * (p + 1) + j - 3 = a + j - 1
    OBVIOUS
  <2> QED BY <2>1, <2>2 DEF Fido!FrameByte
<1> HIDE DEF a, b
<1>3. /\ t \in Seq(FidoByte) /\ Len(t) = m
      /\ \A j \in 1 .. m : t[j] = <<"data", a + j - 1>>
  BY <1>0, DataAre
<1>4. /\ u \in Seq(FidoByte) /\ Len(u) = m
      /\ \A j \in 1 .. m : u[j] = Fido!FrameByte(n, b + j - 1)
  BY <1>0, BytesAre
<1> HIDE DEF t, u
<1>5. t = u
  BY <1>1, <1>3, <1>4, SeqEqual
<1> QED
  BY <1>5 DEF t, u, a, b

(* Where a frame ends: in packet p + 1 of a message that reaches into it.  *)
LEMMA FrameEnds ==
  ASSUME NEW n \in Nat
  PROVE  /\ Fido!FrameLen(n) \in Nat /\ Fido!FrameSize(n) \in Nat
         /\ n <= 17 => Fido!FrameLen(n) = 3 + n /\ Fido!FrameSize(n) = 1
         /\ \A p \in Nat : 17 + 19 * p < n /\ n <= 36 + 19 * p =>
              Fido!FrameLen(n) = 4 + n + p /\ Fido!FrameSize(n) = p + 2
         /\ \A p \in Nat : 17 + 19 * p < n <=> 20 * p + 20 < Fido!FrameLen(n)
         /\ \A p \in Nat : p < Fido!FrameSize(n) <=> 20 * p < Fido!FrameLen(n)
         /\ Fido!IndexBytes(n) = (n + 1) \div 19
BY DEF Fido!FrameLen, Fido!FrameSize, Fido!IndexBytes

LEMMA ConcatBegin ==
  ASSUME NEW S, NEW s \in Seq(S), NEW t \in Seq(S), Len(s) > 0
  PROVE  SubSeq(s \o t, 1, Len(s)) = s
<1>1. Len(s) \in Nat
  OBVIOUS
<1>2. 1 \in 1 .. Len(s) /\ Len(s) \in 1 .. Len(s)
  BY <1>1
<1> QED
  BY <1>2, SubSeqOfConcat1, SubSeqFull

LEMMA ConcatEnd ==
  ASSUME NEW S, NEW s \in Seq(S), NEW t \in Seq(S)
  PROVE  SubSeq(s \o t, Len(s) + 1, Len(s \o t)) = t
<1>1. Len(s) \in Nat /\ Len(t) \in Nat /\ Len(s \o t) = Len(s) + Len(t)
  OBVIOUS
<1>2. CASE t = <<>>
  <2>1. Len(t) = 0 /\ Len(s) + 1 \in Int /\ Len(s) + 0 \in Int /\ Len(s) + 0 < Len(s) + 1
    BY <1>1, <1>2
  <2>2. SubSeq(s \o t, Len(s) + 1, Len(s) + 0) = <<>>
    BY <2>1, SubSeqEmpty
  <2> QED BY <1>1, <1>2, <2>1, <2>2
<1>3. CASE t # <<>>
  <2>1. Len(t) > 0
    BY <1>1, <1>3
  <2>2. Len(s) + 1 \in Len(s) + 1 .. Len(s) + Len(t) /\ Len(s) + Len(t) \in Len(s) + 1 .. Len(s) + Len(t)
        /\ (Len(s) + 1) - Len(s) = 1 /\ (Len(s) + Len(t)) - Len(s) = Len(t)
    BY <1>1, <2>1
  <2>3. SubSeq(s \o t, Len(s) + 1, Len(s) + Len(t)) = SubSeq(t, 1, Len(t))
    BY <2>2, SubSeqOfConcat2
  <2> QED BY <1>1, <2>3, SubSeqFull
<1> QED BY <1>2, <1>3

(* What is cut out of the bytes of a frame.                                *)
LEMMA BytesSub ==
  ASSUME NEW n \in Nat, NEW a \in Nat, NEW b \in Nat, NEW c \in Nat, a <= b, b <= c
  PROVE  SubSeq(Fido!Bytes(n, 0, c), a + 1, b) = Fido!Bytes(n, a, b)
<1>9. PICK m \in Nat : b = a + m
  OBVIOUS
<1> DEFINE s == Fido!Bytes(n, 0, 0 + c)
           t == SubSeq(s, a + 1, a + m)
           u == Fido!Bytes(n, a, a + m)
<1>0. 0 \in Nat /\ 0 + c = c /\ a + m <= c /\ a + 1 \in Int /\ a + m \in Int
  BY <1>9
<1>1. /\ s \in Seq(FidoByte) /\ Len(s) = c
      /\ \A j \in 1 .. c : s[j] = Fido!FrameByte(n, 0 + j - 1)
  BY <1>0, BytesAre
<1>2. /\ u \in Seq(FidoByte) /\ Len(u) = m
      /\ \A j \in 1 .. m : u[j] = Fido!FrameByte(n, a + j - 1)
  BY BytesAre, ZenonT(60)
<1> HIDE DEF s, u
<1>3. \A i \in a + 1 .. a + m : s[i] \in FidoByte
  <2>1. \A i \in a + 1 .. a + m : i \in 1 .. Len(s)
    BY <1>0, <1>1
  <2> QED BY <1>1, <2>1, ElementOfSeq
<1>4. /\ t \in Seq(FidoByte)
      /\ Len(t) = IF a + 1 <= a + m THEN (a + m) - (a + 1) + 1 ELSE 0
      /\ \A i \in 1 .. (a + m) - (a + 1) + 1 : t[i] = s[(a + 1) + i - 1]
  BY <1>0, <1>3, SubSeqProperties
<1>5. (a + m) - (a + 1) + 1 = m
  OBVIOUS
<1> HIDE DEF t
<1>6. ASSUME NEW j \in 1 .. m PROVE t[j] = u[j]
  <2>1. (a + 1) + j - 1 \in 1 .. c /\ 0 + ((a + 1) + j - 1) - 1 = a + j - 1
    BY <1>0
  <2>2. t[j] = s[(a + 1) + j - 1]
    BY <1>4, <1>5
  <2>3. s[(a + 1) + j - 1] = Fido!FrameByte(n, a + j - 1)
    BY <1>1, <2>1
  <2>4. u[j] = Fido!FrameByte(n, a + j - 1)
    BY <1>2
  <2> QED BY <2>2, <2>3, <2>4
<1>7. Len(t) = m
  BY <1>4, <1>5
<1>8. t = u
  BY <1>2, <1>4, <1>6, <1>7, SeqEqual
<1> QED
  BY <1>0, <1>8, <1>9 DEF t, u, s

-----------------------------------------------------------------------------
(* What a message without indices begins with.                             *)
Headed(n, m) == Fido!Header(n) \o Fido!Data(0, m)

LEMMA HeadedIs ==
  ASSUME NEW n \in Nat, NEW m \in Nat
  PROVE  /\ Headed(n, m) \in Seq(FidoByte) /\ Len(Headed(n, m)) = 3 + m
         /\ SubSeq(Headed(n, m), 4, Len(Headed(n, m))) = Fido!Data(0, m)
<1> DEFINE s == Fido!Header(n)
           t == Fido!Data(0, m)
<1>1. s \in Seq(FidoByte) /\ Len(s) = 3
  BY HeaderIs
<1>2. t \in Seq(FidoByte) /\ Len(t) = m
  <2>1. 0 \in Nat /\ 0 <= m /\ m - 0 = m
    OBVIOUS
  <2> QED BY <2>1, DataFrom
<1> HIDE DEF s, t
<1>3. s \o t \in Seq(FidoByte) /\ Len(s \o t) = 3 + m
  BY <1>1, <1>2, ConcatProperties, SMTT(60)
<1>4. SubSeq(s \o t, 3 + 1, Len(s \o t)) = t
  BY <1>1, <1>2, ConcatEnd
<1>5. 3 + 1 = 4
  OBVIOUS
<1> QED
  BY <1>3, <1>4, <1>5 DEF Headed, s, t

LEMMA HeadedMore ==
  ASSUME NEW n \in Nat, NEW b \in Nat, NEW m \in Nat, b <= m
  PROVE  Headed(n, b) \o Fido!Data(b, m) = Headed(n, m)
<1>0. 0 \in Nat /\ 0 <= b
  OBVIOUS
<1>1. Fido!Header(n) \in Seq(FidoByte)
  BY HeaderIs
<1>2. Fido!Data(0, b) \in Seq(FidoByte) /\ Fido!Data(b, m) \in Seq(FidoByte)
  BY <1>0, DataFrom
<1>3. Fido!Data(0, b) \o Fido!Data(b, m) = Fido!Data(0, m)
  BY <1>0, DataJoin
<1> DEFINE s == Fido!Header(n)
           t == Fido!Data(0, b)
           u == Fido!Data(b, m)
<1>4. s \in Seq(FidoByte) /\ t \in Seq(FidoByte) /\ u \in Seq(FidoByte)
  BY <1>1, <1>2
<1> HIDE DEF s, t, u
<1>5. (s \o t) \o u = s \o (t \o u)
  BY <1>4, ConcatAssociative
<1> QED
  BY <1>3, <1>5 DEF Headed, s, t, u

(* The first packet of a message that needs more than one.                 *)
LEMMA HeadedBegin ==
  ASSUME NEW n \in Nat, NEW m \in Nat, m >= 17
  PROVE  SubSeq(Headed(n, m), 1, 20) = Fido!Bytes(n, 0, 20)
<1> DEFINE s == Headed(n, 17)
           t == Fido!Data(17, m)
<1>1. s \o t = Headed(n, m)
  <2>1. 17 \in Nat /\ 17 <= m
    OBVIOUS
  <2> QED BY <2>1, HeadedMore
<1>2. s \in Seq(FidoByte) /\ Len(s) = 20
  <2>1. 17 \in Nat /\ 3 + 17 = 20
    OBVIOUS
  <2> QED BY <2>1, HeadedIs
<1>3. t \in Seq(FidoByte)
  BY DataFrom
<1>4. s = Fido!Bytes(n, 0, 20)
  <2>1. 17 \in 0 .. 17 /\ 3 + 17 = 20
    OBVIOUS
  <2> QED BY <2>1, FirstBytes DEF Headed
<1> HIDE DEF s, t
<1>5. Len(s) > 0
  BY <1>2
<1>6. SubSeq(s \o t, 1, 20) = s
  BY <1>2, <1>3, <1>5, ConcatBegin
<1> QED
  BY <1>1, <1>4, <1>6

LEMMA HeadedShort ==
  ASSUME NEW n \in Nat, NEW m \in 0 .. 17
  PROVE  Headed(n, m) = Fido!Bytes(n, 0, 3 + m)
BY FirstBytes DEF Headed

(* A packet of the link behind the packets before it, and one made by      *)
(* wrapFidoApdu behind what it has made.                                   *)
LEMMA PacketMore ==
  ASSUME NEW n \in Nat, NEW p \in Nat, p < Fido!FrameSize(n)
  PROVE  /\ Fido!Bytes(n, 0, 20 * p) \o Fido!FramePacket(n, p)
              = Fido!Bytes(n, 0, Fido!Least(20 * p + 20, Fido!FrameLen(n)))
         /\ Fido!Least(20 * p + 20, Fido!FrameLen(n)) \in Nat
         /\ Fido!Least(20 * p + 20, Fido!FrameLen(n)) > 20 * p
<1>1. 20 * p < Fido!FrameLen(n) /\ Fido!FrameLen(n) \in Nat
  BY FrameEnds
<1> DEFINE e == Fido!Least(20 * p + 20, Fido!FrameLen(n))
<1>2. e \in Nat /\ 20 * p < e
  BY <1>1 DEF Fido!Least
<1>3. Fido!FramePacket(n, p) = Fido!Bytes(n, 20 * p, e)
  BY DEF Fido!FramePacket
<1> HIDE DEF e
<1>4. PICK a \in Nat : a = 20 * p
  OBVIOUS
<1>5. 0 <= a /\ a <= e /\ a \in Nat /\ e \in Nat /\ 0 \in Nat
  BY <1>2, <1>4
<1>6. Fido!Bytes(n, 0, a) \o Fido!Bytes(n, a, e) = Fido!Bytes(n, 0, e)
  BY <1>5, BytesJoin, ZenonT(60)
<1> QED
  BY <1>2, <1>3, <1>4, <1>6 DEF e

LEMMA WrapMore ==
  ASSUME NEW n \in Nat, NEW p \in Nat, NEW m \in 0 .. 19
  PROVE  Fido!Bytes(n, 0, 20 * p + 20) \o <<Fido!Index(p)>> \o Fido!Data(17 + 19 * p, 17 + 19 * p + m)
           = Fido!Bytes(n, 0, 20 * p + 21 + m)
<1>1. PICK a \in Nat : a = 20 * p + 20
  OBVIOUS
<1>2. PICK b \in Nat : b = a + 1
  OBVIOUS
<1>3. PICK c \in Nat : c = b + m
  OBVIOUS
<1>4. 20 * p + 20 = a /\ 20 * p + 20 + 1 = b /\ 20 * p + 21 = b /\ 20 * p + 21 + m = c
  BY <1>1, <1>2, <1>3
<1>9. a \in Nat /\ b \in Nat /\ c \in Nat /\ 0 <= a /\ a <= b /\ b <= c /\ 0 <= b
  BY <1>1, <1>2, <1>3
<1>5. <<Fido!Index(p)>> = Fido!Bytes(n, a, b)
  <2>1. <<Fido!Index(p)>> = Fido!Bytes(n, 20 * p + 20, 20 * p + 20 + 1)
    BY IndexByte
  <2> QED BY <1>4, <2>1
<1>6. Fido!Data(17 + 19 * p, 17 + 19 * p + m) = Fido!Bytes(n, b, c)
  BY <1>4, DataBytes
<1>7. Fido!Bytes(n, 0, a) \o Fido!Bytes(n, a, b) = Fido!Bytes(n, 0, b)
  BY <1>9, BytesJoin, ZenonT(60)
<1>8. Fido!Bytes(n, 0, b) \o Fido!Bytes(n, b, c) = Fido!Bytes(n, 0, c)
  BY <1>9, BytesJoin, ZenonT(60)
<1> QED
  BY <1>4, <1>5, <1>6, <1>7, <1>8

(* What removePkgIndex takes of packet p + 1.                              *)
LEMMA DataTaken ==
  ASSUME NEW n \in Nat, NEW p \in Nat, NEW m \in 0 .. 19, NEW e \in Nat, 20 * p + 21 + m <= e
  PROVE  SubSeq(Fido!Bytes(n, 0, e), 20 * p + 20 + 2, 20 * p + 21 + m)
           = Fido!Data(17 + 19 * p, 17 + 19 * p + m)
<1>1. PICK a \in Nat : a = 20 * p + 21
  OBVIOUS
<1>2. PICK b \in Nat : b = a + m
  OBVIOUS
<1>3. a <= b /\ b <= e /\ a + 1 = 20 * p + 20 + 2 /\ b = 20 * p + 21 + m /\ a = 20 * p + 21
  BY <1>1, <1>2
<1>4. SubSeq(Fido!Bytes(n, 0, e), a + 1, b) = Fido!Bytes(n, a, b)
  BY <1>1, <1>2, <1>3, BytesSub
<1>5. Fido!Data(17 + 19 * p, 17 + 19 * p + m) = Fido!Bytes(n, a, b)
  BY <1>1, <1>2, DataBytes
<1> QED
  BY <1>3, <1>4, <1>5

-----------------------------------------------------------------------------
(* How far wrapFidoApdu has got: whole packets of the frame, with the      *)
(* index of the next.                                                      *)
WrapInv ==
  /\ at = "wrap" => sendMsgIndex = 17 /\ fIndex = 0
  /\ at = "index" => /\ fIndex \in Nat /\ sendMsgIndex = 17 + 19 * fIndex /\ sendMsgIndex < size
                     /\ out = Fido!Bytes(size, 0, 20 * fIndex + 20)

(* How much of an answer has come, and how much of it is without indices.  *)
ReceiveInv ==
  /\ at \in {"receiving", "done"} => removeIndex = 20
  /\ at = "receiving" => /\ packets \in Nat /\ packets < Fido!FrameSize(size)
                         /\ recv = Fido!Bytes(size, 0, 20 * packets)
  /\ at \in {"done", "remove", "strip", "parsed"} => recv = Fido!Frame(size)
  /\ at = "remove" => \E p \in Nat : /\ removeIndex = 20 * p + 20 /\ 17 + 19 * p < size
                                     /\ temp = Headed(size, 17 + 19 * p)
  /\ at = "strip" => temp = Headed(size, size)

FidoInv ==
  /\ size \in Nat
  /\ at \in {"wrap", "index", "wrapped", "receiving", "done", "remove", "strip", "parsed", "invalid"}
  /\ WrapInv /\ ReceiveInv
  /\ Fido!WrapsToFrame /\ Fido!ParsesToPayload

LEMMA FidoInit == Fido!Init => FidoInv
<1> SUFFICES ASSUME Fido!Init PROVE FidoInv
  OBVIOUS
<1>s. size \in Nat
  <2>1. FidoCmdLen \subseteq Nat /\ FidoRetLen \subseteq Nat
    <3>1. 0 .. 1943 \subseteq Nat /\ 0 .. 509 \subseteq Nat
      OBVIOUS
    <3> QED BY <3>1, FormatAssumption
  <2> QED BY <2>1 DEF Fido!Init
<1>1. /\ at \in {"wrap", "receiving"} /\ size \in Nat /\ sendMsgIndex = 17 /\ fIndex = 0
      /\ recv = <<>> /\ packets = 0 /\ removeIndex = 20
  BY <1>s DEF Fido!Init, Fido!FIDO_BLOCK_SIZE
<1>2. Fido!FrameSize(size) > 0
  BY <1>1 DEF Fido!FrameSize
<1>3. Fido!Bytes(size, 0, 20 * 0) = <<>>
  <2>1. 20 * 0 = 0 /\ 0 \in Nat /\ 0 <= 0 /\ 0 - 0 = 0
    OBVIOUS
  <2>2. Fido!Bytes(size, 0, 0) \in Seq(FidoByte) /\ Len(Fido!Bytes(size, 0, 0)) = 0
    BY <1>1, <2>1, BytesFrom
  <2> QED BY <2>1, <2>2
<1> QED
  BY <1>1, <1>2, <1>3 DEF FidoInv, WrapInv, ReceiveInv, Fido!WrapsToFrame, Fido!ParsesToPayload

LEMMA WrapHeadStep == FidoInv /\ Fido!WrapHead => FidoInv'
<1> SUFFICES ASSUME FidoInv, Fido!WrapHead PROVE FidoInv'
  OBVIOUS
<1>1. /\ size \in Nat /\ size' = size /\ sendMsgIndex' = 17 /\ fIndex' = 0
  BY DEF FidoInv, WrapInv, Fido!WrapHead
<1> DEFINE whole == Headed(size, size)
<1>2. whole \in Seq(FidoByte) /\ Len(whole) = 3 + size
  BY <1>1, HeadedIs
<1>3. IF 20 >= Len(whole) THEN out' = whole /\ at' = "wrapped"
                          ELSE out' = SubSeq(whole, 1, 20) /\ at' = "index"
  BY DEF Fido!WrapHead, Headed, Fido!FIDO_BLOCK_SIZE
<1> HIDE DEF whole
<1>4. CASE size <= 17
  <2>1. size \in 0 .. 17
    BY <1>1, <1>4
  <2>2. whole = Fido!Bytes(size, 0, 3 + size)
    BY <1>1, <2>1, HeadedShort DEF whole
  <2>3. Fido!Frame(size) = Fido!Bytes(size, 0, 3 + size)
    BY <1>1, <1>4, FrameEnds DEF Fido!Frame
  <2>4. out' = Fido!Frame(size) /\ at' = "wrapped"
    BY <1>1, <1>2, <1>3, <1>4, <2>2, <2>3
  <2> QED BY <1>1, <2>4 DEF FidoInv, WrapInv, ReceiveInv, Fido!WrapsToFrame, Fido!ParsesToPayload
<1>5. CASE size > 17
  <2>1. out' = SubSeq(whole, 1, 20) /\ at' = "index"
    BY <1>1, <1>2, <1>3, <1>5
  <2>2. SubSeq(whole, 1, 20) = Fido!Bytes(size, 0, 20)
    BY <1>1, <1>5, HeadedBegin DEF whole
  <2>3. 20 * 0 + 20 = 20 /\ 17 + 19 * 0 = 17 /\ 0 \in Nat
    OBVIOUS
  <2> QED BY <1>1, <1>5, <2>1, <2>2, <2>3
          DEF FidoInv, WrapInv, ReceiveInv, Fido!WrapsToFrame, Fido!ParsesToPayload
<1> QED BY <1>1, <1>4, <1>5

LEMMA WrapNextStep == FidoInv /\ Fido!WrapNext => FidoInv'
<1> SUFFICES ASSUME FidoInv, Fido!WrapNext PROVE FidoInv'
  OBVIOUS
<1> DEFINE p == fIndex
           e == Fido!Least(sendMsgIndex + 19, size)
<1>1. /\ at = "index" /\ size \in Nat /\ size' = size
      /\ p \in Nat /\ sendMsgIndex = 17 + 19 * p /\ sendMsgIndex < size
      /\ out = Fido!Bytes(size, 0, 20 * p + 20)
  BY DEF FidoInv, WrapInv, Fido!WrapNext
<1>2. /\ out' = out \o <<Fido!Index(p)>> \o Fido!Data(sendMsgIndex, e)
      /\ sendMsgIndex' = sendMsgIndex + 19
      /\ IF sendMsgIndex' >= size THEN at' = "wrapped" /\ fIndex' = p
                                  ELSE fIndex' = p + 1 /\ at' = "index"
  BY <1>1 DEF Fido!WrapNext, Fido!FIDO_DATA_BLOCK_SIZE
<1>3. PICK m \in 1 .. 19 : /\ e = 17 + 19 * p + m
                           /\ m = 19 \/ (m = size - (17 + 19 * p))
                           /\ 17 + 19 * p + m <= size
  <2>1. e - (17 + 19 * p) \in 1 .. 19 /\ e <= size /\ (e = 36 + 19 * p \/ e = size)
    BY <1>1, SMTT(60) DEF Fido!Least
  <2> QED BY <1>1, <2>1
<1> HIDE DEF p, e
<1>4. out' = Fido!Bytes(size, 0, 20 * p + 21 + m)
  <2>1. m \in 0 .. 19
    BY <1>3
  <2> QED BY <1>1, <1>2, <1>3, <2>1, WrapMore, ZenonT(60)
<1>5. CASE sendMsgIndex + 19 >= size
  <2>1. at' = "wrapped" /\ m = size - (17 + 19 * p) /\ 17 + 19 * p < size /\ size <= 36 + 19 * p
    BY <1>1, <1>2, <1>3, <1>5
  <2>2. Fido!FrameLen(size) = 4 + size + p
    BY <1>1, <2>1, FrameEnds
  <2>3. 20 * p + 21 + m = Fido!FrameLen(size)
    BY <1>1, <1>3, <2>1, <2>2
  <2> QED BY <1>1, <1>4, <2>1, <2>3
          DEF FidoInv, WrapInv, ReceiveInv, Fido!WrapsToFrame, Fido!ParsesToPayload, Fido!Frame
<1>6. CASE sendMsgIndex + 19 < size
  <2>1. at' = "index" /\ fIndex' = p + 1 /\ m = 19
    BY <1>1, <1>2, <1>3, <1>6
  <2>2. p + 1 \in Nat /\ 17 + 19 * (p + 1) = sendMsgIndex + 19 /\ 20 * (p + 1) + 20 = 20 * p + 21 + m
    BY <1>1, <2>1
  <2> QED BY <1>1, <1>2, <1>4, <1>6, <2>1, <2>2
          DEF FidoInv, WrapInv, ReceiveInv, Fido!WrapsToFrame, Fido!ParsesToPayload
<1> QED BY <1>1, <1>5, <1>6

LEMMA MergeStep == FidoInv /\ Fido!MergePacket => FidoInv'
<1> SUFFICES ASSUME FidoInv, Fido!MergePacket PROVE FidoInv'
  OBVIOUS
<1> DEFINE e == Fido!Least(20 * packets + 20, Fido!FrameLen(size))
<1>1. /\ at = "receiving" /\ size \in Nat /\ size' = size /\ removeIndex' = 20
      /\ packets \in Nat /\ packets < Fido!FrameSize(size) /\ packets' = packets + 1
      /\ recv = Fido!Bytes(size, 0, 20 * packets)
      /\ recv' = recv \o Fido!FramePacket(size, packets)
      /\ at' = Fido!CheckResponse(recv')
  BY DEF FidoInv, ReceiveInv, Fido!MergePacket, Fido!parsing
<1>2. recv' = Fido!Bytes(size, 0, e) /\ e \in Nat /\ e > 20 * packets
  BY <1>1, PacketMore
<1>3. Fido!FrameLen(size) \in Nat /\ Fido!FrameLen(size) = size + 3 + Fido!IndexBytes(size)
  BY <1>1, FrameEnds DEF Fido!FrameLen
<1>4. /\ e <= Fido!FrameLen(size) /\ e <= 20 * packets + 20
      /\ e = 20 * packets + 20 \/ e = Fido!FrameLen(size)
  BY <1>1, <1>3 DEF Fido!Least
<1> HIDE DEF e
<1>5. recv' \in Seq(FidoByte) /\ Len(recv') = e /\ e > 0
  <2>1. 0 \in Nat /\ 0 <= e /\ e - 0 = e
    BY <1>2
  <2>2. Fido!Bytes(size, 0, e) \in Seq(FidoByte) /\ Len(Fido!Bytes(size, 0, e)) = e
    BY <1>1, <1>2, <2>1, BytesFrom
  <2>3. e > 0
    <3>1. packets \in Nat /\ e \in Nat /\ e > 20 * packets
      BY <1>1, <1>2
    <3> QED BY <3>1
  <2>4. recv' = Fido!Bytes(size, 0, e)
    BY <1>2
  <2> QED BY <2>2, <2>3, <2>4
<1>6. recv' # <<>>
  BY <1>5
<1>7. at' = IF e <= 3 THEN "invalid"
            ELSE IF Fido!FrameLen(size) <= e THEN "done" ELSE "receiving"
  <2>1. CASE e <= 3
    BY <1>1, <1>5, <1>6, <2>1 DEF Fido!CheckResponse, Fido!FIDO_HEADER_LEN
  <2>2. CASE e > 3
    <3>1. at' = IF size + 3 + Fido!IndexBytes(size) <= Len(recv') THEN "done" ELSE "receiving"
      BY <1>1, <1>5, <1>6, <2>2 DEF Fido!CheckResponse, Fido!FIDO_HEADER_LEN
    <3> QED BY <1>3, <1>5, <2>2, <3>1
  <2> QED BY <1>2, <2>1, <2>2
<1>8. CASE at' = "invalid"
  BY <1>1, <1>8 DEF FidoInv, WrapInv, ReceiveInv, Fido!WrapsToFrame, Fido!ParsesToPayload
<1>9. CASE at' = "done"
  <2>1. e = Fido!FrameLen(size)
    BY <1>2, <1>3, <1>4, <1>7, <1>9
  <2>2. recv' = Fido!Frame(size)
    BY <1>2, <2>1 DEF Fido!Frame
  <2> QED BY <1>1, <1>9, <2>2 DEF FidoInv, WrapInv, ReceiveInv, Fido!WrapsToFrame, Fido!ParsesToPayload
<1>10. CASE at' = "receiving"
  <2>1. e = 20 * (packets + 1) /\ e < Fido!FrameLen(size) /\ packets + 1 \in Nat
    BY <1>1, <1>2, <1>3, <1>4, <1>7, <1>10
  <2>2. packets + 1 < Fido!FrameSize(size)
    BY <1>1, <2>1, FrameEnds
  <2>3. recv' = Fido!Bytes(size, 0, 20 * (packets + 1))
    BY <1>2, <2>1
  <2> QED BY <1>1, <1>10, <2>1, <2>2, <2>3
          DEF FidoInv, WrapInv, ReceiveInv, Fido!WrapsToFrame, Fido!ParsesToPayload
<1> QED BY <1>7, <1>8, <1>9, <1>10

LEMMA RemoveStep == FidoInv /\ Fido!RemovePkgIndex => FidoInv'
<1> SUFFICES ASSUME FidoInv, Fido!RemovePkgIndex PROVE FidoInv'
  OBVIOUS
<1>1. /\ at = "done" /\ size \in Nat /\ size' = size /\ recv = Fido!Frame(size) /\ recv' = recv
      /\ removeIndex = 20 /\ removeIndex' = 20
  BY DEF FidoInv, ReceiveInv, Fido!RemovePkgIndex, Fido!receiving
<1>2. IF 20 >= size + 3 THEN temp' = recv /\ at' = "strip"
                        ELSE temp' = SubSeq(recv, 1, 20) /\ at' = "remove"
  BY DEF Fido!RemovePkgIndex, Fido!FIDO_BLOCK_SIZE, Fido!FIDO_HEADER_LEN
<1>3. CASE size <= 17
  <2>1. size \in 0 .. 17
    BY <1>1, <1>3
  <2>2. Headed(size, size) = Fido!Bytes(size, 0, 3 + size)
    BY <1>1, <2>1, HeadedShort
  <2>3. recv = Headed(size, size)
    BY <1>1, <1>3, <2>2, FrameEnds DEF Fido!Frame
  <2>4. temp' = Headed(size, size) /\ at' = "strip"
    BY <1>1, <1>2, <1>3, <2>3
  <2> QED BY <1>1, <2>4 DEF FidoInv, WrapInv, ReceiveInv, Fido!WrapsToFrame, Fido!ParsesToPayload
<1>4. CASE size > 17
  <2>1. temp' = SubSeq(recv, 1, 20) /\ at' = "remove"
    BY <1>1, <1>2, <1>4
  <2>2. 20 < Fido!FrameLen(size) /\ Fido!FrameLen(size) \in Nat
    BY <1>1, <1>4, FrameEnds DEF Fido!FrameLen
  <2>3. SubSeq(recv, 0 + 1, 20) = Fido!Bytes(size, 0, 20)
    <3>1. 0 \in Nat /\ 20 \in Nat /\ 0 <= 20 /\ 20 <= Fido!FrameLen(size)
      BY <2>2
    <3>2. SubSeq(Fido!Bytes(size, 0, Fido!FrameLen(size)), 0 + 1, 20) = Fido!Bytes(size, 0, 20)
      BY <1>1, <2>2, <3>1, BytesSub
    <3> QED BY <1>1, <3>2 DEF Fido!Frame
  <2>4. Headed(size, 17) = Fido!Bytes(size, 0, 20)
    <3>1. 17 \in 0 .. 17 /\ 3 + 17 = 20
      OBVIOUS
    <3> QED BY <1>1, <3>1, HeadedShort
  <2>5. temp' = Headed(size, 17)
    <3>1. 0 + 1 = 1
      OBVIOUS
    <3> QED BY <2>1, <2>3, <2>4, <3>1
  <2>6. \E p \in Nat : /\ removeIndex' = 20 * p + 20 /\ 17 + 19 * p < size
                       /\ temp' = Headed(size, 17 + 19 * p)
    <3>1. 0 \in Nat /\ 20 * 0 + 20 = 20 /\ 17 + 19 * 0 = 17
      OBVIOUS
    <3> QED BY <1>1, <1>4, <2>5, <3>1
  <2> QED BY <1>1, <2>1, <2>6 DEF FidoInv, WrapInv, ReceiveInv, Fido!WrapsToFrame, Fido!ParsesToPayload
<1> QED BY <1>1, <1>3, <1>4

LEMMA RemoveNextStep == FidoInv /\ Fido!RemoveNext => FidoInv'
<1> SUFFICES ASSUME FidoInv, Fido!RemoveNext PROVE FidoInv'
  OBVIOUS
<1>1. /\ at = "remove" /\ size \in Nat /\ size' = size /\ recv = Fido!Frame(size) /\ recv' = recv
      /\ \E p \in Nat : /\ removeIndex = 20 * p + 20 /\ 17 + 19 * p < size
                        /\ temp = Headed(size, 17 + 19 * p)
  BY DEF FidoInv, ReceiveInv, Fido!RemoveNext, Fido!receiving
<1>2. PICK p \in Nat : /\ removeIndex = 20 * p + 20 /\ 17 + 19 * p < size
                       /\ temp = Headed(size, 17 + 19 * p)
  BY <1>1
<1> DEFINE whole == Fido!FrameLen(size)
           e == Fido!Least(removeIndex + 20, Len(recv))
<1>3. whole \in Nat /\ Len(recv) = whole /\ recv = Fido!Bytes(size, 0, whole)
  <2>1. whole \in Nat
    BY <1>1, FrameEnds
  <2>2. 0 \in Nat /\ 0 <= whole /\ whole - 0 = whole
    BY <2>1
  <2>3. Len(Fido!Bytes(size, 0, whole)) = whole
    <3> HIDE DEF whole
    <3> QED BY <1>1, <2>1, <2>2, BytesFrom
  <2> QED BY <1>1, <2>1, <2>3 DEF Fido!Frame
<1>4. /\ temp' = temp \o SubSeq(recv, removeIndex + 2, e) /\ removeIndex' = e
      /\ at' = CASE e < Len(recv) -> "remove"
                 [] e = Len(recv) -> IF Len(temp') = size + 3 THEN "strip" ELSE "bad"
  <2>1. removeIndex + 1 + 19 = removeIndex + 20
    BY <1>2
  <2> QED BY <2>1 DEF Fido!RemoveNext, Fido!FIDO_DATA_BLOCK_SIZE, Fido!FIDO_HEADER_LEN
<1>5. 20 * p + 20 < whole
  BY <1>1, <1>2, FrameEnds
<1>6. /\ size <= 36 + 19 * p => whole = 4 + size + p
      /\ size > 36 + 19 * p => 20 * p + 40 < whole
  <2>1. size <= 36 + 19 * p => whole = 4 + size + p
    BY <1>1, <1>2, FrameEnds
  <2>2. p + 1 \in Nat /\ 17 + 19 * (p + 1) = 36 + 19 * p /\ 20 * (p + 1) + 20 = 20 * p + 40
    BY <1>2
  <2>3. 17 + 19 * (p + 1) < size <=> 20 * (p + 1) + 20 < whole
    BY <1>1, <2>2, FrameEnds
  <2> QED BY <1>1, <1>2, <2>1, <2>2, <2>3
<1> HIDE DEF whole
<1>7. PICK m \in 1 .. 19 : /\ e = 20 * p + 21 + m /\ 17 + 19 * p + m <= size /\ e <= whole
                           /\ e < whole => m = 19
                           /\ e = whole => 17 + 19 * p + m = size
  <2>1. e = Fido!Least(20 * p + 40, whole)
    BY <1>2, <1>3
  <2>2. CASE size <= 36 + 19 * p
    <3>1. whole = 4 + size + p /\ whole <= 20 * p + 40
      BY <1>1, <1>2, <1>6, <2>2
    <3>2. e = whole
      BY <1>2, <1>3, <2>1, <3>1 DEF Fido!Least
    <3>3. size - (17 + 19 * p) \in 1 .. 19
      BY <1>1, <1>2, <2>2
    <3> HIDE DEF e
    <3> QED BY <1>1, <1>2, <3>1, <3>2, <3>3
  <2>3. CASE size > 36 + 19 * p
    <3>1. e = 20 * p + 40 /\ e < whole
      BY <1>1, <1>2, <1>3, <1>6, <2>1, <2>3 DEF Fido!Least
    <3> HIDE DEF e
    <3>2. 19 \in 1 .. 19 /\ e = 20 * p + 21 + 19 /\ 17 + 19 * p + 19 <= size /\ e <= whole /\ e # whole
      BY <1>1, <1>2, <1>3, <2>3, <3>1
    <3> QED BY <3>2
  <2> QED BY <1>1, <1>2, <2>2, <2>3
<1> HIDE DEF e
<1>8. SubSeq(recv, removeIndex + 2, e) = Fido!Data(17 + 19 * p, 17 + 19 * p + m)
  <2>1. m \in 0 .. 19 /\ 20 * p + 21 + m <= whole /\ p \in Nat /\ size \in Nat /\ whole \in Nat
    BY <1>1, <1>2, <1>3, <1>7
  <2>2. SubSeq(Fido!Bytes(size, 0, whole), 20 * p + 20 + 2, 20 * p + 21 + m)
          = Fido!Data(17 + 19 * p, 17 + 19 * p + m)
    BY <2>1, DataTaken, ZenonT(60)
  <2>3. removeIndex = 20 * p + 20
    BY <1>2
  <2>4. e = 20 * p + 21 + m
    BY <1>7
  <2>5. recv = Fido!Bytes(size, 0, whole)
    BY <1>3
  <2> QED BY <2>2, <2>3, <2>4, <2>5
<1>9. temp' = Headed(size, 17 + 19 * p + m) /\ Len(temp') = 20 + 19 * p + m
  <2>1. PICK a \in Nat : a = 17 + 19 * p
    BY <1>2
  <2>2. a + m \in Nat /\ a <= a + m /\ 3 + (a + m) = 20 + 19 * p + m
    BY <1>7, <2>1
  <2>3. Headed(size, a) \o Fido!Data(a, a + m) = Headed(size, a + m)
    BY <1>1, <2>1, <2>2, HeadedMore, ZenonT(60)
  <2>4. Len(Headed(size, a + m)) = 3 + (a + m)
    BY <1>1, <2>2, HeadedIs
  <2> QED BY <1>2, <1>4, <1>8, <2>1, <2>2, <2>3, <2>4
<1>10. CASE e = whole
  <2>1. 17 + 19 * p + m = size /\ Len(temp') = size + 3
    BY <1>1, <1>2, <1>7, <1>9, <1>10
  <2>2. ~(e < Len(recv)) /\ e = Len(recv)
    BY <1>3, <1>10
  <2>3. at' = "strip"
    BY <1>4, <2>1, <2>2
  <2> QED BY <1>1, <1>9, <2>1, <2>3
          DEF FidoInv, WrapInv, ReceiveInv, Fido!WrapsToFrame, Fido!ParsesToPayload
<1>11. CASE e < whole
  <2>1. m = 19 /\ at' = "remove"
    BY <1>3, <1>4, <1>7, <1>11
  <2>2. /\ p + 1 \in Nat /\ e = 20 * (p + 1) + 20 /\ 17 + 19 * (p + 1) = 17 + 19 * p + m
        /\ e = 20 * p + 40
    BY <1>2, <1>7, <2>1
  <2>3. 17 + 19 * (p + 1) < size
    BY <1>1, <1>11, <2>2, FrameEnds, ZenonT(60) DEF whole
  <2>4. \E i \in Nat : /\ removeIndex' = 20 * i + 20 /\ 17 + 19 * i < size
                       /\ temp' = Headed(size, 17 + 19 * i)
    BY <1>4, <1>9, <2>2, <2>3
  <2> QED BY <1>1, <2>1, <2>4 DEF FidoInv, WrapInv, ReceiveInv, Fido!WrapsToFrame, Fido!ParsesToPayload
<1> QED BY <1>3, <1>7, <1>10, <1>11

LEMMA StripStep == FidoInv /\ Fido!RemoveCmdHead => FidoInv'
<1> SUFFICES ASSUME FidoInv, Fido!RemoveCmdHead PROVE FidoInv'
  OBVIOUS
<1>1. /\ size \in Nat /\ size' = size /\ recv = Fido!Frame(size) /\ recv' = recv
      /\ temp = Headed(size, size) /\ at' = "parsed"
      /\ parsed' = SubSeq(temp, 4, Len(temp))
  BY DEF FidoInv, ReceiveInv, Fido!RemoveCmdHead, Fido!receiving, Fido!FIDO_HEADER_LEN
<1>2. parsed' = Fido!Data(0, size)
  BY <1>1, HeadedIs
<1> QED
  BY <1>1, <1>2 DEF FidoInv, WrapInv, ReceiveInv, Fido!WrapsToFrame, Fido!ParsesToPayload

LEMMA FidoSame == FidoInv /\ UNCHANGED <<at, fidoVars>> => FidoInv'
BY DEF FidoInv, WrapInv, ReceiveInv, Fido!WrapsToFrame, Fido!ParsesToPayload, fidoVars

LEMMA FidoStep == FidoInv /\ Fido!Next => FidoInv'
<1>1. Fido!Finished => UNCHANGED <<at, fidoVars>>
  BY DEF Fido!Finished, Fido!vars, Fido!wrapping, Fido!receiving, Fido!parsing, fidoVars
<1> QED
  BY <1>1, FidoSame, WrapHeadStep, WrapNextStep, MergeStep, RemoveStep, RemoveNextStep, StripStep
  DEF Fido!Next

FidoRuns == format = "FIDO" => FidoInv

LEMMA FidoInvariant == FormatSpec => []FidoRuns
<1>1. FormatInit => FidoRuns
  BY FidoInit DEF FormatInit, FidoRuns
<1>2. FidoRuns /\ [FormatNext]_<<format, vars, at, pos, fidoVars, tlvVars, txVars, ethVars>> => FidoRuns'
  BY FidoStep, FidoSame DEF FormatNext, FidoRuns
<1> QED
  BY <1>1, <1>2, PTL DEF FormatSpec

(* A command of any length that sendMsg holds is wrapped to its frame      *)
(* (wrapFidoApdu): whole packets of 20 bytes with their indices, no packet *)
(* too many or too few.                                                    *)
THEOREM WrapsRight == FormatSpec => []WrapsToFrame
<1>1. FidoRuns => WrapsToFrame
  BY DEF FidoRuns, FidoInv, WrapsToFrame
<1> QED
  BY <1>1, FidoInvariant, PTL

(* An answer of any length that tempMsg holds counts as complete with its  *)
(* last packet (checkResponse), and parseFidoApdu takes its header and its *)
(* indices out and nothing else.                                           *)
THEOREM ParsesRight == FormatSpec => []ParsesToPayload
<1>1. FidoRuns => ParsesToPayload
  BY DEF FidoRuns, FidoInv, ParsesToPayload
<1> QED
  BY <1>1, FidoInvariant, PTL

-----------------------------------------------------------------------------
(* Fields of a transaction: every script is one of these.                  *)
TxScripts ==
  {Tx!Hash160, Tx!PayToHash} \cup {<<"return", n % 256, "data">> : n \in 0 .. 40}
    \cup {<<"return", n % 256, n \div 256, "data">> : n \in 0 .. 40}
TxField ==
  [f : {"version", "marker", "flag", "count", "preHash", "preIndex", "scriptSig", "sequence", "amount",
        "witness", "lockTime"}, v : Nat]
    \cup [f : {"script"}, v : TxScripts]

TxType ==
  /\ tx \in [inputs : Seq(Tx!Input), outputs : Seq(Tx!Output)]
  /\ coin \in {"BTC", "BCH", "other"} /\ segwit \in BOOLEAN
  /\ at \in {"changes", "version", "inputs", "outputs", "done", "error"}
  /\ k \in Nat /\ raw \in Seq(TxField) /\ changes \in Seq(Nat)

(* The outputs looked at so far, of which changes has exactly the change.  *)
Told(n) ==
  /\ \A c \in 1 .. Len(changes) : changes[c] + 1 \in 1 .. n /\ Tx!IsChange(tx.outputs[changes[c] + 1])
  /\ \A j \in 1 .. n : Tx!IsChange(tx.outputs[j]) => \E c \in 1 .. Len(changes) : changes[c] = j - 1

ChangeInv ==
  /\ at = "changes" => k <= Len(tx.outputs) /\ raw = <<>>
  /\ Len(tx.outputs) < 256 => Told(IF at = "changes" THEN k ELSE Len(tx.outputs))
  /\ at \notin {"changes", "error"} => coin # "other"

(* Where the fields of a transaction are whose inputs are all P2PKH, and   *)
(* of one that is plain: Lead fields, four for an input, a count, two for  *)
(* an output.                                                              *)
Lead == IF Tx!Marked THEN 4 ELSE 2
Middle == Lead + 4 * Len(tx.inputs) + 1
Whole(n) == \A i \in 1 .. n : tx.inputs[i].type = "P2PKH"

LeadFields ==
  /\ Len(raw) >= Lead
  /\ IF Tx!Marked THEN raw[2].f = "marker" ELSE raw[2].f = "count"
  /\ raw[Lead] = Tx!F("count", Tx!Byte(Len(tx.inputs)))

InputFieldsOf(n) ==
  \A i \in 1 .. n : /\ raw[Lead + 4 * i - 3] = Tx!F("preHash", i) /\ raw[Lead + 4 * i - 2] = Tx!F("preIndex", i)
                    /\ raw[Lead + 4 * i] = Tx!F("sequence", Tx!Sequence(i))

OutputFieldsOf(n) ==
  \A j \in 1 .. n : /\ raw[Middle + 2 * j - 1] = Tx!F("amount", j)
                    /\ raw[Middle + 2 * j] = Tx!F("script", Tx!Script(tx.outputs[j]))
                    /\ Tx!Script(tx.outputs[j]) # Tx!NoScript

InputsInv ==
  /\ at = "version" => raw = <<>> /\ k = 0
  /\ at = "inputs" => /\ k <= Len(tx.inputs) /\ LeadFields
                      /\ coin = "BCH" => Whole(k)
                      /\ Whole(Len(tx.inputs)) => Len(raw) = Lead + 4 * k /\ InputFieldsOf(k)

OutputsInv ==
  /\ at \in {"outputs", "done"} =>
       /\ coin = "BCH" => Whole(Len(tx.inputs))
       /\ LeadFields
       /\ Whole(Len(tx.inputs)) => /\ InputFieldsOf(Len(tx.inputs)) /\ Len(raw) >= Middle
                                   /\ raw[Middle] = Tx!F("count", Tx!Byte(Len(tx.outputs)))
  /\ at = "outputs" => /\ k <= Len(tx.outputs)
                       /\ Tx!Plain => Len(raw) = Middle + 2 * k /\ OutputFieldsOf(k)
  /\ at = "done" /\ Tx!Plain =>
       /\ OutputFieldsOf(Len(tx.outputs))
       /\ Len(raw) = Middle + 2 * Len(tx.outputs) + (IF Tx!Marked THEN 2 ELSE 1)
       /\ raw[Len(raw)] = Tx!F("lockTime", 0)

TxInv == TxType /\ ChangeInv /\ InputsInv /\ OutputsInv

LEMMA Extended ==
  ASSUME NEW S, NEW s \in Seq(S), NEW t \in Seq(S)
  PROVE  /\ s \o t \in Seq(S) /\ Len(s \o t) = Len(s) + Len(t)
         /\ \A i \in 1 .. Len(s) : (s \o t)[i] = s[i]
         /\ \A i \in 1 .. Len(t) : (s \o t)[Len(s) + i] = t[i]
<1>1. /\ s \o t \in Seq(S) /\ Len(s \o t) = Len(s) + Len(t) /\ Len(s) \in Nat /\ Len(t) \in Nat
      /\ \A i \in 1 .. Len(s) + Len(t) :
            (s \o t)[i] = IF i <= Len(s) THEN s[i] ELSE t[i - Len(s)]
  BY ConcatProperties
<1>2. \A i \in 1 .. Len(s) : (s \o t)[i] = s[i]
  BY <1>1
<1>3. ASSUME NEW i \in 1 .. Len(t) PROVE (s \o t)[Len(s) + i] = t[i]
  <2>1. /\ Len(s) + i \in 1 .. Len(s) + Len(t) /\ ~(Len(s) + i <= Len(s))
        /\ (Len(s) + i) - Len(s) = i
    BY <1>1
  <2> QED BY <1>1, <2>1
<1> QED BY <1>1, <1>2, <1>3

LEMMA FieldIs ==
  ASSUME NEW n \in Nat,
         NEW name \in {"version", "marker", "flag", "count", "preHash", "preIndex", "scriptSig", "sequence",
                       "amount", "witness", "lockTime"}
  PROVE  Tx!F(name, n) \in TxField
BY DEF Tx!F, TxField

LEMMA ByteIs ==
  ASSUME NEW n \in Nat
  PROVE  Tx!Byte(n) \in Nat /\ (n < 256 => Tx!Byte(n) = n)
BY DEF Tx!Byte

LEMMA ScriptIs ==
  ASSUME coin \in {"BTC", "BCH", "other"}, NEW o \in Tx!Output, Tx!Script(o) # Tx!NoScript
  PROVE  Tx!F("script", Tx!Script(o)) \in TxField
<1>1. Tx!Script(o) \in TxScripts
  <2>1. CASE o.type = "RETURN0"
    <3>1. o.dataLen \in 0 .. 40
      BY <2>1 DEF Tx!Output
    <3>2. Tx!Script(o) = Tx!ReturnScript(o.dataLen)
      BY <2>1 DEF Tx!Script
    <3> QED BY <3>1, <3>2 DEF Tx!ReturnScript, Tx!Byte, TxScripts
  <2>2. CASE o.type # "RETURN0"
    BY <2>2 DEF Tx!Script, Tx!ScriptBTC, Tx!ScriptBCH, TxScripts
  <2> QED BY <2>1, <2>2
<1> QED BY <1>1 DEF Tx!F, TxField

TxGiven == tx' = tx /\ coin' = coin /\ segwit' = segwit

LEMMA GivenStays ==
  TxGiven => /\ Lead' = Lead /\ Middle' = Middle /\ (Tx!Marked)' = Tx!Marked /\ (Tx!Plain)' = Tx!Plain
             /\ \A n : Whole(n)' = Whole(n)
             /\ \A i : Tx!Sequence(i)' = Tx!Sequence(i)
             /\ \A o : Tx!Script(o)' = Tx!Script(o) /\ Tx!IsChange(o)' = Tx!IsChange(o)
BY DEF TxGiven, Lead, Middle, Tx!Marked, Tx!Plain, Whole, Tx!Sequence, Tx!Script, Tx!ReturnScript, Tx!IsChange

LEMMA LayoutType ==
  TxType => /\ Len(tx.inputs) \in Nat /\ Len(tx.outputs) \in Nat /\ Len(raw) \in Nat
            /\ Lead \in {2, 4} /\ Lead \in Nat /\ Middle \in Nat /\ Middle = Lead + 4 * Len(tx.inputs) + 1
<1> SUFFICES ASSUME TxType
             PROVE  /\ Len(tx.inputs) \in Nat /\ Len(tx.outputs) \in Nat /\ Len(raw) \in Nat
                    /\ Lead \in {2, 4} /\ Lead \in Nat /\ Middle \in Nat /\ Middle = Lead + 4 * Len(tx.inputs) + 1
  OBVIOUS
<1>1. Len(tx.inputs) \in Nat /\ Len(tx.outputs) \in Nat /\ Len(raw) \in Nat
  BY DEF TxType
<1>2. Lead \in {2, 4}
  BY DEF Lead
<1> QED BY <1>1, <1>2 DEF Middle

(* What was written stays where it is when fields are added.               *)
RawGrows == raw' \in Seq(TxField) /\ Len(raw') >= Len(raw) /\ \A i \in 1 .. Len(raw) : raw'[i] = raw[i]

LEMMA FieldsKept ==
  TxType /\ TxGiven /\ RawGrows =>
    /\ LeadFields => LeadFields'
    /\ \A n \in Nat : Lead + 4 * n <= Len(raw) /\ InputFieldsOf(n) => InputFieldsOf(n)'
    /\ \A n \in Nat : Middle + 2 * n <= Len(raw) /\ OutputFieldsOf(n) => OutputFieldsOf(n)'
<1> SUFFICES ASSUME TxType, TxGiven, RawGrows
             PROVE  /\ LeadFields => LeadFields'
                    /\ \A n \in Nat : Lead + 4 * n <= Len(raw) /\ InputFieldsOf(n) => InputFieldsOf(n)'
                    /\ \A n \in Nat : Middle + 2 * n <= Len(raw) /\ OutputFieldsOf(n) => OutputFieldsOf(n)'
  OBVIOUS
<1>1. /\ Lead' = Lead /\ Middle' = Middle /\ (Tx!Marked)' = Tx!Marked /\ tx' = tx
      /\ \A i : Tx!Sequence(i)' = Tx!Sequence(i)
      /\ \A o : Tx!Script(o)' = Tx!Script(o)
  BY GivenStays DEF TxGiven
<1>2. /\ Lead \in {2, 4} /\ Lead \in Nat /\ Middle \in Nat
      /\ Len(raw) \in Nat /\ Len(raw') \in Nat
  BY LayoutType DEF RawGrows
<1>3. \A i \in 1 .. Len(raw) : raw'[i] = raw[i]
  BY DEF RawGrows
<1>4. ASSUME LeadFields PROVE LeadFields'
  <2>1. 2 \in 1 .. Len(raw) /\ Lead \in 1 .. Len(raw) /\ Len(raw') >= Lead
    BY <1>2, <1>4 DEF LeadFields, RawGrows
  <2>2. raw'[2] = raw[2] /\ raw'[Lead] = raw[Lead]
    BY <1>3, <2>1
  <2> QED BY <1>1, <1>4, <2>1, <2>2 DEF LeadFields, Tx!F
<1>5. ASSUME NEW n \in Nat, Lead + 4 * n <= Len(raw), InputFieldsOf(n) PROVE InputFieldsOf(n)'
  <2>1. ASSUME NEW i \in 1 .. n
        PROVE  /\ raw'[Lead + 4 * i - 3] = Tx!F("preHash", i) /\ raw'[Lead + 4 * i - 2] = Tx!F("preIndex", i)
               /\ raw'[Lead + 4 * i] = Tx!F("sequence", Tx!Sequence(i))
    <3>1. /\ Lead + 4 * i - 3 \in 1 .. Len(raw) /\ Lead + 4 * i - 2 \in 1 .. Len(raw)
          /\ Lead + 4 * i \in 1 .. Len(raw)
      BY <1>2, <1>5
    <3> QED BY <1>3, <1>5, <3>1 DEF InputFieldsOf
  <2> QED BY <1>1, <2>1 DEF InputFieldsOf, Tx!F
<1>6. ASSUME NEW n \in Nat, Middle + 2 * n <= Len(raw), OutputFieldsOf(n) PROVE OutputFieldsOf(n)'
  <2>1. ASSUME NEW j \in 1 .. n
        PROVE  /\ raw'[Middle + 2 * j - 1] = Tx!F("amount", j)
               /\ raw'[Middle + 2 * j] = Tx!F("script", Tx!Script(tx.outputs[j]))
               /\ Tx!Script(tx.outputs[j]) # Tx!NoScript
    <3>1. Middle + 2 * j - 1 \in 1 .. Len(raw) /\ Middle + 2 * j \in 1 .. Len(raw)
      BY <1>2, <1>6
    <3> QED BY <1>3, <1>6, <3>1 DEF OutputFieldsOf
  <2> QED BY <1>1, <2>1 DEF OutputFieldsOf, Tx!F, Tx!NoScript
<1> QED BY <1>4, <1>5, <1>6

LEMMA TxInit == Tx!Init => TxInv
<1> SUFFICES ASSUME Tx!Init PROVE TxInv
  OBVIOUS
<1>1. /\ tx \in [inputs : Seq(Tx!Input), outputs : Seq(Tx!Output)] /\ at = "changes" /\ k = 0
      /\ raw = <<>> /\ changes = <<>> /\ coin \in {"BTC", "BCH", "other"} /\ segwit \in BOOLEAN
  BY FormatAssumption DEF Tx!Init
<1>2. TxType
  BY <1>1 DEF TxType
<1>3. Len(tx.outputs) \in Nat
  BY <1>2, LayoutType
<1> QED BY <1>1, <1>2, <1>3 DEF TxInv, ChangeInv, Told, InputsInv, OutputsInv

LEMMA FindStep == TxInv /\ Tx!FindChange => TxInv'
<1> SUFFICES ASSUME TxInv, Tx!FindChange PROVE TxInv'
  OBVIOUS
<1>1. /\ at = "changes" /\ at' = at /\ k < Len(tx.outputs) /\ k' = k + 1 /\ raw' = raw /\ TxGiven
      /\ changes' = IF Tx!IsChange(tx.outputs[k + 1]) THEN Append(changes, Tx!Byte(k)) ELSE changes
  BY DEF Tx!FindChange, Tx!given, TxGiven
<1>2. TxType /\ k \in Nat /\ Len(tx.outputs) \in Nat /\ changes \in Seq(Nat)
  BY LayoutType DEF TxInv, TxType
<1>3. Tx!Byte(k) \in Nat /\ (Len(tx.outputs) < 256 => Tx!Byte(k) = k)
  BY <1>1, <1>2, SMTT(60) DEF Tx!Byte
<1>4. changes' \in Seq(Nat)
  BY <1>1, <1>2, <1>3
<1>5. TxType'
  BY <1>1, <1>2, <1>4 DEF TxType, TxGiven
<1>6. ASSUME Len(tx.outputs) < 256 PROVE Told(k)'
  <2>1. Told(k) /\ Tx!Byte(k) = k
    BY <1>1, <1>3, <1>6 DEF TxInv, ChangeInv
  <2>2. CASE Tx!IsChange(tx.outputs[k + 1])
    <3>1. /\ Len(changes') = Len(changes) + 1 /\ Len(changes) \in Nat
          /\ changes'[Len(changes) + 1] = k
          /\ \A c \in 1 .. Len(changes) : changes'[c] = changes[c] /\ changes[c] \in Nat
      BY <1>1, <1>2, <2>1, <2>2
    <3>2. ASSUME NEW c \in 1 .. Len(changes')
          PROVE  changes'[c] + 1 \in 1 .. k + 1 /\ Tx!IsChange(tx.outputs[changes'[c] + 1])
      <4>1. CASE c = Len(changes) + 1
        BY <1>2, <2>2, <3>1, <4>1
      <4>2. CASE c # Len(changes) + 1
        <5>1. c \in 1 .. Len(changes)
          BY <3>1, <4>2
        <5> QED BY <1>2, <2>1, <3>1, <5>1, SMTT(60) DEF Told
      <4> QED BY <4>1, <4>2
    <3>3. ASSUME NEW j \in 1 .. k + 1, Tx!IsChange(tx.outputs[j])
          PROVE  \E c \in 1 .. Len(changes') : changes'[c] = j - 1
      <4>1. CASE j = k + 1
        <5>1. Len(changes) + 1 \in 1 .. Len(changes') /\ j - 1 = k
          BY <1>2, <3>1, <4>1
        <5> QED BY <3>1, <5>1
      <4>2. CASE j # k + 1
        <5>1. j \in 1 .. k
          BY <1>2, <4>2
        <5>2. PICK c \in 1 .. Len(changes) : changes[c] = j - 1
          BY <2>1, <3>3, <5>1 DEF Told
        <5>3. c \in 1 .. Len(changes') /\ changes'[c] = j - 1
          BY <3>1, <5>2
        <5> QED BY <5>3
      <4> QED BY <4>1, <4>2
    <3> QED BY <1>1, <3>2, <3>3 DEF Told, TxGiven, Tx!IsChange
  <2>3. CASE ~Tx!IsChange(tx.outputs[k + 1])
    <3>1. changes' = changes
      BY <1>1, <2>3
    <3>2. ASSUME NEW c \in 1 .. Len(changes)
          PROVE  changes[c] + 1 \in 1 .. k + 1 /\ Tx!IsChange(tx.outputs[changes[c] + 1])
      BY <1>2, <2>1 DEF Told
    <3>3. ASSUME NEW j \in 1 .. k + 1, Tx!IsChange(tx.outputs[j])
          PROVE  \E c \in 1 .. Len(changes) : changes[c] = j - 1
      <4>1. j \in 1 .. k
        BY <1>2, <2>3, <3>3
      <4> QED BY <2>1, <3>3, <4>1 DEF Told
    <3> QED BY <1>1, <3>1, <3>2, <3>3 DEF Told, TxGiven, Tx!IsChange
  <2> QED BY <2>2, <2>3
<1>7. ChangeInv'
  BY <1>1, <1>2, <1>6 DEF TxInv, ChangeInv, TxGiven
<1> QED
  BY <1>1, <1>5, <1>7 DEF TxInv, InputsInv, OutputsInv

LEMMA FoundStep == TxInv /\ Tx!ChangesDone => TxInv'
<1> SUFFICES ASSUME TxInv, Tx!ChangesDone PROVE TxInv'
  OBVIOUS
<1>1. /\ at = "changes" /\ at' = (IF coin = "other" THEN "error" ELSE "version")
      /\ k = Len(tx.outputs) /\ k' = 0 /\ raw' = raw /\ changes' = changes /\ TxGiven
  BY DEF Tx!ChangesDone, Tx!given, TxGiven
<1>2. TxType'
  BY <1>1 DEF TxInv, TxType, TxGiven
<1>3. ChangeInv'
  BY <1>1, GivenStays DEF TxInv, ChangeInv, Told, TxGiven
<1> QED
  BY <1>1, <1>2, <1>3 DEF TxInv, ChangeInv, InputsInv, OutputsInv

LEMMA ChangesStay ==
  TxInv /\ TxGiven /\ changes' = changes /\ at \notin {"changes", "error"} /\ at' # "changes" => ChangeInv'
BY GivenStays DEF TxInv, ChangeInv, Told, TxGiven, Tx!IsChange

LEMMA VersionStep == TxInv /\ Tx!Version => TxInv'
<1> SUFFICES ASSUME TxInv, Tx!Version PROVE TxInv'
  OBVIOUS
<1> DEFINE n == Tx!F("count", Tx!Byte(Len(tx.inputs)))
<1>1. /\ at = "version" /\ at' = "inputs" /\ k' = k /\ changes' = changes /\ TxGiven
      /\ raw' = <<Tx!F("version", 1)>>
                  \o (IF Tx!Marked THEN <<Tx!F("marker", 0), Tx!F("flag", 1)>> ELSE <<>>)
                  \o <<n>>
  BY DEF Tx!Version, Tx!given, TxGiven
<1>2. TxType /\ Len(tx.inputs) \in Nat
  BY LayoutType DEF TxInv
<1>3. /\ n \in TxField /\ n.f = "count" /\ Tx!F("version", 1) \in TxField
      /\ Tx!F("marker", 0) \in TxField /\ Tx!F("flag", 1) \in TxField /\ Tx!F("marker", 0).f = "marker"
  <2>1. Len(tx.inputs) \in Nat
    BY <1>2
  <2>2. Tx!Byte(Len(tx.inputs)) \in Nat
    BY <2>1, ByteIs
  <2> QED BY <2>2, FieldIs DEF Tx!F
<1>4. /\ raw' \in Seq(TxField) /\ Len(raw') = Lead /\ raw'[Lead] = n
      /\ IF Tx!Marked THEN raw'[2] = Tx!F("marker", 0) ELSE raw'[2] = n
  <2> HIDE DEF n
  <2>1. <<Tx!F("version", 1)>> \in Seq(TxField) /\ <<n>> \in Seq(TxField)
    BY <1>3
  <2>2. CASE Tx!Marked
    <3> DEFINE s == <<Tx!F("marker", 0), Tx!F("flag", 1)>>
               u == <<Tx!F("version", 1)>> \o s
    <3>1. s \in Seq(TxField) /\ Len(s) = 2 /\ s[1] = Tx!F("marker", 0)
      BY <1>3
    <3>2. raw' = u \o <<n>> /\ Lead = 4
      BY <1>1, <2>2 DEF Lead
    <3> HIDE DEF s
    <3>3. u \in Seq(TxField) /\ Len(u) = 3 /\ u[2] = Tx!F("marker", 0)
      <4> DEFINE a == <<Tx!F("version", 1)>>
      <4>1. a \in Seq(TxField) /\ Len(a) = 1
        BY <2>1
      <4> HIDE DEF a
      <4>2. /\ a \o s \in Seq(TxField) /\ Len(a \o s) = Len(a) + Len(s)
            /\ \A i \in 1 .. Len(s) : (a \o s)[Len(a) + i] = s[i]
        <5>1. a \in Seq(TxField) /\ s \in Seq(TxField)
          BY <3>1, <4>1
        <5> QED BY <5>1, Extended
      <4>3. /\ a \o s \in Seq(TxField) /\ Len(a \o s) = 1 + 2
            /\ \A i \in 1 .. 2 : (a \o s)[1 + i] = s[i]
        BY <3>1, <4>1, <4>2
      <4>4. a \o s \in Seq(TxField) /\ Len(a \o s) = 3 /\ (a \o s)[2] = Tx!F("marker", 0)
        BY <3>1, <4>3
      <4> QED BY <4>4 DEF a
    <3> HIDE DEF u
    <3>4. u \o <<n>> \in Seq(TxField) /\ Len(u \o <<n>>) = 4 /\ (u \o <<n>>)[4] = n
          /\ (u \o <<n>>)[2] = u[2]
      BY <2>1, <3>3, Extended, SMTT(60)
    <3> QED BY <2>2, <3>2, <3>3, <3>4
  <2>3. CASE ~Tx!Marked
    <3> DEFINE s == <<Tx!F("version", 1)>>
    <3>1. raw' = s \o <<>> \o <<n>> /\ Lead = 2
      BY <1>1, <2>3 DEF Lead
    <3>2. s \o <<>> = s /\ s \in Seq(TxField) /\ Len(s) = 1
      BY <2>1
    <3> HIDE DEF s
    <3>3. s \o <<n>> \in Seq(TxField) /\ Len(s \o <<n>>) = 2 /\ (s \o <<n>>)[2] = n
      BY <2>1, <3>2, Extended
    <3> QED BY <2>3, <3>1, <3>2, <3>3
  <2> QED BY <2>2, <2>3
<1>5. TxType'
  BY <1>1, <1>2, <1>4 DEF TxType, TxGiven
<1>6. LeadFields'
  <2>1. Lead \in Nat /\ Lead' = Lead /\ (Tx!Marked)' = Tx!Marked /\ tx' = tx
    BY <1>1, <1>2, GivenStays, LayoutType DEF TxGiven
  <2> QED BY <1>3, <1>4, <2>1 DEF LeadFields, Tx!F
<1>7. InputsInv'
  <2>1. /\ Lead' = Lead /\ Lead \in Nat /\ Lead = Lead + 4 * 0 /\ k' = 0 /\ Len(tx'.inputs) \in Nat
    <3>1. k = 0
      BY <1>1 DEF TxInv, InputsInv
    <3> QED BY <1>1, <1>2, <3>1, GivenStays, LayoutType DEF TxGiven
  <2>2. Whole(k)' /\ InputFieldsOf(k)'
    BY <2>1 DEF Whole, InputFieldsOf
  <2> HIDE DEF n
  <2> QED BY <1>1, <1>4, <1>6, <2>1, <2>2 DEF InputsInv
<1> QED
  BY <1>1, <1>5, <1>7, ChangesStay DEF TxInv, OutputsInv

LEMMA InputFieldsAre ==
  ASSUME TxType, NEW i \in Nat
  PROVE  /\ Tx!InputFields(i) \in Seq(TxField) /\ Len(Tx!InputFields(i)) = 4
         /\ Tx!InputFields(i)[1] = Tx!F("preHash", i) /\ Tx!InputFields(i)[2] = Tx!F("preIndex", i)
         /\ Tx!InputFields(i)[4] = Tx!F("sequence", Tx!Sequence(i))
<1>1. Tx!Sequence(i) \in Nat
  BY DEF Tx!Sequence
<1>2. /\ Tx!F("preHash", i) \in TxField /\ Tx!F("preIndex", i) \in TxField /\ Tx!F("scriptSig", 0) \in TxField
      /\ Tx!F("sequence", Tx!Sequence(i)) \in TxField
  BY <1>1, FieldIs
<1> QED BY <1>2 DEF Tx!InputFields

LEMMA InputStep == TxInv /\ Tx!AddInput => TxInv'
<1> SUFFICES ASSUME TxInv, Tx!AddInput PROVE TxInv'
  OBVIOUS
<1>1. /\ at = "inputs" /\ k < Len(tx.inputs) /\ changes' = changes /\ TxGiven
      /\ IF tx.inputs[k + 1].type = "P2PKH"
           THEN raw' = raw \o Tx!InputFields(k + 1) /\ k' = k + 1 /\ at' = at
           ELSE IF coin = "BCH" THEN at' = "error" /\ k' = k /\ raw' = raw
                                ELSE k' = k + 1 /\ at' = at /\ raw' = raw
  BY DEF Tx!AddInput, Tx!given, TxGiven
<1>2. /\ TxType /\ k \in Nat /\ Len(tx.inputs) \in Nat /\ Len(raw) \in Nat /\ Lead \in Nat
      /\ raw \in Seq(TxField) /\ k + 1 \in Nat
  BY LayoutType DEF TxInv, TxType
<1>3. LeadFields /\ (coin = "BCH" => Whole(k))
      /\ (Whole(Len(tx.inputs)) => Len(raw) = Lead + 4 * k /\ InputFieldsOf(k))
  BY <1>1 DEF TxInv, InputsInv
<1>g. /\ Lead' = Lead /\ tx' = tx /\ coin' = coin /\ \A n : Whole(n)' = Whole(n)
      /\ \A i : Tx!Sequence(i)' = Tx!Sequence(i)
  BY <1>1, GivenStays DEF TxGiven
<1>c. ChangeInv'
  <2>1. at' # "changes"
    BY <1>1
  <2> QED BY <1>1, <2>1, ChangesStay
<1>4. CASE tx.inputs[k + 1].type = "P2PKH"
  <2> DEFINE t == Tx!InputFields(k + 1)
  <2>1. raw' = raw \o t /\ k' = k + 1 /\ at' = at
    BY <1>1, <1>4
  <2>2. /\ t \in Seq(TxField) /\ Len(t) = 4 /\ t[1] = Tx!F("preHash", k + 1)
        /\ t[2] = Tx!F("preIndex", k + 1) /\ t[4] = Tx!F("sequence", Tx!Sequence(k + 1))
    BY <1>2, InputFieldsAre
  <2> HIDE DEF t
  <2>3. /\ raw \o t \in Seq(TxField) /\ Len(raw \o t) = Len(raw) + Len(t)
        /\ \A i \in 1 .. Len(raw) : (raw \o t)[i] = raw[i]
        /\ \A i \in 1 .. Len(t) : (raw \o t)[Len(raw) + i] = t[i]
    <3>1. raw \in Seq(TxField) /\ t \in Seq(TxField)
      BY <1>2, <2>2
    <3> QED BY <3>1, Extended
  <2>4. /\ raw' \in Seq(TxField) /\ Len(raw') = Len(raw) + 4
        /\ \A i \in 1 .. Len(raw) : raw'[i] = raw[i]
        /\ raw'[Len(raw) + 1] = Tx!F("preHash", k + 1) /\ raw'[Len(raw) + 2] = Tx!F("preIndex", k + 1)
        /\ raw'[Len(raw) + 4] = Tx!F("sequence", Tx!Sequence(k + 1))
    BY <2>1, <2>2, <2>3
  <2>5. RawGrows
    BY <1>2, <2>4 DEF RawGrows
  <2>6. TxType' /\ LeadFields'
    BY <1>1, <1>2, <1>3, <2>1, <2>4, <2>5, FieldsKept DEF TxType, TxGiven
  <2>7. coin = "BCH" => Whole(k)'
    BY <1>2, <1>3, <1>4, <1>g, <2>1, SMTT(60) DEF Whole
  <2>8. ASSUME Whole(Len(tx.inputs)) PROVE Len(raw') = Lead + 4 * (k + 1) /\ InputFieldsOf(k)'
    <3>1. Len(raw) = Lead + 4 * k /\ InputFieldsOf(k)
      BY <1>3, <2>8
    <3>2. ASSUME NEW i \in 1 .. k + 1
          PROVE  /\ raw'[Lead + 4 * i - 3] = Tx!F("preHash", i) /\ raw'[Lead + 4 * i - 2] = Tx!F("preIndex", i)
                 /\ raw'[Lead + 4 * i] = Tx!F("sequence", Tx!Sequence(i))
      <4>1. CASE i = k + 1
        <5>1. /\ Lead + 4 * i - 3 = Len(raw) + 1 /\ Lead + 4 * i - 2 = Len(raw) + 2
              /\ Lead + 4 * i = Len(raw) + 4
          BY <1>2, <3>1, <4>1
        <5> QED BY <2>4, <4>1, <5>1
      <4>2. CASE i # k + 1
        <5>1. /\ i \in 1 .. k
              /\ Lead + 4 * i - 3 \in 1 .. Len(raw) /\ Lead + 4 * i - 2 \in 1 .. Len(raw)
              /\ Lead + 4 * i \in 1 .. Len(raw)
          BY <1>2, <3>1, <4>2
        <5> QED BY <2>4, <3>1, <5>1 DEF InputFieldsOf
      <4> QED BY <4>1, <4>2
    <3>3. InputFieldsOf(k)'
      BY <1>g, <2>1, <3>2 DEF InputFieldsOf, Tx!F
    <3> QED BY <1>2, <2>4, <3>1, <3>3
  <2> QED BY <1>1, <1>2, <1>c, <1>g, <2>1, <2>6, <2>7, <2>8 DEF TxInv, InputsInv, OutputsInv
<1>5. CASE tx.inputs[k + 1].type # "P2PKH" /\ coin = "BCH"
  <2>1. at' = "error" /\ k' = k /\ raw' = raw
    BY <1>1, <1>5
  <2> QED BY <1>1, <1>2, <1>c, <2>1 DEF TxInv, TxType, InputsInv, OutputsInv, TxGiven
<1>6. CASE tx.inputs[k + 1].type # "P2PKH" /\ coin # "BCH"
  <2>1. k' = k + 1 /\ at' = at /\ raw' = raw
    BY <1>1, <1>6
  <2>2. ~Whole(Len(tx.inputs))
    BY <1>1, <1>2, <1>6 DEF Whole
  <2>3. LeadFields'
    BY <1>3, <1>g, <1>1, <2>1, GivenStays DEF LeadFields, Tx!F
  <2> QED BY <1>1, <1>2, <1>6, <1>c, <1>g, <2>1, <2>2, <2>3
          DEF TxInv, TxType, InputsInv, OutputsInv, TxGiven
<1> QED BY <1>4, <1>5, <1>6

LEMMA CountStep == TxInv /\ Tx!InputsDone => TxInv'
<1> SUFFICES ASSUME TxInv, Tx!InputsDone PROVE TxInv'
  OBVIOUS
<1> DEFINE n == Tx!F("count", Tx!Byte(Len(tx.outputs)))
<1>1. /\ at = "inputs" /\ at' = "outputs" /\ k = Len(tx.inputs) /\ k' = 0 /\ changes' = changes /\ TxGiven
      /\ raw' = Append(raw, n)
  BY DEF Tx!InputsDone, Tx!given, TxGiven
<1>2. /\ TxType /\ Len(tx.inputs) \in Nat /\ Len(tx.outputs) \in Nat /\ Len(raw) \in Nat
      /\ Lead \in Nat /\ raw \in Seq(TxField) /\ Middle = Lead + 4 * Len(tx.inputs) + 1 /\ Middle \in Nat
  BY LayoutType DEF TxInv, TxType
<1>3. LeadFields /\ (coin = "BCH" => Whole(k))
      /\ (Whole(Len(tx.inputs)) => Len(raw) = Lead + 4 * k /\ InputFieldsOf(k))
  BY <1>1 DEF TxInv, InputsInv
<1>g. /\ Lead' = Lead /\ Middle' = Middle /\ tx' = tx /\ coin' = coin /\ \A i : Whole(i)' = Whole(i)
      /\ (Tx!Plain)' = Tx!Plain
  BY <1>1, GivenStays DEF TxGiven
<1>n. n \in TxField
  <2>1. Len(tx.outputs) \in Nat
    BY <1>2
  <2>2. Tx!Byte(Len(tx.outputs)) \in Nat
    BY <2>1, ByteIs
  <2> QED BY <2>2, FieldIs DEF Tx!F
<1>4. /\ raw' \in Seq(TxField) /\ Len(raw') = Len(raw) + 1 /\ raw'[Len(raw) + 1] = n
      /\ \A i \in 1 .. Len(raw) : raw'[i] = raw[i]
  <2> HIDE DEF n
  <2> QED BY <1>1, <1>2, <1>n
<1>5. RawGrows
  BY <1>2, <1>4 DEF RawGrows
<1>6. TxType' /\ LeadFields'
  BY <1>1, <1>2, <1>3, <1>4, <1>5, FieldsKept DEF TxType, TxGiven
<1>7. ASSUME Whole(Len(tx.inputs))
      PROVE  /\ InputFieldsOf(Len(tx.inputs))' /\ Len(raw') = Middle /\ raw'[Middle] = n
  <2>1. Len(raw) = Lead + 4 * Len(tx.inputs) /\ InputFieldsOf(Len(tx.inputs))
    BY <1>1, <1>3, <1>7
  <2>2. PICK i \in Nat : i = Len(tx.inputs)
    BY <1>2
  <2>3. InputFieldsOf(i)'
    <3>1. Lead + 4 * i <= Len(raw) /\ InputFieldsOf(i)
      BY <1>2, <2>1, <2>2
    <3> QED BY <1>1, <1>2, <1>5, <3>1, FieldsKept
  <2>4. InputFieldsOf(Len(tx.inputs))'
    BY <1>g, <2>2, <2>3 DEF InputFieldsOf
  <2> QED BY <1>2, <1>4, <2>1, <2>4
<1>8. OutputFieldsOf(k)'
  BY <1>1 DEF OutputFieldsOf
<1>9. (Tx!Byte(Len(tx.outputs)))' = Tx!Byte(Len(tx.outputs))
  BY <1>g DEF Tx!Byte
<1>10. OutputsInv'
  <2>1. coin' = "BCH" => Whole(Len(tx.inputs))'
    BY <1>1, <1>3, <1>g DEF Whole
  <2>2. Whole(Len(tx.inputs))' => Whole(Len(tx.inputs))
    BY <1>g DEF Whole
  <2>3. Tx!Plain => Whole(Len(tx.inputs))
    BY DEF Tx!Plain, Whole
  <2>4. n' = n
    BY <1>g DEF Tx!F, Tx!Byte
  <2>5. /\ Whole(Len(tx.inputs))' => /\ InputFieldsOf(Len(tx.inputs))' /\ Len(raw') >= Middle'
                                     /\ raw'[Middle'] = n'
    BY <1>2, <1>4, <1>7, <1>g, <2>2, <2>4
  <2>6. (Tx!Plain)' => Len(raw') = Middle' + 2 * k' /\ OutputFieldsOf(k)'
    BY <1>1, <1>2, <1>7, <1>8, <1>g, <2>3
  <2> QED BY <1>1, <1>2, <1>6, <1>g, <2>1, <2>5, <2>6 DEF OutputsInv
<1> QED
  BY <1>1, <1>6, <1>10, ChangesStay DEF TxInv, InputsInv

(* What the loop over the outputs has of a transaction whose inputs are    *)
(* all P2PKH stays when fields are added.                                  *)
LEMMA InputsKept ==
  TxType /\ TxGiven /\ RawGrows /\ at = "outputs" /\ OutputsInv =>
    /\ LeadFields' /\ (coin' = "BCH" => Whole(Len(tx.inputs))')
    /\ Whole(Len(tx.inputs))' => /\ InputFieldsOf(Len(tx.inputs))' /\ Len(raw') >= Middle'
                                 /\ raw'[Middle'] = Tx!F("count", Tx!Byte(Len(tx.outputs)))'
<1> SUFFICES ASSUME TxType, TxGiven, RawGrows, at = "outputs", OutputsInv
             PROVE  /\ LeadFields' /\ (coin' = "BCH" => Whole(Len(tx.inputs))')
                    /\ Whole(Len(tx.inputs))' =>
                         /\ InputFieldsOf(Len(tx.inputs))' /\ Len(raw') >= Middle'
                         /\ raw'[Middle'] = Tx!F("count", Tx!Byte(Len(tx.outputs)))'
  OBVIOUS
<1>1. /\ LeadFields /\ (coin = "BCH" => Whole(Len(tx.inputs)))
      /\ Whole(Len(tx.inputs)) => /\ InputFieldsOf(Len(tx.inputs)) /\ Len(raw) >= Middle
                                  /\ raw[Middle] = Tx!F("count", Tx!Byte(Len(tx.outputs)))
  BY DEF OutputsInv
<1>2. /\ Len(tx.inputs) \in Nat /\ Len(raw) \in Nat /\ Middle = Lead + 4 * Len(tx.inputs) + 1
      /\ Middle \in Nat /\ Lead \in Nat
  BY LayoutType
<1>3. /\ Middle' = Middle /\ tx' = tx /\ coin' = coin
  BY GivenStays DEF TxGiven
<1>4. LeadFields'
  BY <1>1, FieldsKept
<1>5. Whole(Len(tx.inputs))' <=> Whole(Len(tx.inputs))
  BY <1>3 DEF Whole
<1>6. ASSUME Whole(Len(tx.inputs))
      PROVE  /\ InputFieldsOf(Len(tx.inputs))' /\ Len(raw') >= Middle /\ raw'[Middle] = raw[Middle]
  <2>1. PICK i \in Nat : i = Len(tx.inputs)
    BY <1>2
  <2>2. Lead + 4 * i <= Len(raw) /\ InputFieldsOf(i)
    BY <1>1, <1>2, <1>6, <2>1
  <2>3. InputFieldsOf(i)'
    BY <2>1, <2>2, FieldsKept
  <2>4. InputFieldsOf(Len(tx.inputs))'
    BY <1>3, <2>1, <2>3 DEF InputFieldsOf
  <2>5. Middle \in 1 .. Len(raw)
    BY <1>1, <1>2, <1>6
  <2> QED BY <1>2, <2>4, <2>5 DEF RawGrows
<1>7. Tx!F("count", Tx!Byte(Len(tx.outputs)))' = Tx!F("count", Tx!Byte(Len(tx.outputs)))
  BY <1>3 DEF Tx!F, Tx!Byte
<1> QED BY <1>1, <1>3, <1>4, <1>5, <1>6, <1>7

LEMMA OutputStep == TxInv /\ Tx!AddOutput => TxInv'
<1> SUFFICES ASSUME TxInv, Tx!AddOutput PROVE TxInv'
  OBVIOUS
<1> DEFINE o == tx.outputs[k + 1]
           t == <<Tx!F("amount", k + 1), Tx!F("script", Tx!Script(o))>>
<1>1. /\ at = "outputs" /\ k < Len(tx.outputs) /\ changes' = changes /\ TxGiven
      /\ IF coin = "BCH" /\ o.type = "P2SH_MULTISIG" THEN k' = k + 1 /\ at' = at /\ raw' = raw
         ELSE IF Tx!Script(o) = Tx!NoScript THEN at' = "error" /\ k' = k /\ raw' = raw
         ELSE raw' = raw \o t /\ k' = k + 1 /\ at' = at
  BY DEF Tx!AddOutput, Tx!given, TxGiven
<1>2. /\ TxType /\ k \in Nat /\ Len(tx.outputs) \in Nat /\ Len(raw) \in Nat /\ Middle \in Nat
      /\ raw \in Seq(TxField) /\ k + 1 \in Nat /\ coin \in {"BTC", "BCH", "other"}
  BY LayoutType DEF TxInv, TxType
<1>3. OutputsInv /\ (Tx!Plain => Len(raw) = Middle + 2 * k /\ OutputFieldsOf(k))
  BY <1>1 DEF TxInv, OutputsInv
<1>g. /\ Middle' = Middle /\ tx' = tx /\ coin' = coin /\ (Tx!Plain)' = Tx!Plain
      /\ \A a : Tx!Script(a)' = Tx!Script(a)
  BY <1>1, GivenStays DEF TxGiven
<1>c. ChangeInv'
  <2>1. at' # "changes"
    BY <1>1
  <2> QED BY <1>1, <2>1, ChangesStay
<1>o. o \in Tx!Output
  BY <1>1, <1>2 DEF TxType
<1>4. CASE coin = "BCH" /\ o.type = "P2SH_MULTISIG"
  <2>1. k' = k + 1 /\ at' = at /\ raw' = raw
    BY <1>1, <1>4
  <2>2. RawGrows
    BY <1>2, <2>1 DEF RawGrows
  <2>3. TxType' /\ InputsInv'
    BY <1>1, <1>2, <2>1 DEF TxType, TxGiven, InputsInv
  <2>4. ~Tx!Plain
    BY <1>1, <1>2, <1>4 DEF Tx!Plain
  <2>5. OutputsInv'
    BY <1>1, <1>2, <1>3, <1>g, <2>1, <2>2, <2>4, InputsKept DEF OutputsInv
  <2> QED BY <1>c, <2>3, <2>5 DEF TxInv
<1>5. CASE ~(coin = "BCH" /\ o.type = "P2SH_MULTISIG") /\ Tx!Script(o) = Tx!NoScript
  <2>1. at' = "error" /\ k' = k /\ raw' = raw
    BY <1>1, <1>5
  <2> QED BY <1>1, <1>2, <1>c, <2>1 DEF TxInv, TxType, InputsInv, OutputsInv, TxGiven
<1>6. CASE ~(coin = "BCH" /\ o.type = "P2SH_MULTISIG") /\ Tx!Script(o) # Tx!NoScript
  <2>1. raw' = raw \o t /\ k' = k + 1 /\ at' = at
    BY <1>1, <1>6
  <2>2. t \in Seq(TxField) /\ Len(t) = 2 /\ t[1] = Tx!F("amount", k + 1)
        /\ t[2] = Tx!F("script", Tx!Script(o))
    <3>1. Tx!F("amount", k + 1) \in TxField
      BY <1>2, FieldIs
    <3>2. Tx!F("script", Tx!Script(o)) \in TxField
      BY <1>2, <1>6, <1>o, ScriptIs
    <3> QED BY <3>1, <3>2
  <2> HIDE DEF t
  <2>3. /\ raw \o t \in Seq(TxField) /\ Len(raw \o t) = Len(raw) + Len(t)
        /\ \A i \in 1 .. Len(raw) : (raw \o t)[i] = raw[i]
        /\ \A i \in 1 .. Len(t) : (raw \o t)[Len(raw) + i] = t[i]
    <3>1. raw \in Seq(TxField) /\ t \in Seq(TxField)
      BY <1>2, <2>2
    <3> QED BY <3>1, Extended
  <2>4. /\ raw' \in Seq(TxField) /\ Len(raw') = Len(raw) + 2
        /\ \A i \in 1 .. Len(raw) : raw'[i] = raw[i]
        /\ raw'[Len(raw) + 1] = Tx!F("amount", k + 1)
        /\ raw'[Len(raw) + 2] = Tx!F("script", Tx!Script(o))
    BY <2>1, <2>2, <2>3
  <2>5. RawGrows
    BY <1>2, <2>4 DEF RawGrows
  <2>6. TxType' /\ InputsInv'
    BY <1>1, <1>2, <2>1, <2>4 DEF TxType, TxGiven, InputsInv
  <2>7. ASSUME Tx!Plain PROVE Len(raw') = Middle + 2 * (k + 1) /\ OutputFieldsOf(k)'
    <3>1. Len(raw) = Middle + 2 * k /\ OutputFieldsOf(k)
      BY <1>3, <2>7
    <3>2. ASSUME NEW j \in 1 .. k + 1
          PROVE  /\ raw'[Middle + 2 * j - 1] = Tx!F("amount", j)
                 /\ raw'[Middle + 2 * j] = Tx!F("script", Tx!Script(tx.outputs[j]))
                 /\ Tx!Script(tx.outputs[j]) # Tx!NoScript
      <4>1. CASE j = k + 1
        <5>1. Middle + 2 * j - 1 = Len(raw) + 1 /\ Middle + 2 * j = Len(raw) + 2
          BY <1>2, <3>1, <4>1
        <5> QED BY <1>6, <2>4, <4>1, <5>1
      <4>2. CASE j # k + 1
        <5>1. /\ j \in 1 .. k
              /\ Middle + 2 * j - 1 \in 1 .. Len(raw) /\ Middle + 2 * j \in 1 .. Len(raw)
          BY <1>2, <3>1, <4>2
        <5> QED BY <2>4, <3>1, <5>1 DEF OutputFieldsOf
      <4> QED BY <4>1, <4>2
    <3>3. OutputFieldsOf(k)'
      BY <1>g, <2>1, <3>2 DEF OutputFieldsOf, Tx!F, Tx!NoScript
    <3>4. Len(raw') = Middle + 2 * (k + 1)
      BY <1>2, <2>4, <3>1
    <3> QED BY <3>3, <3>4
  <2>8. OutputsInv'
    <3>1. k' <= Len(tx'.outputs)
      BY <1>1, <1>2, <1>g, <2>1
    <3> QED BY <1>1, <1>2, <1>3, <1>g, <2>1, <2>5, <2>7, <3>1, InputsKept DEF OutputsInv
  <2> QED BY <1>c, <2>6, <2>8 DEF TxInv
<1> QED BY <1>4, <1>5, <1>6

LEMMA LockStep == TxInv /\ Tx!OutputsDone => TxInv'
<1> SUFFICES ASSUME TxInv, Tx!OutputsDone PROVE TxInv'
  OBVIOUS
<1> DEFINE t == (IF Tx!Marked THEN <<Tx!F("witness", 0)>> ELSE <<>>) \o <<Tx!F("lockTime", 0)>>
           n == IF Tx!Marked THEN 2 ELSE 1
<1>1. /\ at = "outputs" /\ at' = "done" /\ k = Len(tx.outputs) /\ k' = k /\ changes' = changes /\ TxGiven
      /\ raw' = raw \o (IF Tx!Marked THEN <<Tx!F("witness", 0)>> ELSE <<>>) \o <<Tx!F("lockTime", 0)>>
  BY DEF Tx!OutputsDone, Tx!given, TxGiven
<1>2. /\ TxType /\ k \in Nat /\ Len(tx.outputs) \in Nat /\ Len(raw) \in Nat /\ Middle \in Nat
      /\ raw \in Seq(TxField)
  BY LayoutType DEF TxInv, TxType
<1>3. OutputsInv /\ (Tx!Plain => Len(raw) = Middle + 2 * k /\ OutputFieldsOf(k))
  BY <1>1 DEF TxInv, OutputsInv
<1>g. /\ Middle' = Middle /\ tx' = tx /\ coin' = coin /\ (Tx!Plain)' = Tx!Plain
      /\ (Tx!Marked)' = Tx!Marked
  BY <1>1, GivenStays DEF TxGiven
<1>c. ChangeInv'
  BY <1>1, ChangesStay
<1>4. /\ raw' \in Seq(TxField) /\ Len(raw') = Len(raw) + n
      /\ \A i \in 1 .. Len(raw) : raw'[i] = raw[i]
      /\ raw'[Len(raw) + n] = Tx!F("lockTime", 0)
  <2> DEFINE a == IF Tx!Marked THEN <<Tx!F("witness", 0)>> ELSE <<>>
             b == <<Tx!F("lockTime", 0)>>
             c == raw \o a
             d == n - 1
  <2>1. Tx!F("witness", 0) \in TxField /\ Tx!F("lockTime", 0) \in TxField
    BY FieldIs
  <2>2. a \in Seq(TxField) /\ Len(a) = d /\ d \in Nat /\ n = d + 1
    BY <2>1
  <2>3. b \in Seq(TxField) /\ Len(b) = 1 /\ b[1] = Tx!F("lockTime", 0)
    BY <2>1
  <2>4. raw' = c \o b
    BY <1>1
  <2> HIDE DEF a, b, d, n
  <2>5. /\ c \in Seq(TxField) /\ Len(c) = Len(raw) + d
        /\ \A i \in 1 .. Len(raw) : c[i] = raw[i]
    BY <1>2, <2>2, Extended
  <2> HIDE DEF c
  <2>6. /\ c \o b \in Seq(TxField) /\ Len(c \o b) = Len(c) + 1
        /\ \A i \in 1 .. Len(c) : (c \o b)[i] = c[i]
        /\ (c \o b)[Len(c) + 1] = Tx!F("lockTime", 0)
    <3>1. /\ c \o b \in Seq(TxField) /\ Len(c \o b) = Len(c) + Len(b)
          /\ \A i \in 1 .. Len(c) : (c \o b)[i] = c[i]
          /\ \A i \in 1 .. Len(b) : (c \o b)[Len(c) + i] = b[i]
      <4>1. c \in Seq(TxField) /\ b \in Seq(TxField)
        BY <2>3, <2>5
      <4> QED BY <4>1, Extended
    <3>2. (c \o b)[Len(c) + 1] = b[1]
      BY <2>3, <3>1
    <3> QED BY <2>3, <3>1, <3>2
  <2>7. Len(c) + 1 = Len(raw) + n
    BY <1>2, <2>2, <2>5
  <2>8. \A i \in 1 .. Len(raw) : i \in 1 .. Len(c)
    BY <1>2, <2>2, <2>5
  <2> QED BY <2>4, <2>5, <2>6, <2>7, <2>8
<1>5. n \in 1 .. 2 /\ n' = n
  BY <1>g
<1> HIDE DEF n
<1>6. RawGrows
  BY <1>2, <1>4, <1>5 DEF RawGrows
<1>7. TxType' /\ InputsInv'
  BY <1>1, <1>2, <1>4 DEF TxType, TxGiven, InputsInv
<1>8. ASSUME Tx!Plain
      PROVE  /\ OutputFieldsOf(Len(tx.outputs))' /\ Len(raw') = Middle + 2 * Len(tx.outputs) + n
             /\ raw'[Len(raw')] = Tx!F("lockTime", 0)
  <2>1. Len(raw) = Middle + 2 * k /\ OutputFieldsOf(k)
    BY <1>3, <1>8
  <2>2. PICK j \in Nat : j = k
    BY <1>2
  <2>3. OutputFieldsOf(j)'
    <3>1. Middle + 2 * j <= Len(raw) /\ OutputFieldsOf(j)
      BY <1>2, <2>1, <2>2
    <3> QED BY <1>1, <1>2, <1>6, <3>1, FieldsKept
  <2>4. OutputFieldsOf(Len(tx.outputs))'
    BY <1>1, <1>g, <2>2, <2>3 DEF OutputFieldsOf
  <2> QED BY <1>1, <1>2, <1>4, <1>5, <2>1, <2>4
<1>9. OutputsInv'
  <2>1. Tx!F("lockTime", 0)' = Tx!F("lockTime", 0)
    BY DEF Tx!F
  <2>2. n = IF Tx!Marked THEN 2 ELSE 1
    BY DEF n
  <2>3. /\ LeadFields' /\ (coin' = "BCH" => Whole(Len(tx.inputs))')
        /\ Whole(Len(tx.inputs))' => /\ InputFieldsOf(Len(tx.inputs))' /\ Len(raw') >= Middle'
                                     /\ raw'[Middle'] = Tx!F("count", Tx!Byte(Len(tx.outputs)))'
    BY <1>1, <1>2, <1>3, <1>6, InputsKept
  <2>4. (Tx!Plain)' => /\ OutputFieldsOf(Len(tx.outputs))'
                       /\ Len(raw') = Middle' + 2 * Len(tx'.outputs) + (IF (Tx!Marked)' THEN 2 ELSE 1)
                       /\ raw'[Len(raw')] = Tx!F("lockTime", 0)'
    BY <1>8, <1>g, <2>1, <2>2
  <2> QED BY <1>1, <2>3, <2>4 DEF OutputsInv
<1> QED BY <1>7, <1>9, <1>c DEF TxInv

LEMMA TxSame == TxInv /\ UNCHANGED <<at, txVars>> => TxInv'
<1> SUFFICES ASSUME TxInv, UNCHANGED <<at, txVars>> PROVE TxInv'
  OBVIOUS
<1>1. at' = at /\ k' = k /\ raw' = raw /\ changes' = changes /\ tx' = tx /\ coin' = coin /\ segwit' = segwit
  BY DEF txVars
<1>2. TxType' /\ ChangeInv'
  BY <1>1 DEF TxInv, TxType, ChangeInv, Told
<1>3. Lead' = Lead /\ Middle' = Middle /\ (Tx!Marked)' = Tx!Marked /\ (Tx!Plain)' = Tx!Plain
  BY <1>1, GivenStays DEF TxGiven
<1>4. LeadFields' <=> LeadFields
  BY <1>1, <1>3 DEF LeadFields
<1>5. Whole(k)' <=> Whole(k)
  BY <1>1 DEF Whole
<1>6. /\ InputFieldsOf(k)' <=> InputFieldsOf(k)
      /\ InputFieldsOf(Len(tx.inputs))' <=> InputFieldsOf(Len(tx.inputs))
      /\ OutputFieldsOf(k)' <=> OutputFieldsOf(k)
      /\ OutputFieldsOf(Len(tx.outputs))' <=> OutputFieldsOf(Len(tx.outputs))
      /\ Whole(Len(tx.inputs))' <=> Whole(Len(tx.inputs))
  BY <1>1, <1>3 DEF InputFieldsOf, OutputFieldsOf, Whole, Tx!Sequence, Tx!Script, Tx!ReturnScript
<1>7. InputsInv'
  BY <1>1, <1>3, <1>4, <1>5, <1>6 DEF TxInv, InputsInv
<1>8. OutputsInv'
  BY <1>1, <1>3, <1>4, <1>5, <1>6 DEF TxInv, OutputsInv
<1> QED BY <1>2, <1>7, <1>8 DEF TxInv

LEMMA TxStep == TxInv /\ Tx!Next => TxInv'
<1>1. Tx!Finished => UNCHANGED <<at, txVars>>
  BY DEF Tx!Finished, Tx!vars, Tx!given, txVars
<1> QED
  BY <1>1, TxSame, FindStep, FoundStep, VersionStep, InputStep, CountStep, OutputStep, LockStep DEF Tx!Next

LEMMA FieldParts == \A name, what : Tx!F(name, what).f = name /\ Tx!F(name, what).v = what
BY DEF Tx!F

(* The reader's positions are those of the invariant.                      *)
LEMMA TxRead == TxInv => Tx!ReadsAsGiven
<1> SUFFICES ASSUME TxInv, at = "done"
             PROVE  /\ Tx!Plain =>
                         /\ Tx!WellFormed /\ (Tx!HasWitness <=> coin = "BTC" /\ segwit)
                         /\ Tx!InputsRead = Len(tx.inputs) /\ Tx!OutputsRead = Len(tx.outputs)
                         /\ \A i \in 1 .. Len(tx.inputs) :
                              /\ Tx!At(Tx!InputsAt + 4 * (i - 1)).v = i
                              /\ Tx!At(Tx!InputsAt + 4 * (i - 1) + 1).v = i
                              /\ coin = "BTC" =>
                                   (Tx!At(Tx!InputsAt + 4 * (i - 1) + 3).v = 0 <=> tx.inputs[i].final)
                         /\ \A j \in 1 .. Len(tx.outputs) :
                              /\ Tx!At(Tx!OutputsAt + 2 * (j - 1)).v = j
                              /\ Tx!At(Tx!OutputsAt + 2 * (j - 1) + 1).v = Tx!Script(tx.outputs[j])
                              /\ Tx!Script(tx.outputs[j]) # Tx!NoScript
                         /\ {Tx!At(Tx!OutputsAt + 2 * changes[c]).v : c \in 1 .. Len(changes)}
                              = {j \in 1 .. Len(tx.outputs) : Tx!IsChange(tx.outputs[j])}
                    /\ coin = "BCH" /\ Len(tx.inputs) < 256 =>
                         Tx!InputsRead = Len(tx.inputs) /\ Tx!At(Tx!OutputsAt - 1).f = "count"
  BY DEF Tx!ReadsAsGiven
<1> DEFINE ni == Len(tx.inputs)
           no == Len(tx.outputs)
<1>1. /\ TxType /\ ni \in Nat /\ no \in Nat /\ Len(raw) \in Nat /\ Lead \in {2, 4} /\ Lead \in Nat
      /\ Middle \in Nat /\ Middle = Lead + 4 * ni + 1
  BY LayoutType DEF TxInv
<1>2. /\ LeadFields /\ (coin = "BCH" => Whole(ni)) /\ coin \in {"BTC", "BCH"}
      /\ Whole(ni) => /\ InputFieldsOf(ni) /\ Len(raw) >= Middle
                      /\ raw[Middle] = Tx!F("count", Tx!Byte(no))
      /\ Tx!Plain => /\ OutputFieldsOf(no)
                     /\ Len(raw) = Middle + 2 * no + (IF Tx!Marked THEN 2 ELSE 1)
                     /\ raw[Len(raw)] = Tx!F("lockTime", 0)
      /\ no < 256 => Told(no)
  BY <1>1 DEF TxInv, TxType, ChangeInv, OutputsInv
<1>o. \A i \in 1 .. ni : tx.inputs[i] \in Tx!Input
  BY <1>1 DEF TxType
<1> HIDE DEF ni, no
<1>3. \A i \in 1 .. Len(raw) : Tx!At(i) = raw[i]
  BY DEF Tx!At
<1>4. /\ Tx!HasWitness <=> Tx!Marked
      /\ Tx!InputsAt = Lead + 1 /\ Tx!At(Tx!InputsAt - 1) = Tx!F("count", Tx!Byte(ni))
  <2>1. 2 \in 1 .. Len(raw) /\ Lead \in 1 .. Len(raw) /\ Lead + 1 - 1 = Lead
    BY <1>1, <1>2 DEF LeadFields
  <2>2. Tx!HasWitness <=> Tx!Marked
    BY <1>2, <1>3, <2>1 DEF LeadFields, Tx!HasWitness
  <2>3. Tx!InputsAt = Lead + 1
    BY <2>2 DEF Tx!InputsAt, Lead
  <2>4. raw[Lead] = Tx!F("count", Tx!Byte(ni))
    BY <1>2 DEF LeadFields, ni
  <2>5. Tx!InputsAt - 1 = Lead
    BY <2>1, <2>3
  <2> QED BY <1>3, <2>1, <2>2, <2>3, <2>4, <2>5
<1>5. ni < 256 => Tx!InputsRead = ni /\ Tx!OutputsAt = Middle + 1
  <2>1. ASSUME ni < 256 PROVE Tx!InputsRead = ni
    <3>1. Tx!Byte(ni) = ni
      BY <1>1, <2>1, ByteIs
    <3> QED BY <1>4, <3>1, FieldParts DEF Tx!InputsRead
  <2>2. ASSUME ni < 256 PROVE Tx!OutputsAt = Middle + 1
    <3>1. Tx!OutputsAt = (Lead + 1) + 4 * ni + 1
      BY <1>4, <2>1, <2>2 DEF Tx!OutputsAt
    <3>2. Lead \in Nat /\ ni \in Nat /\ Middle = Lead + 4 * ni + 1
      BY <1>1
    <3> QED BY <3>1, <3>2
  <2> QED BY <2>1, <2>2
<1>6. ASSUME Whole(ni), ni < 256
      PROVE  Tx!At(Tx!OutputsAt - 1) = Tx!F("count", Tx!Byte(no))
  <2>1. Tx!OutputsAt - 1 = Middle /\ Middle \in 1 .. Len(raw)
    BY <1>1, <1>2, <1>5, <1>6
  <2> QED BY <1>2, <1>3, <1>6, <2>1
<1>7. coin = "BCH" /\ ni < 256 => Tx!InputsRead = ni /\ Tx!At(Tx!OutputsAt - 1).f = "count"
  BY <1>2, <1>5, <1>6, FieldParts
<1>8. ASSUME Tx!Plain
      PROVE  /\ Tx!WellFormed /\ (Tx!HasWitness <=> coin = "BTC" /\ segwit)
             /\ Tx!InputsRead = Len(tx.inputs) /\ Tx!OutputsRead = Len(tx.outputs)
             /\ \A i \in 1 .. Len(tx.inputs) :
                  /\ Tx!At(Tx!InputsAt + 4 * (i - 1)).v = i
                  /\ Tx!At(Tx!InputsAt + 4 * (i - 1) + 1).v = i
                  /\ coin = "BTC" => (Tx!At(Tx!InputsAt + 4 * (i - 1) + 3).v = 0 <=> tx.inputs[i].final)
             /\ \A j \in 1 .. Len(tx.outputs) :
                  /\ Tx!At(Tx!OutputsAt + 2 * (j - 1)).v = j
                  /\ Tx!At(Tx!OutputsAt + 2 * (j - 1) + 1).v = Tx!Script(tx.outputs[j])
                  /\ Tx!Script(tx.outputs[j]) # Tx!NoScript
             /\ {Tx!At(Tx!OutputsAt + 2 * changes[c]).v : c \in 1 .. Len(changes)}
                  = {j \in 1 .. Len(tx.outputs) : Tx!IsChange(tx.outputs[j])}
  <2>1. ni < 256 /\ no < 256 /\ Whole(ni)
    BY <1>8 DEF Tx!Plain, Whole, ni, no
  <2>2. Tx!InputsRead = ni /\ Tx!OutputsAt = Middle + 1 /\ Tx!At(Tx!OutputsAt - 1) = Tx!F("count", no)
    <3>1. Tx!Byte(no) = no
      BY <1>1, <2>1, ByteIs
    <3> QED BY <1>5, <1>6, <2>1, <3>1
  <2>3. Tx!OutputsRead = no
    BY <2>2, FieldParts DEF Tx!OutputsRead
  <2>4. Tx!HasWitness <=> coin = "BTC" /\ segwit
    BY <1>2, <1>4 DEF Tx!Marked
  <2>5. ASSUME NEW i \in 1 .. ni
        PROVE  /\ Tx!At(Tx!InputsAt + 4 * (i - 1)) = Tx!F("preHash", i)
               /\ Tx!At(Tx!InputsAt + 4 * (i - 1) + 1) = Tx!F("preIndex", i)
               /\ Tx!At(Tx!InputsAt + 4 * (i - 1) + 3) = Tx!F("sequence", Tx!Sequence(i))
    <3>1. /\ Tx!InputsAt + 4 * (i - 1) = Lead + 4 * i - 3 /\ Tx!InputsAt + 4 * (i - 1) + 1 = Lead + 4 * i - 2
          /\ Tx!InputsAt + 4 * (i - 1) + 3 = Lead + 4 * i
      BY <1>1, <1>4
    <3>2. /\ Lead + 4 * i - 3 \in 1 .. Len(raw) /\ Lead + 4 * i - 2 \in 1 .. Len(raw)
          /\ Lead + 4 * i \in 1 .. Len(raw)
      BY <1>1, <1>2, <2>1
    <3>3. InputFieldsOf(ni)
      BY <1>2, <2>1
    <3> QED BY <1>3, <3>1, <3>2, <3>3 DEF InputFieldsOf
  <2>6. ASSUME NEW i \in 1 .. ni, coin = "BTC"
        PROVE  Tx!Sequence(i) = 0 <=> tx.inputs[i].final
    <3>1. tx.inputs[i].final \in BOOLEAN
      BY <1>o DEF Tx!Input
    <3>2. i # 0
      BY <1>1
    <3> QED BY <2>6, <3>1, <3>2 DEF Tx!Sequence
  <2>7. ASSUME NEW j \in 1 .. no
        PROVE  /\ Tx!At(Tx!OutputsAt + 2 * (j - 1)) = Tx!F("amount", j)
               /\ Tx!At(Tx!OutputsAt + 2 * (j - 1) + 1) = Tx!F("script", Tx!Script(tx.outputs[j]))
               /\ Tx!Script(tx.outputs[j]) # Tx!NoScript
    <3>1. /\ Tx!OutputsAt + 2 * (j - 1) = Middle + 2 * j - 1
          /\ Tx!OutputsAt + 2 * (j - 1) + 1 = Middle + 2 * j
      BY <1>1, <2>2
    <3>2. OutputFieldsOf(no) /\ Len(raw) >= Middle + 2 * no
      BY <1>1, <1>2, <1>8
    <3>3. Middle + 2 * j - 1 \in 1 .. Len(raw) /\ Middle + 2 * j \in 1 .. Len(raw)
      BY <1>1, <3>2
    <3> QED BY <1>3, <3>1, <3>2, <3>3 DEF OutputFieldsOf
  <2>8. Tx!WellFormed
    <3>1. Tx!At(Tx!InputsAt - 1).f = "count" /\ Tx!At(Tx!OutputsAt - 1).f = "count"
      BY <1>4, <2>2, FieldParts
    <3>2. \A i \in 1 .. Tx!InputsRead : Tx!At(Tx!InputsAt + 4 * (i - 1)).f = "preHash"
      BY <2>2, <2>5, FieldParts
    <3>3. \A j \in 1 .. Tx!OutputsRead : Tx!At(Tx!OutputsAt + 2 * (j - 1)).f = "amount"
      BY <2>3, <2>7, FieldParts
    <3>4. Tx!EndsAt = Len(raw)
      <4>1. Tx!EndsAt = (Middle + 1) + 2 * no + (IF Tx!Marked THEN 1 ELSE 0)
        BY <1>4, <2>2, <2>3 DEF Tx!EndsAt
      <4>2. Len(raw) = Middle + 2 * no + (IF Tx!Marked THEN 2 ELSE 1)
        BY <1>2, <1>8
      <4>3. Middle \in Nat /\ no \in Nat
        BY <1>1
      <4> QED BY <4>1, <4>2, <4>3
    <3>5. Tx!At(Len(raw)).f = "lockTime"
      <4>1. Len(raw) \in 1 .. Len(raw)
        BY <1>1, <1>2, <2>1
      <4> QED BY <1>2, <1>3, <1>8, <4>1, FieldParts
    <3> QED BY <3>1, <3>2, <3>3, <3>4, <3>5 DEF Tx!WellFormed
  <2>9. {Tx!At(Tx!OutputsAt + 2 * changes[c]).v : c \in 1 .. Len(changes)}
          = {j \in 1 .. no : Tx!IsChange(tx.outputs[j])}
    <3>1. /\ \A c \in 1 .. Len(changes) : changes[c] + 1 \in 1 .. no /\ Tx!IsChange(tx.outputs[changes[c] + 1])
          /\ \A j \in 1 .. no :
               Tx!IsChange(tx.outputs[j]) => \E c \in 1 .. Len(changes) : changes[c] = j - 1
      BY <1>2, <2>1 DEF Told
    <3>2. \A c \in 1 .. Len(changes) : changes[c] \in Nat
      BY <1>1 DEF TxType
    <3>3. ASSUME NEW c \in 1 .. Len(changes)
          PROVE  Tx!At(Tx!OutputsAt + 2 * changes[c]).v = changes[c] + 1
      <4>1. PICK j \in 1 .. no : j = changes[c] + 1
        BY <3>1
      <4>2. changes[c] = j - 1
        BY <3>2, <4>1
      <4>3. Tx!At(Tx!OutputsAt + 2 * (j - 1)).v = j
        BY <2>7, FieldParts
      <4> QED BY <4>1, <4>2, <4>3
    <3>4. ASSUME NEW j \in 1 .. no, Tx!IsChange(tx.outputs[j])
          PROVE  \E c \in 1 .. Len(changes) : Tx!At(Tx!OutputsAt + 2 * changes[c]).v = j
      <4>1. PICK c \in 1 .. Len(changes) : changes[c] = j - 1
        BY <3>1, <3>4
      <4>2. changes[c] + 1 = j
        BY <1>1, <4>1
      <4> QED BY <3>3, <4>1, <4>2
    <3> QED BY <3>1, <3>3, <3>4
  <2>10. \A i \in 1 .. ni : /\ Tx!At(Tx!InputsAt + 4 * (i - 1)).v = i
                            /\ Tx!At(Tx!InputsAt + 4 * (i - 1) + 1).v = i
                            /\ coin = "BTC" =>
                                 (Tx!At(Tx!InputsAt + 4 * (i - 1) + 3).v = 0 <=> tx.inputs[i].final)
    BY <2>5, <2>6, FieldParts
  <2>11. \A j \in 1 .. no : /\ Tx!At(Tx!OutputsAt + 2 * (j - 1)).v = j
                            /\ Tx!At(Tx!OutputsAt + 2 * (j - 1) + 1).v = Tx!Script(tx.outputs[j])
                            /\ Tx!Script(tx.outputs[j]) # Tx!NoScript
    BY <2>7, FieldParts
  <2> QED BY <2>2, <2>3, <2>4, <2>8, <2>9, <2>10, <2>11 DEF ni, no
<1> QED BY <1>7, <1>8 DEF ni, no

TxRuns == format = "TX" => TxInv

LEMMA TxInvariant == FormatSpec => []TxRuns
<1>1. FormatInit => TxRuns
  BY TxInit DEF FormatInit, TxRuns
<1>2. TxRuns /\ [FormatNext]_<<format, vars, at, pos, fidoVars, tlvVars, txVars, ethVars>> => TxRuns'
  BY TxStep, TxSame DEF FormatNext, TxRuns
<1> QED
  BY <1>1, <1>2, PTL DEF FormatSpec

(* A transaction of any number of inputs and outputs is read from its      *)
(* serialisation as it was given to ContextBTC::SignTX, under the          *)
(* conditions that ReadsAsGiven names, and the device is told the change.  *)
THEOREM TxReadsRight == FormatSpec => []ReadsAsGiven
<1>1. TxRuns => ReadsAsGiven
  BY TxRead DEF TxRuns, ReadsAsGiven
<1> QED
  BY <1>1, TxInvariant, PTL

-----------------------------------------------------------------------------
(* The bytes of a length, and of a TLV with a value of that length.        *)
LengthBytes(n) ==
  IF n >= 256 THEN <<130, n \div 256, n % 256>> ELSE IF n > 128 THEN <<129, n>> ELSE <<n>>
TlvSize(n) == 1 + Len(LengthBytes(n)) + n

(* The bytes of n are behind p, as far as the data goes.                   *)
LengthStands(data, p, n) ==
  \A q \in 1 .. Len(LengthBytes(n)) : p + q <= Len(data) => data[p + q] = LengthBytes(n)[q]

TlvType ==
  /\ list \in Seq(TwoBytes) /\ cut \in Nat
  /\ answer \in Seq(0 .. 255) /\ starts \in Seq(Nat)
  /\ at \in {"answer", "parse", "split", "done", "undefined"}
  /\ pos \in Nat

(* Every TLV begins where the one before it ends, the first at 1, and its  *)
(* length is behind its tag, as far as the answer goes.                    *)
TlvLayout ==
  /\ Len(starts) \in 1 .. Len(list) + 1 /\ starts[1] = 1
  /\ \A i \in 1 .. Len(starts) : starts[i] <= starts[Len(starts)]
  /\ \A i \in 1 .. Len(starts) - 1 :
       /\ starts[i + 1] = starts[i] + TlvSize(list[i])
       /\ LengthStands(answer, starts[i], list[i])
  /\ Len(answer) < starts[Len(starts)]
  /\ at = "answer" => Len(answer) + 1 = starts[Len(starts)] /\ pos = 1 /\ words = <<>>
  /\ at # "answer" => Len(starts) = Len(list) + 1 /\ (cut = 0 => Len(answer) + 1 = starts[Len(starts)])

(* The values found so far, and the beginning of the next TLV.             *)
Found ==
  /\ words \in Seq(TwoBytes) /\ Len(words) <= Len(list)
  /\ \A i \in 1 .. Len(words) : words[i] = list[i]

ParseInv ==
  /\ at \in {"parse", "split"} => Found
  /\ at = "parse" => pos = starts[Len(words) + 1] /\ pos <= Len(answer) + 1
  /\ cut = 0 => /\ at # "undefined"
                /\ at = "split" => Len(words) = Len(list)
                /\ at = "done" => words = SelectSeq(list, Tlv!NotEmpty)

TlvInv == TlvType /\ TlvLayout /\ ParseInv

(* The bytes of a length, and a number made of them again.                 *)
LEMMA DigitsOf ==
  ASSUME NEW n \in Nat, n \in TwoBytes
  PROVE  /\ n \div 256 \in Nat /\ n \div 256 <= 255 /\ n % 256 \in Nat /\ n % 256 <= 255
         /\ n = 256 * (n \div 256) + (n % 256)
<1>1. n % 256 \in Nat /\ n % 256 <= 255 /\ n = 256 * (n \div 256) + (n % 256)
  BY SMTT(60)
<1>2. n \div 256 \in Nat /\ n \div 256 <= 255
  BY SMTT(60) DEF TwoBytes
<1> QED BY <1>1, <1>2

LEMMA BytesOf ==
  ASSUME NEW a \in Nat, a <= 255, NEW b \in Nat, b <= 255
  PROVE  /\ <<130, a, b>> \in Seq(0 .. 255) /\ <<129, a>> \in Seq(0 .. 255) /\ <<a>> \in Seq(0 .. 255)
         /\ <<79, 130, a, b>> \in Seq(0 .. 255) /\ <<79, 129, a>> \in Seq(0 .. 255)
         /\ <<79, a>> \in Seq(0 .. 255)
OBVIOUS

LEMMA LengthFacts ==
  ASSUME NEW n \in Nat, n \in TwoBytes
  PROVE  /\ LengthBytes(n) \in Seq(0 .. 255) /\ Len(LengthBytes(n)) \in 1 .. 3
         /\ TlvSize(n) \in Nat /\ TlvSize(n) = 1 + Len(LengthBytes(n)) + n
<1>1. LengthBytes(n) \in Seq(0 .. 255) /\ Len(LengthBytes(n)) \in 1 .. 3
  <2>1. CASE n >= 256
    <3>1. LengthBytes(n) = <<130, n \div 256, n % 256>>
      BY <2>1 DEF LengthBytes
    <3> QED BY <3>1, DigitsOf, BytesOf
  <2>2. CASE n < 256 /\ n > 128
    <3>1. LengthBytes(n) = <<129, n>> /\ n <= 255 /\ ~(n >= 256)
      BY <2>2 DEF LengthBytes
    <3>2. <<129, n>> \in Seq(0 .. 255)
      BY <3>1, BytesOf
    <3> QED BY <3>1, <3>2
  <2>3. CASE n <= 128
    <3>1. LengthBytes(n) = <<n>> /\ n <= 255
      BY <2>3 DEF LengthBytes
    <3>2. <<n>> \in Seq(0 .. 255)
      BY <3>1, BytesOf
    <3> QED BY <3>1, <3>2
  <2> QED BY <2>1, <2>2, <2>3
<1> QED BY <1>1 DEF TlvSize

(* What ToTlv writes: a tag, the bytes of the length, the value.           *)
TlvOf(n) == Tlv!ToTlv(79, Tlv!Value(n))
TlvHeader(n) ==
  IF n >= 256 THEN <<79, 130, (n \div 256) % 256, n % 256>> ELSE IF n > 128 THEN <<79, 129, n>> ELSE <<79, n>>

LEMMA ValueType == ASSUME NEW n \in Nat PROVE Tlv!Value(n) \in Seq(0 .. 255) /\ Len(Tlv!Value(n)) = n
<1>1. Tlv!Value(n) = [i \in 1 .. n |-> 130]
  BY DEF Tlv!Value
<1>2. Tlv!Value(n) \in [1 .. n -> 0 .. 255]
  BY <1>1
<1> QED BY <1>1, <1>2

LEMMA HeaderThenValue == ASSUME NEW v PROVE Tlv!ToTlv(79, v) = TlvHeader(Len(v)) \o v
BY Zenon DEF Tlv!ToTlv, TlvHeader

LEMMA TlvIs == ASSUME NEW n \in Nat PROVE TlvOf(n) = TlvHeader(n) \o Tlv!Value(n)
<1>1. Len(Tlv!Value(n)) = n
  BY ValueType
<1>2. TlvOf(n) = Tlv!ToTlv(79, Tlv!Value(n))
  BY Zenon DEF TlvOf
<1>3. Tlv!ToTlv(79, Tlv!Value(n)) = TlvHeader(Len(Tlv!Value(n))) \o Tlv!Value(n)
  BY HeaderThenValue, Zenon
<1> QED BY <1>1, <1>2, <1>3, Zenon

LEMMA TlvHeaderIs ==
  ASSUME NEW n \in Nat, n \in TwoBytes
  PROVE  /\ TlvHeader(n) \in Seq(0 .. 255) /\ Len(TlvHeader(n)) = 1 + Len(LengthBytes(n))
         /\ \A q \in 1 .. Len(LengthBytes(n)) : TlvHeader(n)[1 + q] = LengthBytes(n)[q]
<1>1. CASE n >= 256
  <2> DEFINE a == n \div 256
             b == n % 256
  <2>1. a \in Nat /\ a <= 255 /\ b \in Nat /\ b <= 255
    BY DigitsOf
  <2>2. (n \div 256) % 256 = a
    <3> HIDE DEF a
    <3>1. a % 256 = a
      BY <2>1
    <3> QED BY <3>1 DEF a
  <2>3. TlvHeader(n) = <<79, 130, a, b>> /\ LengthBytes(n) = <<130, a, b>>
    BY <1>1, <2>2 DEF LengthBytes, TlvHeader
  <2> HIDE DEF a, b
  <2>4. <<79, 130, a, b>> \in Seq(0 .. 255)
    BY <2>1, BytesOf
  <2> QED BY <2>3, <2>4
<1>2. CASE n < 256 /\ n > 128
  <2>1. TlvHeader(n) = <<79, 129, n>> /\ LengthBytes(n) = <<129, n>> /\ n <= 255
    BY <1>2 DEF LengthBytes, TlvHeader
  <2>2. <<79, 129, n>> \in Seq(0 .. 255)
    BY <2>1, BytesOf
  <2> QED BY <2>1, <2>2
<1>3. CASE n <= 128
  <2>1. TlvHeader(n) = <<79, n>> /\ LengthBytes(n) = <<n>> /\ n <= 255
    BY <1>3 DEF LengthBytes, TlvHeader
  <2>2. <<79, n>> \in Seq(0 .. 255)
    BY <2>1, BytesOf
  <2> QED BY <2>1, <2>2
<1> QED BY <1>1, <1>2, <1>3

LEMMA JoinedType == ASSUME NEW S, NEW s \in Seq(S), NEW t \in Seq(S), NEW r, r = s \o t PROVE r \in Seq(S)
BY Extended, Zenon

LEMMA JoinedLen ==
  ASSUME NEW S, NEW s \in Seq(S), NEW t \in Seq(S), NEW r, r = s \o t
  PROVE  Len(r) = Len(s) + Len(t)
BY Extended, Zenon

LEMMA TlvBytes ==
  ASSUME NEW n \in Nat, n \in TwoBytes
  PROVE  /\ TlvOf(n) \in Seq(0 .. 255) /\ Len(TlvOf(n)) = TlvSize(n)
         /\ \A q \in 1 .. Len(LengthBytes(n)) : TlvOf(n)[1 + q] = LengthBytes(n)[q]
<1>1. TlvOf(n) = TlvHeader(n) \o Tlv!Value(n)
  BY TlvIs
<1>2. TlvHeader(n) \in Seq(0 .. 255) /\ Tlv!Value(n) \in Seq(0 .. 255)
  BY TlvHeaderIs, ValueType
<1>3. TlvOf(n) \in Seq(0 .. 255)
  BY <1>1, <1>2, JoinedType, ZenonT(60)
<1>4. Len(TlvOf(n)) = Len(TlvHeader(n)) + Len(Tlv!Value(n))
  BY <1>1, <1>2, JoinedLen, ZenonT(60)
<1>5. \A i \in 1 .. Len(TlvHeader(n)) : TlvOf(n)[i] = TlvHeader(n)[i]
  <2>1. \A i \in 1 .. Len(TlvHeader(n)) : (TlvHeader(n) \o Tlv!Value(n))[i] = TlvHeader(n)[i]
    BY <1>2, Extended
  <2> QED BY <1>1, <2>1, Zenon
<1>6. Len(LengthBytes(n)) \in Nat /\ TlvSize(n) = 1 + Len(LengthBytes(n)) + n
      /\ Len(TlvHeader(n)) = 1 + Len(LengthBytes(n)) /\ Len(Tlv!Value(n)) = n
  BY LengthFacts, TlvHeaderIs, ValueType
<1>7. Len(TlvOf(n)) = TlvSize(n)
  BY <1>4, <1>6
<1>8. ASSUME NEW q \in 1 .. Len(LengthBytes(n)) PROVE TlvOf(n)[1 + q] = LengthBytes(n)[q]
  <2>1. 1 + q \in 1 .. Len(TlvHeader(n))
    BY <1>6
  <2>2. TlvHeader(n)[1 + q] = LengthBytes(n)[q]
    BY TlvHeaderIs
  <2> QED BY <1>5, <2>1, <2>2
<1> QED BY <1>3, <1>7, <1>8

(* The length that ParseTlv reads is the one that was written, and all of  *)
(* it is inside if the bytes are.                                          *)
LEMMA LengthRead ==
  ASSUME NEW data, Len(data) \in Nat, NEW p \in Nat, NEW n \in Nat, n \in TwoBytes,
         LengthStands(data, p, n)
  PROVE  /\ Tlv!HeaderInside(data, p + 1) =>
              Tlv!LengthAt(data, p + 1).len = n /\ Tlv!LengthAt(data, p + 1).size = Len(LengthBytes(n))
         /\ p + Len(LengthBytes(n)) <= Len(data) => Tlv!HeaderInside(data, p + 1)
<1>1. (p + 1) + 1 = p + 2 /\ (p + 1) + 2 = p + 3
  OBVIOUS
<1>2. CASE Len(data) <= p
  <2>1. ~Tlv!HeaderInside(data, p + 1)
    BY <1>1, <1>2 DEF Tlv!HeaderInside
  <2>2. Len(LengthBytes(n)) \in 1 .. 3
    BY LengthFacts
  <2>3. ~(p + Len(LengthBytes(n)) <= Len(data))
    BY <1>1, <1>2, <2>2, SMTT(60)
  <2> QED BY <2>1, <2>3
<1>3. CASE p < Len(data) /\ n >= 256
  <2>1. LengthBytes(n) = <<130, n \div 256, n % 256>>
    BY <1>3 DEF LengthBytes
  <2> DEFINE a == n \div 256
             b == n % 256
  <2>2. n = 256 * a + b
    BY DigitsOf
  <2>3. LengthBytes(n) = <<130, a, b>>
    BY <2>1
  <2> HIDE DEF a, b
  <2>4. Len(LengthBytes(n)) = 3 /\ LengthBytes(n)[1] = 130 /\ LengthBytes(n)[2] = a /\ LengthBytes(n)[3] = b
    BY <2>3
  <2>5. /\ data[p + 1] = 130
        /\ p + 2 <= Len(data) => data[p + 2] = a
        /\ p + 3 <= Len(data) => data[p + 3] = b
    BY <1>1, <1>3, <2>4 DEF LengthStands
  <2>6. Tlv!HeaderInside(data, p + 1) <=> p + 3 <= Len(data)
    BY <1>1, <1>3, <2>5 DEF Tlv!HeaderInside
  <2>7. p + 3 <= Len(data) => Tlv!LengthAt(data, p + 1).len = n /\ Tlv!LengthAt(data, p + 1).size = 3
    BY <1>1, <1>3, <2>2, <2>5 DEF Tlv!LengthAt
  <2> QED BY <2>4, <2>6, <2>7
<1>4. CASE p < Len(data) /\ n > 128 /\ n < 256
  <2>1. LengthBytes(n) = <<129, n>>
    BY <1>4 DEF LengthBytes
  <2>2. Len(LengthBytes(n)) = 2 /\ LengthBytes(n)[1] = 129 /\ LengthBytes(n)[2] = n
    BY <2>1
  <2>3. data[p + 1] = 129 /\ (p + 2 <= Len(data) => data[p + 2] = n)
    BY <1>1, <1>4, <2>2 DEF LengthStands
  <2>4. Tlv!HeaderInside(data, p + 1) <=> p + 2 <= Len(data)
    BY <1>1, <1>4, <2>3 DEF Tlv!HeaderInside
  <2>5. p + 2 <= Len(data) => Tlv!LengthAt(data, p + 1).len = n /\ Tlv!LengthAt(data, p + 1).size = 2
    BY <1>1, <1>4, <2>3 DEF Tlv!LengthAt
  <2> QED BY <2>2, <2>4, <2>5
<1>5. CASE p < Len(data) /\ n <= 128
  <2>1. LengthBytes(n) = <<n>>
    BY <1>5 DEF LengthBytes
  <2>2. Len(LengthBytes(n)) = 1 /\ LengthBytes(n)[1] = n
    BY <2>1
  <2>3. data[p + 1] = n /\ n # 129 /\ n # 130
    BY <1>1, <1>5, <2>2 DEF LengthStands
  <2>4. Tlv!HeaderInside(data, p + 1)
    BY <1>1, <1>5, <2>3 DEF Tlv!HeaderInside
  <2>5. Tlv!LengthAt(data, p + 1).len = n /\ Tlv!LengthAt(data, p + 1).size = 1
    BY <1>1, <1>5, <2>3, SMTT(60) DEF Tlv!LengthAt
  <2> QED BY <2>2, <2>4, <2>5
<1> QED BY <1>2, <1>3, <1>4, <1>5

LEMMA LengthNat == ASSUME NEW n \in TwoBytes PROVE n \in Nat
BY SMTT(60) DEF TwoBytes

LEMMA TlvTypes ==
  TlvType => /\ Len(list) \in Nat /\ Len(answer) \in Nat /\ Len(starts) \in Nat /\ pos \in Nat
             /\ \A i \in 1 .. Len(list) : list[i] \in Nat /\ list[i] \in TwoBytes
             /\ \A i \in 1 .. Len(starts) : starts[i] \in Nat
<1> SUFFICES ASSUME TlvType
             PROVE  /\ Len(list) \in Nat /\ Len(answer) \in Nat /\ Len(starts) \in Nat /\ pos \in Nat
                    /\ \A i \in 1 .. Len(list) : list[i] \in Nat /\ list[i] \in TwoBytes
                    /\ \A i \in 1 .. Len(starts) : starts[i] \in Nat
  OBVIOUS
<1>1. list \in Seq(TwoBytes) /\ answer \in Seq(0 .. 255) /\ starts \in Seq(Nat) /\ pos \in Nat
  BY DEF TlvType
<1>2. Len(list) \in Nat /\ Len(answer) \in Nat /\ Len(starts) \in Nat
  BY <1>1
<1>3. \A i \in 1 .. Len(list) : list[i] \in TwoBytes
  BY <1>1
<1>4. \A i \in 1 .. Len(starts) : starts[i] \in Nat
  BY <1>1
<1> QED BY <1>1, <1>2, <1>3, <1>4, LengthNat

LEMMA TlvInit == Tlv!Init => TlvInv
<1> SUFFICES ASSUME Tlv!Init PROVE TlvInv
  OBVIOUS
<1>1. /\ list \in Seq(TwoBytes) /\ cut \in Nat /\ answer = <<>> /\ starts = <<1>>
      /\ at = "answer" /\ pos = 1 /\ words = <<>>
  BY FormatAssumption DEF Tlv!Init
<1>2. TlvType
  BY <1>1 DEF TlvType
<1>3. Len(starts) = 1 /\ starts[1] = 1 /\ Len(answer) = 0 /\ Len(list) \in Nat
  BY <1>1
<1>4. TlvLayout
  BY <1>1, <1>3 DEF TlvLayout
<1> QED BY <1>1, <1>2, <1>4 DEF TlvInv, ParseInv

LEMMA WriteStep == TlvInv /\ Tlv!DeviceWrites => TlvInv'
<1> SUFFICES ASSUME TlvInv, Tlv!DeviceWrites PROVE TlvInv'
  OBVIOUS
<1> DEFINE m == Len(starts)
           n == list[m]
           t == TlvOf(n)
<1>1. /\ at = "answer" /\ at' = at /\ m <= Len(list) /\ list' = list /\ cut' = cut
      /\ pos' = pos /\ words' = words
      /\ answer' = answer \o t /\ starts' = Append(starts, Len(answer') + 1)
  BY DEF Tlv!DeviceWrites, TlvOf
<1>2. TlvType /\ TlvLayout /\ Len(list) \in Nat /\ Len(answer) \in Nat /\ m \in 1 .. Len(list)
      /\ n \in Nat /\ n \in TwoBytes /\ starts[m] \in Nat /\ Len(answer) + 1 = starts[m] /\ starts[1] = 1
  <2>1. TlvType /\ TlvLayout
    BY DEF TlvInv
  <2>2. m \in 1 .. Len(list) /\ Len(answer) + 1 = starts[m]
    BY <1>1, <2>1, TlvTypes DEF TlvLayout
  <2> QED BY <2>1, <2>2, TlvTypes DEF TlvLayout
<1>3. /\ t \in Seq(0 .. 255) /\ Len(t) = TlvSize(n)
      /\ \A q \in 1 .. Len(LengthBytes(n)) : t[1 + q] = LengthBytes(n)[q]
  BY <1>2, TlvBytes
<1>4. /\ Len(LengthBytes(n)) \in 1 .. 3 /\ TlvSize(n) \in Nat
      /\ TlvSize(n) = 1 + Len(LengthBytes(n)) + n
  BY <1>2, LengthFacts
<1> HIDE DEF t
<1>5. /\ answer' \in Seq(0 .. 255) /\ Len(answer') = Len(answer) + TlvSize(n)
      /\ \A i \in 1 .. Len(answer) : answer'[i] = answer[i]
      /\ \A i \in 1 .. Len(t) : answer'[Len(answer) + i] = t[i]
  <2>1. answer \in Seq(0 .. 255) /\ t \in Seq(0 .. 255)
    BY <1>2, <1>3 DEF TlvType
  <2>2. answer' = answer \o t
    BY <1>1
  <2>3. answer' \in Seq(0 .. 255)
    BY <2>1, <2>2, JoinedType, ZenonT(60)
  <2>4. Len(answer') = Len(answer) + Len(t)
    BY <2>1, <2>2, JoinedLen, ZenonT(60)
  <2>5. /\ \A i \in 1 .. Len(answer) : answer'[i] = answer[i]
        /\ \A i \in 1 .. Len(t) : answer'[Len(answer) + i] = t[i]
    <3>1. /\ \A i \in 1 .. Len(answer) : (answer \o t)[i] = answer[i]
          /\ \A i \in 1 .. Len(t) : (answer \o t)[Len(answer) + i] = t[i]
      BY <2>1, Extended
    <3> QED BY <2>2, <3>1, Zenon
  <2>6. Len(t) = TlvSize(n)
    BY <1>3
  <2> QED BY <2>3, <2>4, <2>5, <2>6
<1>6. /\ starts' \in Seq(Nat) /\ Len(starts') = m + 1 /\ starts'[m + 1] = starts[m] + TlvSize(n)
      /\ \A i \in 1 .. m : starts'[i] = starts[i]
  <2>1. Len(answer') + 1 = starts[m] + TlvSize(n) /\ Len(answer') + 1 \in Nat
    <3>1. Len(answer') = Len(answer) + TlvSize(n) /\ TlvSize(n) \in Nat
      BY <1>4, <1>5
    <3>2. Len(answer) + 1 = starts[m] /\ Len(answer) \in Nat
      BY <1>2
    <3> HIDE DEF m, n
    <3> QED BY <3>1, <3>2
  <2>2. starts \in Seq(Nat) /\ starts' = Append(starts, Len(answer') + 1)
    BY <1>1, <1>2 DEF TlvType
  <2> QED BY <2>1, <2>2
<1>7. TlvType'
  BY <1>1, <1>2, <1>5, <1>6 DEF TlvType
<1>8. \A i \in 1 .. m + 1 : starts'[i] <= starts'[m + 1]
  <2>1. \A i \in 1 .. m : starts[i] <= starts[m] /\ starts[i] \in Nat
    BY <1>2, TlvTypes DEF TlvLayout
  <2>2. starts'[m + 1] = starts[m] + TlvSize(n) /\ TlvSize(n) \in Nat /\ starts[m] \in Nat /\ m \in Nat
    BY <1>2, <1>4, <1>6
  <2>3. \A i \in 1 .. m : starts'[i] = starts[i]
    BY <1>6
  <2> HIDE DEF m, n
  <2>4. ASSUME NEW i \in 1 .. m PROVE starts'[i] <= starts'[m + 1]
    <3>1. starts'[i] = starts[i] /\ starts[i] <= starts[m] /\ starts[i] \in Nat
      BY <2>1, <2>3
    <3> QED BY <2>2, <3>1
  <2>5. starts'[m + 1] \in Nat
    BY <2>2
  <2>6. \A i \in 1 .. m + 1 : i \in 1 .. m \/ i = m + 1
    BY <2>2
  <2> QED BY <2>4, <2>5, <2>6
<1>9. ASSUME NEW i \in 1 .. m
      PROVE  starts'[i + 1] = starts'[i] + TlvSize(list[i]) /\ LengthStands(answer', starts'[i], list[i])
  <2>1. CASE i = m
    <3>1. starts'[i] = Len(answer) + 1
      BY <1>2, <1>6, <2>1
    <3>2. ASSUME NEW q \in 1 .. Len(LengthBytes(n)) PROVE answer'[starts'[i] + q] = LengthBytes(n)[q]
      <4>1. 1 + q \in 1 .. Len(t)
        BY <1>2, <1>3, <1>4, SMTT(60)
      <4>2. starts'[i] + q = Len(answer) + (1 + q)
        BY <1>2, <3>1
      <4>3. answer'[Len(answer) + (1 + q)] = t[1 + q] /\ t[1 + q] = LengthBytes(n)[q]
        BY <1>3, <1>5, <4>1
      <4> QED BY <4>2, <4>3
    <3>3. LengthStands(answer', starts'[i], n)
      BY <3>2 DEF LengthStands
    <3>4. starts'[m + 1] = starts'[m] + TlvSize(n)
      BY <1>2, <1>6, SMTT(60)
    <3> QED BY <2>1, <3>3, <3>4
  <2>2. CASE i # m
    <3>1. i \in 1 .. m - 1 /\ i \in 1 .. m /\ i + 1 \in 1 .. m /\ i \in 1 .. Len(list)
      BY <1>2, <2>2
    <3>2. /\ starts[i + 1] = starts[i] + TlvSize(list[i])
          /\ LengthStands(answer, starts[i], list[i])
          /\ starts[i + 1] <= starts[m]
      BY <1>2, <3>1 DEF TlvLayout
    <3>3. list[i] \in Nat /\ list[i] \in TwoBytes /\ starts[i] \in Nat
      BY <1>2, <3>1, TlvTypes
    <3>4. /\ Len(LengthBytes(list[i])) \in 1 .. 3 /\ TlvSize(list[i]) = 1 + Len(LengthBytes(list[i])) + list[i]
      BY <3>3, LengthFacts
    <3>5. ASSUME NEW q \in 1 .. Len(LengthBytes(list[i]))
          PROVE  answer'[starts[i] + q] = LengthBytes(list[i])[q]
      <4> DEFINE w == Len(LengthBytes(list[i]))
      <4>1. /\ starts[i + 1] = starts[i] + (1 + w + list[i]) /\ starts[i] \in Nat /\ w \in 1 .. 3
            /\ list[i] \in Nat /\ q \in 1 .. w
        BY <3>2, <3>3, <3>4
      <4>2. starts[i + 1] <= Len(answer) + 1 /\ Len(answer) \in Nat
        BY <1>2, <3>2
      <4> HIDE DEF w
      <4>3. starts[i] + q \in 1 .. Len(answer) /\ starts[i] + q <= Len(answer)
        BY <4>1, <4>2, SMTT(60)
      <4>4. answer[starts[i] + q] = LengthBytes(list[i])[q]
        BY <3>2, <4>3 DEF LengthStands
      <4> QED BY <1>5, <4>3, <4>4
    <3>6. LengthStands(answer', starts[i], list[i])
      BY <3>5 DEF LengthStands
    <3>7. starts'[i] = starts[i] /\ starts'[i + 1] = starts[i + 1]
      BY <1>6, <3>1
    <3> QED BY <3>2, <3>6, <3>7
  <2> QED BY <2>1, <2>2
<1>10. TlvLayout'
  <2>1. Len(starts') \in 1 .. Len(list') + 1 /\ starts'[1] = 1 /\ Len(starts') - 1 = m
    BY <1>1, <1>2, <1>6
  <2>2. Len(answer') + 1 = starts'[Len(starts')] /\ Len(answer') < starts'[Len(starts')]
    <3>1. Len(answer') = Len(answer) + TlvSize(n) /\ TlvSize(n) \in Nat
      BY <1>4, <1>5
    <3>2. Len(answer) + 1 = starts[m] /\ Len(answer) \in Nat
      BY <1>2
    <3>3. starts'[Len(starts')] = starts[m] + TlvSize(n)
      BY <1>6
    <3> HIDE DEF m, n
    <3> QED BY <3>1, <3>2, <3>3
  <2>3. pos' = 1 /\ words' = <<>>
    BY <1>1, <1>2 DEF TlvLayout
  <2>4. \A i \in 1 .. Len(starts') - 1 :
          starts'[i + 1] = starts'[i] + TlvSize(list'[i]) /\ LengthStands(answer', starts'[i], list'[i])
    BY <1>1, <1>9, <2>1
  <2>5. \A i \in 1 .. Len(starts') : starts'[i] <= starts'[Len(starts')]
    BY <1>6, <1>8
  <2> QED BY <1>1, <2>1, <2>2, <2>3, <2>4, <2>5 DEF TlvLayout
<1> QED BY <1>1, <1>7, <1>10 DEF TlvInv, ParseInv

LEMMA ComesStep == TlvInv /\ Tlv!AnswerComes => TlvInv'
<1> SUFFICES ASSUME TlvInv, Tlv!AnswerComes PROVE TlvInv'
  OBVIOUS
<1> DEFINE left == IF cut < Len(answer) THEN Len(answer) - cut ELSE 0
<1>1. /\ at = "answer" /\ at' = "parse" /\ Len(starts) > Len(list) /\ list' = list /\ cut' = cut
      /\ starts' = starts /\ pos' = pos /\ words' = words /\ answer' = SubSeq(answer, 1, left)
  BY DEF Tlv!AnswerComes
<1>2. /\ TlvType /\ TlvLayout /\ Len(list) \in Nat /\ Len(answer) \in Nat /\ Len(starts) = Len(list) + 1
      /\ cut \in Nat /\ Len(answer) + 1 = starts[Len(starts)] /\ starts[1] = 1 /\ pos = 1 /\ words = <<>>
  <2>1. TlvType /\ TlvLayout
    BY DEF TlvInv
  <2> QED BY <1>1, <2>1, TlvTypes DEF TlvLayout, TlvType
<1>3. left \in 0 .. Len(answer) /\ (cut = 0 => left = Len(answer))
  BY <1>2
<1>4. /\ answer' \in Seq(0 .. 255) /\ Len(answer') = left
      /\ \A i \in 1 .. left : answer'[i] = answer[i]
  <2>1. answer \in Seq(0 .. 255)
    BY <1>2 DEF TlvType
  <2> HIDE DEF left
  <2>2. ASSUME NEW i \in 1 .. left PROVE answer[i] \in 0 .. 255
    <3>1. left \in 0 .. Len(answer) /\ Len(answer) \in Nat
      BY <1>2, <1>3
    <3>2. i \in 1 .. Len(answer)
      BY <3>1
    <3> QED BY <2>1, <3>2, ElementOfSeq
  <2>3. /\ SubSeq(answer, 1, left) \in Seq(0 .. 255)
        /\ Len(SubSeq(answer, 1, left)) = IF 1 <= left THEN left - 1 + 1 ELSE 0
        /\ \A i \in 1 .. left - 1 + 1 : SubSeq(answer, 1, left)[i] = answer[1 + i - 1]
    BY <1>3, <2>2, SubSeqProperties
  <2> QED BY <1>1, <1>2, <1>3, <2>3
<1> HIDE DEF left
<1>5. TlvType'
  BY <1>1, <1>2, <1>4 DEF TlvType
<1>6. ASSUME NEW i \in 1 .. Len(starts) - 1
      PROVE  starts[i + 1] = starts[i] + TlvSize(list[i]) /\ LengthStands(answer', starts[i], list[i])
  <2>1. starts[i + 1] = starts[i] + TlvSize(list[i]) /\ LengthStands(answer, starts[i], list[i])
    BY <1>2 DEF TlvLayout
  <2>2. starts[i] \in Nat /\ list[i] \in Nat /\ list[i] \in TwoBytes
    BY <1>2, TlvTypes
  <2>3. Len(LengthBytes(list[i])) \in 1 .. 3
    BY <2>2, LengthFacts
  <2>4. ASSUME NEW q \in 1 .. Len(LengthBytes(list[i])), starts[i] + q <= left
        PROVE  answer'[starts[i] + q] = LengthBytes(list[i])[q]
    <3>1. starts[i] + q \in 1 .. left /\ starts[i] + q <= Len(answer)
      BY <1>2, <1>3, <2>2, <2>3, <2>4
    <3>2. answer[starts[i] + q] = LengthBytes(list[i])[q]
      BY <2>1, <3>1 DEF LengthStands
    <3> QED BY <1>4, <3>1, <3>2
  <2>5. LengthStands(answer', starts[i], list[i])
    BY <1>4, <2>4 DEF LengthStands
  <2> QED BY <2>1, <2>5
<1>7. TlvLayout'
  <2>1. Len(answer') < starts'[Len(starts')] /\ (cut' = 0 => Len(answer') + 1 = starts'[Len(starts')])
    BY <1>1, <1>2, <1>3, <1>4
  <2>2. \A i \in 1 .. Len(starts') - 1 :
          starts'[i + 1] = starts'[i] + TlvSize(list'[i]) /\ LengthStands(answer', starts'[i], list'[i])
    BY <1>1, <1>6
  <2>3. /\ Len(starts') \in 1 .. Len(list') + 1 /\ starts'[1] = 1 /\ Len(starts') = Len(list') + 1
        /\ \A i \in 1 .. Len(starts') : starts'[i] <= starts'[Len(starts')]
    BY <1>1, <1>2 DEF TlvLayout
  <2> QED BY <1>1, <2>1, <2>2, <2>3 DEF TlvLayout
<1>8. ParseInv'
  <2>1. Len(words') = 0 /\ words' \in Seq(TwoBytes) /\ pos' = starts'[Len(words') + 1] /\ pos' <= Len(answer') + 1
    BY <1>1, <1>2, <1>3, <1>4
  <2>2. Len(words') <= Len(list') /\ \A i \in 1 .. Len(words') : words'[i] = list'[i]
    BY <1>1, <1>2, <2>1
  <2>3. Found'
    BY <2>1, <2>2 DEF Found
  <2> QED BY <1>1, <2>1, <2>3 DEF ParseInv
<1> QED BY <1>5, <1>7, <1>8 DEF TlvInv

(* Nothing that the device wrote changes while it is parsed.               *)
LEMMA WrittenStays ==
  TlvInv /\ UNCHANGED Tlv!written /\ at # "answer" /\ pos' \in Nat
      /\ at' \in {"parse", "split", "done", "undefined"} => TlvType' /\ TlvLayout'
<1> SUFFICES ASSUME TlvInv, UNCHANGED Tlv!written, at # "answer", pos' \in Nat,
                    at' \in {"parse", "split", "done", "undefined"}
             PROVE  TlvType' /\ TlvLayout'
  OBVIOUS
<1>1. list' = list /\ cut' = cut /\ answer' = answer /\ starts' = starts
  BY DEF Tlv!written
<1>2. TlvType'
  BY <1>1 DEF TlvInv, TlvType
<1>3. TlvLayout'
  BY <1>1 DEF TlvInv, TlvLayout
<1> QED BY <1>2, <1>3

(* Where ParseTlv is, there is a TLV of the list, unless all are behind.   *)
LEMMA NextTlv ==
  ASSUME TlvInv, at = "parse", Len(words) < Len(list)
  PROVE  LET n == list[Len(words) + 1]
         IN  /\ n \in Nat /\ n \in TwoBytes /\ LengthStands(answer, pos, n)
             /\ starts[Len(words) + 2] = pos + TlvSize(n)
             /\ cut = 0 => pos + TlvSize(n) <= Len(answer) + 1
<1>1. /\ TlvType /\ TlvLayout /\ Found /\ pos = starts[Len(words) + 1] /\ Len(starts) = Len(list) + 1
      /\ cut = 0 => Len(answer) + 1 = starts[Len(starts)]
  BY DEF TlvInv, ParseInv, TlvLayout
<1>2. /\ Len(words) \in Nat /\ Len(list) \in Nat
      /\ Len(words) + 1 \in 1 .. Len(list) /\ Len(words) + 1 \in 1 .. Len(starts) - 1
      /\ Len(words) + 2 \in 1 .. Len(starts) /\ (Len(words) + 1) + 1 = Len(words) + 2
  BY <1>1, TlvTypes DEF Found
<1>3. list[Len(words) + 1] \in Nat /\ list[Len(words) + 1] \in TwoBytes
  BY <1>1, <1>2, TlvTypes
<1>4. /\ starts[Len(words) + 2] = pos + TlvSize(list[Len(words) + 1])
      /\ LengthStands(answer, pos, list[Len(words) + 1])
      /\ starts[Len(words) + 2] <= starts[Len(starts)]
  BY <1>1, <1>2 DEF TlvLayout
<1> QED BY <1>1, <1>3, <1>4

LEMMA ParseOneStep == TlvInv /\ Tlv!ParseOne => TlvInv'
<1> SUFFICES ASSUME TlvInv, Tlv!ParseOne PROVE TlvInv'
  OBVIOUS
<1> DEFINE n == list[Len(words) + 1]
           l == Tlv!LengthAt(answer, pos + 1)
<1>1. /\ at = "parse" /\ pos <= Len(answer) /\ UNCHANGED Tlv!written
      /\ \/ ~Tlv!HeaderInside(answer, pos + 1) /\ at' = "undefined" /\ UNCHANGED <<pos, words>>
         \/ /\ Tlv!HeaderInside(answer, pos + 1) /\ pos + l.size + l.len > Len(answer)
            /\ at' = "undefined" /\ UNCHANGED <<pos, words>>
         \/ /\ Tlv!HeaderInside(answer, pos + 1) /\ ~(pos + l.size + l.len > Len(answer))
            /\ words' = Append(words, l.len) /\ pos' = pos + 1 + l.size + l.len /\ at' = at
  BY DEF Tlv!ParseOne
<1>2. /\ TlvType /\ TlvLayout /\ Found /\ pos \in Nat /\ Len(answer) \in Nat /\ Len(list) \in Nat
      /\ Len(words) \in Nat /\ words \in Seq(TwoBytes)
  BY <1>1, TlvTypes DEF TlvInv, ParseInv, Found
<1>3. Len(words) < Len(list)
  <2>1. /\ pos = starts[Len(words) + 1] /\ Len(answer) < starts[Len(starts)] /\ Len(starts) = Len(list) + 1
    BY <1>1 DEF TlvInv, ParseInv, TlvLayout
  <2>2. Len(words) # Len(list)
    BY <1>1, <1>2, <2>1
  <2> QED BY <1>2, <2>2 DEF Found
<1>4. /\ n \in Nat /\ n \in TwoBytes /\ LengthStands(answer, pos, n)
      /\ starts[Len(words) + 2] = pos + TlvSize(n)
      /\ cut = 0 => pos + TlvSize(n) <= Len(answer) + 1
  BY <1>1, <1>3, NextTlv
<1> HIDE DEF n
<1>5. Len(LengthBytes(n)) \in 1 .. 3 /\ TlvSize(n) = 1 + Len(LengthBytes(n)) + n
  BY <1>4, LengthFacts
<1>6. /\ Tlv!HeaderInside(answer, pos + 1) => l.len = n /\ l.size = Len(LengthBytes(n))
      /\ pos + Len(LengthBytes(n)) <= Len(answer) => Tlv!HeaderInside(answer, pos + 1)
  BY <1>2, <1>4, LengthRead
<1> HIDE DEF l
<1>7. cut = 0 => Tlv!HeaderInside(answer, pos + 1) /\ ~(pos + l.size + l.len > Len(answer))
  <2> SUFFICES ASSUME cut = 0
               PROVE  Tlv!HeaderInside(answer, pos + 1) /\ ~(pos + l.size + l.len > Len(answer))
    OBVIOUS
  <2>1. pos + Len(LengthBytes(n)) <= Len(answer) /\ ~(pos + Len(LengthBytes(n)) + n > Len(answer))
    BY <1>2, <1>4, <1>5
  <2> QED BY <1>6, <2>1
<1>8. CASE at' = "undefined"
  <2>1. cut # 0 /\ pos' = pos
    BY <1>1, <1>7, <1>8
  <2>2. TlvType' /\ TlvLayout'
    BY <1>1, <1>2, <1>8, <2>1, WrittenStays
  <2>3. cut' = cut
    BY <1>1 DEF Tlv!written
  <2> QED BY <1>8, <2>1, <2>2, <2>3 DEF TlvInv, ParseInv
<1>9. CASE at' # "undefined"
  <2>1. /\ ~(pos + Len(LengthBytes(n)) + n > Len(answer)) /\ at' = "parse"
        /\ words' = Append(words, n) /\ pos' = pos + 1 + Len(LengthBytes(n)) + n
    BY <1>1, <1>6, <1>9
  <2>2. pos' \in Nat /\ pos' = pos + TlvSize(n) /\ pos' <= Len(answer) + 1
    BY <1>2, <1>4, <1>5, <2>1
  <2>3. TlvType' /\ TlvLayout'
    BY <1>1, <2>1, <2>2, WrittenStays
  <2>4. /\ words' \in Seq(TwoBytes) /\ Len(words') = Len(words) + 1 /\ words'[Len(words) + 1] = n
        /\ \A i \in 1 .. Len(words) : words'[i] = words[i]
    BY <1>2, <1>4, <2>1
  <2>5. Found'
    <3>1. ASSUME NEW i \in 1 .. Len(words) + 1 PROVE words'[i] = list[i]
      <4>1. CASE i = Len(words) + 1
        BY <2>4, <4>1 DEF n
      <4>2. CASE i # Len(words) + 1
        <5>1. i \in 1 .. Len(words)
          BY <1>2, <4>2
        <5> QED BY <1>2, <2>4, <5>1 DEF Found
      <4> QED BY <4>1, <4>2
    <3>2. Len(words) + 1 <= Len(list)
      BY <1>2, <1>3
    <3> QED BY <1>1, <2>4, <3>1, <3>2 DEF Found, Tlv!written
  <2>6. pos' = starts[Len(words') + 1]
    <3>1. Len(words') + 1 = Len(words) + 2
      BY <1>2, <2>4
    <3> QED BY <1>4, <2>2, <3>1
  <2>7. answer' = answer /\ starts' = starts
    BY <1>1 DEF Tlv!written
  <2> QED BY <2>1, <2>2, <2>3, <2>5, <2>6, <2>7 DEF TlvInv, ParseInv
<1> QED BY <1>8, <1>9

LEMMA ParsedStep == TlvInv /\ Tlv!ParseDone => TlvInv'
<1> SUFFICES ASSUME TlvInv, Tlv!ParseDone PROVE TlvInv'
  OBVIOUS
<1>1. at = "parse" /\ at' = "split" /\ pos > Len(answer) /\ UNCHANGED Tlv!written /\ pos' = pos /\ words' = words
  BY DEF Tlv!ParseDone
<1>2. /\ TlvType /\ Found /\ pos \in Nat /\ Len(answer) \in Nat /\ Len(list) \in Nat /\ Len(words) \in Nat
      /\ pos = Len(answer) + 1
  BY <1>1, TlvTypes DEF TlvInv, ParseInv, Found
<1>3. TlvType' /\ TlvLayout'
  BY <1>1, <1>2, WrittenStays
<1>4. ASSUME cut = 0 PROVE Len(words) = Len(list)
  <2> SUFFICES ASSUME Len(words) # Len(list) PROVE FALSE
    OBVIOUS
  <2> DEFINE n == list[Len(words) + 1]
  <2>1. Len(words) < Len(list)
    BY <1>2 DEF Found
  <2>2. n \in Nat /\ n \in TwoBytes /\ pos + TlvSize(n) <= Len(answer) + 1
    BY <1>1, <1>4, <2>1, NextTlv
  <2> HIDE DEF n
  <2>3. Len(LengthBytes(n)) \in 1 .. 3 /\ TlvSize(n) = 1 + Len(LengthBytes(n)) + n
    BY <2>2, LengthFacts
  <2> QED BY <1>2, <2>2, <2>3
<1>5. list' = list /\ cut' = cut
  BY <1>1 DEF Tlv!written
<1> QED BY <1>1, <1>2, <1>3, <1>4, <1>5 DEF TlvInv, ParseInv, Found

LEMMA WholeFound == TlvInv /\ at = "split" /\ cut = 0 => words = list
<1> SUFFICES ASSUME TlvInv, at = "split", cut = 0 PROVE words = list
  OBVIOUS
<1>1. /\ words \in Seq(TwoBytes) /\ list \in Seq(TwoBytes) /\ Len(words) = Len(list)
      /\ \A i \in 1 .. Len(words) : words[i] = list[i]
  BY DEF TlvInv, TlvType, ParseInv, Found
<1> QED BY <1>1, SeqEqual

LEMMA SplitStep == TlvInv /\ Tlv!Split => TlvInv'
<1> SUFFICES ASSUME TlvInv, Tlv!Split PROVE TlvInv'
  OBVIOUS
<1>1. at = "split" /\ at' = "done" /\ UNCHANGED Tlv!written /\ pos' = pos
      /\ words' = SelectSeq(words, Tlv!NotEmpty)
  BY DEF Tlv!Split
<1>2. TlvType' /\ TlvLayout'
  <2>1. pos \in Nat
    BY DEF TlvInv, TlvType
  <2> QED BY <1>1, <2>1, WrittenStays
<1>3. cut = 0 => words' = SelectSeq(list, Tlv!NotEmpty)
  <2>1. cut = 0 => words = list
    BY <1>1, WholeFound
  <2> QED BY <1>1, <2>1
<1>4. list' = list /\ cut' = cut
  BY <1>1 DEF Tlv!written
<1>5. cut' = 0 => words' = SelectSeq(list', Tlv!NotEmpty)
  BY <1>3, <1>4
<1> QED BY <1>1, <1>2, <1>5 DEF TlvInv, ParseInv

LEMMA TlvSame == TlvInv /\ UNCHANGED <<Tlv!written, at, pos, words>> => TlvInv'
<1> SUFFICES ASSUME TlvInv, UNCHANGED <<Tlv!written, at, pos, words>> PROVE TlvInv'
  OBVIOUS
<1>1. list' = list /\ cut' = cut /\ answer' = answer /\ starts' = starts /\ at' = at /\ pos' = pos /\ words' = words
  BY DEF Tlv!written
<1>2. TlvType'
  BY <1>1 DEF TlvInv, TlvType
<1>3. TlvLayout'
  BY <1>1 DEF TlvInv, TlvLayout
<1>4. ParseInv'
  <2>1. ParseInv
    BY DEF TlvInv
  <2>2. Found => Found'
    BY <1>1 DEF Found
  <2>3. at = "done" /\ cut = 0 => words = SelectSeq(list, Tlv!NotEmpty)
    BY <2>1 DEF ParseInv
  <2>4. at' = "done" /\ cut' = 0 => words' = SelectSeq(list', Tlv!NotEmpty)
    BY <1>1, <2>3
  <2> QED BY <1>1, <2>1, <2>2, <2>4 DEF ParseInv
<1> QED BY <1>2, <1>3, <1>4 DEF TlvInv

LEMMA TlvStep == TlvInv /\ Tlv!Next => TlvInv'
<1> SUFFICES ASSUME TlvInv, Tlv!Next PROVE TlvInv'
  OBVIOUS
<1>1. CASE Tlv!Finished
  <2>1. UNCHANGED <<Tlv!written, at, pos, words>>
    BY <1>1 DEF Tlv!Finished, Tlv!vars, Tlv!written
  <2> QED BY <2>1, TlvSame
<1> QED BY <1>1, WriteStep, ComesStep, ParseOneStep, ParsedStep, SplitStep DEF Tlv!Next

LEMMA TlvFinds == TlvInv => Tlv!FindsWholeValues
<1> SUFFICES ASSUME TlvInv PROVE Tlv!FindsWholeValues
  OBVIOUS
<1>1. ASSUME at = "split" PROVE \E n \in 0 .. Len(list) : words = SubSeq(list, 1, n)
  <2> DEFINE n == Len(words)
  <2>1. /\ words \in Seq(TwoBytes) /\ n <= Len(list) /\ n \in Nat /\ list \in Seq(TwoBytes)
        /\ Len(list) \in Nat /\ \A i \in 1 .. n : words[i] = list[i]
    BY <1>1 DEF TlvInv, TlvType, ParseInv, Found
  <2>2. \A i \in 1 .. n : list[i] \in TwoBytes
    BY <2>1
  <2> HIDE DEF n
  <2>3. /\ SubSeq(list, 1, n) \in Seq(TwoBytes)
        /\ Len(SubSeq(list, 1, n)) = IF 1 <= n THEN n - 1 + 1 ELSE 0
        /\ \A i \in 1 .. n - 1 + 1 : SubSeq(list, 1, n)[i] = list[1 + i - 1]
    BY <2>1, <2>2, SubSeqProperties
  <2>4. /\ Len(SubSeq(list, 1, n)) = n
        /\ \A i \in 1 .. n : words[i] = SubSeq(list, 1, n)[i]
    BY <2>1, <2>3
  <2>5. words = SubSeq(list, 1, n)
    BY <2>1, <2>3, <2>4, SeqEqual DEF n
  <2> QED BY <2>1, <2>5
<1>2. ASSUME cut = 0
      PROVE  /\ at # "undefined"
             /\ at = "split" => words = list
             /\ at = "done" => words = SelectSeq(list, Tlv!NotEmpty)
  BY <1>2, WholeFound DEF TlvInv, ParseInv
<1> QED BY <1>1, <1>2 DEF Tlv!FindsWholeValues

TlvRuns == format = "TLV" => TlvInv

LEMMA TlvInvariant == FormatSpec => []TlvRuns
<1>1. FormatInit => TlvRuns
  BY TlvInit DEF FormatInit, TlvRuns
<1>2. TlvRuns /\ [FormatNext]_<<format, vars, at, pos, fidoVars, tlvVars, txVars, ethVars>> => TlvRuns'
  <2> SUFFICES ASSUME TlvRuns, format' = "TLV",
                      [FormatNext]_<<format, vars, at, pos, fidoVars, tlvVars, txVars, ethVars>>
               PROVE  TlvInv'
    BY DEF TlvRuns
  <2>1. format = "TLV" /\ TlvInv
    BY DEF TlvRuns, FormatNext
  <2>2. \/ Tlv!Next
        \/ UNCHANGED <<Tlv!written, at, pos, words>>
    BY <2>1 DEF FormatNext, tlvVars, Tlv!written
  <2> QED BY <2>1, <2>2, TlvStep, TlvSame
<1> QED
  BY <1>1, <1>2, PTL DEF FormatSpec

(* In an answer of any number of values, each of at most 65535 bytes and   *)
(* written as ToTlv writes it, ParseTlv finds every value; in one that was *)
(* cut off anywhere it finds no shortened one, unless it reads beyond its  *)
(* end, which is undefined.                                                *)
THEOREM TlvFindsWhole == FormatSpec => []FindsWholeValues
<1>1. TlvRuns => FindsWholeValues
  BY TlvFinds DEF TlvRuns, FindsWholeValues
<1> QED
  BY <1>1, TlvInvariant, PTL

-----------------------------------------------------------------------------
(* Induction over the natural numbers, with a set for the predicate: a set *)
(* that is not empty has a least element.                                  *)
LEMMA LeastNumber ==
  ASSUME NEW S, S \subseteq Nat, S # {}
  PROVE  \E n \in S : \A m \in S : n <= m
<1> DEFINE R == OpToRel(<, Nat)
<1>1. IsWellFoundedOn(R, Nat)
  BY NatLessThanWellFounded, Zenon
<1>2. \A m \in Nat, l \in Nat : m < l => <<m, l>> \in R
  BY SMT DEF OpToRel
<1> HIDE DEF R
<1>3. PICK n \in S : \A m \in S : ~(<<m, n>> \in R)
  BY <1>1, WFMin, Zenon
<1>4. \A m \in S : ~(m < n)
  BY <1>2, <1>3, Zenon
<1> QED BY <1>4

LEMMA StrongInduction ==
  ASSUME NEW S, \A n \in Nat : (\A m \in Nat : m < n => m \in S) => n \in S
  PROVE  Nat \subseteq S
<1> SUFFICES ASSUME Nat \ S # {} PROVE FALSE
  OBVIOUS
<1>1. PICK n \in Nat \ S : \A m \in Nat \ S : n <= m
  BY LeastNumber
<1> QED BY <1>1

(* What a step makes of a value can be repeated: with StrongInduction the  *)
(* ground on which functions defined by recursion stand.                   *)
Repeats(a, step, n, h) == h[0] = a /\ \A i \in 0 .. n - 1 : h[i + 1] = step[i][h[i]]

LEMMA RepeatsUniquely ==
  ASSUME NEW a, NEW step, NEW n \in Nat, NEW m \in Nat, n <= m, NEW g, NEW h,
         Repeats(a, step, n, g), Repeats(a, step, m, h)
  PROVE  \A i \in 0 .. n : g[i] = h[i]
<1> DEFINE Same == {i \in Nat : i <= n => g[i] = h[i]}
<1>1. ASSUME NEW i \in Nat, \A j \in Nat : j < i => j \in Same PROVE i \in Same
  <2>1. CASE i = 0
    BY <2>1 DEF Repeats
  <2>2. CASE i > 0 /\ i <= n
    <3>1. i - 1 \in Nat /\ i - 1 < i /\ i - 1 \in 0 .. n - 1 /\ i - 1 \in 0 .. m - 1 /\ (i - 1) + 1 = i
      BY <2>2
    <3>2. g[i - 1] = h[i - 1]
      BY <1>1, <2>2, <3>1
    <3>3. g[(i - 1) + 1] = step[i - 1][g[i - 1]] /\ h[(i - 1) + 1] = step[i - 1][h[i - 1]]
      BY <3>1 DEF Repeats
    <3> QED BY <3>1, <3>2, <3>3
  <2>3. CASE ~(i <= n)
    BY <2>3
  <2> QED BY <2>1, <2>2, <2>3
<1>2. Nat \subseteq Same
  <2> HIDE DEF Same
  <2> QED BY <1>1, StrongInduction
<1> QED BY <1>2

RepeatsForever(a, step, f) == f[0] = a /\ \A i \in Nat : f[i + 1] = step[i][f[i]]

LEMMA Repeated ==
  ASSUME NEW S, NEW a \in S, NEW step \in [Nat -> [S -> S]]
  PROVE  \E f \in [Nat -> S] : RepeatsForever(a, step, f)
<1> DEFINE Reached == {n \in Nat : \E h \in [0 .. n -> S] : Repeats(a, step, n, h)}
<1>1. ASSUME NEW n \in Nat, \A m \in Nat : m < n => m \in Reached PROVE n \in Reached
  <2>1. CASE n = 0
    <3> DEFINE h == [i \in 0 .. 0 |-> a]
    <3>1. h \in [0 .. n -> S] /\ Repeats(a, step, n, h)
      BY <2>1 DEF Repeats
    <3> QED BY <3>1
  <2>2. CASE n > 0
    <3>1. n - 1 \in Nat /\ n - 1 < n
      BY <2>2
    <3>2. PICK h \in [0 .. n - 1 -> S] : Repeats(a, step, n - 1, h)
      BY <1>1, <3>1
    <3> DEFINE g == [i \in 0 .. n |-> IF i < n THEN h[i] ELSE step[n - 1][h[n - 1]]]
    <3>3. step[n - 1][h[n - 1]] \in S
      BY <3>1, <3>2
    <3>4. g \in [0 .. n -> S]
      BY <3>1, <3>2, <3>3
    <3>5. g[0] = a
      BY <3>2, <2>2 DEF Repeats
    <3>6. ASSUME NEW i \in 0 .. n - 1 PROVE g[i + 1] = step[i][g[i]]
      <4>1. CASE i < n - 1
        <5>1. g[i + 1] = h[i + 1] /\ g[i] = h[i] /\ i \in 0 .. (n - 1) - 1
          BY <4>1
        <5> QED BY <3>2, <5>1 DEF Repeats
      <4>2. CASE i = n - 1
        <5>1. g[i + 1] = step[n - 1][h[n - 1]] /\ g[i] = h[n - 1]
          BY <3>1, <4>2
        <5> QED BY <4>2, <5>1
      <4> QED BY <4>1, <4>2
    <3>7. Repeats(a, step, n, g)
      <4> HIDE DEF g
      <4> QED BY <3>5, <3>6 DEF Repeats
    <3> QED BY <3>4, <3>7
  <2> QED BY <2>1, <2>2
<1>2. Nat \subseteq Reached
  <2> HIDE DEF Reached
  <2> QED BY <1>1, StrongInduction
<1> DEFINE Of(n) == CHOOSE h : h \in [0 .. n -> S] /\ Repeats(a, step, n, h)
           f == [n \in Nat |-> Of(n)[n]]
<1>3. ASSUME NEW n \in Nat PROVE Of(n) \in [0 .. n -> S] /\ Repeats(a, step, n, Of(n))
  BY <1>2
<1> HIDE DEF Of
<1>4. f \in [Nat -> S]
  BY <1>3
<1>5. f[0] = a
  BY <1>3 DEF Repeats
<1>6. ASSUME NEW i \in Nat PROVE f[i + 1] = step[i][f[i]]
  <2>1. i + 1 \in Nat /\ i <= i + 1 /\ i \in 0 .. i /\ i \in 0 .. (i + 1) - 1
    OBVIOUS
  <2>2. Of(i)[i] = Of(i + 1)[i]
    BY <1>3, <2>1, RepeatsUniquely
  <2>3. Of(i + 1)[i + 1] = step[i][Of(i + 1)[i]]
    BY <1>3, <2>1 DEF Repeats
  <2> QED BY <2>1, <2>2, <2>3
<1>7. RepeatsForever(a, step, f)
  <2> HIDE DEF f
  <2> QED BY <1>5, <1>6 DEF RepeatsForever
<1> QED BY <1>4, <1>7

-----------------------------------------------------------------------------
(* numberToHexString: what its recursion says holds, and it returns at     *)
(* least one digit.                                                        *)
HexDigit == 0 .. 15

LEMMA DividedBy16 == ASSUME NEW n \in Nat PROVE n = 16 * (n \div 16) + (n % 16)
OBVIOUS

LEMMA HexArith ==
  ASSUME NEW n \in Nat
  PROVE  /\ n \div 16 \in Nat /\ n % 16 \in HexDigit
         /\ n >= 16 => n \div 16 < n
<1>1. n \div 16 \in Nat /\ n % 16 \in 0 .. 15
  OBVIOUS
<1>3. n >= 16 => n \div 16 < n
  OBVIOUS
<1> QED BY <1>1, <1>3 DEF HexDigit

LEMMA HexLonger ==
  ASSUME NEW n \in Nat, NEW s \in Seq(HexDigit), NEW t, t = IF n < 16 THEN <<n>> ELSE Append(s, n % 16)
  PROVE  t \in Seq(HexDigit) /\ Len(t) > 0
<1>1. CASE n < 16
  <2>1. n \in HexDigit /\ t = <<n>>
    BY <1>1 DEF HexDigit
  <2> HIDE DEF HexDigit
  <2> QED BY <2>1
<1>2. CASE n >= 16
  <2>1. t = Append(s, n % 16) /\ n % 16 \in HexDigit
    BY <1>2, HexArith
  <2> HIDE DEF HexDigit
  <2> QED BY <2>1, AppendProperties
<1> QED BY <1>1, <1>2

LEMMA HexExists ==
  \E f \in [Nat -> Seq(HexDigit)] :
    f = [n \in Nat |-> IF n < 16 THEN <<n>> ELSE Append(f[n \div 16], n % 16)]
<1> DEFINE S == [Nat -> Seq(HexDigit)]
           Longer(g) == [n \in Nat |-> IF n < 16 THEN <<n>> ELSE Append(g[n \div 16], n % 16)]
           step == [i \in Nat |-> [g \in S |-> Longer(g)]]
           none == [n \in Nat |-> <<>>]
<1>1. ASSUME NEW n \in Nat PROVE n \div 16 \in Nat /\ n % 16 \in HexDigit /\ (n >= 16 => n \div 16 < n)
  BY HexArith
<1>2. ASSUME NEW g \in S PROVE Longer(g) \in S
  <2>1. ASSUME NEW n \in Nat PROVE (IF n < 16 THEN <<n>> ELSE Append(g[n \div 16], n % 16)) \in Seq(HexDigit)
    <3>1. g[n \div 16] \in Seq(HexDigit)
      BY <1>1
    <3> QED BY <3>1, HexLonger
  <2> QED BY <2>1
<1>3. none \in S
  OBVIOUS
<1>4. step \in [Nat -> [S -> S]] /\ \A i \in Nat, g \in S : step[i][g] = Longer(g)
  <2> DEFINE once == [g \in S |-> Longer(g)]
  <2> HIDE DEF Longer, S
  <2>1. once \in [S -> S] /\ \A g \in S : once[g] = Longer(g)
    BY <1>2
  <2>2. \A i \in Nat : step[i] = once
    OBVIOUS
  <2>3. step = [i \in Nat |-> step[i]]
    OBVIOUS
  <2> HIDE DEF once, step
  <2>4. \A i \in Nat : step[i] \in [S -> S]
    BY <2>1, <2>2, Zenon
  <2>5. step \in [Nat -> [S -> S]]
    BY <2>3, <2>4, Zenon
  <2>6. \A i \in Nat, g \in S : step[i][g] = Longer(g)
    BY <2>1, <2>2, Zenon
  <2> QED BY <2>5, <2>6, Zenon
<1>5. PICK G \in [Nat -> S] : RepeatsForever(none, step, G)
  <2> HIDE DEF S, step, none
  <2>1. step \in [Nat -> [S -> S]]
    BY <1>4
  <2> QED BY <1>3, <2>1, Repeated, Zenon
<1>6. \A i \in Nat : G[i] \in S /\ G[i + 1] = Longer(G[i])
  <2> HIDE DEF S, step, none, Longer
  <2> QED BY <1>4, <1>5 DEF RepeatsForever
<1>7. ASSUME NEW i \in Nat, NEW n \in Nat
      PROVE  G[i + 1][n] = IF n < 16 THEN <<n>> ELSE Append(G[i][n \div 16], n % 16)
  BY <1>6
<1> DEFINE Settled == {n \in Nat : \A i \in Nat : i > n => G[i][n] = G[n + 1][n]}
<1>8. ASSUME NEW n \in Nat, \A m \in Nat : m < n => m \in Settled PROVE n \in Settled
  <2> SUFFICES ASSUME NEW i \in Nat, i > n PROVE G[i][n] = G[n + 1][n]
    OBVIOUS
  <2>1. i - 1 \in Nat /\ (i - 1) + 1 = i
    OBVIOUS
  <2>2. G[i][n] = IF n < 16 THEN <<n>> ELSE Append(G[i - 1][n \div 16], n % 16)
    BY <1>7, <2>1
  <2>3. G[n + 1][n] = IF n < 16 THEN <<n>> ELSE Append(G[n][n \div 16], n % 16)
    BY <1>7
  <2>4. CASE n < 16
    BY <2>2, <2>3, <2>4
  <2>5. CASE n >= 16
    <3>1. n \div 16 \in Nat /\ n \div 16 < n /\ n \div 16 < i - 1
      BY <1>1, <2>5
    <3>2. G[i - 1][n \div 16] = G[n][n \div 16]
      BY <1>8, <2>1, <3>1
    <3> QED BY <2>2, <2>3, <2>5, <3>2
  <2> QED BY <2>4, <2>5
<1>9. Nat \subseteq Settled
  <2> HIDE DEF Settled
  <2> QED BY <1>8, StrongInduction
<1> DEFINE f == [n \in Nat |-> G[n + 1][n]]
<1>10. f \in [Nat -> Seq(HexDigit)]
  BY <1>5
<1>11. ASSUME NEW n \in Nat PROVE f[n] = IF n < 16 THEN <<n>> ELSE Append(f[n \div 16], n % 16)
  <2>1. f[n] = IF n < 16 THEN <<n>> ELSE Append(G[n][n \div 16], n % 16)
    BY <1>7
  <2>2. CASE n < 16
    BY <2>1, <2>2
  <2>3. CASE n >= 16
    <3>1. n \div 16 \in Nat /\ n \div 16 < n
      BY <1>1, <2>3
    <3>2. G[n][n \div 16] = f[n \div 16]
      BY <1>9, <3>1
    <3> QED BY <2>1, <2>3, <3>2
  <2> QED BY <2>2, <2>3
<1>12. f = [n \in Nat |-> IF n < 16 THEN <<n>> ELSE Append(f[n \div 16], n % 16)]
  <2>1. f = [n \in Nat |-> f[n]]
    OBVIOUS
  <2> HIDE DEF f
  <2> QED BY <1>11, <2>1
<1> QED
  <2> HIDE DEF f
  <2> QED BY <1>10, <1>12

LEMMA HexIs ==
  \A n \in Nat : Eth!numberToHexString[n]
                   = IF n < 16 THEN <<n>> ELSE Append(Eth!numberToHexString[n \div 16], n % 16)
<1> DEFINE Is(f) == f = [n \in Nat |-> IF n < 16 THEN <<n>> ELSE Append(f[n \div 16], n % 16)]
<1>1. \E f : Is(f)
  BY HexExists
<1>2. Eth!numberToHexString = CHOOSE f : Is(f)
  BY DEF Eth!numberToHexString
<1>3. Is(Eth!numberToHexString)
  <2> HIDE DEF Is
  <2> QED BY <1>1, <1>2
<1> QED BY <1>3

LEMMA HexType ==
  ASSUME NEW n \in Nat
  PROVE  Eth!numberToHexString[n] \in Seq(HexDigit) /\ Len(Eth!numberToHexString[n]) > 0
<1> DEFINE Typed == {m \in Nat : Eth!numberToHexString[m] \in Seq(HexDigit) /\ Len(Eth!numberToHexString[m]) > 0}
<1>1. ASSUME NEW m \in Nat, \A l \in Nat : l < m => l \in Typed PROVE m \in Typed
  <2>1. CASE m < 16
    <3>1. Eth!numberToHexString[m] = IF m < 16 THEN <<m>> ELSE Append(<<>>, m % 16)
      BY <2>1, HexIs
    <3>2. <<>> \in Seq(HexDigit)
      OBVIOUS
    <3> QED BY <3>1, <3>2, HexLonger
  <2>2. CASE m >= 16
    <3>1. m \div 16 \in Nat /\ m \div 16 < m
      BY <2>2, HexArith
    <3>2. Eth!numberToHexString[m] = IF m < 16 THEN <<m>> ELSE Append(Eth!numberToHexString[m \div 16], m % 16)
      BY HexIs
    <3>3. Eth!numberToHexString[m \div 16] \in Seq(HexDigit)
      BY <1>1, <3>1
    <3> HIDE DEF Typed
    <3>4. Eth!numberToHexString[m] \in Seq(HexDigit) /\ Len(Eth!numberToHexString[m]) > 0
      BY <3>2, <3>3, HexLonger
    <3> QED BY <3>4 DEF Typed
  <2> QED BY <2>1, <2>2
<1>2. Nat \subseteq Typed
  <2> HIDE DEF Typed
  <2> QED BY <1>1, StrongInduction
<1> QED BY <1>2

-----------------------------------------------------------------------------
(* NumberOf: any table of values that follows its recursion ends with the  *)
(* number, and there is one.                                               *)
Values(b, v) ==
  /\ v \in [0 .. Len(b) -> Nat] /\ v[0] = 0
  /\ \A i \in 1 .. Len(b) : v[i] = 256 * v[i - 1] + b[i]

LEMMA NumberIs ==
  ASSUME NEW b \in Seq(Nat), NEW v, Values(b, v)
  PROVE  Eth!NumberOf(b) = v[Len(b)]
<1> DEFINE Is(n) == n = [i \in 0 .. Len(b) |-> IF i = 0 THEN 0 ELSE 256 * n[i - 1] + b[i]]
           c == CHOOSE n : Is(n)
<1>1. Eth!NumberOf(b) = c[Len(b)]
  BY DEF Eth!NumberOf
<1>2. Is(v)
  <2>1. v = [i \in 0 .. Len(b) |-> v[i]]
    BY DEF Values
  <2>2. ASSUME NEW i \in 0 .. Len(b) PROVE v[i] = IF i = 0 THEN 0 ELSE 256 * v[i - 1] + b[i]
    <3>1. CASE i = 0
      BY <3>1 DEF Values
    <3>2. CASE i # 0
      <4>1. i \in 1 .. Len(b)
        BY <3>2
      <4> QED BY <3>2, <4>1 DEF Values
    <3> QED BY <3>1, <3>2
  <2> QED BY <2>1, <2>2
<1>3. Is(c)
  <2> HIDE DEF Is
  <2> QED BY <1>2
<1>4. Len(b) \in Nat
  OBVIOUS
<1>5. ASSUME NEW i \in 0 .. Len(b) PROVE c[i] = IF i = 0 THEN 0 ELSE 256 * c[i - 1] + b[i]
  <2> HIDE DEF c
  <2> QED BY <1>3
<1> HIDE DEF c, Is
<1> DEFINE Same == {i \in Nat : i <= Len(b) => c[i] = v[i]}
<1>6. ASSUME NEW i \in Nat, \A j \in Nat : j < i => j \in Same PROVE i \in Same
  <2>1. CASE i = 0
    <3>1. c[0] = 0
      BY <1>4, <1>5
    <3> QED BY <2>1, <3>1 DEF Values
  <2>2. CASE i > 0 /\ i <= Len(b)
    <3>1. i - 1 \in Nat /\ i - 1 < i /\ i - 1 <= Len(b) /\ i \in 0 .. Len(b) /\ i \in 1 .. Len(b)
      BY <1>4, <2>2
    <3>2. c[i - 1] = v[i - 1]
      BY <1>6, <3>1
    <3>3. c[i] = 256 * c[i - 1] + b[i]
      BY <1>5, <2>2, <3>1
    <3>4. v[i] = 256 * v[i - 1] + b[i]
      BY <3>1 DEF Values
    <3> QED BY <3>2, <3>3, <3>4
  <2>3. CASE ~(i <= Len(b))
    BY <2>3
  <2> QED BY <1>4, <2>1, <2>2, <2>3
<1>7. Nat \subseteq Same
  <2> HIDE DEF Same
  <2> QED BY <1>6, StrongInduction
<1> QED BY <1>1, <1>4, <1>7

LEMMA ValuesExist == ASSUME NEW b \in Seq(Nat) PROVE \E v : Values(b, v)
<1> DEFINE at0(i) == IF i + 1 \in 1 .. Len(b) THEN b[i + 1] ELSE 0
           once(i) == [x \in Nat |-> 256 * x + at0(i)]
           step == [i \in Nat |-> once(i)]
<1>1. ASSUME NEW i \in Nat PROVE at0(i) \in Nat
  OBVIOUS
<1>2. ASSUME NEW i \in Nat PROVE once(i) \in [Nat -> Nat]
  <2>1. at0(i) \in Nat
    BY <1>1
  <2> HIDE DEF at0
  <2>2. \A x \in Nat : 256 * x + at0(i) \in Nat
    BY <2>1
  <2> QED BY <2>2, Zenon
<1>3. step \in [Nat -> [Nat -> Nat]]
  <2> HIDE DEF once
  <2> QED BY <1>2
<1>4. PICK f \in [Nat -> Nat] : RepeatsForever(0, step, f)
  <2> HIDE DEF step
  <2>1. 0 \in Nat
    OBVIOUS
  <2> QED BY <1>3, <2>1, Repeated, Zenon
<1> DEFINE v == [i \in 0 .. Len(b) |-> f[i]]
<1>5. Len(b) \in Nat
  OBVIOUS
<1>6. v \in [0 .. Len(b) -> Nat] /\ v[0] = 0
  BY <1>4, <1>5 DEF RepeatsForever
<1>7. ASSUME NEW i \in 1 .. Len(b) PROVE v[i] = 256 * v[i - 1] + b[i]
  <2>1. i - 1 \in Nat /\ i - 1 < Len(b) /\ (i - 1) + 1 = i /\ i \in 0 .. Len(b) /\ i - 1 \in 0 .. Len(b)
    <3>1. \A n \in Nat : i \in 1 .. n =>
            i - 1 \in Nat /\ i - 1 < n /\ (i - 1) + 1 = i /\ i \in 0 .. n /\ i - 1 \in 0 .. n
      OBVIOUS
    <3> QED BY <1>5, <3>1, Zenon
  <2>2. f[(i - 1) + 1] = step[i - 1][f[i - 1]]
    <3> HIDE DEF step
    <3> QED BY <1>4, <2>1 DEF RepeatsForever
  <2>3. step[i - 1] = once(i - 1)
    <3> HIDE DEF once
    <3> QED BY <2>1
  <2>4. f[i - 1] \in Nat
    BY <2>1
  <2>5. once(i - 1)[f[i - 1]] = 256 * f[i - 1] + at0(i - 1)
    <3> HIDE DEF at0
    <3> QED BY <2>4, Zenon
  <2>6. at0(i - 1) = b[i]
    <3>1. (i - 1) + 1 \in 1 .. Len(b)
      BY <2>1
    <3> QED BY <2>1, <3>1
  <2>7. v[i] = f[i] /\ v[i - 1] = f[i - 1]
    BY <2>1
  <2> HIDE DEF at0, once, step, v
  <2> QED BY <2>1, <2>2, <2>3, <2>5, <2>6, <2>7, ZenonT(60)
<1>8. Values(b, v)
  <2> HIDE DEF v
  <2> QED BY <1>6, <1>7 DEF Values
<1> QED BY <1>8

LEMMA NumberNat == ASSUME NEW b \in Seq(Nat) PROVE Eth!NumberOf(b) \in Nat
<1>1. PICK v : Values(b, v)
  BY ValuesExist
<1>2. Eth!NumberOf(b) = v[Len(b)]
  BY <1>1, NumberIs
<1>3. v \in [0 .. Len(b) -> Nat] /\ Len(b) \in 0 .. Len(b)
  BY <1>1 DEF Values
<1> QED BY <1>2, <1>3

LEMMA NumberNone == Eth!NumberOf(<<>>) = 0
<1> DEFINE v == [i \in 0 .. 0 |-> 0]
<1>1. Len(<<>>) = 0 /\ <<>> \in Seq(Nat)
  OBVIOUS
<1>2. Values(<<>>, v)
  BY <1>1 DEF Values
<1>3. v[0] = 0
  OBVIOUS
<1> HIDE DEF v
<1>4. Eth!NumberOf(<<>>) = v[Len(<<>>)]
  BY <1>1, <1>2, NumberIs
<1> QED BY <1>1, <1>3, <1>4

(* One more byte.                                                          *)
LEMMA NumberMore ==
  ASSUME NEW b \in Seq(Nat), NEW x \in Nat
  PROVE  Eth!NumberOf(Append(b, x)) = 256 * Eth!NumberOf(b) + x
<1> DEFINE n == Len(b)
           c == Append(b, x)
<1>1. /\ n \in Nat /\ c \in Seq(Nat) /\ Len(c) = n + 1 /\ c[n + 1] = x
      /\ \A i \in 1 .. n : c[i] = b[i]
  BY AppendProperties, SMTT(30)
<1>2. PICK v : Values(b, v)
  BY ValuesExist
<1>3. v \in [0 .. n -> Nat] /\ v[0] = 0 /\ \A i \in 1 .. n : v[i] = 256 * v[i - 1] + b[i]
  BY <1>2 DEF Values
<1>4. Eth!NumberOf(b) = v[n]
  BY <1>2, NumberIs
<1> HIDE DEF n, c
<1> DEFINE w == [i \in 0 .. n + 1 |-> IF i <= n THEN v[i] ELSE 256 * v[n] + x]
<1>5. v[n] \in Nat /\ 256 * v[n] + x \in Nat
  BY <1>1, <1>3
<1>6. w \in [0 .. n + 1 -> Nat]
  BY <1>1, <1>3, <1>5
<1>7. w[0] = 0 /\ w[n + 1] = 256 * v[n] + x
  BY <1>1, <1>3
<1>8. ASSUME NEW i \in 1 .. n + 1 PROVE w[i] = 256 * w[i - 1] + c[i]
  <2>1. CASE i \in 1 .. n
    <3>1. w[i] = v[i] /\ w[i - 1] = v[i - 1]
      BY <1>1, <2>1
    <3> QED BY <1>1, <1>3, <2>1, <3>1
  <2>2. CASE i = n + 1
    <3>1. w[i] = 256 * v[n] + x /\ w[i - 1] = v[n]
      BY <1>1, <2>2
    <3> QED BY <1>1, <2>2, <3>1
  <2> QED BY <1>1, <2>1, <2>2
<1> HIDE DEF w
<1>9. Values(c, w)
  BY <1>1, <1>6, <1>7, <1>8 DEF Values
<1>10. Eth!NumberOf(c) = w[n + 1]
  BY <1>1, <1>9, NumberIs
<1> QED BY <1>4, <1>7, <1>10 DEF c

(* Zeros before it.                                                        *)
LEMMA NumberAfterZeros ==
  ASSUME NEW b \in Seq(Nat), NEW z \in Nat, NEW c \in Seq(Nat), Len(c) = z + Len(b),
         \A i \in 1 .. z : c[i] = 0, \A i \in 1 .. Len(b) : c[z + i] = b[i]
  PROVE  Eth!NumberOf(c) = Eth!NumberOf(b)
<1> DEFINE n == Len(b)
<1>1. n \in Nat /\ Len(c) = z + n /\ \A i \in 1 .. n : c[z + i] = b[i]
  OBVIOUS
<1>2. PICK v : Values(b, v)
  BY ValuesExist
<1>3. v \in [0 .. n -> Nat] /\ v[0] = 0 /\ \A i \in 1 .. n : v[i] = 256 * v[i - 1] + b[i]
  BY <1>2 DEF Values
<1>4. Eth!NumberOf(b) = v[n]
  BY <1>2, NumberIs
<1> HIDE DEF n
<1> DEFINE w == [i \in 0 .. z + n |-> IF i <= z THEN 0 ELSE v[i - z]]
<1>5. w \in [0 .. z + n -> Nat]
  <2>1. ASSUME NEW i \in 0 .. z + n, i > z PROVE v[i - z] \in Nat
    <3>1. i - z \in 0 .. n
      BY <1>1, <2>1
    <3> QED BY <1>3, <3>1
  <2> QED BY <2>1
<1>6. w[0] = 0 /\ w[z + n] = v[n]
  BY <1>1, <1>3
<1>7. ASSUME NEW i \in 1 .. z + n PROVE w[i] = 256 * w[i - 1] + c[i]
  <2>1. CASE i <= z
    <3>1. w[i] = 0 /\ w[i - 1] = 0 /\ i \in 1 .. z
      BY <1>1, <2>1
    <3> QED BY <3>1
  <2>2. CASE i > z
    <3>1. i - z \in 1 .. n /\ z + (i - z) = i /\ (i - z) - 1 = (i - 1) - z
      BY <1>1, <2>2
    <3>2. w[i] = v[i - z]
      BY <1>1, <2>2
    <3>3. w[i - 1] = v[(i - 1) - z]
      <4>1. CASE i - 1 = z
        BY <1>1, <1>3, <4>1
      <4>2. CASE i - 1 > z
        BY <1>1, <4>2
      <4> QED BY <2>2, <4>1, <4>2
    <3>4. v[i - z] = 256 * v[(i - z) - 1] + b[i - z] /\ c[i] = b[i - z]
      BY <1>1, <1>3, <3>1, ZenonT(60)
    <3> QED BY <3>1, <3>2, <3>3, <3>4
  <2> QED BY <2>1, <2>2
<1> HIDE DEF w
<1>8. Values(c, w)
  BY <1>1, <1>5, <1>6, <1>7 DEF Values
<1> QED BY <1>1, <1>4, <1>6, <1>8, NumberIs

-----------------------------------------------------------------------------
(* HexStr2CharPtr makes a byte of two digits, with a zero before an odd    *)
(* number of them.                                                         *)
AByte == 0 .. 255

LEMMA TwoDigits ==
  ASSUME NEW x \in HexDigit, NEW y \in HexDigit
  PROVE  16 * x + y \in AByte /\ (16 * x + y) \div 16 = x /\ (16 * x + y) % 16 = y
BY DEF HexDigit, AByte

LEMMA DigitsOfByte ==
  ASSUME NEW b \in AByte
  PROVE  b \div 16 \in HexDigit /\ b % 16 \in HexDigit /\ 16 * (b \div 16) + (b % 16) = b
<1>1. b \in Nat
  BY DEF AByte
<1>2. b = 16 * (b \div 16) + (b % 16)
  BY <1>1, DividedBy16
<1>3. b % 16 \in HexDigit
  BY <1>1, HexArith
<1>4. b \div 16 \in HexDigit
  BY DEF AByte, HexDigit
<1> QED BY <1>2, <1>3, <1>4

LEMMA Doubled == ASSUME NEW m \in Nat PROVE (2 * m) \div 2 = m
OBVIOUS

LEMMA RoundedUp ==
  ASSUME NEW m \in Nat
  PROVE  \E h \in Nat : /\ m + (m % 2) = 2 * h
                        /\ m % 2 \in {0, 1}
<1>1. m = 2 * (m \div 2) + (m % 2)
  OBVIOUS
<1>2. m \div 2 \in Nat /\ m % 2 \in {0, 1}
  OBVIOUS
<1>3. m + (m % 2) = 2 * ((m \div 2) + (m % 2)) /\ (m \div 2) + (m % 2) \in Nat
  BY <1>1, <1>2
<1> QED BY <1>2, <1>3

Padded(str, p) ==
  /\ p \in Seq(HexDigit) /\ Len(p) = Len(str) + (Len(str) % 2)
  /\ Len(str) % 2 = 0 => p = str
  /\ Len(str) % 2 = 1 => p[1] = 0 /\ \A i \in 1 .. Len(str) : p[i + 1] = str[i]

PairsOf(p) == [i \in 1 .. Len(p) \div 2 |-> 16 * p[2 * i - 1] + p[2 * i]]

LEMMA ZeroBefore ==
  ASSUME NEW str \in Seq(HexDigit), Len(str) % 2 = 1, NEW z \in Seq(HexDigit), Len(z) = 1, z[1] = 0
  PROVE  Padded(str, z \o str)
<1> DEFINE p == z \o str
<1>1. /\ p \in Seq(HexDigit) /\ Len(p) = Len(z) + Len(str)
      /\ \A i \in 1 .. Len(z) : p[i] = z[i]
      /\ \A i \in 1 .. Len(str) : p[Len(z) + i] = str[i]
  BY Extended, SMTT(60)
<1> HIDE DEF p
<1>2. Len(str) \in Nat
  OBVIOUS
<1>3. Len(p) = Len(str) + (Len(str) % 2)
  BY <1>1, <1>2
<1>4. p[1] = 0
  BY <1>1
<1>5. \A i \in 1 .. Len(str) : p[i + 1] = str[i]
  BY <1>1, <1>2
<1>6. Len(str) % 2 # 0
  OBVIOUS
<1> QED BY <1>1, <1>3, <1>4, <1>5, <1>6 DEF Padded, p

LEMMA HexPadded ==
  ASSUME NEW str \in Seq(HexDigit)
  PROVE  \E p : Padded(str, p) /\ Eth!HexStr2CharPtr(str) = PairsOf(p)
<1>1. Len(str) \in Nat /\ Len(str) % 2 \in {0, 1}
  OBVIOUS
<1>2. CASE Len(str) % 2 = 0
  <2>1. ~(Len(str) % 2 = 1)
    BY <1>2
  <2>2. PICK z : z = <<0>> \o str
    OBVIOUS
  <2>3. Eth!HexStr2CharPtr(str) = PairsOf(IF Len(str) % 2 = 1 THEN z ELSE str)
    BY <2>2, Zenon DEF Eth!HexStr2CharPtr, PairsOf
  <2>4. Eth!HexStr2CharPtr(str) = PairsOf(str)
    BY <2>1, <2>3, Zenon
  <2>5. Padded(str, str)
    BY <1>1, <1>2 DEF Padded
  <2> QED BY <2>4, <2>5
<1>3. CASE Len(str) % 2 = 1
  <2>1. PICK z : z = <<0>>
    OBVIOUS
  <2>2. z \in Seq(HexDigit) /\ Len(z) = 1 /\ z[1] = 0
    BY <2>1 DEF HexDigit
  <2>3. Eth!HexStr2CharPtr(str) = PairsOf(z \o str)
    BY <1>3, <2>1 DEF Eth!HexStr2CharPtr, PairsOf
  <2>4. Padded(str, z \o str)
    BY <1>3, <2>2, ZeroBefore
  <2> QED BY <2>3, <2>4
<1> QED BY <1>1, <1>2, <1>3

LEMMA PairsAre ==
  ASSUME NEW p \in Seq(HexDigit), NEW h \in Nat, Len(p) = 2 * h
  PROVE  /\ PairsOf(p) \in Seq(AByte) /\ Len(PairsOf(p)) = h
         /\ \A i \in 1 .. h : PairsOf(p)[i] = 16 * p[2 * i - 1] + p[2 * i]
         /\ \A j \in 1 .. 2 * h : Eth!Digit(PairsOf(p), j) = p[j]
<1>1. PairsOf(p) = [i \in 1 .. h |-> 16 * p[2 * i - 1] + p[2 * i]]
  <2>1. Len(p) \div 2 = h
    BY Doubled
  <2> QED BY <2>1 DEF PairsOf
<1>2. ASSUME NEW i \in 1 .. h
      PROVE  /\ p[2 * i - 1] \in HexDigit /\ p[2 * i] \in HexDigit
             /\ PairsOf(p)[i] = 16 * p[2 * i - 1] + p[2 * i]
  <2>1. 2 * i - 1 \in 1 .. Len(p) /\ 2 * i \in 1 .. Len(p)
    OBVIOUS
  <2> QED BY <1>1, <2>1
<1>3. ASSUME NEW i \in 1 .. h
      PROVE  /\ PairsOf(p)[i] \in AByte
             /\ PairsOf(p)[i] \div 16 = p[2 * i - 1] /\ PairsOf(p)[i] % 16 = p[2 * i]
  <2>1. /\ 16 * p[2 * i - 1] + p[2 * i] \in AByte
        /\ (16 * p[2 * i - 1] + p[2 * i]) \div 16 = p[2 * i - 1]
        /\ (16 * p[2 * i - 1] + p[2 * i]) % 16 = p[2 * i]
    BY <1>2, TwoDigits
  <2> QED BY <1>2, <2>1
<1>4. PairsOf(p) \in [1 .. h -> AByte]
  BY <1>1, <1>3
<1>5. PairsOf(p) \in Seq(AByte) /\ Len(PairsOf(p)) = h
  BY <1>4
<1>6. ASSUME NEW j \in 1 .. 2 * h PROVE Eth!Digit(PairsOf(p), j) = p[j]
  <2>1. CASE j % 2 = 1
    <3>1. (j + 1) \div 2 \in 1 .. h /\ 2 * ((j + 1) \div 2) - 1 = j
      BY <2>1
    <3>2. Eth!Digit(PairsOf(p), j) = PairsOf(p)[(j + 1) \div 2] \div 16
      BY <2>1 DEF Eth!Digit
    <3> QED BY <1>3, <3>1, <3>2
  <2>2. CASE j % 2 = 0
    <3>1. j \div 2 \in 1 .. h /\ 2 * (j \div 2) = j
      BY <2>2
    <3>2. Eth!Digit(PairsOf(p), j) = PairsOf(p)[j \div 2] % 16
      BY <2>2 DEF Eth!Digit
    <3> QED BY <1>3, <3>1, <3>2
  <2> QED BY <2>1, <2>2
<1> QED BY <1>2, <1>5, <1>6

LEMMA HexBytes ==
  ASSUME NEW str \in Seq(HexDigit)
  PROVE  /\ Eth!HexStr2CharPtr(str) \in Seq(AByte)
         /\ 2 * Len(Eth!HexStr2CharPtr(str)) = Len(str) + (Len(str) % 2)
         /\ Eth!Spells(Eth!HexStr2CharPtr(str), str)
<1> DEFINE b == Eth!HexStr2CharPtr(str)
<1>1. PICK p : Padded(str, p) /\ b = PairsOf(p)
  BY HexPadded
<1>2. Len(str) \in Nat /\ Len(str) % 2 \in {0, 1}
  OBVIOUS
<1>3. PICK h \in Nat : Len(str) + (Len(str) % 2) = 2 * h
  BY <1>2, RoundedUp
<1>4. p \in Seq(HexDigit) /\ Len(p) = 2 * h
  BY <1>1, <1>3 DEF Padded
<1>5. b \in Seq(AByte) /\ Len(b) = h /\ \A j \in 1 .. 2 * h : Eth!Digit(b, j) = p[j]
  BY <1>1, <1>4, PairsAre
<1> HIDE DEF b
<1> DEFINE zeros == 2 * Len(b) - Len(str)
<1>6. zeros = Len(str) % 2 /\ 2 * Len(b) = 2 * h
  <2>1. 2 * h - Len(str) = Len(str) % 2
    BY <1>2, <1>3
  <2> QED BY <1>5, <2>1
<1>7. ASSUME NEW j \in 1 .. 2 * h PROVE Eth!Digit(b, j) = IF j <= zeros THEN 0 ELSE str[j - zeros]
  <2>1. CASE Len(str) % 2 = 0
    <3>1. p = str /\ zeros = 0
      BY <1>1, <1>6, <2>1 DEF Padded
    <3> HIDE DEF zeros
    <3> QED BY <1>5, <3>1
  <2>2. CASE Len(str) % 2 = 1
    <3>1. p[1] = 0 /\ zeros = 1 /\ \A i \in 1 .. Len(str) : p[i + 1] = str[i]
      BY <1>1, <1>6, <2>2 DEF Padded
    <3> HIDE DEF zeros
    <3>2. CASE j = 1
      BY <1>5, <3>1, <3>2
    <3>3. CASE j > 1
      <4>1. j - 1 \in 1 .. Len(str) /\ (j - 1) + 1 = j
        BY <1>2, <1>3, <2>2, <3>3
      <4>2. p[j] = str[j - 1]
        BY <3>1, <4>1
      <4> QED BY <1>5, <3>1, <3>3, <4>2
    <3> QED BY <3>2, <3>3
  <2> QED BY <1>2, <2>1, <2>2
<1>8. Eth!EndsIn(b, str)
  BY <1>2, <1>6, <1>7 DEF Eth!EndsIn
<1>9. Eth!Spells(b, str)
  BY <1>2, <1>3, <1>5, <1>8 DEF Eth!Spells
<1> QED BY <1>3, <1>5, <1>9 DEF b

LEMMA HexEven ==
  ASSUME NEW str \in Seq(HexDigit), NEW h \in Nat, Len(str) = 2 * h
  PROVE  Eth!HexStr2CharPtr(str) = PairsOf(str)
<1>1. PICK p : Padded(str, p) /\ Eth!HexStr2CharPtr(str) = PairsOf(p)
  BY HexPadded
<1>2. Len(str) % 2 = 0
  OBVIOUS
<1> QED BY <1>1, <1>2 DEF Padded

(* CharPtr2HexStr gives the digits of every byte, and HexStr2CharPtr the   *)
(* bytes back.                                                             *)
LEMMA RoundTrip ==
  ASSUME NEW v \in Seq(AByte)
  PROVE  /\ Eth!CharPtr2HexStr(v) \in Seq(HexDigit) /\ Len(Eth!CharPtr2HexStr(v)) = 2 * Len(v)
         /\ \A i \in 1 .. Len(v) : /\ Eth!CharPtr2HexStr(v)[2 * i - 1] = v[i] \div 16
                                   /\ Eth!CharPtr2HexStr(v)[2 * i] = v[i] % 16
         /\ Eth!HexStr2CharPtr(Eth!CharPtr2HexStr(v)) = v
<1> DEFINE c == Eth!CharPtr2HexStr(v)
<1>1. PICK n \in Nat : n = Len(v)
  OBVIOUS
<1>2. c = [i \in 1 .. 2 * n |-> IF i % 2 = 1 THEN v[(i + 1) \div 2] \div 16 ELSE v[i \div 2] % 16]
  BY <1>1 DEF Eth!CharPtr2HexStr
<1> HIDE DEF c
<1>3. ASSUME NEW i \in 1 .. 2 * n PROVE c[i] \in HexDigit
  <2>1. CASE i % 2 = 1
    <3>1. (i + 1) \div 2 \in 1 .. n
      BY <2>1
    <3>2. c[i] = v[(i + 1) \div 2] \div 16 /\ v[(i + 1) \div 2] \in AByte
      BY <1>1, <1>2, <2>1, <3>1
    <3> QED BY <3>2, DigitsOfByte
  <2>2. CASE i % 2 = 0
    <3>1. i \div 2 \in 1 .. n
      BY <2>2
    <3>2. c[i] = v[i \div 2] % 16 /\ v[i \div 2] \in AByte
      BY <1>1, <1>2, <2>2, <3>1
    <3> QED BY <3>2, DigitsOfByte
  <2> QED BY <2>1, <2>2
<1>4. c \in [1 .. 2 * n -> HexDigit]
  BY <1>2, <1>3
<1>5. c \in Seq(HexDigit) /\ Len(c) = 2 * n
  BY <1>4
<1>6. ASSUME NEW i \in 1 .. n PROVE c[2 * i - 1] = v[i] \div 16 /\ c[2 * i] = v[i] % 16
  <2>1. /\ 2 * i - 1 \in 1 .. 2 * n /\ (2 * i - 1) % 2 = 1 /\ ((2 * i - 1) + 1) \div 2 = i
        /\ 2 * i \in 1 .. 2 * n /\ (2 * i) % 2 = 0 /\ (2 * i) \div 2 = i
    OBVIOUS
  <2> QED BY <1>2, <2>1
<1>7. PairsOf(c) \in Seq(AByte) /\ Len(PairsOf(c)) = n /\ \A i \in 1 .. n : PairsOf(c)[i] = v[i]
  <2>1. /\ PairsOf(c) \in Seq(AByte) /\ Len(PairsOf(c)) = n
        /\ \A i \in 1 .. n : PairsOf(c)[i] = 16 * c[2 * i - 1] + c[2 * i]
    BY <1>5, PairsAre
  <2>2. ASSUME NEW i \in 1 .. n PROVE PairsOf(c)[i] = v[i]
    <3>1. v[i] \in AByte
      BY <1>1
    <3>2. 16 * (v[i] \div 16) + (v[i] % 16) = v[i]
      BY <3>1, DigitsOfByte
    <3> QED BY <1>6, <2>1, <3>2
  <2> QED BY <2>1, <2>2
<1>8. PairsOf(c) = v
  <2>1. Len(PairsOf(c)) = Len(v) /\ \A i \in 1 .. Len(PairsOf(c)) : PairsOf(c)[i] = v[i]
    BY <1>1, <1>7
  <2> QED BY <1>7, <2>1, SeqEqual, ZenonT(30)
<1>9. Eth!HexStr2CharPtr(c) = PairsOf(c)
  BY <1>5, HexEven
<1> QED BY <1>1, <1>5, <1>6, <1>8, <1>9 DEF c

-----------------------------------------------------------------------------
(* Two more digits are one more byte.                                      *)
LEMMA PaddedMore ==
  ASSUME NEW d \in Seq(HexDigit), NEW e \in Seq(HexDigit), Len(e) = Len(d) + 2,
         \A i \in 1 .. Len(d) : e[i] = d[i], NEW p, NEW q, Padded(d, p), Padded(e, q)
  PROVE  /\ Len(q) = Len(p) + 2 /\ \A i \in 1 .. Len(p) : q[i] = p[i]
         /\ q[Len(p) + 1] = e[Len(d) + 1] /\ q[Len(p) + 2] = e[Len(d) + 2]
<1>1. PICK n \in Nat : n = Len(d)
  OBVIOUS
<1>2. (n + 2) % 2 = n % 2 /\ n % 2 \in {0, 1} /\ Len(e) = n + 2
  BY <1>1
<1>3. CASE n % 2 = 0
  <2>1. p = d /\ q = e
    BY <1>1, <1>2, <1>3 DEF Padded
  <2> QED BY <2>1
<1>4. CASE n % 2 = 1
  <2>1. /\ p[1] = 0 /\ (\A i \in 1 .. n : p[i + 1] = d[i]) /\ Len(p) = n + 1
        /\ q[1] = 0 /\ (\A i \in 1 .. n + 2 : q[i + 1] = e[i]) /\ Len(q) = (n + 2) + 1
    BY <1>1, <1>2, <1>4 DEF Padded
  <2>2. ASSUME NEW i \in 1 .. n + 1 PROVE q[i] = p[i]
    <3>1. CASE i = 1
      BY <2>1, <3>1
    <3>2. CASE i > 1
      <4>1. i - 1 \in 1 .. n /\ i - 1 \in 1 .. n + 2 /\ (i - 1) + 1 = i
        BY <3>2
      <4> QED BY <1>1, <2>1, <4>1
    <3> QED BY <3>1, <3>2
  <2>3. n + 1 \in 1 .. n + 2 /\ n + 2 \in 1 .. n + 2 /\ (n + 1) + 1 = n + 2
    OBVIOUS
  <2>4. q[(n + 1) + 1] = e[n + 1] /\ q[(n + 1) + 2] = e[n + 2]
    <3>1. (n + 1) + 2 = (n + 2) + 1
      OBVIOUS
    <3> QED BY <2>1, <2>3, <3>1
  <2> QED BY <1>1, <2>1, <2>2, <2>4
<1> QED BY <1>2, <1>3, <1>4

LEMMA HexMore ==
  ASSUME NEW d \in Seq(HexDigit), NEW e \in Seq(HexDigit), Len(e) = Len(d) + 2,
         \A i \in 1 .. Len(d) : e[i] = d[i]
  PROVE  Eth!HexStr2CharPtr(e) = Append(Eth!HexStr2CharPtr(d), 16 * e[Len(d) + 1] + e[Len(d) + 2])
<1>1. PICK p : Padded(d, p) /\ Eth!HexStr2CharPtr(d) = PairsOf(p)
  BY HexPadded
<1>2. PICK q : Padded(e, q) /\ Eth!HexStr2CharPtr(e) = PairsOf(q)
  BY HexPadded
<1>3. PICK h \in Nat : Len(d) + (Len(d) % 2) = 2 * h
  <2>1. Len(d) \in Nat
    OBVIOUS
  <2> QED BY <2>1, RoundedUp
<1>4. p \in Seq(HexDigit) /\ Len(p) = 2 * h /\ q \in Seq(HexDigit)
  BY <1>1, <1>2, <1>3 DEF Padded
<1> DEFINE x == e[Len(d) + 1]
           y == e[Len(d) + 2]
<1>5. Len(q) = Len(p) + 2 /\ (\A i \in 1 .. Len(p) : q[i] = p[i]) /\ q[Len(p) + 1] = x /\ q[Len(p) + 2] = y
  BY <1>1, <1>2, PaddedMore
<1> HIDE DEF x, y
<1>6. Len(q) = 2 * (h + 1) /\ h + 1 \in Nat /\ q[2 * h + 1] = x /\ q[2 * h + 2] = y
      /\ \A i \in 1 .. 2 * h : q[i] = p[i]
  BY <1>4, <1>5
<1> DEFINE a == PairsOf(p)
           b == PairsOf(q)
           c == Append(a, 16 * x + y)
<1>7. a \in Seq(AByte) /\ Len(a) = h /\ \A i \in 1 .. h : a[i] = 16 * p[2 * i - 1] + p[2 * i]
  BY <1>4, PairsAre
<1>8. b \in Seq(AByte) /\ Len(b) = h + 1 /\ \A i \in 1 .. h + 1 : b[i] = 16 * q[2 * i - 1] + q[2 * i]
  BY <1>4, <1>6, PairsAre
<1>9. b[h + 1] = 16 * x + y
  <2>1. h + 1 \in 1 .. h + 1 /\ 2 * (h + 1) - 1 = 2 * h + 1 /\ 2 * (h + 1) = 2 * h + 2
    OBVIOUS
  <2> HIDE DEF b
  <2> QED BY <1>6, <1>8, <2>1
<1>10. 16 * x + y \in AByte
  <2>1. h + 1 \in 1 .. Len(b)
    BY <1>8
  <2> HIDE DEF b
  <2> QED BY <1>8, <1>9, <2>1
<1> HIDE DEF a, b
<1>11. /\ c \in Seq(AByte) /\ Len(c) = h + 1 /\ c[h + 1] = 16 * x + y
       /\ \A i \in 1 .. h : c[i] = a[i]
  BY <1>7, <1>10, AppendProperties, SMTT(30)
<1> HIDE DEF c
<1>12. ASSUME NEW i \in 1 .. h + 1 PROVE b[i] = c[i]
  <2>1. CASE i \in 1 .. h
    <3>1. 2 * i - 1 \in 1 .. 2 * h /\ 2 * i \in 1 .. 2 * h
      BY <2>1
    <3>2. q[2 * i - 1] = p[2 * i - 1] /\ q[2 * i] = p[2 * i]
      BY <1>6, <3>1
    <3>3. b[i] = 16 * q[2 * i - 1] + q[2 * i] /\ a[i] = 16 * p[2 * i - 1] + p[2 * i] /\ c[i] = a[i]
      BY <1>7, <1>8, <1>11, <2>1
    <3> QED BY <3>2, <3>3
  <2>2. CASE i = h + 1
    BY <1>9, <1>11, <2>2
  <2> QED BY <2>1, <2>2
<1>13. b = c
  <2>1. Len(b) = Len(c) /\ \A i \in 1 .. Len(b) : b[i] = c[i]
    BY <1>8, <1>11, <1>12
  <2> QED BY <1>8, <1>11, <2>1, SeqEqual, ZenonT(30)
<1> QED BY <1>1, <1>2, <1>13 DEF a, b, c, x, y

-----------------------------------------------------------------------------
(* The bytes of a number: its recursion by bytes, and that they write it.  *)
LEMMA DividedBy256 ==
  ASSUME NEW n \in Nat, NEW a \in HexDigit, NEW b \in HexDigit, NEW l \in Nat, n = 16 * (16 * l + b) + a
  PROVE  l = n \div 256 /\ 16 * b + a = n % 256
<1>1. 16 * b + a \in 0 .. 255
  BY DEF HexDigit
<1>2. n = 256 * l + (16 * b + a)
  BY DEF HexDigit
<1>3. \A c \in 0 .. 255 : n = 256 * l + c => l = n \div 256 /\ c = n % 256
  BY SMTT(60)
<1> QED BY <1>1, <1>2, <1>3

LEMMA DividedBy256Nat == ASSUME NEW n \in Nat PROVE n = 256 * (n \div 256) + (n % 256)
OBVIOUS

LEMMA OneByte ==
  ASSUME NEW s \in Seq(AByte), Len(s) = 1
  PROVE  s = <<s[1]>>
OBVIOUS

LEMMA NumberSmall == ASSUME NEW n \in Nat, n < 256 PROVE Eth!Number(n) = <<n>>
<1> DEFINE h == Eth!numberToHexString[n]
<1>1. h = IF n < 16 THEN <<n>> ELSE Append(Eth!numberToHexString[n \div 16], n % 16)
  BY HexIs
<1>2. CASE n < 16
  <2>1. h = <<n>> /\ n \in HexDigit
    BY <1>1, <1>2 DEF HexDigit
  <2> HIDE DEF h
  <2>2. h \in Seq(HexDigit) /\ Len(h) = 1 /\ h[1] = n
    BY <2>1
  <2>3. PICK p : Padded(h, p) /\ Eth!HexStr2CharPtr(h) = PairsOf(p)
    BY <2>2, HexPadded
  <2>4. p \in Seq(HexDigit) /\ Len(p) = 2 * 1 /\ p[1] = 0 /\ p[2] = n
    BY <2>2, <2>3 DEF Padded
  <2>5. PairsOf(p) \in Seq(AByte) /\ Len(PairsOf(p)) = 1 /\ PairsOf(p)[1] = 16 * p[2 * 1 - 1] + p[2 * 1]
    <3>1. 1 \in Nat /\ 1 \in 1 .. 1
      OBVIOUS
    <3> QED BY <2>4, <3>1, PairsAre
  <2>6. PairsOf(p)[1] = n
    BY <2>4, <2>5
  <2>7. PairsOf(p) = <<n>>
    BY <2>5, <2>6, OneByte
  <2> QED BY <2>3, <2>7, Zenon DEF Eth!Number, h
<1>3. CASE n >= 16
  <2>1. PICK m \in Nat : m = n \div 16 /\ m < 16
    BY <1>3
  <2>2. Eth!numberToHexString[m] = <<m>>
    BY <2>1, HexIs
  <2>3. PICK a \in HexDigit : a = n % 16
    BY HexArith
  <2>4. h = Append(<<m>>, a)
    BY <1>1, <1>3, <2>1, <2>2, <2>3
  <2> HIDE DEF h
  <2>5. m \in HexDigit
    BY <2>1 DEF HexDigit
  <2>6. h \in Seq(HexDigit) /\ Len(h) = 2 * 1 /\ h[1] = m /\ h[2] = a
    BY <2>4, <2>5
  <2>7. Eth!HexStr2CharPtr(h) = PairsOf(h)
    <3>1. 1 \in Nat
      OBVIOUS
    <3> QED BY <2>6, <3>1, HexEven
  <2>8. PairsOf(h) \in Seq(AByte) /\ Len(PairsOf(h)) = 1 /\ PairsOf(h)[1] = 16 * h[2 * 1 - 1] + h[2 * 1]
    <3>1. 1 \in Nat /\ 1 \in 1 .. 1
      OBVIOUS
    <3> QED BY <2>6, <3>1, PairsAre
  <2>9. PairsOf(h)[1] = n
    <3>1. n = 16 * (n \div 16) + (n % 16)
      BY DividedBy16
    <3> QED BY <2>1, <2>3, <2>6, <2>8, <3>1
  <2>10. PairsOf(h) = <<n>>
    BY <2>8, <2>9, OneByte
  <2> QED BY <2>7, <2>10, Zenon DEF Eth!Number, h
<1> QED BY <1>2, <1>3

LEMMA NumberBig ==
  ASSUME NEW n \in Nat, n >= 256
  PROVE  Eth!Number(n) = Append(Eth!Number(n \div 256), n % 256)
<1>1. PICK m \in Nat : m = n \div 16 /\ m >= 16
  OBVIOUS
<1>2. PICK l \in Nat : l = m \div 16
  BY <1>1
<1>3. PICK a \in HexDigit : a = n % 16
  BY HexArith
<1>4. PICK b \in HexDigit : b = m % 16
  BY HexArith
<1>5. l = n \div 256 /\ 16 * b + a = n % 256
  <2>1. n = 16 * m + a
    BY <1>1, <1>3, DividedBy16
  <2>2. m = 16 * l + b
    BY <1>2, <1>4, DividedBy16
  <2>3. n = 16 * (16 * l + b) + a
    BY <2>1, <2>2
  <2> QED BY <2>3, DividedBy256
<1> DEFINE d == Eth!numberToHexString[l]
           e == Eth!numberToHexString[n]
<1>6. d \in Seq(HexDigit) /\ e \in Seq(HexDigit)
  BY HexType
<1>7. e = Append(Append(d, b), a)
  <2>1. Eth!numberToHexString[m] = Append(d, b)
    <3>1. Eth!numberToHexString[m]
            = IF m < 16 THEN <<m>> ELSE Append(Eth!numberToHexString[m \div 16], m % 16)
      BY HexIs
    <3>2. ~(m < 16)
      BY <1>1
    <3> QED BY <1>2, <1>4, <3>1, <3>2
  <2>2. e = IF n < 16 THEN <<n>> ELSE Append(Eth!numberToHexString[n \div 16], n % 16)
    BY HexIs
  <2>3. e = Append(Eth!numberToHexString[m], a)
    <3> HIDE DEF e
    <3>1. ~(n < 16)
      OBVIOUS
    <3> QED BY <1>1, <1>3, <2>2, <3>1
  <2> HIDE DEF e, d
  <2> QED BY <2>1, <2>3
<1> HIDE DEF d, e
<1>8. Append(d, b) \in Seq(HexDigit) /\ Len(Append(d, b)) = Len(d) + 1 /\ Append(d, b)[Len(d) + 1] = b
      /\ \A i \in 1 .. Len(d) : Append(d, b)[i] = d[i]
  BY <1>6, AppendProperties, SMTT(30)
<1> DEFINE c == Append(d, b)
<1>9. PICK g : g = c
  OBVIOUS
<1> HIDE DEF c
<1>10. g \in Seq(HexDigit) /\ Len(g) = Len(d) + 1 /\ g[Len(d) + 1] = b /\ \A i \in 1 .. Len(d) : g[i] = d[i]
  BY <1>8, <1>9 DEF c
<1>11. e = Append(g, a)
  BY <1>7, <1>9 DEF c
<1>12. Len(e) = Len(g) + 1 /\ e[Len(g) + 1] = a /\ \A i \in 1 .. Len(g) : e[i] = g[i]
  BY <1>10, <1>11, AppendProperties, SMTT(30)
<1>13. Len(e) = Len(d) + 2 /\ (\A i \in 1 .. Len(d) : e[i] = d[i]) /\ e[Len(d) + 1] = b /\ e[Len(d) + 2] = a
  <2>1. PICK x \in Nat : x = Len(d)
    BY <1>6
  <2> QED BY <1>10, <1>12, <2>1
<1>14. Eth!HexStr2CharPtr(e) = Append(Eth!HexStr2CharPtr(d), 16 * e[Len(d) + 1] + e[Len(d) + 2])
  BY <1>6, <1>13, HexMore
<1>15. Eth!HexStr2CharPtr(e) = Append(Eth!HexStr2CharPtr(d), n % 256)
  BY <1>5, <1>13, <1>14
<1>16. Eth!Number(n) = Eth!HexStr2CharPtr(e) /\ Eth!Number(l) = Eth!HexStr2CharPtr(d)
  BY Zenon DEF Eth!Number, d, e
<1> QED BY <1>5, <1>15, <1>16, Zenon

LEMMA BytesAreNat == ASSUME NEW s \in Seq(AByte) PROVE s \in Seq(Nat)
<1>1. Len(s) \in Nat /\ s \in [1 .. Len(s) -> AByte]
  OBVIOUS
<1>2. \A i \in 1 .. Len(s) : s[i] \in Nat
  <2>1. \A x \in AByte : x \in Nat
    BY DEF AByte
  <2> QED BY <1>1, <2>1
<1>3. s = [i \in 1 .. Len(s) |-> s[i]]
  BY <1>1
<1>4. s \in [1 .. Len(s) -> Nat]
  BY <1>1, <1>2, <1>3
<1> QED BY <1>1, <1>4

LEMMA NumberOfOne == ASSUME NEW n \in Nat PROVE Eth!NumberOf(<<n>>) = n
<1>1. PICK e : e = <<>>
  OBVIOUS
<1>2. e \in Seq(Nat)
  BY <1>1
<1>3. Eth!NumberOf(e) = 0
  BY <1>1, NumberNone
<1>4. PICK t : t = Append(e, n)
  OBVIOUS
<1>5. t = <<n>>
  BY <1>1, <1>4
<1>6. Eth!NumberOf(t) = 256 * 0 + n
  BY <1>2, <1>3, <1>4, NumberMore
<1>7. Eth!NumberOf(t) = n
  BY <1>6
<1> QED BY <1>5, <1>7, Zenon

(* numberToHexString and HexStr2CharPtr lose nothing: the bytes write the  *)
(* number, and begin with a zero only for zero.                            *)
WellWritten(bytes, n) ==
  /\ bytes \in Seq(AByte) /\ Len(bytes) > 0 /\ Eth!NumberOf(bytes) = n
  /\ IF n = 0 THEN Len(bytes) = 1 ELSE bytes[1] # 0

LEMMA OneWell == ASSUME NEW n \in AByte PROVE WellWritten(<<n>>, n)
<1>1. PICK s : s = <<n>>
  OBVIOUS
<1>2. s \in Seq(AByte) /\ Len(s) = 1 /\ s[1] = n
  BY <1>1
<1>3. n \in Nat
  BY DEF AByte
<1>4. Eth!NumberOf(s) = n
  BY <1>1, <1>3, NumberOfOne, Zenon
<1>5. WellWritten(s, n)
  BY <1>2, <1>4 DEF WellWritten
<1> QED BY <1>1, <1>5, Zenon

LEMMA MoreWell ==
  ASSUME NEW l \in Nat, l > 0, NEW s, WellWritten(s, l), NEW a \in AByte
  PROVE  WellWritten(Append(s, a), 256 * l + a)
<1>1. s \in Seq(AByte) /\ Len(s) > 0 /\ Eth!NumberOf(s) = l /\ s[1] # 0
  BY DEF WellWritten
<1>2. s \in Seq(Nat) /\ a \in Nat
  BY <1>1, BytesAreNat DEF AByte
<1>3. Eth!NumberOf(Append(s, a)) = 256 * l + a
  BY <1>1, <1>2, NumberMore
<1>4. PICK t : t = Append(s, a)
  OBVIOUS
<1>5. t \in Seq(AByte) /\ Len(t) = Len(s) + 1 /\ \A i \in 1 .. Len(s) : t[i] = s[i]
  BY <1>1, <1>4, AppendProperties, SMTT(30)
<1>6. Len(t) > 0 /\ t[1] # 0
  BY <1>1, <1>5
<1>7. 256 * l + a # 0
  BY <1>2
<1>8. Eth!NumberOf(t) = 256 * l + a
  BY <1>3, <1>4
<1>9. WellWritten(t, 256 * l + a)
  BY <1>5, <1>6, <1>7, <1>8 DEF WellWritten
<1> QED BY <1>4, <1>9, Zenon

LEMMA NumberWell == ASSUME NEW n \in Nat PROVE WellWritten(Eth!Number(n), n)
<1> DEFINE Well == {m \in Nat : WellWritten(Eth!Number(m), m)}
<1>1. ASSUME NEW m \in Nat, \A l \in Nat : l < m => l \in Well PROVE m \in Well
  <2>1. CASE m < 256
    <3>1. Eth!Number(m) = <<m>> /\ m \in AByte
      BY <2>1, NumberSmall DEF AByte
    <3>2. WellWritten(Eth!Number(m), m)
      BY <3>1, OneWell, Zenon
    <3> QED BY <3>2
  <2>2. CASE m >= 256
    <3>1. PICK l \in Nat : l = m \div 256 /\ l < m /\ l > 0
      BY <2>2
    <3>2. PICK a \in AByte : a = m % 256
      BY DEF AByte
    <3>3. m = 256 * l + a
      BY <3>1, <3>2, DividedBy256Nat
    <3>4. WellWritten(Eth!Number(l), l)
      BY <1>1, <3>1
    <3>5. WellWritten(Append(Eth!Number(l), a), 256 * l + a)
      BY <3>1, <3>4, MoreWell
    <3>6. Eth!Number(m) = Append(Eth!Number(l), a)
      BY <2>2, <3>1, <3>2, NumberBig
    <3>7. WellWritten(Eth!Number(m), m)
      BY <3>3, <3>5, <3>6, Zenon
    <3> QED BY <3>7
  <2> QED BY <2>1, <2>2
<1>2. Nat \subseteq Well
  <2> HIDE DEF Well
  <2> QED BY <1>1, StrongInduction
<1> QED BY <1>2

LEMMA WellWrites ==
  ASSUME NEW n \in Nat, NEW s, WellWritten(s, n)
  PROVE  s \in Seq(AByte) /\ Eth!Writes(s, n) /\ (s[1] = 0 => n = 0)
<1>1. s \in Seq(AByte) /\ Eth!NumberOf(s) = n /\ (n = 0 => Len(s) = 1) /\ (n # 0 => s[1] # 0)
  BY DEF WellWritten
<1>2. Len(s) \in Nat
  BY <1>1
<1>3. Eth!Writes(s, n)
  BY <1>1, <1>2 DEF Eth!Writes
<1> QED BY <1>1, <1>3

LEMMA NumberWrites ==
  ASSUME NEW n \in Nat
  PROVE  /\ Eth!Number(n) \in Seq(AByte) /\ Eth!Writes(Eth!Number(n), n)
         /\ Eth!Number(n)[1] = 0 => n = 0
BY NumberWell, WellWrites, Zenon

LEMMA NoBytesWrite == Eth!Writes(<<>>, 0)
BY NumberNone DEF Eth!Writes

-----------------------------------------------------------------------------
LEMMA LengthIs ==
  ASSUME NEW n \in TwoBytes
  PROVE  \E m \in Nat : m = Len(LengthBytes(n)) /\ m > 0 /\ TlvSize(n) = 1 + m + n
<1>1. n \in Nat
  BY LengthNat
<1>2. Len(LengthBytes(n)) \in 1 .. 3 /\ TlvSize(n) = 1 + Len(LengthBytes(n)) + n
  BY <1>1, LengthFacts
<1> QED BY <1>2

JoinedAt(s, t, r, x, y) ==
  /\ x \in Nat /\ y \in Nat /\ x = Len(s) /\ y = Len(t) /\ Len(r) = x + y
  /\ \A i \in 1 .. x : r[i] = s[i]
  /\ \A i \in 1 .. y : r[x + i] = t[i]

LEMMA Joins ==
  ASSUME NEW s \in Seq(Nat), NEW t \in Seq(Nat), NEW r, r = s \o t
  PROVE  r \in Seq(Nat) /\ JoinedAt(s, t, r, Len(s), Len(t))
<1>1. /\ s \o t \in Seq(Nat) /\ Len(s \o t) = Len(s) + Len(t)
      /\ \A i \in 1 .. Len(s) : (s \o t)[i] = s[i]
      /\ \A i \in 1 .. Len(t) : (s \o t)[Len(s) + i] = t[i]
  BY Extended, SMTT(60)
<1>2. /\ r \in Seq(Nat) /\ Len(r) = Len(s) + Len(t)
      /\ \A i \in 1 .. Len(s) : r[i] = s[i]
      /\ \A i \in 1 .. Len(t) : r[Len(s) + i] = t[i]
  BY <1>1, Zenon
<1>3. Len(s) \in Nat /\ Len(t) \in Nat
  OBVIOUS
<1> QED BY <1>2, <1>3, Zenon DEF JoinedAt

LEMMA Inside ==
  ASSUME NEW p \in Nat, NEW m \in Nat, NEW n \in Nat, NEW x \in Nat, p > 0, p + (1 + m + n) <= x + 1
  PROVE  /\ p \in 1 .. x /\ p + m <= x
         /\ \A q \in 1 .. m : p + q \in 1 .. x
         /\ \A i \in 1 .. n : (p + m + 1) + i - 1 \in 1 .. x
         /\ n > 0 => p + 1 + m \in 1 .. x /\ p + m + n \in 0 .. x /\ p + m + n \in Nat
OBVIOUS

(* A TLV of a request that stands at p: its tag, the bytes of its length,  *)
(* its value.                                                              *)
ValueAt(p, n) == p + Len(LengthBytes(n)) + 1
Stands(data, p, tag, v) ==
  /\ p + TlvSize(Len(v)) <= Len(data) + 1
  /\ data[p] = tag /\ LengthStands(data, p, Len(v))
  /\ \A i \in 1 .. Len(v) : data[ValueAt(p, Len(v)) + i - 1] = v[i]

Header(tag, n) ==
  IF n >= 256 THEN <<tag, 130, (n \div 256) % 256, n % 256>> ELSE IF n > 128 THEN <<tag, 129, n>> ELSE <<tag, n>>

LEMMA HeaderWithTag ==
  ASSUME NEW tag \in Nat, NEW n \in Nat, n \in TwoBytes
  PROVE  /\ Header(tag, n) \in Seq(Nat) /\ Len(Header(tag, n)) = 1 + Len(LengthBytes(n))
         /\ Header(tag, n)[1] = tag
         /\ \A q \in 1 .. Len(LengthBytes(n)) : Header(tag, n)[1 + q] = LengthBytes(n)[q]
<1>1. CASE n >= 256
  <2> DEFINE a == n \div 256
             b == n % 256
  <2>1. a \in Nat /\ a <= 255 /\ b \in Nat
    BY DigitsOf
  <2>2. (n \div 256) % 256 = a
    <3> HIDE DEF a
    <3>1. a % 256 = a
      BY <2>1
    <3> QED BY <3>1 DEF a
  <2>3. Header(tag, n) = <<tag, 130, a, b>> /\ LengthBytes(n) = <<130, a, b>>
    BY <1>1, <2>2 DEF LengthBytes, Header
  <2> HIDE DEF a, b
  <2>4. <<tag, 130, a, b>> \in Seq(Nat)
    BY <2>1
  <2> QED BY <2>3, <2>4
<1>2. CASE n < 256 /\ n > 128
  <2>1. Header(tag, n) = <<tag, 129, n>> /\ LengthBytes(n) = <<129, n>>
    BY <1>2 DEF LengthBytes, Header
  <2>2. <<tag, 129, n>> \in Seq(Nat)
    OBVIOUS
  <2> QED BY <2>1, <2>2
<1>3. CASE n <= 128
  <2>1. Header(tag, n) = <<tag, n>> /\ LengthBytes(n) = <<n>>
    BY <1>3 DEF LengthBytes, Header
  <2>2. <<tag, n>> \in Seq(Nat)
    OBVIOUS
  <2> QED BY <2>1, <2>2
<1> QED BY <1>1, <1>2, <1>3

LEMMA ToTlvIs == ASSUME NEW tag, NEW v PROVE Eth!ToTlv(tag, v) = Header(tag, Len(v)) \o v
BY Zenon DEF Eth!ToTlv, Header

(* What ToTlv writes stands at 1.                                          *)
LEMMA ToTlvStands ==
  ASSUME NEW tag \in Nat, NEW v \in Seq(Nat), Len(v) \in TwoBytes
  PROVE  /\ Eth!ToTlv(tag, v) \in Seq(Nat) /\ Len(Eth!ToTlv(tag, v)) = TlvSize(Len(v))
         /\ Stands(Eth!ToTlv(tag, v), 1, tag, v)
<1>1. PICK n \in Nat : n = Len(v) /\ n \in TwoBytes
  OBVIOUS
<1>2. PICK h : h = Header(tag, n)
  OBVIOUS
<1>3. PICK m \in Nat : m = Len(LengthBytes(n)) /\ m > 0 /\ TlvSize(n) = 1 + m + n
  BY <1>1, LengthIs
<1>4. /\ h \in Seq(Nat) /\ Len(h) = 1 + m /\ h[1] = tag
      /\ \A q \in 1 .. m : h[1 + q] = LengthBytes(n)[q]
  <2>1. /\ Header(tag, n) \in Seq(Nat) /\ Len(Header(tag, n)) = 1 + Len(LengthBytes(n))
        /\ Header(tag, n)[1] = tag
        /\ \A q \in 1 .. Len(LengthBytes(n)) : Header(tag, n)[1 + q] = LengthBytes(n)[q]
    BY <1>1, HeaderWithTag
  <2> QED BY <1>2, <1>3, <2>1, Zenon
<1>5. PICK t : t = h \o v
  OBVIOUS
<1>6. /\ t \in Seq(Nat) /\ Len(t) = (1 + m) + n
      /\ \A i \in 1 .. 1 + m : t[i] = h[i]
      /\ \A i \in 1 .. n : t[(1 + m) + i] = v[i]
  <2>1. t \in Seq(Nat) /\ JoinedAt(h, v, t, Len(h), Len(v))
    BY <1>4, <1>5, Joins, Zenon
  <2>2. JoinedAt(h, v, t, 1 + m, n)
    BY <1>1, <1>4, <2>1, Zenon
  <2> QED BY <2>1, <2>2, Zenon DEF JoinedAt
<1>7. Eth!ToTlv(tag, v) = t
  BY <1>1, <1>2, <1>5, ToTlvIs, Zenon
<1>8. ASSUME NEW q \in 1 .. m PROVE t[1 + q] = LengthBytes(n)[q]
  <2>1. 1 + q \in 1 .. 1 + m
    OBVIOUS
  <2> QED BY <1>4, <1>6, <2>1
<1>9. ASSUME NEW i \in 1 .. n PROVE t[((1 + m) + 1) + i - 1] = v[i]
  <2>1. ((1 + m) + 1) + i - 1 = (1 + m) + i
    OBVIOUS
  <2> QED BY <1>6, <2>1
<1>10. t[1] = tag
  <2>1. 1 \in 1 .. 1 + m
    OBVIOUS
  <2> QED BY <1>4, <1>6, <2>1
<1>11. LengthStands(t, 1, n)
  BY <1>3, <1>8 DEF LengthStands
<1>12. Stands(t, 1, tag, v)
  <2>1. 1 + TlvSize(n) <= Len(t) + 1
    BY <1>3, <1>6
  <2>2. ValueAt(1, n) = (1 + m) + 1
    BY <1>3 DEF ValueAt
  <2> QED BY <1>1, <1>9, <1>10, <1>11, <2>1, <2>2 DEF Stands
<1>13. Len(t) = TlvSize(n)
  BY <1>3, <1>6
<1> QED BY <1>1, <1>6, <1>7, <1>12, <1>13

(* It stands where it stood when more bytes follow, and behind others.     *)
LEMMA StandsStill ==
  ASSUME NEW s \in Seq(Nat), NEW t \in Seq(Nat), NEW p \in Nat \ {0}, NEW tag, NEW v \in Seq(Nat),
         Len(v) \in TwoBytes, Stands(s, p, tag, v)
  PROVE  Stands(s \o t, p, tag, v)
<1>1. PICK n \in Nat : n = Len(v) /\ n \in TwoBytes
  OBVIOUS
<1>2. PICK m \in Nat : m = Len(LengthBytes(n)) /\ m > 0 /\ TlvSize(n) = 1 + m + n
  BY <1>1, LengthIs
<1>3. PICK r : r = s \o t
  OBVIOUS
<1>4. PICK x, y : JoinedAt(s, t, r, x, y)
  BY <1>3, Joins, Zenon
<1>5. x \in Nat /\ y \in Nat /\ x = Len(s) /\ Len(r) = x + y /\ \A i \in 1 .. x : r[i] = s[i]
  BY <1>4, Zenon DEF JoinedAt
<1>6. /\ p + (1 + m + n) <= x + 1 /\ s[p] = tag /\ LengthStands(s, p, n)
      /\ \A i \in 1 .. n : s[(p + m + 1) + i - 1] = v[i]
  BY <1>1, <1>2, <1>5 DEF Stands, ValueAt
<1>7. /\ p \in 1 .. x /\ \A q \in 1 .. m : p + q \in 1 .. x
      /\ \A i \in 1 .. n : (p + m + 1) + i - 1 \in 1 .. x
  <2>1. p + (1 + m + n) <= x + 1
    BY <1>6
  <2>2. p \in Nat /\ p > 0
    OBVIOUS
  <2> QED BY <1>5, <2>1, <2>2, Inside
<1>8. r[p] = tag
  BY <1>5, <1>6, <1>7
<1>9. ASSUME NEW q \in 1 .. m PROVE r[p + q] = LengthBytes(n)[q]
  <2>1. p + q \in 1 .. x /\ p + q <= Len(s)
    <3>1. p + q \in 1 .. x /\ x \in Nat /\ x = Len(s)
      BY <1>5, <1>7, Zenon
    <3>2. p + q <= x
      BY <3>1
    <3> QED BY <3>1, <3>2, Zenon
  <2>2. s[p + q] = LengthBytes(n)[q]
    BY <1>2, <1>6, <2>1, Zenon DEF LengthStands
  <2> QED BY <1>5, <2>1, <2>2
<1>10. ASSUME NEW i \in 1 .. n PROVE r[(p + m + 1) + i - 1] = v[i]
  BY <1>5, <1>6, <1>7
<1>11. p + (1 + m + n) <= (x + y) + 1
  <2>1. p + (1 + m + n) <= x + 1
    BY <1>6
  <2> QED BY <1>5, <2>1
<1>12. LengthStands(r, p, n)
  BY <1>2, <1>9 DEF LengthStands
<1>13. Stands(r, p, tag, v)
  BY <1>1, <1>2, <1>5, <1>8, <1>10, <1>11, <1>12 DEF Stands, ValueAt
<1> QED BY <1>3, <1>13, Zenon

LEMMA StandsBehind ==
  ASSUME NEW s \in Seq(Nat), NEW t \in Seq(Nat), NEW tag, NEW v \in Seq(Nat),
         Len(v) \in TwoBytes, Stands(t, 1, tag, v)
  PROVE  Stands(s \o t, Len(s) + 1, tag, v)
<1>1. PICK n \in Nat : n = Len(v) /\ n \in TwoBytes
  OBVIOUS
<1>2. PICK m \in Nat : m = Len(LengthBytes(n)) /\ m > 0 /\ TlvSize(n) = 1 + m + n
  BY <1>1, LengthIs
<1>3. PICK r : r = s \o t
  OBVIOUS
<1>4. PICK x, y : JoinedAt(s, t, r, x, y)
  BY <1>3, Joins, Zenon
<1>5. /\ x \in Nat /\ y \in Nat /\ x = Len(s) /\ y = Len(t) /\ Len(r) = x + y
      /\ \A i \in 1 .. y : r[x + i] = t[i]
  BY <1>4, Zenon DEF JoinedAt
<1>6. /\ 1 + (1 + m + n) <= y + 1 /\ t[1] = tag /\ LengthStands(t, 1, n)
      /\ \A i \in 1 .. n : t[(1 + m + 1) + i - 1] = v[i]
  BY <1>1, <1>2, <1>5 DEF Stands, ValueAt
<1>7. /\ 1 \in 1 .. y /\ \A q \in 1 .. m : 1 + q \in 1 .. y
      /\ \A i \in 1 .. n : (1 + m + 1) + i - 1 \in 1 .. y
  <2>1. 1 + (1 + m + n) <= y + 1
    BY <1>6
  <2>2. 1 \in Nat /\ 1 > 0
    OBVIOUS
  <2> QED BY <1>5, <2>1, <2>2, Inside
<1>8. r[x + 1] = tag
  BY <1>5, <1>6, <1>7
<1>9. ASSUME NEW q \in 1 .. m PROVE r[(x + 1) + q] = LengthBytes(n)[q]
  <2>1. 1 + q \in 1 .. y /\ x + (1 + q) = (x + 1) + q /\ 1 + q <= Len(t)
    BY <1>5, <1>7
  <2>2. t[1 + q] = LengthBytes(n)[q]
    BY <1>2, <1>6, <2>1, Zenon DEF LengthStands
  <2>3. r[x + (1 + q)] = t[1 + q]
    BY <1>5, <2>1
  <2> QED BY <2>1, <2>2, <2>3
<1>10. ASSUME NEW i \in 1 .. n PROVE r[((x + 1) + m + 1) + i - 1] = v[i]
  <2>1. ((x + 1) + m + 1) + i - 1 = x + ((1 + m + 1) + i - 1)
    BY <1>5
  <2> QED BY <1>5, <1>6, <1>7, <2>1
<1>11. (x + 1) + (1 + m + n) <= (x + y) + 1
  <2>1. 1 + (1 + m + n) <= y + 1
    BY <1>6
  <2> QED BY <1>5, <2>1
<1>12. LengthStands(r, x + 1, n)
  BY <1>2, <1>9 DEF LengthStands
<1>13. Stands(r, x + 1, tag, v)
  BY <1>1, <1>2, <1>5, <1>8, <1>10, <1>11, <1>12 DEF Stands, ValueAt
<1> QED BY <1>3, <1>5, <1>13, Zenon

-----------------------------------------------------------------------------
(* Requests: the first n values stand behind one another, from 1.          *)
Layout(data, n, given, st) ==
  /\ st \in [1 .. n + 1 -> Nat \ {0}] /\ st[1] = 1 /\ st[n + 1] = Len(data) + 1
  /\ \A i \in 1 .. n : /\ Stands(data, st[i], 64 + i, given[i])
                       /\ st[i + 1] = st[i] + TlvSize(Len(given[i]))
Laid(data, n, given) == data \in Seq(Nat) /\ \E st : Layout(data, n, given, st)
GivenValues(given) == Len(given) = 8 /\ \A i \in 1 .. 8 : given[i] \in Seq(Nat) /\ Len(given[i]) \in TwoBytes

LEMMA LaidFirst ==
  ASSUME NEW given, GivenValues(given)
  PROVE  Laid(Eth!ToTlv(65, given[1]), 1, given)
<1>1. given[1] \in Seq(Nat) /\ Len(given[1]) \in TwoBytes
  BY DEF GivenValues
<1>2. PICK t : t = Eth!ToTlv(65, given[1])
  OBVIOUS
<1>3. t \in Seq(Nat) /\ Len(t) = TlvSize(Len(given[1])) /\ Stands(t, 1, 65, given[1])
  BY <1>1, <1>2, ToTlvStands
<1>4. PICK z \in Nat : z = Len(t)
  BY <1>3
<1> DEFINE st == [i \in 1 .. 2 |-> IF i = 1 THEN 1 ELSE z + 1]
<1>5. st \in [1 .. 1 + 1 -> Nat \ {0}] /\ st[1] = 1 /\ st[1 + 1] = z + 1
  OBVIOUS
<1> HIDE DEF st
<1>6. Layout(t, 1, given, st)
  <2>1. ASSUME NEW i \in 1 .. 1
        PROVE  Stands(t, st[i], 64 + i, given[i]) /\ st[i + 1] = st[i] + TlvSize(Len(given[i]))
    <3>1. i = 1 /\ 64 + i = 65
      OBVIOUS
    <3>2. st[1 + 1] = st[1] + TlvSize(Len(given[1]))
      BY <1>3, <1>4, <1>5
    <3> QED BY <1>3, <1>5, <3>1, <3>2
  <2> QED BY <1>4, <1>5, <2>1 DEF Layout
<1> QED BY <1>2, <1>3, <1>6 DEF Laid

LEMMA LaidMore ==
  ASSUME NEW given, GivenValues(given), NEW n \in 1 .. 7, NEW data, Laid(data, n, given)
  PROVE  Laid(data \o Eth!ToTlv(64 + (n + 1), given[n + 1]), n + 1, given)
<1>1. data \in Seq(Nat)
  BY DEF Laid
<1>2. PICK s : Layout(data, n, given, s)
  BY DEF Laid
<1>3. PICK v : v = given[n + 1]
  OBVIOUS
<1>4. v \in Seq(Nat) /\ Len(v) \in TwoBytes
  <2>1. n + 1 \in 1 .. 8
    OBVIOUS
  <2> QED BY <1>3, <2>1, Zenon DEF GivenValues
<1>5. PICK t : t = Eth!ToTlv(64 + (n + 1), v)
  OBVIOUS
<1>6. t \in Seq(Nat) /\ Len(t) = TlvSize(Len(v)) /\ Stands(t, 1, 64 + (n + 1), v)
  BY <1>4, <1>5, ToTlvStands
<1>7. PICK x \in Nat, y \in Nat : x = Len(data) /\ y = Len(t)
  BY <1>1, <1>6
<1>8. PICK r : r = data \o t
  OBVIOUS
<1>9. r \in Seq(Nat) /\ Len(r) = x + y
  BY <1>1, <1>6, <1>7, <1>8, Extended
<1>10. /\ s \in [1 .. n + 1 -> Nat \ {0}] /\ s[1] = 1 /\ s[n + 1] = x + 1
       /\ \A i \in 1 .. n : Stands(data, s[i], 64 + i, given[i]) /\ s[i + 1] = s[i] + TlvSize(Len(given[i]))
  BY <1>2, <1>7 DEF Layout
<1> DEFINE st == [i \in 1 .. (n + 1) + 1 |-> IF i <= n + 1 THEN s[i] ELSE (x + y) + 1]
<1>11. /\ st \in [1 .. (n + 1) + 1 -> Nat \ {0}] /\ st[(n + 1) + 1] = (x + y) + 1
       /\ \A i \in 1 .. n + 1 : st[i] = s[i]
  BY <1>10
<1> HIDE DEF st
<1>12. ASSUME NEW i \in 1 .. n + 1
       PROVE  Stands(r, st[i], 64 + i, given[i]) /\ st[i + 1] = st[i] + TlvSize(Len(given[i]))
  <2>1. CASE i \in 1 .. n
    <3>1. given[i] \in Seq(Nat) /\ Len(given[i]) \in TwoBytes /\ s[i] \in Nat \ {0}
      <4>1. i \in 1 .. 8 /\ i \in 1 .. n + 1
        BY <2>1
      <4>2. given[i] \in Seq(Nat) /\ Len(given[i]) \in TwoBytes
        BY <4>1, Zenon DEF GivenValues
      <4>3. s[i] \in Nat \ {0}
        BY <1>10, <4>1
      <4> QED BY <4>2, <4>3
    <3>2. Stands(r, s[i], 64 + i, given[i])
      BY <1>1, <1>6, <1>8, <1>10, <2>1, <3>1, StandsStill
    <3>3. i \in 1 .. n + 1 /\ i + 1 \in 1 .. n + 1
      BY <2>1
    <3> QED BY <1>10, <1>11, <2>1, <3>2, <3>3
  <2>2. CASE i = n + 1
    <3>1. Stands(r, x + 1, 64 + (n + 1), v)
      BY <1>1, <1>4, <1>6, <1>7, <1>8, StandsBehind
    <3>2. st[n + 1] = x + 1
      BY <1>10, <1>11
    <3>3. st[(n + 1) + 1] = st[n + 1] + TlvSize(Len(v))
      BY <1>6, <1>7, <1>11, <3>2
    <3> QED BY <1>3, <2>2, <3>1, <3>2, <3>3
  <2> QED BY <2>1, <2>2
<1>13. st[1] = 1
  BY <1>10, <1>11
<1>14. Layout(r, n + 1, given, st)
  BY <1>9, <1>11, <1>12, <1>13 DEF Layout
<1>15. Laid(r, n + 1, given)
  BY <1>9, <1>14 DEF Laid
<1> QED BY <1>3, <1>5, <1>8, <1>15, Zenon

(* The device takes the TLV apart that stands where it reads.              *)
SizeRead(d, p) == IF d[p + 1] = 130 THEN 3 ELSE IF d[p + 1] = 129 THEN 2 ELSE 1
LenRead(d, p) ==
  IF SizeRead(d, p) = 3 THEN 256 * d[p + 2] + d[p + 3] ELSE IF SizeRead(d, p) = 2 THEN d[p + 2] ELSE d[p + 1]

LEMMA TakenApart ==
  ASSUME NEW d \in Seq(Nat), NEW p \in Nat \ {0}, NEW tag, NEW v \in Seq(Nat), Len(v) \in TwoBytes,
         Stands(d, p, tag, v)
  PROVE  /\ d[p] = tag
         /\ SubSeq(d, p + 1 + SizeRead(d, p), p + SizeRead(d, p) + LenRead(d, p)) = v
         /\ p + 1 + SizeRead(d, p) + LenRead(d, p) = p + TlvSize(Len(v))
<1>1. PICK n \in Nat : n = Len(v) /\ n \in TwoBytes
  OBVIOUS
<1>2. PICK m \in Nat : m = Len(LengthBytes(n)) /\ m > 0 /\ TlvSize(n) = 1 + m + n
  BY <1>1, LengthIs
<1>3. PICK x \in Nat : x = Len(d)
  OBVIOUS
<1>4. /\ p + (1 + m + n) <= x + 1 /\ d[p] = tag /\ LengthStands(d, p, n)
      /\ \A i \in 1 .. n : d[(p + m + 1) + i - 1] = v[i]
  BY <1>1, <1>2, <1>3 DEF Stands, ValueAt
<1>5. Tlv!LengthAt(d, p + 1).len = n /\ Tlv!LengthAt(d, p + 1).size = m
  <2>1. p + m <= x
    <3>1. p + (1 + m + n) <= x + 1
      BY <1>4
    <3> QED BY <3>1
  <2> QED BY <1>1, <1>2, <1>3, <1>4, <2>1, LengthRead, ZenonT(60)
<1>6. SizeRead(d, p) = m /\ LenRead(d, p) = n
  <2>1. (p + 1) + 1 = p + 2 /\ (p + 1) + 2 = p + 3
    OBVIOUS
  <2> QED BY <1>5, <2>1 DEF Tlv!LengthAt, SizeRead, LenRead
<1>7. SubSeq(d, p + 1 + m, p + m + n) = v
  <2>1. PICK u : u = SubSeq(d, p + 1 + m, p + m + n)
    OBVIOUS
  <2>2. CASE n = 0
    <3>1. p + 1 + m > p + m + n
      BY <2>2
    <3>2. Len(u) = 0 /\ u \in Seq(Nat)
      BY <2>1, <3>1
    <3>3. u = <<>> /\ v = <<>>
      <4>1. Len(v) = 0
        BY <1>1, <2>2
      <4> QED BY <3>2, <4>1, EmptySeq, Zenon
    <3> QED BY <2>1, <3>3
  <2>3. CASE n > 0
    <3>1. p + 1 + m \in 1 .. x /\ p + m + n \in 0 .. x
      <4>1. p + (1 + m + n) <= x + 1
        BY <1>4
      <4>2. p \in Nat /\ p > 0
        OBVIOUS
      <4> QED BY <2>3, <4>1, <4>2, Inside
    <3>2. u = [i \in 1 .. (p + m + n) - (p + 1 + m) + 1 |-> d[i + (p + 1 + m) - 1]]
      BY <2>1
    <3>3. (p + m + n) - (p + 1 + m) + 1 = n
      OBVIOUS
    <3>4. u = [i \in 1 .. n |-> d[i + (p + 1 + m) - 1]]
      BY <3>2, <3>3, Zenon
    <3>5. ASSUME NEW i \in 1 .. n PROVE u[i] = v[i]
      <4>1. i + (p + 1 + m) - 1 = (p + m + 1) + i - 1
        OBVIOUS
      <4> QED BY <1>4, <3>4, <4>1
    <3>6. v = [i \in 1 .. n |-> v[i]]
      BY <1>1
    <3>7. u = [i \in 1 .. n |-> u[i]]
      BY <3>4
    <3>8. u = v
      BY <3>5, <3>6, <3>7
    <3> QED BY <2>1, <3>8
  <2> QED BY <2>2, <2>3
<1>8. p + 1 + m + n = p + TlvSize(Len(v))
  BY <1>1, <1>2
<1> QED BY <1>4, <1>6, <1>7, <1>8, Zenon

-----------------------------------------------------------------------------
(* The eight values of a request.                                          *)
NonceOf(r) == IF Eth!Number(r.nonce)[1] = 0 THEN <<>> ELSE Eth!Number(r.nonce)
WeiOf(r) == IF r.value = Eth!NoValue THEN <<>> ELSE Eth!Number(r.value)
GivenOf(r, input) ==
  <<NonceOf(r), Eth!Number(r.gasPrice), Eth!Number(r.gasLimit), Eth!ETHHexStr2CharPtr(r.to), WeiOf(r),
    Eth!ETHHexStr2CharPtr(input), Eth!FullPath(r.path), <<r.chainID % 256>>>>

LEMMA TwoBytesAre == Eth!TwoBytes = TwoBytes
BY SMT DEF Eth!TwoBytes, TwoBytes

LEMMA AmountBytes ==
  ASSUME NEW n \in Eth!Amount
  PROVE  n \in Nat /\ Eth!Number(n) \in Seq(Nat) /\ Len(Eth!Number(n)) \in TwoBytes
<1>1. n \in Nat /\ Len(Eth!Number(n)) \in TwoBytes
  BY TwoBytesAre, Zenon DEF Eth!Amount
<1>2. Eth!Number(n) \in Seq(AByte)
  BY <1>1, NumberWrites
<1> QED BY <1>1, <1>2, BytesAreNat

LEMMA SmallTwoBytes == 0 \in TwoBytes /\ 1 \in TwoBytes /\ 3 \in TwoBytes /\ 68 \in TwoBytes
BY SMTT(60) DEF TwoBytes

LEMMA NoBytes == <<>> \in Seq(AByte) /\ <<>> \in Seq(Nat) /\ Len(<<>>) \in TwoBytes /\ Len(<<>>) = 0
<1>1. <<>> \in Seq(AByte) /\ <<>> \in Seq(Nat) /\ Len(<<>>) = 0
  OBVIOUS
<1> QED BY <1>1, SmallTwoBytes

LEMMA StringBytes ==
  ASSUME NEW s \in Eth!HexString
  PROVE  /\ Eth!ETHHexStr2CharPtr(s) \in Seq(AByte) /\ Len(Eth!ETHHexStr2CharPtr(s)) \in TwoBytes
         /\ IF s.prefix THEN Eth!Spells(Eth!ETHHexStr2CharPtr(s), s.digits)
            ELSE Eth!ETHHexStr2CharPtr(s) = <<>>
<1>1. PICK d : d = s.digits
  OBVIOUS
<1>2. d \in Seq(HexDigit) /\ Len(Eth!HexStr2CharPtr(d)) \in TwoBytes /\ s.prefix \in BOOLEAN
  BY <1>1, TwoBytesAre DEF Eth!HexString, HexDigit
<1>3. CASE s.prefix
  <2>1. Eth!HexStr2CharPtr(d) \in Seq(AByte) /\ Eth!Spells(Eth!HexStr2CharPtr(d), d)
    BY <1>2, HexBytes
  <2>2. Eth!ETHHexStr2CharPtr(s) = Eth!HexStr2CharPtr(d)
    BY <1>1, <1>3, Zenon DEF Eth!ETHHexStr2CharPtr
  <2> QED BY <1>1, <1>2, <1>3, <2>1, <2>2, Zenon
<1>4. CASE ~s.prefix
  <2>1. Eth!ETHHexStr2CharPtr(s) = <<>>
    BY <1>4, Zenon DEF Eth!ETHHexStr2CharPtr
  <2> QED BY <1>4, <2>1, NoBytes, Zenon
<1> QED BY <1>3, <1>4

LEMMA GivenAre ==
  ASSUME NEW r, NEW input, NEW g, g = GivenOf(r, input)
  PROVE  /\ Len(g) = 8
         /\ g[1] = NonceOf(r) /\ g[2] = Eth!Number(r.gasPrice) /\ g[3] = Eth!Number(r.gasLimit)
         /\ g[4] = Eth!ETHHexStr2CharPtr(r.to) /\ g[5] = WeiOf(r)
         /\ g[6] = Eth!ETHHexStr2CharPtr(input)
         /\ g[7] = Eth!FullPath(r.path) /\ g[8] = <<r.chainID % 256>>
BY DEF GivenOf

LEMMA EighthOf == \A i \in 1 .. 8 : i \in {1, 2, 3, 4, 5, 6, 7, 8}
OBVIOUS

LEMMA PathBytes ==
  ASSUME NEW r \in Eth!Request
  PROVE  Eth!FullPath(r.path) \in Seq(Nat) /\ Len(Eth!FullPath(r.path)) \in TwoBytes
<1>1. r.path.main \in Nat /\ r.path.change \in Nat /\ r.path.addressIndex \in Nat
  BY DEF Eth!Request
<1>2. PICK a \in Nat, b \in Nat, c \in Nat : a = r.path.main /\ b = r.path.change /\ c = r.path.addressIndex
  BY <1>1
<1>3. Eth!FullPath(r.path) = <<a, b, c>>
  BY <1>2, Zenon DEF Eth!FullPath
<1>4. <<a, b, c>> \in Seq(Nat) /\ Len(<<a, b, c>>) = 3
  OBVIOUS
<1>5. 3 \in TwoBytes
  BY SmallTwoBytes
<1> QED BY <1>3, <1>4, <1>5

LEMMA ChainByte ==
  ASSUME NEW r \in Eth!Request
  PROVE  <<r.chainID % 256>> \in Seq(Nat) /\ Len(<<r.chainID % 256>>) \in TwoBytes
<1>1. r.chainID \in Nat
  BY DEF Eth!Request
<1>2. PICK c \in Nat : c = r.chainID % 256
  BY <1>1
<1>3. <<c>> \in Seq(Nat) /\ Len(<<c>>) = 1
  OBVIOUS
<1>4. 1 \in TwoBytes
  BY SmallTwoBytes
<1> QED BY <1>2, <1>3, <1>4

LEMMA RequestFields ==
  ASSUME NEW r \in Eth!Request
  PROVE  /\ r.nonce \in Eth!Amount /\ r.gasPrice \in Eth!Amount /\ r.gasLimit \in Eth!Amount
         /\ r.to \in Eth!HexString /\ r.input \in Eth!HexString
         /\ r.value # Eth!NoValue => r.value \in Eth!Amount
BY DEF Eth!Request

LEMMA GivenType ==
  ASSUME NEW r \in Eth!Request, NEW input \in Eth!HexString
  PROVE  GivenValues(GivenOf(r, input))
<1> DEFINE Right(v) == v \in Seq(Nat) /\ Len(v) \in TwoBytes
<1>1. Right(<<>>)
  BY NoBytes
<1>2. \A n \in Eth!Amount : Right(Eth!Number(n))
  BY AmountBytes
<1>3. \A s \in Eth!HexString : Right(Eth!ETHHexStr2CharPtr(s))
  BY StringBytes, BytesAreNat
<1>4. Right(Eth!FullPath(r.path))
  BY PathBytes
<1>5. Right(<<r.chainID % 256>>)
  BY ChainByte
<1>6. PICK g : g = GivenOf(r, input)
  OBVIOUS
<1> HIDE DEF Right
<1>7. Right(NonceOf(r))
  BY <1>1, <1>2, RequestFields, Zenon DEF NonceOf
<1>8. Right(WeiOf(r))
  BY <1>1, <1>2, RequestFields, Zenon DEF WeiOf
<1>8a. /\ Len(g) = 8
      /\ g[1] = NonceOf(r) /\ g[2] = Eth!Number(r.gasPrice) /\ g[3] = Eth!Number(r.gasLimit)
      /\ g[4] = Eth!ETHHexStr2CharPtr(r.to) /\ g[5] = WeiOf(r)
      /\ g[6] = Eth!ETHHexStr2CharPtr(input)
      /\ g[7] = Eth!FullPath(r.path) /\ g[8] = <<r.chainID % 256>>
  BY <1>6, GivenAre
<1>8b. r.gasPrice \in Eth!Amount /\ r.gasLimit \in Eth!Amount /\ r.to \in Eth!HexString
  BY RequestFields
<1>9. Right(g[1]) /\ Right(g[2]) /\ Right(g[3]) /\ Right(g[4])
  BY <1>2, <1>3, <1>7, <1>8a, <1>8b, Zenon
<1>10. Right(g[5]) /\ Right(g[6]) /\ Right(g[7]) /\ Right(g[8])
  BY <1>3, <1>4, <1>5, <1>8, <1>8a, Zenon
<1>11. \A i \in 1 .. 8 : Right(g[i])
  BY <1>9, <1>10, EighthOf
<1>12. Len(g) = 8
  BY <1>8a
<1>13. GivenValues(g)
  BY <1>11, <1>12, Zenon DEF GivenValues, Right
<1> QED BY <1>6, <1>13, Zenon

LEMMA NonceIs == ASSUME NEW r PROVE Eth!Nonce(r.nonce) = Eth!ToTlv(65, NonceOf(r))
<1>1. CASE Eth!Number(r.nonce)[1] = 0
  <2>1. PICK e : e = <<>>
    OBVIOUS
  <2>2. PICK h : h = <<65, 0>>
    OBVIOUS
  <2>3. Header(65, 0) = h
    BY <2>2 DEF Header
  <2>4. Eth!ToTlv(65, e) = Header(65, Len(e)) \o e
    BY ToTlvIs
  <2>5. Len(e) = 0
    BY <2>1
  <2>6. h \in Seq(Nat)
    BY <2>2
  <2>7. h \o e = h
    BY <2>1, <2>6, ConcatEmptySeq, Zenon
  <2>8. Eth!ToTlv(65, e) = h
    BY <2>3, <2>4, <2>5, <2>7, Zenon
  <2>9. NonceOf(r) = e
    BY <1>1, <2>1, Zenon DEF NonceOf
  <2>10. Eth!Nonce(r.nonce) = h
    BY <1>1, <2>2, Zenon DEF Eth!Nonce
  <2> QED BY <2>8, <2>9, <2>10, Zenon
<1>2. CASE Eth!Number(r.nonce)[1] # 0
  BY <1>2, Zenon DEF Eth!Nonce, NonceOf
<1> QED BY <1>1, <1>2

LEMMA LaidNext ==
  ASSUME NEW given, GivenValues(given), NEW n \in 1 .. 7, NEW data, Laid(data, n, given),
         NEW tag, NEW v, tag = 64 + (n + 1), v = given[n + 1], NEW m, m = n + 1
  PROVE  Laid(data \o Eth!ToTlv(tag, v), m, given)
BY LaidMore, Zenon

LEMMA RequestLaid ==
  ASSUME NEW r \in Eth!Request, NEW input \in Eth!HexString
  PROVE  Laid(Eth!RequestData(r, input), 8, GivenOf(r, input))
<1>1. PICK g : g = GivenOf(r, input)
  OBVIOUS
<1>2. GivenValues(g)
  BY <1>1, GivenType
<1>3. PICK d1 : d1 = Eth!ToTlv(65, g[1])
  OBVIOUS
<1>4. PICK d2 : d2 = d1 \o Eth!ToTlv(66, g[2])
  OBVIOUS
<1>5. PICK d3 : d3 = d2 \o Eth!ToTlv(67, g[3])
  OBVIOUS
<1>6. PICK d4 : d4 = d3 \o Eth!ToTlv(68, g[4])
  OBVIOUS
<1>7. PICK d5 : d5 = d4 \o Eth!ToTlv(69, g[5])
  OBVIOUS
<1>8. PICK d6 : d6 = d5 \o Eth!ToTlv(70, g[6])
  OBVIOUS
<1>9. PICK d7 : d7 = d6 \o Eth!ToTlv(71, g[7])
  OBVIOUS
<1>10. PICK d8 : d8 = d7 \o Eth!ToTlv(72, g[8])
  OBVIOUS
<1>11. Eth!RequestData(r, input) = d8
  <2>1. /\ g[1] = NonceOf(r) /\ g[2] = Eth!Number(r.gasPrice) /\ g[3] = Eth!Number(r.gasLimit)
        /\ g[4] = Eth!ETHHexStr2CharPtr(r.to) /\ g[5] = WeiOf(r)
        /\ g[6] = Eth!ETHHexStr2CharPtr(input)
        /\ g[7] = Eth!FullPath(r.path) /\ g[8] = <<r.chainID % 256>>
    BY <1>1, GivenAre
  <2>2. d1 = Eth!Nonce(r.nonce)
    BY <1>3, <2>1, NonceIs, Zenon
  <2>3. d5 = Eth!Nonce(r.nonce) \o Eth!ToTlv(66, Eth!Number(r.gasPrice)) \o Eth!ToTlv(67, Eth!Number(r.gasLimit))
               \o Eth!ToTlv(68, Eth!ETHHexStr2CharPtr(r.to))
               \o Eth!ToTlv(69, IF r.value = Eth!NoValue THEN <<>> ELSE Eth!Number(r.value))
    BY <1>4, <1>5, <1>6, <1>7, <2>1, <2>2, Zenon DEF WeiOf
  <2> QED BY <1>8, <1>9, <1>10, <2>1, <2>3, ZenonT(60) DEF Eth!RequestData
<1>12. /\ 66 = 64 + (1 + 1) /\ 67 = 64 + (2 + 1) /\ 68 = 64 + (3 + 1) /\ 69 = 64 + (4 + 1) /\ 70 = 64 + (5 + 1)
       /\ 71 = 64 + (6 + 1) /\ 72 = 64 + (7 + 1)
       /\ 2 = 1 + 1 /\ 3 = 2 + 1 /\ 4 = 3 + 1 /\ 5 = 4 + 1 /\ 6 = 5 + 1 /\ 7 = 6 + 1 /\ 8 = 7 + 1
       /\ 1 \in 1 .. 7 /\ 2 \in 1 .. 7 /\ 3 \in 1 .. 7 /\ 4 \in 1 .. 7 /\ 5 \in 1 .. 7 /\ 6 \in 1 .. 7
       /\ 7 \in 1 .. 7
  OBVIOUS
<1>13. Laid(d1, 1, g)
  BY <1>2, <1>3, LaidFirst, Zenon
<1>14. Laid(d2, 2, g)
  BY <1>2, <1>4, <1>12, <1>13, LaidNext
<1>15. Laid(d3, 3, g)
  BY <1>2, <1>5, <1>12, <1>14, LaidNext
<1>16. Laid(d4, 4, g)
  BY <1>2, <1>6, <1>12, <1>15, LaidNext
<1>17. Laid(d5, 5, g)
  BY <1>2, <1>7, <1>12, <1>16, LaidNext
<1>18. Laid(d6, 6, g)
  BY <1>2, <1>8, <1>12, <1>17, LaidNext
<1>19. Laid(d7, 7, g)
  BY <1>2, <1>9, <1>12, <1>18, LaidNext
<1>20. Laid(d8, 8, g)
  BY <1>2, <1>10, <1>12, <1>19, LaidNext
<1> QED BY <1>1, <1>11, <1>20, Zenon

-----------------------------------------------------------------------------
(* The call data of a transfer: a method and two words of 32 bytes.        *)
LEMMA JoinsBytes ==
  ASSUME NEW s \in Seq(AByte), NEW t \in Seq(AByte), NEW r, r = s \o t
  PROVE  r \in Seq(AByte) /\ JoinedAt(s, t, r, Len(s), Len(t))
<1>1. r \in Seq(AByte)
  BY JoinedType, Zenon
<1>2. JoinedAt(s, t, r, Len(s), Len(t))
  BY BytesAreNat, Joins
<1> QED BY <1>1, <1>2

IsWord(w, b) ==
  /\ w \in Seq(AByte) /\ Len(w) = 32
  /\ \A i \in 1 .. 32 - Len(b) : w[i] = 0
  /\ \A i \in 1 .. Len(b) : w[(32 - Len(b)) + i] = b[i]

LEMMA WordIs ==
  ASSUME NEW b \in Seq(AByte), Len(b) <= 32
  PROVE  IsWord(Eth!Word(b), b)
<1>1. PICK n \in Nat : n = Len(b) /\ n <= 32
  OBVIOUS
<1>2. PICK m \in Nat : m = 32 - n
  BY <1>1
<1>3. PICK z : z = [i \in 1 .. m |-> 0]
  OBVIOUS
<1>4. z \in Seq(AByte) /\ Len(z) = m /\ \A i \in 1 .. m : z[i] = 0
  <2>1. 0 \in AByte
    BY DEF AByte
  <2>2. z \in [1 .. m -> AByte] /\ \A i \in 1 .. m : z[i] = 0
    BY <1>3, <2>1
  <2> QED BY <2>2
<1>5. PICK w : w = z \o b
  OBVIOUS
<1>6. w \in Seq(AByte) /\ JoinedAt(z, b, w, Len(z), Len(b))
  BY <1>4, <1>5, JoinsBytes
<1>7. Len(w) = m + n /\ (\A i \in 1 .. m : w[i] = z[i]) /\ \A i \in 1 .. n : w[m + i] = b[i]
  <2>1. JoinedAt(z, b, w, m, n)
    BY <1>1, <1>4, <1>6, Zenon
  <2> QED BY <2>1, Zenon DEF JoinedAt
<1>8. Eth!Word(b) = w
  BY <1>1, <1>2, <1>3, <1>5 DEF Eth!Word
<1>9. Len(w) = 32 /\ \A i \in 1 .. m : w[i] = 0
  <2>1. m + n = 32
    BY <1>1, <1>2
  <2>2. Len(w) = 32
    BY <1>7, <2>1, Zenon
  <2> QED BY <1>4, <1>7, <2>2, Zenon
<1>10. IsWord(w, b)
  BY <1>1, <1>2, <1>6, <1>7, <1>9 DEF IsWord
<1> QED BY <1>8, <1>10, Zenon

LEMMA ZeroDigits == 0 \div 16 = 0 /\ 0 % 16 = 0
OBVIOUS

(* In a word the digits are at the end, the number is the same.            *)
LEMMA WordEnds ==
  ASSUME NEW b \in Seq(AByte), Len(b) <= 32, NEW w, IsWord(w, b), NEW d \in Seq(HexDigit), Eth!EndsIn(b, d)
  PROVE  Eth!EndsIn(w, d)
<1>1. PICK n \in Nat : n = Len(b) /\ n <= 32
  OBVIOUS
<1>2. PICK m \in Nat : m = 32 - n
  BY <1>1
<1>3. PICK x \in Nat : x = Len(d)
  OBVIOUS
<1>4. PICK y \in Nat : y = 2 * n - x /\ \A j \in 1 .. 2 * n : Eth!Digit(b, j) = IF j <= y THEN 0 ELSE d[j - y]
  <2>1. /\ 2 * Len(b) - Len(d) >= 0
        /\ \A j \in 1 .. 2 * Len(b) :
             Eth!Digit(b, j) = IF j <= 2 * Len(b) - Len(d) THEN 0 ELSE d[j - (2 * Len(b) - Len(d))]
    BY Zenon DEF Eth!EndsIn
  <2>2. 2 * n - x >= 0
    BY <1>1, <1>3, <2>1, Zenon
  <2>2a. 2 * n - x \in Nat
    BY <2>2
  <2>3. PICK y \in Nat : y = 2 * n - x
    BY <2>2a, Zenon
  <2>4. \A j \in 1 .. 2 * n : Eth!Digit(b, j) = IF j <= y THEN 0 ELSE d[j - y]
    BY <1>1, <1>3, <2>1, <2>3, Zenon
  <2> QED BY <2>3, <2>4, Zenon
<1>5. Len(w) = 32 /\ (\A i \in 1 .. m : w[i] = 0) /\ \A i \in 1 .. n : w[m + i] = b[i]
  BY <1>1, <1>2 DEF IsWord
<1>6. PICK u \in Nat : u = 2 * 32 - x /\ u = 2 * m + y
  <2>1. y = 2 * n - x /\ m = 32 - n
    BY <1>2, <1>4
  <2>2. 2 * m + y = 2 * 32 - x
    BY <2>1
  <2> QED BY <2>2
<1>7. ASSUME NEW j \in 1 .. 2 * m PROVE Eth!Digit(w, j) = 0
  <2>1. CASE j % 2 = 1
    <3>1. (j + 1) \div 2 \in 1 .. m
      BY <2>1
    <3>2. w[(j + 1) \div 2] = 0
      BY <1>5, <3>1
    <3> QED BY <2>1, <3>2, ZeroDigits DEF Eth!Digit
  <2>2. CASE j % 2 = 0
    <3>1. j \div 2 \in 1 .. m
      BY <2>2
    <3>2. w[j \div 2] = 0
      BY <1>5, <3>1
    <3> QED BY <2>2, <3>2, ZeroDigits DEF Eth!Digit
  <2> QED BY <2>1, <2>2
<1>8. ASSUME NEW j \in 1 .. 2 * n PROVE Eth!Digit(w, 2 * m + j) = Eth!Digit(b, j)
  <2>1. CASE j % 2 = 1
    <3>1. /\ (j + 1) \div 2 \in 1 .. n /\ (2 * m + j) % 2 = 1
          /\ ((2 * m + j) + 1) \div 2 = m + ((j + 1) \div 2)
      BY <2>1
    <3>2. w[((2 * m + j) + 1) \div 2] = b[(j + 1) \div 2]
      BY <1>5, <3>1
    <3> QED BY <2>1, <3>1, <3>2 DEF Eth!Digit
  <2>2. CASE j % 2 = 0
    <3>1. j \div 2 \in 1 .. n /\ (2 * m + j) % 2 = 0 /\ (2 * m + j) \div 2 = m + (j \div 2)
      BY <2>2
    <3>2. w[(2 * m + j) \div 2] = b[j \div 2]
      BY <1>5, <3>1
    <3> QED BY <2>2, <3>1, <3>2 DEF Eth!Digit
  <2> QED BY <2>1, <2>2
<1>9. ASSUME NEW j \in 1 .. 2 * 32 PROVE Eth!Digit(w, j) = IF j <= u THEN 0 ELSE d[j - u]
  <2>1. CASE j <= 2 * m
    <3>1. j \in 1 .. 2 * m /\ j <= u
      BY <1>6, <2>1
    <3> QED BY <1>7, <3>1
  <2>2. CASE j > 2 * m
    <3>1. PICK i \in 1 .. 2 * n : j = 2 * m + i
      <4>1. j - 2 * m \in 1 .. 2 * n /\ j = 2 * m + (j - 2 * m)
        BY <1>1, <1>2, <2>2
      <4> QED BY <4>1
    <3>2. Eth!Digit(w, j) = IF i <= y THEN 0 ELSE d[i - y]
      BY <1>4, <1>8, <3>1
    <3>3. (j <= u <=> i <= y) /\ j - u = i - y
      BY <1>6, <3>1
    <3> QED BY <3>2, <3>3
  <2> QED BY <2>1, <2>2
<1>10. 2 * 32 - x >= 0
  BY <1>6
<1> QED BY <1>3, <1>5, <1>6, <1>9, <1>10 DEF Eth!EndsIn

LEMMA WordNumber ==
  ASSUME NEW b \in Seq(AByte), Len(b) <= 32, NEW w, IsWord(w, b)
  PROVE  Eth!NumberOf(w) = Eth!NumberOf(b)
<1>1. PICK n \in Nat : n = Len(b) /\ n <= 32
  OBVIOUS
<1>2. PICK m \in Nat : m = 32 - n
  BY <1>1
<1>3. w \in Seq(AByte) /\ Len(w) = 32 /\ (\A i \in 1 .. m : w[i] = 0) /\ \A i \in 1 .. n : w[m + i] = b[i]
  BY <1>1, <1>2 DEF IsWord
<1>4. w \in Seq(Nat) /\ b \in Seq(Nat)
  BY <1>3, BytesAreNat
<1>5. 32 = m + n
  BY <1>1, <1>2
<1> QED BY <1>1, <1>3, <1>4, <1>5, NumberAfterZeros, ZenonT(60)

Method(b, n) == b \in Seq(AByte) /\ Len(b) = n /\ b[1] = 169 /\ b[2] = 5 /\ b[3] = 156 /\ b[4] = 187

LEMMA PairsOfMethod ==
  ASSUME NEW p \in Seq(HexDigit), NEW h \in Nat, h >= 4, Len(p) = 2 * h,
         p[1] = 10, p[2] = 9, p[3] = 0, p[4] = 5, p[5] = 9, p[6] = 12, p[7] = 11, p[8] = 11
  PROVE  Method(Eth!HexStr2CharPtr(p), h)
<1>1. Eth!HexStr2CharPtr(p) = PairsOf(p)
  BY HexEven
<1>2. /\ PairsOf(p) \in Seq(AByte) /\ Len(PairsOf(p)) = h
      /\ \A i \in 1 .. h : PairsOf(p)[i] = 16 * p[2 * i - 1] + p[2 * i]
  BY PairsAre
<1>3. 1 \in 1 .. h /\ 2 \in 1 .. h /\ 3 \in 1 .. h /\ 4 \in 1 .. h
  OBVIOUS
<1>4. /\ 2 * 1 - 1 = 1 /\ 2 * 1 = 2 /\ 2 * 2 - 1 = 3 /\ 2 * 2 = 4 /\ 2 * 3 - 1 = 5 /\ 2 * 3 = 6
      /\ 2 * 4 - 1 = 7 /\ 2 * 4 = 8
  OBVIOUS
<1>5. /\ PairsOf(p)[1] = 16 * p[1] + p[2] /\ PairsOf(p)[2] = 16 * p[3] + p[4]
      /\ PairsOf(p)[3] = 16 * p[5] + p[6] /\ PairsOf(p)[4] = 16 * p[7] + p[8]
  BY <1>2, <1>3, <1>4
<1>6. PairsOf(p)[1] = 169 /\ PairsOf(p)[2] = 5 /\ PairsOf(p)[3] = 156 /\ PairsOf(p)[4] = 187
  BY <1>5
<1>7. Method(PairsOf(p), h)
  BY <1>2, <1>6, Zenon DEF Method
<1> QED BY <1>1, <1>7, Zenon

LEMMA MethodIs == Method(Eth!HexStr2CharPtr(Eth!ABI_METHOD_ID_TRANSFER), 4)
<1>1. PICK p : p = <<10, 9, 0, 5, 9, 12, 11, 11>>
  OBVIOUS
<1>2. /\ p \in Seq(HexDigit) /\ Len(p) = 2 * 4
      /\ p[1] = 10 /\ p[2] = 9 /\ p[3] = 0 /\ p[4] = 5 /\ p[5] = 9 /\ p[6] = 12 /\ p[7] = 11 /\ p[8] = 11
  BY <1>1 DEF HexDigit
<1>3. 4 \in Nat /\ 4 >= 4
  OBVIOUS
<1>5. Method(Eth!HexStr2CharPtr(p), 4)
  BY <1>2, <1>3, PairsOfMethod
<1>6. Eth!ABI_METHOD_ID_TRANSFER = p
  BY <1>1 DEF Eth!ABI_METHOD_ID_TRANSFER
<1> QED BY <1>5, <1>6, Zenon

CallData(s, to, value) ==
  /\ s \in Seq(AByte) /\ Len(s) = 68
  /\ s[1] = 169 /\ s[2] = 5 /\ s[3] = 156 /\ s[4] = 187
  /\ \A i \in 1 .. 32 : s[4 + i] = Eth!Word(to)[i] /\ s[36 + i] = Eth!Word(value)[i]

LEMMA SerializeIs ==
  ASSUME NEW to \in Seq(AByte), Len(to) <= 32, NEW value \in Seq(AByte), Len(value) <= 32
  PROVE  CallData(Eth!serialize(to, value), to, value)
<1>1. PICK m : m = Eth!HexStr2CharPtr(Eth!ABI_METHOD_ID_TRANSFER)
  OBVIOUS
<1>2. PICK a : a = Eth!Word(to)
  OBVIOUS
<1>3. PICK b : b = Eth!Word(value)
  OBVIOUS
<1>4. m \in Seq(AByte) /\ Len(m) = 4 /\ m[1] = 169 /\ m[2] = 5 /\ m[3] = 156 /\ m[4] = 187
  BY <1>1, MethodIs, Zenon DEF Method
<1>5. a \in Seq(AByte) /\ Len(a) = 32
  BY <1>2, WordIs, Zenon DEF IsWord
<1>6. b \in Seq(AByte) /\ Len(b) = 32
  BY <1>3, WordIs, Zenon DEF IsWord
<1>7. PICK r : r = m \o a
  OBVIOUS
<1>8. PICK s : s = r \o b
  OBVIOUS
<1>9. r \in Seq(AByte) /\ Len(r) = 36 /\ (\A i \in 1 .. 4 : r[i] = m[i]) /\ \A i \in 1 .. 32 : r[4 + i] = a[i]
  <2>1. r \in Seq(AByte) /\ JoinedAt(m, a, r, Len(m), Len(a))
    <3>1. m \in Seq(AByte) /\ a \in Seq(AByte)
      BY <1>4, <1>5
    <3> QED BY <1>7, <3>1, JoinsBytes
  <2>2. JoinedAt(m, a, r, 4, 32)
    BY <1>4, <1>5, <2>1, Zenon
  <2>3. 4 + 32 = 36
    OBVIOUS
  <2> QED BY <2>1, <2>2, <2>3, Zenon DEF JoinedAt
<1>10. s \in Seq(AByte) /\ Len(s) = 68 /\ (\A i \in 1 .. 36 : s[i] = r[i]) /\ \A i \in 1 .. 32 : s[36 + i] = b[i]
  <2>1. s \in Seq(AByte) /\ JoinedAt(r, b, s, Len(r), Len(b))
    BY <1>6, <1>8, <1>9, JoinsBytes
  <2>2. JoinedAt(r, b, s, 36, 32)
    BY <1>6, <1>9, <2>1, Zenon
  <2>3. 36 + 32 = 68
    OBVIOUS
  <2> QED BY <2>1, <2>2, <2>3, Zenon DEF JoinedAt
<1>11. s[1] = 169 /\ s[2] = 5 /\ s[3] = 156 /\ s[4] = 187
  <2>1. \A i \in 1 .. 4 : i \in 1 .. 36
    OBVIOUS
  <2>2. \A i \in 1 .. 4 : s[i] = m[i]
    BY <1>9, <1>10, <2>1, Zenon
  <2>3. 1 \in 1 .. 4 /\ 2 \in 1 .. 4 /\ 3 \in 1 .. 4 /\ 4 \in 1 .. 4
    OBVIOUS
  <2>4. s[1] = m[1] /\ s[2] = m[2] /\ s[3] = m[3] /\ s[4] = m[4]
    BY <2>2, <2>3, Zenon
  <2> QED BY <1>4, <2>4
<1>12. ASSUME NEW i \in 1 .. 32 PROVE s[4 + i] = a[i] /\ s[36 + i] = b[i]
  <2>1. 4 + i \in 1 .. 36
    OBVIOUS
  <2>2. s[4 + i] = r[4 + i]
    BY <1>10, <2>1, Zenon
  <2>3. r[4 + i] = a[i] /\ s[36 + i] = b[i]
    BY <1>9, <1>10, Zenon
  <2> QED BY <2>2, <2>3, Zenon
<1>13. Eth!serialize(to, value) = s
  BY <1>1, <1>2, <1>3, <1>7, <1>8, Zenon DEF Eth!serialize
<1>14. CallData(s, to, value)
  BY <1>2, <1>3, <1>10, <1>11, <1>12, Zenon DEF CallData
<1> QED BY <1>13, <1>14, Zenon

-----------------------------------------------------------------------------
(* What begins with the method of a transfer.                              *)
LEMMA FirstOf ==
  ASSUME NEW s \in Seq(Nat), NEW n \in Nat, n > 0, n <= Len(s), NEW t \in Seq(Nat), Len(t) = n
  PROVE  SubSeq(s, 1, n) = t <=> \A i \in 1 .. n : s[i] = t[i]
<1>1. Len(s) \in Nat
  OBVIOUS
<1>2. 1 \in 1 .. Len(s) /\ n \in 0 .. Len(s)
  BY <1>1
<1>3. SubSeq(s, 1, n) = [i \in 1 .. n |-> s[i]]
  BY <1>1, <1>2
<1>4. t = [i \in 1 .. n |-> t[i]]
  OBVIOUS
<1>5. SubSeq(s, 1, n) = t => \A i \in 1 .. n : s[i] = t[i]
  BY <1>3
<1>6. (\A i \in 1 .. n : s[i] = t[i]) => SubSeq(s, 1, n) = t
  BY <1>3, <1>4
<1> QED BY <1>5, <1>6

MethodDigits(d) ==
  d[1] = 10 /\ d[2] = 9 /\ d[3] = 0 /\ d[4] = 5 /\ d[5] = 9 /\ d[6] = 12 /\ d[7] = 11 /\ d[8] = 11

LEMMA DigitsAreNat == ASSUME NEW s \in Seq(HexDigit) PROVE s \in Seq(Nat)
<1>1. \A x \in HexDigit : x \in Nat
  BY DEF HexDigit
<1>2. Len(s) \in Nat /\ s \in [1 .. Len(s) -> HexDigit]
  OBVIOUS
<1>3. s = [i \in 1 .. Len(s) |-> s[i]] /\ \A i \in 1 .. Len(s) : s[i] \in Nat
  BY <1>1, <1>2
<1>4. s \in [1 .. Len(s) -> Nat]
  BY <1>3
<1> QED BY <1>2, <1>4

LEMMA BeginsWithMethod ==
  ASSUME NEW d \in Seq(HexDigit)
  PROVE  Eth!Begins(d, Eth!ABI_METHOD_ID_TRANSFER) <=> Len(d) >= 8 /\ MethodDigits(d)
<1>1. PICK p : p = <<10, 9, 0, 5, 9, 12, 11, 11>>
  OBVIOUS
<1>2. p \in Seq(Nat) /\ Len(p) = 8 /\ MethodDigits(p)
  BY <1>1 DEF MethodDigits
<1>3. Eth!ABI_METHOD_ID_TRANSFER = p
  BY <1>1 DEF Eth!ABI_METHOD_ID_TRANSFER
<1>4. Eth!Begins(d, p) <=> 8 <= Len(d) /\ SubSeq(d, 1, 8) = p
  BY <1>2 DEF Eth!Begins
<1>5. d \in Seq(Nat) /\ Len(d) \in Nat
  BY DigitsAreNat
<1>6. ASSUME 8 <= Len(d) PROVE SubSeq(d, 1, 8) = p <=> \A i \in 1 .. 8 : d[i] = p[i]
  <2>1. 8 \in Nat /\ 8 > 0
    OBVIOUS
  <2> QED BY <1>2, <1>5, <1>6, <2>1, FirstOf
<1>7. (\A i \in 1 .. 8 : d[i] = p[i]) <=> MethodDigits(d)
  <2>1. (\A i \in 1 .. 8 : d[i] = p[i])
          <=> /\ d[1] = p[1] /\ d[2] = p[2] /\ d[3] = p[3] /\ d[4] = p[4]
              /\ d[5] = p[5] /\ d[6] = p[6] /\ d[7] = p[7] /\ d[8] = p[8]
    BY EighthOf
  <2> QED BY <1>2, <2>1 DEF MethodDigits
<1>8. 8 <= Len(d) <=> Len(d) >= 8
  BY <1>5
<1> QED BY <1>3, <1>4, <1>6, <1>7, <1>8

LEMMA BeginsWithBytes ==
  ASSUME NEW b, NEW h \in Nat, h >= 4, Method(b, h)
  PROVE  Eth!Begins(b, <<169, 5, 156, 187>>)
<1>1. PICK p : p = <<169, 5, 156, 187>>
  OBVIOUS
<1>2. p \in Seq(Nat) /\ Len(p) = 4 /\ p[1] = 169 /\ p[2] = 5 /\ p[3] = 156 /\ p[4] = 187
  BY <1>1
<1>3. b \in Seq(AByte) /\ Len(b) = h /\ b[1] = 169 /\ b[2] = 5 /\ b[3] = 156 /\ b[4] = 187
  BY Zenon DEF Method
<1>4. b \in Seq(Nat)
  BY <1>3, BytesAreNat
<1>5. \A i \in 1 .. 4 : b[i] = p[i]
  <2>1. \A i \in 1 .. 4 : i \in {1, 2, 3, 4}
    OBVIOUS
  <2>2. b[1] = p[1] /\ b[2] = p[2] /\ b[3] = p[3] /\ b[4] = p[4]
    BY <1>2, <1>3
  <2> QED BY <2>1, <2>2
<1>6. SubSeq(b, 1, 4) = p
  <2>1. 4 \in Nat /\ 4 > 0 /\ 4 <= Len(b)
    BY <1>3
  <2> QED BY <1>2, <1>4, <1>5, <2>1, FirstOf
<1>7. Eth!Begins(b, p)
  <2>1. Len(p) <= Len(b) /\ SubSeq(b, 1, Len(p)) = p
    BY <1>2, <1>3, <1>6
  <2> QED BY <2>1, Zenon DEF Eth!Begins
<1> QED BY <1>1, <1>7, Zenon

LEMMA LenNat == ASSUME NEW S, NEW s \in Seq(S) PROVE Len(s) \in Nat
OBVIOUS

LEMMA TransferBytes ==
  ASSUME NEW s \in Eth!HexString, Eth!IsTransfer(s), Len(s.digits) % 2 = 0
  PROVE  Eth!Begins(Eth!ETHHexStr2CharPtr(s), <<169, 5, 156, 187>>)
<1>1. PICK d : d = s.digits
  OBVIOUS
<1>2. d \in Seq(HexDigit)
  BY <1>1 DEF Eth!HexString, HexDigit
<1>3. s.prefix /\ Eth!Begins(d, Eth!ABI_METHOD_ID_TRANSFER)
  BY <1>1, Zenon DEF Eth!IsTransfer
<1>4. Len(d) >= 8 /\ MethodDigits(d)
  BY <1>2, <1>3, BeginsWithMethod
<1>5. PICK h \in Nat : h >= 4 /\ Len(d) = 2 * h
  <2>1. Len(d) \in Nat /\ Len(d) % 2 = 0
    <3>1. Len(d) \in Nat
      BY <1>2, LenNat, Zenon
    <3> QED BY <1>1, <3>1, Zenon
  <2>0. Len(d) >= 8
    BY <1>4
  <2>2. PICK n \in Nat : n = Len(d) /\ n % 2 = 0 /\ n >= 8
    BY <2>0, <2>1
  <2>3. n \div 2 \in Nat /\ n \div 2 >= 4 /\ n = 2 * (n \div 2)
    BY <2>2
  <2> QED BY <2>2, <2>3
<1>6. Method(Eth!HexStr2CharPtr(d), h)
  BY <1>2, <1>4, <1>5, PairsOfMethod DEF MethodDigits
<1>7. Eth!ETHHexStr2CharPtr(s) = Eth!HexStr2CharPtr(d)
  BY <1>1, <1>3, Zenon DEF Eth!ETHHexStr2CharPtr
<1>8. Eth!Begins(Eth!HexStr2CharPtr(d), <<169, 5, 156, 187>>)
  BY <1>5, <1>6, BeginsWithBytes
<1> QED BY <1>7, <1>8, Zenon

-----------------------------------------------------------------------------
(* What JUB_BuildERC20AbiETH returns, and what becomes of it.              *)
AbiBytes(t) == Eth!serialize(Eth!ETHHexStr2CharPtr(t.to), Eth!Number(t.value))
AbiOf(t) == [prefix |-> TRUE, digits |-> Eth!CharPtr2HexStr(AbiBytes(t)), capitals |-> FALSE]
Fits(t) == Len(Eth!ETHHexStr2CharPtr(t.to)) <= 32 /\ Len(Eth!Number(t.value)) <= 32

LEMMA AbiIsCallData ==
  ASSUME NEW t \in Eth!Transfer, Fits(t)
  PROVE  CallData(AbiBytes(t), Eth!ETHHexStr2CharPtr(t.to), Eth!Number(t.value))
<1>1. t.to \in Eth!HexString /\ t.value \in Nat
  BY DEF Eth!Transfer
<1>2. Eth!ETHHexStr2CharPtr(t.to) \in Seq(AByte) /\ Eth!Number(t.value) \in Seq(AByte)
  BY <1>1, StringBytes, NumberWrites
<1>3. Len(Eth!ETHHexStr2CharPtr(t.to)) <= 32 /\ Len(Eth!Number(t.value)) <= 32
  BY Zenon DEF Fits
<1>4. CallData(Eth!serialize(Eth!ETHHexStr2CharPtr(t.to), Eth!Number(t.value)),
               Eth!ETHHexStr2CharPtr(t.to), Eth!Number(t.value))
  BY <1>2, <1>3, SerializeIs
<1> QED BY <1>4, Zenon DEF AbiBytes

LEMMA AbiMethod ==
  ASSUME NEW v \in Seq(AByte), Len(v) = 68, v[1] = 169, v[2] = 5, v[3] = 156, v[4] = 187
  PROVE  Len(Eth!CharPtr2HexStr(v)) >= 8 /\ MethodDigits(Eth!CharPtr2HexStr(v))
<1>1. PICK d : d = Eth!CharPtr2HexStr(v)
  OBVIOUS
<1>2. Len(d) = 2 * Len(v) /\ \A i \in 1 .. Len(v) : d[2 * i - 1] = v[i] \div 16 /\ d[2 * i] = v[i] % 16
  BY <1>1, RoundTrip
<1>3. 1 \in 1 .. Len(v) /\ 2 \in 1 .. Len(v) /\ 3 \in 1 .. Len(v) /\ 4 \in 1 .. Len(v)
  OBVIOUS
<1>4. /\ 2 * 1 - 1 = 1 /\ 2 * 1 = 2 /\ 2 * 2 - 1 = 3 /\ 2 * 2 = 4 /\ 2 * 3 - 1 = 5 /\ 2 * 3 = 6
      /\ 2 * 4 - 1 = 7 /\ 2 * 4 = 8
  OBVIOUS
<1>5. /\ d[1] = v[1] \div 16 /\ d[2] = v[1] % 16 /\ d[3] = v[2] \div 16 /\ d[4] = v[2] % 16
      /\ d[5] = v[3] \div 16 /\ d[6] = v[3] % 16 /\ d[7] = v[4] \div 16 /\ d[8] = v[4] % 16
  BY <1>2, <1>3, <1>4
<1>6. MethodDigits(d)
  <2>1. /\ 169 \div 16 = 10 /\ 169 % 16 = 9 /\ 5 \div 16 = 0 /\ 5 % 16 = 5
        /\ 156 \div 16 = 9 /\ 156 % 16 = 12 /\ 187 \div 16 = 11 /\ 187 % 16 = 11
    OBVIOUS
  <2> QED BY <1>5, <2>1 DEF MethodDigits
<1>7. Len(d) >= 8
  BY <1>2
<1> QED BY <1>1, <1>6, <1>7, Zenon

LEMMA AbiString ==
  ASSUME NEW t \in Eth!Transfer, Fits(t)
  PROVE  /\ AbiOf(t) \in Eth!HexString /\ Eth!IsTransfer(AbiOf(t))
         /\ Eth!ETHHexStr2CharPtr(AbiOf(t)) = AbiBytes(t)
<1>1. PICK v : v = AbiBytes(t)
  OBVIOUS
<1>2. v \in Seq(AByte) /\ Len(v) = 68 /\ v[1] = 169 /\ v[2] = 5 /\ v[3] = 156 /\ v[4] = 187
  <2>1. CallData(v, Eth!ETHHexStr2CharPtr(t.to), Eth!Number(t.value))
    BY <1>1, AbiIsCallData
  <2> QED BY <2>1, Zenon DEF CallData
<1>3. PICK d : d = Eth!CharPtr2HexStr(v)
  OBVIOUS
<1>4. d \in Seq(HexDigit) /\ Eth!HexStr2CharPtr(d) = v
  BY <1>2, <1>3, RoundTrip
<1>5. Len(d) >= 8 /\ MethodDigits(d)
  BY <1>2, <1>3, AbiMethod
<1>6. PICK s : s = AbiOf(t)
  OBVIOUS
<1>7. s = [prefix |-> TRUE, digits |-> d, capitals |-> FALSE]
  BY <1>1, <1>3, <1>6, Zenon DEF AbiOf
<1>8. s.prefix = TRUE /\ s.digits = d /\ s.capitals = FALSE
  BY <1>7
<1>9. s \in Eth!HexString
  <2>1. Len(Eth!HexStr2CharPtr(d)) \in Eth!TwoBytes
    BY <1>2, <1>4, TwoBytesAre, SmallTwoBytes, ZenonT(60)
  <2> QED BY <1>4, <1>7, <2>1 DEF Eth!HexString, HexDigit
<1>10. Eth!IsTransfer(s)
  BY <1>4, <1>5, <1>8, BeginsWithMethod DEF Eth!IsTransfer
<1>11. Eth!ETHHexStr2CharPtr(s) = v
  BY <1>4, <1>8, Zenon DEF Eth!ETHHexStr2CharPtr
<1> QED BY <1>1, <1>6, <1>9, <1>10, <1>11, Zenon

(* The receiver and the amount stand in the call data.                     *)
LEMMA Reached32 == ASSUME NEW o \in Nat, NEW n \in Nat, o + 32 <= n
                  PROVE  o + 1 \in 1 .. n /\ o + 32 \in 0 .. n
OBVIOUS

LEMMA Counted32 == ASSUME NEW o \in Nat PROVE (o + 32) - (o + 1) + 1 = 32
OBVIOUS

LEMMA WordOf ==
  ASSUME NEW v \in Seq(AByte), NEW o \in Nat, NEW b \in Seq(AByte), Len(b) <= 32, o + 32 <= Len(v),
         \A i \in 1 .. 32 : v[o + i] = Eth!Word(b)[i]
  PROVE  SubSeq(v, o + 1, o + 32) = Eth!Word(b)
<1>1. PICK w : w = Eth!Word(b)
  OBVIOUS
<1>2. w \in Seq(AByte) /\ Len(w) = 32
  BY <1>1, WordIs, Zenon DEF IsWord
<1>3. PICK n \in Nat : n = Len(v)
  BY LenNat, Zenon
<1>4. o + 1 \in 1 .. n /\ o + 32 \in 0 .. n /\ (o + 32) - (o + 1) + 1 = 32
  <2>1. o + 32 <= n
    BY <1>3
  <2> QED BY <2>1, Reached32, Counted32
<1>5. PICK u : u = SubSeq(v, o + 1, o + 32)
  OBVIOUS
<1>6. u = [i \in 1 .. (o + 32) - (o + 1) + 1 |-> v[i + (o + 1) - 1]]
  <2>1. PICK x \in Nat, y \in Nat : x = o + 1 /\ y = o + 32
    OBVIOUS
  <2>2. x \in 1 .. n /\ y \in 0 .. n
    BY <1>4, <2>1, Zenon
  <2>3. SubSeq(v, x, y) = [i \in 1 .. y - x + 1 |-> v[i + x - 1]]
    BY <1>3, <2>2
  <2> QED BY <1>5, <2>1, <2>3, Zenon
<1>7. u = [i \in 1 .. 32 |-> v[i + (o + 1) - 1]]
  BY <1>4, <1>6
<1>8. ASSUME NEW i \in 1 .. 32 PROVE u[i] = w[i]
  <2>1. i + (o + 1) - 1 = o + i
    OBVIOUS
  <2>2. u[i] = v[o + i]
    BY <1>7, <2>1
  <2> QED BY <1>1, <2>2
<1>9. w = [i \in 1 .. 32 |-> w[i]] /\ u = [i \in 1 .. 32 |-> u[i]]
  BY <1>2, <1>7
<1>10. u = w
  BY <1>8, <1>9
<1> QED BY <1>1, <1>5, <1>10, Zenon

LEMMA Paid ==
  ASSUME NEW t \in Eth!Transfer, Fits(t), t.to.prefix
  PROVE  LET v == AbiBytes(t)
         IN  /\ Len(v) = 68 /\ Eth!EndsIn(SubSeq(v, 5, 36), t.to.digits)
             /\ Eth!NumberOf(SubSeq(v, 37, 68)) = t.value
<1>1. PICK v : v = AbiBytes(t)
  OBVIOUS
<1>2. PICK a : a = Eth!ETHHexStr2CharPtr(t.to)
  OBVIOUS
<1>3. PICK b : b = Eth!Number(t.value)
  OBVIOUS
<1>4. t.to \in Eth!HexString /\ t.value \in Nat
  BY DEF Eth!Transfer
<1>5. a \in Seq(AByte) /\ Len(a) <= 32 /\ Eth!Spells(a, t.to.digits)
  <2>1. Len(a) <= 32
    BY <1>2, Zenon DEF Fits
  <2> QED BY <1>2, <1>4, <2>1, StringBytes
<1>6. b \in Seq(AByte) /\ Len(b) <= 32 /\ Eth!NumberOf(b) = t.value
  <2>1. Len(b) <= 32
    BY <1>3, Zenon DEF Fits
  <2>2. Eth!Number(t.value) \in Seq(AByte) /\ Eth!Writes(Eth!Number(t.value), t.value)
    BY <1>4, NumberWrites
  <2> QED BY <1>3, <2>1, <2>2, Zenon DEF Eth!Writes
<1>7. CallData(v, a, b)
  BY <1>1, <1>2, <1>3, AbiIsCallData, Zenon
<1>8. v \in Seq(AByte) /\ Len(v) = 68 /\ \A i \in 1 .. 32 : v[4 + i] = Eth!Word(a)[i] /\ v[36 + i] = Eth!Word(b)[i]
  BY <1>7, Zenon DEF CallData
<1>9. SubSeq(v, 5, 36) = Eth!Word(a)
  <2>1. 4 \in Nat /\ 4 + 32 <= Len(v) /\ 4 + 1 = 5 /\ 4 + 32 = 36
    BY <1>8
  <2>2. SubSeq(v, 4 + 1, 4 + 32) = Eth!Word(a)
    BY <1>5, <1>8, <2>1, WordOf
  <2> QED BY <2>1, <2>2
<1>10. SubSeq(v, 37, 68) = Eth!Word(b)
  <2>1. 36 \in Nat /\ 36 + 32 <= Len(v) /\ 36 + 1 = 37 /\ 36 + 32 = 68
    BY <1>8
  <2>2. SubSeq(v, 36 + 1, 36 + 32) = Eth!Word(b)
    BY <1>6, <1>8, <2>1, WordOf
  <2> QED BY <2>1, <2>2
<1>11. Eth!EndsIn(Eth!Word(a), t.to.digits)
  <2>1. t.to.digits \in Seq(HexDigit)
    BY <1>4 DEF Eth!HexString, HexDigit
  <2>2. Eth!EndsIn(a, t.to.digits) /\ IsWord(Eth!Word(a), a)
    BY <1>5, WordIs DEF Eth!Spells
  <2> QED BY <1>5, <2>1, <2>2, WordEnds
<1>12. Eth!NumberOf(Eth!Word(b)) = t.value
  <2>1. IsWord(Eth!Word(b), b)
    BY <1>6, WordIs
  <2> QED BY <1>6, <2>1, WordNumber
<1>13. Len(v) = 68 /\ Eth!EndsIn(SubSeq(v, 5, 36), t.to.digits) /\ Eth!NumberOf(SubSeq(v, 37, 68)) = t.value
  BY <1>8, <1>9, <1>10, <1>11, <1>12
<1> QED BY <1>1, <1>13

-----------------------------------------------------------------------------
(* A request on its way: the abi is the one that BuildERC20Abi makes, the  *)
(* data is laid out, and what the device has read are its first values.    *)
Built == Fits(transfer) /\ abi = AbiOf(transfer)
EthGiven == GivenOf(req, Eth!Input)
EthField == [tag : Nat, value : Seq(Nat)]

ReadTo(st) ==
  /\ Layout(apdu.data, 8, EthGiven, st)
  /\ fields \in Seq(EthField) /\ Len(fields) <= 8 /\ pos = st[Len(fields) + 1]
  /\ \A i \in 1 .. Len(fields) : fields[i] = [tag |-> 64 + i, value |-> EthGiven[i]]
Asked ==
  /\ apdu.ins = (IF Eth!IsTransfer(Eth!Input) THEN 200 ELSE 42) /\ apdu.data \in Seq(Nat)
  /\ \E st : ReadTo(st)

EthInv ==
  /\ req \in Requests /\ transfer \in Transfers \cup {Eth!NoTransfer}
  /\ at \in {"abi", "sign", "sent", "undefined"}
  /\ at = "abi" => transfer # Eth!NoTransfer
  /\ at \in {"sign", "sent"} /\ transfer # Eth!NoTransfer => Built
  /\ at # "sent" => fields = <<>> /\ pos = 1
  /\ at = "sent" => Asked

LEMMA EthTypes ==
  EthInv => /\ req \in Eth!Request
            /\ transfer # Eth!NoTransfer => transfer \in Eth!Transfer
<1>1. Requests \subseteq Eth!Request /\ Transfers \subseteq Eth!Transfer
  BY FormatAssumption
<1>2. EthInv => req \in Requests /\ transfer \in Transfers \cup {Eth!NoTransfer}
  BY Zenon DEF EthInv
<1> QED BY <1>1, <1>2

LEMMA InputType ==
  ASSUME EthInv, at \in {"sign", "sent"}
  PROVE  /\ Eth!Input \in Eth!HexString
         /\ transfer # Eth!NoTransfer =>
              Eth!IsTransfer(Eth!Input) /\ Eth!ETHHexStr2CharPtr(Eth!Input) = AbiBytes(transfer)
<1>1. CASE transfer = Eth!NoTransfer
  <2>1. Eth!Input = req.input
    BY <1>1, Zenon DEF Eth!Input
  <2> QED BY <1>1, <2>1, EthTypes, RequestFields
<1>2. CASE transfer # Eth!NoTransfer
  <2>1. Eth!Input = AbiOf(transfer) /\ Fits(transfer)
    BY <1>2, Zenon DEF Eth!Input, EthInv, Built
  <2>2. transfer \in Eth!Transfer
    BY <1>2, EthTypes
  <2> QED BY <2>1, <2>2, AbiString
<1> QED BY <1>1, <1>2

LEMMA EthInit == Eth!Init => EthInv
<1> SUFFICES ASSUME Eth!Init PROVE EthInv
  OBVIOUS
<1>1. /\ req \in Requests /\ transfer \in Transfers \cup {Eth!NoTransfer}
      /\ at = (IF transfer = Eth!NoTransfer THEN "sign" ELSE "abi") /\ pos = 1 /\ fields = <<>>
  BY Zenon DEF Eth!Init
<1>2. CASE transfer = Eth!NoTransfer
  <2>1. at = "sign"
    BY <1>1, <1>2
  <2> QED BY <1>1, <1>2, <2>1 DEF EthInv
<1>3. CASE transfer # Eth!NoTransfer
  <2>1. at = "abi"
    BY <1>1, <1>3
  <2> QED BY <1>1, <1>3, <2>1 DEF EthInv
<1> QED BY <1>2, <1>3

LEMMA AbiStep == EthInv /\ Eth!BuildERC20Abi => EthInv'
<1> SUFFICES ASSUME EthInv, Eth!BuildERC20Abi PROVE EthInv'
  OBVIOUS
<1>1. /\ req \in Requests /\ transfer \in Transfers \cup {Eth!NoTransfer} /\ fields = <<>> /\ pos = 1
      /\ at = "abi"
  BY DEF EthInv, Eth!BuildERC20Abi
<1>2. req' = req /\ transfer' = transfer /\ fields' = fields /\ pos' = pos
  BY DEF Eth!BuildERC20Abi
<1>3. CASE Fits(transfer)
  <2>1. ~(Len(Eth!ETHHexStr2CharPtr(transfer.to)) > 32 \/ Len(Eth!Number(transfer.value)) > 32)
    <3>1. transfer \in Eth!Transfer
      BY <1>1, EthTypes DEF EthInv
    <3>2. transfer.to \in Eth!HexString /\ transfer.value \in Nat
      BY <3>1 DEF Eth!Transfer
    <3>3. Eth!ETHHexStr2CharPtr(transfer.to) \in Seq(AByte) /\ Eth!Number(transfer.value) \in Seq(AByte)
      BY <3>2, StringBytes, NumberWrites
    <3>4. PICK m \in Nat, n \in Nat : /\ m = Len(Eth!ETHHexStr2CharPtr(transfer.to))
                                      /\ n = Len(Eth!Number(transfer.value))
      BY <3>3, LenNat, Zenon
    <3>5. m <= 32 /\ n <= 32
      BY <1>3, <3>4, Zenon DEF Fits
    <3>6. ~(m > 32 \/ n > 32)
      BY <3>5
    <3> QED BY <3>4, <3>6, Zenon
  <2>2. abi' = AbiOf(transfer) /\ at' = "sign"
    BY <2>1, Zenon DEF Eth!BuildERC20Abi, AbiOf, AbiBytes
  <2>3. Built'
    BY <1>2, <1>3, <2>2 DEF Built
  <2> QED BY <1>1, <1>2, <2>2, <2>3 DEF EthInv
<1>4. CASE ~Fits(transfer)
  <2>1. at' \in {"sign", "undefined"}
    BY DEF Eth!BuildERC20Abi
  <2>2. at' # "sign"
    <3>1. Len(Eth!ETHHexStr2CharPtr(transfer.to)) > 32 \/ Len(Eth!Number(transfer.value)) > 32
      <4>1. transfer \in Eth!Transfer
        BY <1>1, EthTypes DEF EthInv
      <4>2. transfer.to \in Eth!HexString /\ transfer.value \in Nat
        BY <4>1 DEF Eth!Transfer
      <4>3. Eth!ETHHexStr2CharPtr(transfer.to) \in Seq(AByte) /\ Eth!Number(transfer.value) \in Seq(AByte)
        BY <4>2, StringBytes, NumberWrites
      <4>4. PICK m \in Nat, n \in Nat : /\ m = Len(Eth!ETHHexStr2CharPtr(transfer.to))
                                        /\ n = Len(Eth!Number(transfer.value))
        BY <4>3, LenNat, Zenon
      <4>5. ~(m <= 32 /\ n <= 32)
        BY <1>4, <4>4, Zenon DEF Fits
      <4>6. m > 32 \/ n > 32
        BY <4>5
      <4> QED BY <4>4, <4>6, Zenon
    <3>2. at' = "undefined"
      BY <3>1, Zenon DEF Eth!BuildERC20Abi
    <3> QED BY <3>2
  <2>3. at' = "undefined"
    BY <2>1, <2>2
  <2> QED BY <1>1, <1>2, <2>3 DEF EthInv
<1> QED BY <1>3, <1>4

LEMMA SignStep == EthInv /\ Eth!SignTransaction => EthInv'
<1> SUFFICES ASSUME EthInv, Eth!SignTransaction PROVE EthInv'
  OBVIOUS
<1>1. /\ req \in Requests /\ transfer \in Transfers \cup {Eth!NoTransfer} /\ fields = <<>> /\ pos = 1
      /\ at = "sign" /\ (transfer # Eth!NoTransfer => Built)
  BY DEF EthInv, Eth!SignTransaction
<1>2. /\ req' = req /\ transfer' = transfer /\ fields' = fields /\ pos' = pos /\ abi' = abi /\ at' = "sent"
      /\ apdu' = [ins |-> IF Eth!IsTransfer(Eth!Input) THEN 200 ELSE 42, data |-> Eth!RequestData(req, Eth!Input)]
  BY Zenon DEF Eth!SignTransaction
<1>3. Eth!Input' = Eth!Input /\ EthGiven' = EthGiven /\ Built' = Built
  BY <1>2, Zenon DEF Eth!Input, EthGiven, Built
<1>4. apdu'.ins = (IF Eth!IsTransfer(Eth!Input) THEN 200 ELSE 42) /\ apdu'.data = Eth!RequestData(req, Eth!Input)
  BY <1>2
<1>5. Laid(apdu'.data, 8, EthGiven)
  <2>1. req \in Eth!Request /\ Eth!Input \in Eth!HexString
    BY <1>1, EthTypes, InputType
  <2>2. Laid(Eth!RequestData(req, Eth!Input), 8, GivenOf(req, Eth!Input))
    BY <2>1, RequestLaid
  <2> QED BY <1>4, <2>2, Zenon DEF EthGiven
<1>6. PICK st : Layout(apdu'.data, 8, EthGiven, st)
  BY <1>5, Zenon DEF Laid
<1>7. apdu'.data \in Seq(Nat)
  BY <1>5, Zenon DEF Laid
<1>8. ReadTo(st)'
  <2>1. fields' = <<>> /\ pos' = 1
    BY <1>1, <1>2
  <2>2. st[1] = 1
    BY <1>6 DEF Layout
  <2>3. fields' \in Seq(EthField) /\ Len(fields') = 0
    BY <2>1
  <2>4. Len(fields') <= 8 /\ Len(fields') + 1 = 1 /\ \A i \in 1 .. Len(fields') : FALSE
    BY <2>3
  <2> QED BY <1>3, <1>6, <2>1, <2>2, <2>3, <2>4 DEF ReadTo
<1>9. Asked'
  BY <1>3, <1>4, <1>7, <1>8, Zenon DEF Asked
<1> QED BY <1>1, <1>2, <1>3, <1>9 DEF EthInv

LEMMA ReadStep == EthInv /\ Eth!DeviceReads => EthInv'
<1> SUFFICES ASSUME EthInv, Eth!DeviceReads PROVE EthInv'
  OBVIOUS
<1>1. /\ req \in Requests /\ transfer \in Transfers \cup {Eth!NoTransfer}
      /\ at = "sent" /\ (transfer # Eth!NoTransfer => Built) /\ Asked
  BY DEF EthInv, Eth!DeviceReads
<1>2. /\ req' = req /\ transfer' = transfer /\ abi' = abi /\ at' = at /\ apdu' = apdu
      /\ pos <= Len(apdu.data)
      /\ fields' = Append(fields, [tag |-> apdu.data[pos],
                                   value |-> SubSeq(apdu.data, pos + 1 + SizeRead(apdu.data, pos),
                                                    pos + SizeRead(apdu.data, pos) + LenRead(apdu.data, pos))])
      /\ pos' = pos + 1 + SizeRead(apdu.data, pos) + LenRead(apdu.data, pos)
  BY SMT DEF Eth!DeviceReads, SizeRead, LenRead
<1>3. PICK d : /\ d = apdu.data
               /\ req' = req /\ transfer' = transfer /\ abi' = abi /\ at' = at /\ apdu' = apdu /\ pos <= Len(d)
               /\ fields' = Append(fields, [tag |-> d[pos],
                                            value |-> SubSeq(d, pos + 1 + SizeRead(d, pos),
                                                             pos + SizeRead(d, pos) + LenRead(d, pos))])
               /\ pos' = pos + 1 + SizeRead(d, pos) + LenRead(d, pos)
  BY <1>2, Zenon
<1>4. Eth!Input' = Eth!Input /\ EthGiven' = EthGiven /\ Built' = Built
  BY <1>3, Zenon DEF Eth!Input, EthGiven, Built
<1>5. d \in Seq(Nat) /\ apdu.ins = IF Eth!IsTransfer(Eth!Input) THEN 200 ELSE 42
  BY <1>1, <1>3, Zenon DEF Asked
<1>6. PICK st : ReadTo(st)
  BY <1>1, Zenon DEF Asked
<1>7. PICK n \in Nat : n = Len(fields) /\ n <= 8 /\ fields \in Seq(EthField) /\ pos = st[n + 1]
  <2>1. fields \in Seq(EthField) /\ Len(fields) <= 8 /\ pos = st[Len(fields) + 1]
    BY <1>6, Zenon DEF ReadTo
  <2>2. Len(fields) \in Nat
    BY <2>1, LenNat, Zenon
  <2> QED BY <2>1, <2>2, Zenon
<1>8. Layout(d, 8, EthGiven, st) /\ \A i \in 1 .. n : fields[i] = [tag |-> 64 + i, value |-> EthGiven[i]]
  BY <1>3, <1>6, <1>7, Zenon DEF ReadTo
<1>9. /\ st \in [1 .. 8 + 1 -> Nat \ {0}] /\ st[8 + 1] = Len(d) + 1
      /\ \A i \in 1 .. 8 : /\ Stands(d, st[i], 64 + i, EthGiven[i])
                           /\ st[i + 1] = st[i] + TlvSize(Len(EthGiven[i]))
  BY <1>8, Zenon DEF Layout
<1>10. n < 8 /\ n + 1 \in 1 .. 8 /\ n + 1 \in 1 .. 8 + 1
  <2>1. n # 8
    <3>1. PICK x \in Nat : x = Len(d)
      BY <1>5, LenNat, Zenon
    <3>2. pos <= x
      BY <1>3, <3>1, Zenon
    <3>3. n = 8 => pos = x + 1
      BY <1>7, <1>9, <3>1, Zenon
    <3>4. n = 8 => FALSE
      BY <3>1, <3>2, <3>3
    <3> QED BY <3>4
  <2>2. n <= 8
    BY <1>7
  <2> QED BY <2>1, <2>2
<1>11. PICK v : v = EthGiven[n + 1]
  OBVIOUS
<1>12. v \in Seq(Nat) /\ Len(v) \in TwoBytes
  <2>1. GivenValues(EthGiven)
    BY <1>1, EthTypes, InputType, GivenType DEF EthGiven
  <2> QED BY <1>10, <1>11, <2>1, Zenon DEF GivenValues
<1>13. pos \in Nat \ {0} /\ Stands(d, pos, 64 + (n + 1), v) /\ st[(n + 1) + 1] = pos + TlvSize(Len(v))
  <2>1. st[n + 1] \in Nat \ {0}
    BY <1>9, <1>10
  <2> QED BY <1>7, <1>9, <1>10, <1>11, <2>1, Zenon
<1>14. PICK e : e = [tag |-> 64 + (n + 1), value |-> v]
  OBVIOUS
<1>15. fields' = Append(fields, e) /\ pos' = st[(n + 1) + 1]
  <2>1. /\ d[pos] = 64 + (n + 1)
        /\ SubSeq(d, pos + 1 + SizeRead(d, pos), pos + SizeRead(d, pos) + LenRead(d, pos)) = v
        /\ pos + 1 + SizeRead(d, pos) + LenRead(d, pos) = pos + TlvSize(Len(v))
    BY <1>5, <1>12, <1>13, TakenApart
  <2>2. fields' = Append(fields, e)
    BY <1>3, <1>14, <2>1, Zenon
  <2> QED BY <1>3, <1>13, <2>1, <2>2, Zenon
<1>16. e \in EthField
  BY <1>12, <1>14 DEF EthField
<1>17. /\ fields' \in Seq(EthField) /\ Len(fields') = n + 1 /\ fields'[n + 1] = e
       /\ \A i \in 1 .. n : fields'[i] = fields[i]
  BY <1>7, <1>15, <1>16, AppendProperties, SMTT(30)
<1>18. ASSUME NEW i \in 1 .. n + 1 PROVE fields'[i] = [tag |-> 64 + i, value |-> EthGiven[i]]
  <2>1. CASE i \in 1 .. n
    BY <1>8, <1>17, <2>1, Zenon
  <2>2. CASE i = n + 1
    BY <1>11, <1>14, <1>17, <2>2, Zenon
  <2> QED BY <2>1, <2>2
<1>19. ReadTo(st)'
  <2>1. n + 1 <= 8
    BY <1>10
  <2>2. Layout(apdu'.data, 8, EthGiven', st)
    BY <1>3, <1>4, <1>8, Zenon
  <2> QED BY <1>4, <1>15, <1>17, <1>18, <2>1, <2>2, Zenon DEF ReadTo
<1>20. Asked'
  BY <1>3, <1>4, <1>5, <1>19, Zenon DEF Asked
<1> QED BY <1>1, <1>3, <1>4, <1>20 DEF EthInv

LEMMA EthSame == EthInv /\ UNCHANGED <<at, pos, ethVars>> => EthInv'
<1> SUFFICES ASSUME EthInv, UNCHANGED <<at, pos, ethVars>> PROVE EthInv'
  OBVIOUS
<1>1. /\ at' = at /\ pos' = pos /\ req' = req /\ transfer' = transfer /\ abi' = abi /\ apdu' = apdu
      /\ fields' = fields
  BY DEF ethVars
<1>2. Eth!Input' = Eth!Input /\ EthGiven' = EthGiven /\ Built' = Built
  BY <1>1, Zenon DEF Eth!Input, EthGiven, Built
<1>3. ASSUME NEW st, ReadTo(st) PROVE ReadTo(st)'
  BY <1>1, <1>2, <1>3, Zenon DEF ReadTo
<1>4. Asked => Asked'
  BY <1>1, <1>2, <1>3, Zenon DEF Asked
<1> QED BY <1>1, <1>2, <1>4, Zenon DEF EthInv

LEMMA EthStep == EthInv /\ Eth!Next => EthInv'
<1> SUFFICES ASSUME EthInv, Eth!Next PROVE EthInv'
  OBVIOUS
<1>1. CASE Eth!Finished
  <2>1. UNCHANGED <<at, pos, ethVars>>
    BY <1>1 DEF Eth!Finished, Eth!vars, ethVars
  <2> QED BY <2>1, EthSame
<1> QED BY <1>1, AbiStep, SignStep, ReadStep DEF Eth!Next

-----------------------------------------------------------------------------
LEMMA AllRead ==
  ASSUME EthInv, Eth!WasRead
  PROVE  /\ Len(fields) = 8 /\ \A i \in 1 .. 8 : fields[i] = [tag |-> 64 + i, value |-> EthGiven[i]]
         /\ apdu.ins = IF Eth!IsTransfer(Eth!Input) THEN 200 ELSE 42
<1>1. at = "sent" /\ pos > Len(apdu.data)
  BY DEF Eth!WasRead
<1>2. Asked
  BY <1>1, Zenon DEF EthInv
<1>3. PICK st : ReadTo(st)
  BY <1>2, Zenon DEF Asked
<1>4. PICK n \in Nat : n = Len(fields) /\ n <= 8 /\ pos = st[n + 1]
  <2>1. fields \in Seq(EthField) /\ Len(fields) <= 8 /\ pos = st[Len(fields) + 1]
    BY <1>3, Zenon DEF ReadTo
  <2>2. Len(fields) \in Nat
    BY <2>1, LenNat, Zenon
  <2> QED BY <2>1, <2>2, Zenon
<1>5. Layout(apdu.data, 8, EthGiven, st) /\ \A i \in 1 .. n : fields[i] = [tag |-> 64 + i, value |-> EthGiven[i]]
  BY <1>3, <1>4, Zenon DEF ReadTo
<1>6. n = 8
  <2>1. SUFFICES ASSUME n < 8 PROVE FALSE
    BY <1>4
  <2>2. n + 1 \in 1 .. 8
    BY <2>1
  <2>3. PICK v : v = EthGiven[n + 1]
    OBVIOUS
  <2>4. Stands(apdu.data, pos, 64 + (n + 1), v)
    BY <1>4, <1>5, <2>2, <2>3, Zenon DEF Layout
  <2>5. pos + TlvSize(Len(v)) <= Len(apdu.data) + 1
    BY <2>4, Zenon DEF Stands
  <2>6. Len(v) \in TwoBytes
    <3>1. GivenValues(EthGiven)
      BY <1>1, EthTypes, InputType, GivenType DEF EthGiven
    <3> QED BY <2>2, <2>3, <3>1, Zenon DEF GivenValues
  <2>7. PICK y \in Nat : y = Len(v)
    BY <2>6, LengthNat
  <2>8. PICK m \in Nat : m > 0 /\ TlvSize(y) = 1 + m + y
    BY <2>6, <2>7, LengthIs
  <2>9. PICK x \in Nat : x = Len(apdu.data)
    BY <1>2, LenNat, Zenon DEF Asked
  <2>10. pos \in Nat
    <3>1. st \in [1 .. 8 + 1 -> Nat \ {0}]
      BY <1>5, Zenon DEF Layout
    <3>2. n + 1 \in 1 .. 8 + 1
      BY <2>1
    <3> QED BY <1>4, <3>1, <3>2
  <2>11. pos + (1 + m + y) <= x + 1
    BY <2>5, <2>7, <2>8, <2>9, Zenon
  <2>12. pos > x
    BY <1>1, <2>9, Zenon
  <2> QED BY <2>8, <2>9, <2>10, <2>11, <2>12
<1>7. apdu.ins = IF Eth!IsTransfer(Eth!Input) THEN 200 ELSE 42
  BY <1>2, Zenon DEF Asked
<1> QED BY <1>4, <1>5, <1>6, <1>7, Zenon

LEMMA FieldsAre ==
  ASSUME EthInv, Eth!WasRead
  PROVE  /\ Eth!Field(65) = NonceOf(req) /\ Eth!Field(66) = Eth!Number(req.gasPrice)
         /\ Eth!Field(67) = Eth!Number(req.gasLimit)
         /\ Eth!Field(68) = Eth!ETHHexStr2CharPtr(req.to) /\ Eth!Field(69) = WeiOf(req)
         /\ Eth!Field(70) = Eth!ETHHexStr2CharPtr(Eth!Input)
         /\ Eth!Field(71) = Eth!FullPath(req.path) /\ Eth!Field(72) = <<req.chainID % 256>>
<1>1. PICK g : g = EthGiven
  OBVIOUS
<1>2. \A i \in 1 .. 8 : fields[i].value = g[i]
  <2>1. \A i \in 1 .. 8 : fields[i] = [tag |-> 64 + i, value |-> g[i]]
    BY <1>1, AllRead
  <2> QED BY <2>1
<1>3. /\ 65 - 64 = 1 /\ 66 - 64 = 2 /\ 67 - 64 = 3 /\ 68 - 64 = 4 /\ 69 - 64 = 5 /\ 70 - 64 = 6
      /\ 71 - 64 = 7 /\ 72 - 64 = 8
  OBVIOUS
<1>4. /\ 1 \in 1 .. 8 /\ 2 \in 1 .. 8 /\ 3 \in 1 .. 8 /\ 4 \in 1 .. 8 /\ 5 \in 1 .. 8 /\ 6 \in 1 .. 8
      /\ 7 \in 1 .. 8 /\ 8 \in 1 .. 8
  OBVIOUS
<1>5. /\ Eth!Field(65) = g[1] /\ Eth!Field(66) = g[2] /\ Eth!Field(67) = g[3] /\ Eth!Field(68) = g[4]
      /\ Eth!Field(69) = g[5] /\ Eth!Field(70) = g[6] /\ Eth!Field(71) = g[7] /\ Eth!Field(72) = g[8]
  BY <1>2, <1>3, <1>4 DEF Eth!Field
<1>6. /\ g[1] = NonceOf(req) /\ g[2] = Eth!Number(req.gasPrice) /\ g[3] = Eth!Number(req.gasLimit)
      /\ g[4] = Eth!ETHHexStr2CharPtr(req.to) /\ g[5] = WeiOf(req)
      /\ g[6] = Eth!ETHHexStr2CharPtr(Eth!Input)
      /\ g[7] = Eth!FullPath(req.path) /\ g[8] = <<req.chainID % 256>>
  BY <1>1, GivenAre DEF EthGiven
<1> QED BY <1>5, <1>6, Zenon

LEMMA EthReads == EthInv => Eth!DeviceReadsRequest
<1> SUFFICES ASSUME EthInv, Eth!WasRead PROVE Eth!DeviceReadsRequest
  BY DEF Eth!DeviceReadsRequest
<1>1. req \in Eth!Request /\ Eth!Input \in Eth!HexString
  BY EthTypes, InputType DEF Eth!WasRead
<1>2. [i \in 1 .. Len(fields) |-> fields[i].tag] = [i \in 1 .. 8 |-> 64 + i]
  <2>1. Len(fields) = 8 /\ \A i \in 1 .. 8 : fields[i] = [tag |-> 64 + i, value |-> EthGiven[i]]
    BY AllRead
  <2>2. \A i \in 1 .. 8 : fields[i].tag = 64 + i
    BY <2>1
  <2> QED BY <2>1, <2>2
<1>3. \A n \in Eth!Amount : Eth!Writes(Eth!Number(n), n) /\ n \in Nat /\ (Eth!Number(n)[1] = 0 => n = 0)
  BY AmountBytes, NumberWrites
<1>4. /\ req.nonce \in Eth!Amount /\ req.gasPrice \in Eth!Amount /\ req.gasLimit \in Eth!Amount
      /\ req.to \in Eth!HexString /\ (req.value # Eth!NoValue => req.value \in Eth!Amount)
  BY <1>1, RequestFields
<1>5. Eth!Writes(NonceOf(req), req.nonce)
  BY <1>3, <1>4, NoBytesWrite, Zenon DEF NonceOf
<1>6. IF req.value = Eth!NoValue THEN WeiOf(req) = <<>> ELSE Eth!Writes(WeiOf(req), req.value)
  BY <1>3, <1>4, Zenon DEF WeiOf
<1>7. req.to.prefix => Eth!Spells(Eth!ETHHexStr2CharPtr(req.to), req.to.digits)
  BY <1>4, StringBytes
<1>8. Eth!Input.prefix => Eth!Spells(Eth!ETHHexStr2CharPtr(Eth!Input), Eth!Input.digits)
  BY <1>1, StringBytes
<1>9. Eth!Writes(Eth!Number(req.gasPrice), req.gasPrice) /\ Eth!Writes(Eth!Number(req.gasLimit), req.gasLimit)
  BY <1>3, <1>4, Zenon
<1>10. /\ Eth!Field(65) = NonceOf(req) /\ Eth!Field(66) = Eth!Number(req.gasPrice)
       /\ Eth!Field(67) = Eth!Number(req.gasLimit)
       /\ Eth!Field(68) = Eth!ETHHexStr2CharPtr(req.to) /\ Eth!Field(69) = WeiOf(req)
       /\ Eth!Field(70) = Eth!ETHHexStr2CharPtr(Eth!Input)
       /\ Eth!Field(71) = Eth!FullPath(req.path) /\ Eth!Field(72) = <<req.chainID % 256>>
  BY FieldsAre
<1>11. Eth!Writes(Eth!Field(65), req.nonce) /\ Eth!Writes(Eth!Field(66), req.gasPrice)
       /\ Eth!Writes(Eth!Field(67), req.gasLimit)
  BY <1>5, <1>9, <1>10, Zenon
<1>12. req.to.prefix => Eth!Spells(Eth!Field(68), req.to.digits)
  BY <1>7, <1>10, Zenon
<1>13. IF req.value = Eth!NoValue THEN Eth!Field(69) = <<>> ELSE Eth!Writes(Eth!Field(69), req.value)
  BY <1>6, <1>10, Zenon
<1>14. Eth!Input.prefix => Eth!Spells(Eth!Field(70), Eth!Input.digits)
  BY <1>8, <1>10, Zenon
<1> QED BY <1>2, <1>10, <1>11, <1>12, <1>13, <1>14, Zenon DEF Eth!DeviceReadsRequest

LEMMA EthPays == EthInv => Eth!TransferPays
<1> SUFFICES ASSUME EthInv PROVE Eth!TransferPays
  OBVIOUS
<1>1. Eth!WasRead => at \in {"sign", "sent"}
  BY DEF Eth!WasRead
<1>2. Eth!WasRead => Eth!Field(70) = Eth!ETHHexStr2CharPtr(Eth!Input)
  BY FieldsAre
<1>3. ASSUME Eth!WasRead, apdu.ins = 200, Len(Eth!Input.digits) % 2 = 0
      PROVE  Eth!Begins(Eth!Field(70), <<169, 5, 156, 187>>)
  <2>1. Eth!IsTransfer(Eth!Input)
    <3>1. apdu.ins = IF Eth!IsTransfer(Eth!Input) THEN 200 ELSE 42
      BY <1>3, AllRead
    <3>2. ~(42 = 200)
      OBVIOUS
    <3> QED BY <1>3, <3>1, <3>2
  <2>2. Eth!Input \in Eth!HexString
    BY <1>1, <1>3, InputType
  <2>3. Eth!Begins(Eth!ETHHexStr2CharPtr(Eth!Input), <<169, 5, 156, 187>>)
    BY <1>3, <2>1, <2>2, TransferBytes
  <2> QED BY <1>2, <1>3, <2>3, Zenon
<1>4. ASSUME Eth!WasRead, transfer # Eth!NoTransfer PROVE apdu.ins = 200
  <2>1. Eth!IsTransfer(Eth!Input)
    BY <1>1, <1>4, InputType
  <2> QED BY <1>4, <2>1, AllRead
<1>5. ASSUME Eth!WasRead, transfer # Eth!NoTransfer, transfer.to.prefix
      PROVE  /\ Len(Eth!Field(70)) = 68
             /\ Eth!EndsIn(SubSeq(Eth!Field(70), 5, 36), transfer.to.digits)
             /\ Eth!NumberOf(SubSeq(Eth!Field(70), 37, 68)) = transfer.value
  <2>1. Eth!Field(70) = AbiBytes(transfer)
    BY <1>1, <1>2, <1>5, InputType, Zenon
  <2>2. Fits(transfer) /\ transfer \in Eth!Transfer
    BY <1>1, <1>5, EthTypes, Zenon DEF EthInv, Built
  <2>3. PICK v : v = AbiBytes(transfer)
    OBVIOUS
  <2>4. /\ Len(v) = 68 /\ Eth!EndsIn(SubSeq(v, 5, 36), transfer.to.digits)
        /\ Eth!NumberOf(SubSeq(v, 37, 68)) = transfer.value
    BY <1>5, <2>2, <2>3, Paid
  <2> QED BY <2>1, <2>3, <2>4, Zenon
<1> QED BY <1>3, <1>4, <1>5, Zenon DEF Eth!TransferPays

EthRuns == format = "ETH" => EthInv

LEMMA EthInvariant == FormatSpec => []EthRuns
<1>1. FormatInit => EthRuns
  BY EthInit DEF FormatInit, EthRuns
<1>2. EthRuns /\ [FormatNext]_<<format, vars, at, pos, fidoVars, tlvVars, txVars, ethVars>> => EthRuns'
  BY EthStep, EthSame DEF FormatNext, EthRuns
<1> QED
  BY <1>1, <1>2, PTL DEF FormatSpec

(* Whatever transaction JUB_SignTransactionETH is given, with numbers,     *)
(* receiver and input of at most 65535 bytes, the device reads from        *)
(* SignTXETH's APDU what DeviceReadsRequest says: each number is the one   *)
(* that was given, each string given with 0x is spelt as it was, in eight  *)
(* TLVs and in order.                                                      *)
THEOREM EthReadsRight == FormatSpec => []DeviceReadsRequest
<1>1. EthRuns => DeviceReadsRequest
  BY EthReads DEF EthRuns, DeviceReadsRequest
<1> QED
  BY <1>1, EthInvariant, PTL

(* Whatever receiver and amount JUB_BuildERC20AbiETH is given, if they fit *)
(* into words the device is told of a token transfer and reads in it that  *)
(* receiver and that amount.                                               *)
THEOREM TransferPaysRight == FormatSpec => []TransferPays
<1>1. EthRuns => TransferPays
  BY EthPays DEF EthRuns, TransferPays
<1> QED
  BY <1>1, EthInvariant, PTL
=============================================================================
